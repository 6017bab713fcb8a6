-------------------------- MODULE TokenVerification --------------------------
(***************************************************************************)
(* Bearer-token verification and revocation in the hosted server           *)
(* (src/src/oauth.ts, class SwfteOAuthProvider).                           *)
(*                                                                         *)
(* Every instance of the server keeps a small insertion-ordered map of     *)
(* verified tokens.  Handlers run concurrently on an instance and give up  *)
(* control at each await: verifyAccessToken asks agents-service who the    *)
(* token is and caches the answer for TTL, revokeToken lists the owner's   *)
(* tokens, deletes the row that shows the presented token's prefix and     *)
(* drops the cached verification.  agents-service is the only authority    *)
(* on whether a token is live; a token may also die there by itself        *)
(* (dashboard, expiry).                                                    *)
(***************************************************************************)
EXTENDS Naturals, SequencesExt

CONSTANTS
  Tokens,      \* personal access tokens of one user
  Instances,   \* processes of the hosted server, each with its own cache
  Handlers,    \* requests that can be in progress at the same time
  PrefixOf,    \* [Tokens -> ...]: the 12-character display prefix of a token
  Capacity,    \* VERIFICATION_CACHE_MAX
  TTL,         \* VERIFICATION_TTL_MS, in ticks
  Flight,      \* the client's request timeout: a later answer is aborted
  Second,      \* ticks in a second: expiresAt is in whole seconds
  MaxTime      \* bound of the model's clock

ASSUME CapacityAssumption == Capacity \in Nat \ {0}
ASSUME ClockAssumption ==
  TTL \in Nat /\ Flight \in Nat /\ Second \in Nat \ {0} /\ MaxTime \in Nat

VARIABLES
  now,         \* the clock
  live,        \* agents-service: the tokens it still honours
  diedAt,      \* when a token that is not live stopped being so
  cache,       \* per instance: `verified`, a Map in insertion order
  req,         \* per handler: the request it is serving
  revoked      \* history: how revokeToken's success left a token per instance

vars == <<now, live, diedAt, cache, req, revoked>>

Entry == [key : Tokens, until : Nat, expiresAt : Nat]

Idle == [pc |-> "idle"]

Request ==
  [pc      : {"asking", "answered", "backoff",       \* verifyAccessToken
              "listing", "deleting", "deleted"},     \* revokeToken
   inst    : Instances,
   tok     : Tokens,
   row     : Tokens,      \* the row revokeToken decided to delete
   since   : Nat,         \* when the current attempt was sent
   attempt : {0, 1},       \* retries: 1
   answer  : {"none", "live", "dead"}]  \* what agents-service said of it

TypeOK ==
  /\ now \in Nat
  /\ live \in SUBSET Tokens
  /\ diedAt \in [Tokens -> Nat]
  /\ cache \in [Instances -> Seq(Entry)]
  /\ req \in [Handlers -> Request \cup {Idle}]
  /\ revoked \in [Instances -> [Tokens -> {"no", "clean", "raced"}]]

-----------------------------------------------------------------------------
(* The Map: position of a key, set (which keeps the position of a key that   *)
(* is there), delete, and the eviction of the oldest entry before a set.     *)

Holds(c, t) == \E p \in DOMAIN c : c[p].key = t

At(c, t) == CHOOSE p \in DOMAIN c : c[p].key = t

Put(c, e) ==
  IF Holds(c, e.key) THEN [c EXCEPT ![At(c, e.key)] = e] ELSE Append(c, e)

(* Mutant: evicts only once the bound has been passed. *)
MakeRoomLate(c) == IF Len(c) > Capacity THEN Tail(c) ELSE c

MakeRoom(c) == IF Len(c) >= Capacity THEN Tail(c) ELSE c

(* Mutant: the entry is blanked instead of deleted. *)
DropToBlank(c, t) == IF Holds(c, t) THEN [c EXCEPT ![At(c, t)] = Idle] ELSE c

Drop(c, t) == IF Holds(c, t) THEN RemoveAt(c, At(c, t)) ELSE c

(* Mutant: whole seconds, rounded down. *)
ExpiresAtFloor(until) == until \div Second

(* expiresAt: whole seconds, rounded up. *)
ExpiresAt(until) == (until + Second - 1) \div Second

(* The SDK's bearer middleware refuses an identity whose expiresAt is past.  *)
BearerAccepts(e) == e.expiresAt * Second >= now

-----------------------------------------------------------------------------
Init ==
  /\ now = 0
  /\ live = Tokens
  /\ diedAt = [t \in Tokens |-> 0]
  /\ cache = [i \in Instances |-> << >>]
  /\ req = [h \in Handlers |-> Idle]
  /\ revoked = [i \in Instances |-> [t \in Tokens |-> "no"]]

(* Mutant: an entry is served whatever its age. *)
HitForever(i, t) == Holds(cache[i], t)

(* A cached verification that is still valid: it is served without a call,   *)
(* and a request it serves changes nothing.                                  *)
Hit(i, t) == Holds(cache[i], t) /\ cache[i][At(cache[i], t)].until > now

VerifyHit(h, i, t) ==
  /\ req[h].pc = "idle"
  /\ Hit(i, t)
  /\ UNCHANGED vars

VerifyMiss(h, i, t) ==
  /\ req[h].pc = "idle"
  /\ ~Hit(i, t)
  /\ req' = [req EXCEPT ![h] = [pc |-> "asking", inst |-> i, tok |-> t, row |-> t,
                                since |-> now, attempt |-> 0, answer |-> "none"]]
  /\ UNCHANGED <<now, live, diedAt, cache, revoked>>

(* agents-service answers the identity call; the answer is on its way.       *)
IdentityAnswered(h) ==
  /\ req[h].pc = "asking"
  /\ req' = [req EXCEPT ![h] = [@ EXCEPT !.pc = "answered",
                                          !.answer = IF req[h].tok \in live THEN "live" ELSE "dead"]]
  /\ UNCHANGED <<now, live, diedAt, cache, revoked>>

(* A 5xx, a network failure or the abort timer: client.request retries a GET *)
(* once here, then verifyAccessToken reports a ServerError. A status that is *)
(* not worth a retry is reported at once.                                    *)
IdentityFailed(h) ==
  /\ req[h].pc \in {"asking", "answered"}
  /\ \/ /\ req[h].attempt = 0
        /\ req' = [req EXCEPT ![h] = [@ EXCEPT !.pc = "backoff", !.since = 0, !.answer = "none"]]
     \/ req' = [req EXCEPT ![h] = Idle]
  /\ UNCHANGED <<now, live, diedAt, cache, revoked>>

(* Mutant: the retry does not count as an attempt. *)
IdentityRetriedForever(h) ==
  /\ req[h].pc = "backoff"
  /\ req' = [req EXCEPT ![h] = [@ EXCEPT !.pc = "asking", !.since = now]]
  /\ UNCHANGED <<now, live, diedAt, cache, revoked>>

IdentityRetried(h) ==
  /\ req[h].pc = "backoff"
  /\ req' = [req EXCEPT ![h] = [@ EXCEPT !.pc = "asking", !.attempt = 1, !.since = now]]
  /\ UNCHANGED <<now, live, diedAt, cache, revoked>>

Verified(t) ==
  [key |-> t, until |-> now + TTL, expiresAt |-> ExpiresAt(now + TTL)]

(* The answer arrives: a 401/403 is an InvalidTokenError, an identity is     *)
(* cached until TTL from now, in the place of the oldest entry when full.    *)
VerifyDone(h) ==
  LET i == req[h].inst
      t == req[h].tok
  IN  /\ req[h].pc = "answered"
      /\ req' = [req EXCEPT ![h] = Idle]
      /\ \/ /\ req[h].answer = "live"
            /\ cache' = [cache EXCEPT ![i] = Put(MakeRoom(@), Verified(t))]
         \/ /\ req[h].answer = "dead"
            /\ UNCHANGED cache
      /\ UNCHANGED <<now, live, diedAt, revoked>>

-----------------------------------------------------------------------------
Die(t) ==
  /\ live' = live \ {t}
  /\ diedAt' = [diedAt EXCEPT ![t] = now]

RevokeStart(h, i, t) ==
  /\ req[h].pc = "idle"
  /\ req' = [req EXCEPT ![h] = [pc |-> "listing", inst |-> i, tok |-> t, row |-> t,
                                since |-> 0, attempt |-> 0, answer |-> "none"]]
  /\ UNCHANGED <<now, live, diedAt, cache, revoked>>

(* Rows of the list, which the token itself authenticates, that show the     *)
(* presented token's prefix.                                                 *)
Matches(t) == {u \in live : PrefixOf[u] = PrefixOf[t]}

(* Mutant: takes the first row with the prefix, however many there are. *)
RevokeListedGuess(h) ==
  LET t == req[h].tok
  IN  /\ req[h].pc = "listing"
      /\ t \in live
      /\ \E u \in Matches(t) :
            req' = [req EXCEPT ![h] = [@ EXCEPT !.pc = "deleting", !.row = u]]
      /\ UNCHANGED <<now, live, diedAt, cache, revoked>>

(* The list is answered.  Anything but exactly one match is refused.         *)
RevokeListed(h) ==
  LET t == req[h].tok
  IN  /\ req[h].pc = "listing"
      /\ t \in live
      /\ \/ \E u \in Matches(t) :
              /\ Matches(t) = {u}
              /\ req' = [req EXCEPT ![h] = [@ EXCEPT !.pc = "deleting", !.row = u]]
         \/ /\ \A u \in Matches(t) : Matches(t) # {u}
            /\ req' = [req EXCEPT ![h] = Idle]
      /\ UNCHANGED <<now, live, diedAt, cache, revoked>>

(* DELETE takes effect at agents-service; its answer is on its way.          *)
RevokeDeleted(h) ==
  /\ req[h].pc = "deleting"
  /\ req[h].tok \in live
  /\ req[h].row \in live
  /\ Die(req[h].row)
  /\ req' = [req EXCEPT ![h] = [@ EXCEPT !.pc = "deleted"]]
  /\ UNCHANGED <<now, cache, revoked>>

(* The request or its answer is lost: client.request sends DELETE once more. *)
RevokeRetried(h) ==
  /\ req[h].pc \in {"deleting", "deleted"}
  /\ req[h].attempt = 0
  /\ req' = [req EXCEPT ![h] = [@ EXCEPT !.pc = "deleting", !.attempt = 1]]
  /\ UNCHANGED <<now, live, diedAt, cache, revoked>>

(* The caller hears an error: the list or the last DELETE failed, or         *)
(* agents-service refused the call because the token is already dead.        *)
RevokeFailed(h) ==
  /\ \/ req[h].pc = "listing"
     \/ req[h].pc = "deleting" /\ req[h].tok \notin live
     \/ req[h].pc \in {"deleting", "deleted"} /\ req[h].attempt = 1
  /\ req' = [req EXCEPT ![h] = Idle]
  /\ UNCHANGED <<now, live, diedAt, cache, revoked>>

(* A positive answer about t that instance i has not processed yet.          *)
AnswerInFlight(i, t) ==
  \E g \in Handlers : /\ req[g].pc = "answered" /\ req[g].answer = "live"
                      /\ req[g].inst = i /\ req[g].tok = t

(* Mutant: the cached verification survives the revocation. *)
RevokeDoneKeepsCache(h) ==
  LET i == req[h].inst
      t == req[h].tok
  IN  /\ req[h].pc = "deleted"
      /\ revoked' = [revoked EXCEPT ![i][t] =
                       IF AnswerInFlight(i, t) THEN "raced" ELSE "clean"]
      /\ req' = [req EXCEPT ![h] = Idle]
      /\ UNCHANGED <<now, live, diedAt, cache>>

(* DELETE was answered: drop the cached verification and report success.     *)
RevokeDone(h) ==
  LET i == req[h].inst
      t == req[h].tok
  IN  /\ req[h].pc = "deleted"
      /\ cache' = [cache EXCEPT ![i] = Drop(cache[i], t)]
      /\ revoked' = [revoked EXCEPT ![i][t] =
                       IF AnswerInFlight(i, t) THEN "raced" ELSE "clean"]
      /\ req' = [req EXCEPT ![h] = Idle]
      /\ UNCHANGED <<now, live, diedAt>>

-----------------------------------------------------------------------------
(* Revoked from the dashboard, or expired. *)
TokenDies(t) ==
  /\ t \in live
  /\ Die(t)
  /\ UNCHANGED <<now, cache, req, revoked>>

(* Time passes, but not beyond the abort timer of an attempt in progress.    *)
Tick ==
  /\ now < MaxTime
  /\ \A h \in Handlers : req[h].pc \in {"asking", "answered"} => now < req[h].since + Flight
  /\ now' = now + 1
  /\ UNCHANGED <<live, diedAt, cache, req, revoked>>

Answer(h) ==
  \/ IdentityAnswered(h) \/ IdentityFailed(h) \/ IdentityRetried(h) \/ VerifyDone(h)
  \/ RevokeListed(h) \/ RevokeDeleted(h) \/ RevokeRetried(h) \/ RevokeFailed(h)
  \/ RevokeDone(h)

Next ==
  \/ \E h \in Handlers : Answer(h)
  \/ \E h \in Handlers, i \in Instances, t \in Tokens :
        VerifyHit(h, i, t) \/ VerifyMiss(h, i, t) \/ RevokeStart(h, i, t)
  \/ \E t \in Tokens : TokenDies(t)
  \/ Tick

Spec == Init /\ [][Next]_vars

(* Every request in progress is answered or times out; arrivals, the death   *)
(* of tokens and the clock are under no obligation.                          *)
FairSpec == Spec /\ \A h \in Handlers : WF_vars(Answer(h))

-----------------------------------------------------------------------------
(* `verified` never grows past its bound, whatever verifications interleave  *)
(* between the size test and the set (oauth.ts:671-675).                     *)
CacheBounded == \A i \in Instances : Len(cache[i]) <= Capacity

(* What instance i would accept t on now: a valid entry, or a positive       *)
(* answer it is about to process.                                            *)
WouldServe(i, t) == Hit(i, t) \/ AnswerInFlight(i, t)

(* A token agents-service has stopped honouring is accepted for at most TTL  *)
(* plus the flight time of one answer: no chain of hits, refreshes and late  *)
(* answers extends the window (oauth.ts:616, 646).                           *)
StalenessBounded ==
  \A i \in Instances, t \in Tokens :
    WouldServe(i, t) => t \in live \/ now <= diedAt[t] + Flight + TTL

(* What makes StalenessBounded inductive: an entry outlives the last positive *)
(* answer by at most TTL, and an answer is processed within Flight of the    *)
(* moment it was asked for.                                                  *)
EntryFresh(e) ==
  /\ e.until <= now + TTL
  /\ e.key \in live \/ e.until <= diedAt[e.key] + Flight + TTL

RequestFresh(r) ==
  /\ r.pc \in {"asking", "answered"} => r.since <= now /\ now <= r.since + Flight
  /\ r.pc = "answered" /\ r.answer = "live" => r.tok \in live \/ r.since <= diedAt[r.tok]

Freshness ==
  /\ \A i \in Instances : \A p \in DOMAIN cache[i] : EntryFresh(cache[i][p])
  /\ \A h \in Handlers : RequestFresh(req[h])

(* An identity that is still served is never one the bearer middleware then  *)
(* rejects as expired: expiresAt is rounded up, so the cache window ends     *)
(* first (oauth.ts:662).                                                     *)
ServedIsAccepted ==
  \A i \in Instances, t \in Tokens :
    Hit(i, t) => BearerAccepts(cache[i][At(cache[i], t)])

(* When revokeToken reports success the token is dead at agents-service, and *)
(* if no positive answer about it was in flight, the instance never caches   *)
(* or serves it again (oauth.ts:728-736).                                    *)
RevocationHolds ==
  \A i \in Instances, t \in Tokens :
    /\ revoked[i][t] # "no" => t \notin live
    /\ revoked[i][t] = "clean" => ~Holds(cache[i], t) /\ ~AnswerInFlight(i, t)

(* Revocation by prefix never kills a token other than the presented one     *)
(* (oauth.ts:718-726).                                                       *)
OnlyPresentedDies ==
  [][\A h \in Handlers : RevokeDeleted(h) => live \ live' \subseteq {req[h].tok}]_vars

(* Every verification and every revocation comes to an end: retries are      *)
(* bounded (client.ts:173-190).                                              *)
RequestsEnd == \A h \in Handlers : req[h].pc # "idle" ~> req[h].pc = "idle"

(* The claim of the comment on the delete at oauth.ts:734-735: after the     *)
(* user was told the token is revoked, this instance no longer accepts it.   *)
RevokedIsDropped ==
  \A i \in Instances, t \in Tokens : revoked[i][t] # "no" => ~Holds(cache[i], t)

=============================================================================
