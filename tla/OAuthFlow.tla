------------------------------ MODULE OAuthFlow ------------------------------
(***************************************************************************)
(* The login of the hosted server (src/src/oauth.ts): dynamic              *)
(* registration, the authorization request, the callback from              *)
(* agents-service and the redemption of the code.                          *)
(*                                                                         *)
(* Nothing is kept between two requests: a client id, the state of a login *)
(* and an authorization code are envelopes that carry their contents, so a *)
(* request may be served by any instance, repeated, or come late.          *)
(* agents-service is external: it hands out one-time codes and redeems     *)
(* them.                                                                   *)
(***************************************************************************)
EXTENDS Naturals, FiniteSets

CONSTANTS
  Installs,   \* MCP clients, each with a PKCE verifier of its own
  Redirects,  \* redirect URIs
  Usable,     \* those that are https, or http on loopback, without fragment
  MaxUris,    \* MAX_REDIRECT_URIS
  LoginTtl,   \* LOGIN_STATE_TTL_MS
  CodeTtl,    \* AUTH_CODE_TTL_MS
  Posts,      \* token requests in progress at one time
  Faults,     \* what may go wrong at the exchange endpoint
  MaxNow,     \* bound on the clock
  MaxLogins,  \* bound on logins that are begun
  MaxOnce,    \* bound on one-time codes
  MaxKeys     \* bound on signing secrets

ASSUME TtlAssumption == LoginTtl \in Nat \ {0} /\ CodeTtl \in Nat \ {0}
ASSUME UsableAssumption == Usable \subseteq Redirects
ASSUME FaultsAssumption == Faults \subseteq {"unreachable", "lost", "throttled", "not a credential"}
ASSUME BoundsAssumption == MaxNow \in Nat /\ MaxLogins \in Nat /\ MaxOnce \in Nat /\ MaxKeys \in Nat \ {0}

VARIABLES
  now,       \* the clock
  key,       \* the signing secret of the deployment
  id,        \* the client id each install holds
  started,   \* login envelopes that were issued, in browsers
  upstream,  \* agents-service: what became of its one-time codes
  codes,     \* authorization codes that reached a redirect URI
  post,      \* token requests
  granted    \* history: tokens handed out

oauthVars == <<now, key, id, started, upstream, codes, post, granted>>

-----------------------------------------------------------------------------
(* Envelopes: a kind, an expiry (0: none), the secret they are signed with.  *)

None == "none"

ClientId == [kind : {"client"}, expires : {0}, key : 1..MaxKeys, uris : SUBSET Redirects, at : 0..MaxNow]
NoId     == [kind |-> None, expires |-> 0, key |-> 0, uris |-> {}, at |-> 0]

Login ==
  [kind : {"login"}, expires : Nat, key : 1..MaxKeys,
   client : ClientId, redirect : Redirects, challenge : Installs]

Code ==
  [kind : {"code"}, expires : Nat, key : 1..MaxKeys,
   client : ClientId, redirect : Redirects, challenge : Installs, upstream : 1..MaxOnce]

(* Mutant: registrations age like everything else. *)
OpensAged(e, kind) == e.kind = kind /\ e.key = key /\ e.expires >= now

(* open: signature, kind and expiry; what expires now is still accepted.     *)
Opens(e, kind) ==
  /\ e.kind = kind /\ e.key = key
  /\ e.expires # 0 => e.expires >= now

NoPost == [pc |-> "idle", by |-> None, id |-> NoId, code |-> [kind |-> None], at |-> 0, answer |-> None]

OAuthTypeOK ==
  /\ now \in 0..MaxNow /\ key \in 1..MaxKeys
  /\ id \in [Installs -> ClientId \cup {NoId}]
  /\ started \subseteq Login
  /\ upstream \in [1..MaxOnce -> {"unissued", "issued", "redeemed"}]
  /\ codes \subseteq Code
  /\ \A h \in Posts :
       post[h] = NoPost \/ (/\ post[h].pc \in {"asked", "answered"}
                            /\ post[h].by \in Installs /\ post[h].id \in ClientId
                            /\ post[h].code \in codes /\ post[h].at \in 0..MaxNow)
  /\ \A g \in granted : g.by \in Installs /\ g.id \in ClientId /\ g.code \in codes /\ g.at \in 0..MaxNow

OAuthInit ==
  /\ now = 0 /\ key = 1
  /\ id = [i \in Installs |-> NoId]
  /\ started = {}
  /\ upstream = [n \in 1..MaxOnce |-> "unissued"]
  /\ codes = {}
  /\ post = [h \in Posts |-> NoPost]
  /\ granted = {}

-----------------------------------------------------------------------------
(* StatelessClientsStore.                                                    *)

(* registerClient: the id is the registration, so two installs that register *)
(* the same URIs in the same second hold the same id.                        *)
Register(i, uris) ==
  /\ uris # {} /\ Cardinality(uris) <= MaxUris
  /\ uris \subseteq Usable
  /\ id' = [id EXCEPT ![i] = [kind |-> "client", expires |-> 0, key |-> key, uris |-> uris, at |-> now]]
  /\ UNCHANGED <<now, key, started, upstream, codes, post, granted>>

(* getClient: the SDK answers invalid_client when it returns nothing.        *)
KnownClient(i) == Opens(id[i], "client")

-----------------------------------------------------------------------------
(* SwfteOAuthProvider.                                                       *)

(* authorize, behind the SDK's check of the redirect URI.                    *)
Authorize(i, r) ==
  /\ KnownClient(i) /\ r \in id[i].uris
  /\ Cardinality(started) < MaxLogins
  /\ started' = started \cup
       {[kind |-> "login", expires |-> now + LoginTtl, key |-> key,
         client |-> id[i], redirect |-> r, challenge |-> i]}
  /\ UNCHANGED <<now, key, id, upstream, codes, post, granted>>

(* agents-service: the user picks a workspace. A login may be finished more  *)
(* than once, from its page in the browser's history.                        *)
UserFinishes(n) ==
  /\ started # {} /\ upstream[n] = "unissued"
  /\ \A m \in 1..(n - 1) : upstream[m] # "unissued"
  /\ upstream' = [upstream EXCEPT ![n] = "issued"]
  /\ UNCHANGED <<now, key, id, started, codes, post, granted>>

(* Mutant: a callback that comes too late is honoured. *)
CallbackOpensLate(l) == l.kind = "login" /\ l.key = key

CallbackOpens(l) == Opens(l, "login")

(* handleCallback with the state of a login and a one-time code, which are   *)
(* two parameters of the request: that they belong together is left to       *)
(* agents-service, which sends the browser here with both. A browser that    *)
(* reloads the callback gets another code for the same one-time code.        *)
(* Without a code, or with an error, the browser is sent back with an error  *)
(* and nothing is issued.                                                    *)
Callback(l, n) ==
  /\ upstream[n] # "unissued" /\ CallbackOpens(l)
  /\ codes' = codes \cup
       {[kind |-> "code", expires |-> now + CodeTtl, key |-> key, client |-> l.client,
         redirect |-> l.redirect, challenge |-> l.challenge, upstream |-> n]}
  /\ UNCHANGED <<now, key, id, started, upstream, post, granted>>

(* Mutant: any registered client may redeem a code. *)
OpenCodeForAny(c, client) == Opens(c, "code")

(* openCode *)
OpenCode(c, client) == Opens(c, "code") /\ c.client = client

(* The SDK's token handler up to exchangeAuthorizationCode, and that up to   *)
(* its call: the client, the code, PKCE, the redirect URI if it is given.    *)
AskToken(h, i, c, r) ==
  /\ post[h].pc = "idle"
  /\ KnownClient(i) /\ c \in codes /\ c.redirect \in id[i].uris
  /\ OpenCode(c, id[i])
  /\ c.challenge = i
  /\ r \in {None, c.redirect}
  /\ post' = [post EXCEPT ![h] = [NoPost EXCEPT !.pc = "asked", !.by = i, !.id = id[i], !.code = c, !.at = now]]
  /\ UNCHANGED <<now, key, id, started, upstream, codes, granted>>

(* postExchange: what agents-service did and what is read of its answer are  *)
(* two things; a request to it may hang for ever.                            *)
Redeemed(h) ==
  LET n == post[h].code.upstream
  IN  /\ post[h].pc = "asked" /\ upstream[n] = "issued"
      /\ upstream' = [upstream EXCEPT ![n] = "redeemed"]
      /\ \E a \in {"token"} \cup (Faults \cap {"lost", "not a credential"}) :
           post' = [post EXCEPT ![h].pc = "answered", ![h].answer = a]
      /\ UNCHANGED <<now, key, id, started, codes, granted>>

NotRedeemed(h) ==
  LET n == post[h].code.upstream
  IN  /\ post[h].pc = "asked"
      /\ \E a \in (Faults \cap {"unreachable", "throttled"}) \cup
                  (IF upstream[n] = "redeemed" THEN {"rejected"} ELSE {}) :
           post' = [post EXCEPT ![h].pc = "answered", ![h].answer = a]
      /\ UNCHANGED <<now, key, id, started, upstream, codes, granted>>

(* exchangeAuthorizationCode after the call: a token, or an error, which is  *)
(* invalid_grant for every status between 400 and 499.                       *)
TokenAnswered(h) ==
  LET p == post[h]
  IN  /\ p.pc = "answered"
      /\ post' = [post EXCEPT ![h] = NoPost]
      /\ granted' = granted \cup
           (IF p.answer = "token" THEN {[by |-> p.by, id |-> p.id, code |-> p.code, at |-> p.at]} ELSE {})
      /\ UNCHANGED <<now, key, id, started, upstream, codes>>

Tick == now < MaxNow /\ now' = now + 1 /\ UNCHANGED <<key, id, started, upstream, codes, post, granted>>

(* A deployment with another signing secret.                                 *)
Rotate == key < MaxKeys /\ key' = key + 1 /\ UNCHANGED <<now, id, started, upstream, codes, post, granted>>

-----------------------------------------------------------------------------
(* Properties.                                                               *)

(* A token goes to an install that began a login under the client id it now  *)
(* presents, by way of the redirect URI of that login, and is asked for no   *)
(* later than both lifetimes after the login began, however often the        *)
(* callback is reloaded, and whichever one-time code came with its state:    *)
(* whose account the token is for is agents-service's to say.                *)
(* handleCallback, openCode, LOGIN_STATE_TTL_MS, AUTH_CODE_TTL_MS.           *)
GrantIsTheirs ==
  \A g \in granted : \E l \in started :
    /\ l.client = g.id /\ l.challenge = g.by /\ l.redirect = g.code.redirect
    /\ g.at <= g.code.expires /\ g.code.expires <= l.expires + CodeTtl

(* registerClient, "registrations do not expire": an id is honoured for as   *)
(* long as the deployment has the secret it was signed with.                 *)
RegistrationsLast ==
  \A i \in Installs : id[i] # NoId /\ id[i].key = key => KnownClient(i)

(* What the login promises: a token to whom it was begun for, in time, and   *)
(* never a stranded install.                                                 *)
LoginInv == OAuthTypeOK /\ GrantIsTheirs /\ RegistrationsLast
=============================================================================
