------------------------- MODULE HostedServerProofs -------------------------
(***************************************************************************)
(* Theorems about the login of the hosted server and about its endpoint,   *)
(* for every set of installs, redirect URIs, token requests and MCP        *)
(* requests, every lifetime, and every number of logins, signing secrets   *)
(* and ticks.                                                              *)
(***************************************************************************)
EXTENDS HostedServer, TLAPS

(* What a token request and a token may be.                                  *)

Outcomes == {None, "token", "unreachable", "lost", "throttled", "not a credential", "rejected"}

TokenPost ==
  [pc : {"asked", "answered"}, by : Installs, id : ClientId, code : codes, at : 0..MaxNow, answer : Outcomes]

Grant == [by : Installs, id : ClientId, code : codes, at : 0..MaxNow]

ShapeInv ==
  /\ now \in 0..MaxNow /\ key \in 1..MaxKeys
  /\ id \in [Installs -> ClientId \cup {NoId}]
  /\ started \subseteq Login
  /\ upstream \in [1..MaxOnce -> {"unissued", "issued", "redeemed"}]
  /\ codes \subseteq Code
  /\ post \in [Posts -> TokenPost \cup {NoPost}]
  /\ granted \subseteq Grant

(* Every envelope of a login carries an expiry.                              *)
LoginsExpire == \A l \in started : l.expires # 0

(* An authorization code repeats a login that was begun, and expires no      *)
(* later than CodeTtl after it; its one-time code may be any other's.        *)
Repeats(c, l) ==
  /\ c.client = l.client /\ c.challenge = l.challenge /\ c.redirect = l.redirect
  /\ c.expires <= l.expires + CodeTtl

CodesRepeat == \A c \in codes : c.expires # 0 /\ \E l \in started : Repeats(c, l)

(* What is asked with a code, and the token handed out for it, are the       *)
(* business of the install the code was challenged for, before it expires.   *)
Fits(q) == q.id = q.code.client /\ q.by = q.code.challenge /\ q.at <= q.code.expires

PostsFit == \A h \in Posts : post[h].pc # "idle" => Fits(post[h])

GrantsFit == \A g \in granted : Fits(g)

OAuthInv == ShapeInv /\ LoginsExpire /\ CodesRepeat /\ PostsFit /\ GrantsFit

-----------------------------------------------------------------------------
(* The inductive invariant says what the login promises.                     *)

LEMMA InvImpliesLoginInv == OAuthInv => LoginInv
<1> SUFFICES ASSUME OAuthInv PROVE LoginInv
  OBVIOUS
<1>1. OAuthTypeOK
  <2>2. \A h \in Posts :
          post[h] = NoPost \/ (/\ post[h].pc \in {"asked", "answered"}
                               /\ post[h].by \in Installs /\ post[h].id \in ClientId
                               /\ post[h].code \in codes /\ post[h].at \in 0..MaxNow)
    <3> TAKE h \in Posts
    <3>1. post[h] \in TokenPost \cup {NoPost}
      BY DEF OAuthInv, ShapeInv
    <3> QED BY <3>1 DEF TokenPost
  <2>3. \A g \in granted : g.by \in Installs /\ g.id \in ClientId /\ g.code \in codes /\ g.at \in 0..MaxNow
    BY DEF OAuthInv, ShapeInv, Grant
  <2> QED BY <2>2, <2>3 DEF OAuthTypeOK, OAuthInv, ShapeInv
<1>2. ASSUME NEW g \in granted
      PROVE  \E l \in started :
               /\ l.client = g.id /\ l.challenge = g.by /\ l.redirect = g.code.redirect
               /\ g.at <= g.code.expires /\ g.code.expires <= l.expires + CodeTtl
  <2>1. g.code \in codes /\ Fits(g)
    BY DEF OAuthInv, ShapeInv, Grant, GrantsFit
  <2>2. PICK l \in started : Repeats(g.code, l)
    BY <2>1 DEF OAuthInv, CodesRepeat
  <2> QED BY <2>1, <2>2 DEF Fits, Repeats
<1>3. RegistrationsLast
  BY DEF OAuthInv, ShapeInv, ClientId, RegistrationsLast, KnownClient, Opens
<1> QED BY <1>1, <1>2, <1>3 DEF LoginInv, GrantIsTheirs

-----------------------------------------------------------------------------
(* It holds at first, and each step of the login keeps it.                   *)

LEMMA LoginStarts == OAuthInit => OAuthInv
<1> SUFFICES ASSUME OAuthInit PROVE OAuthInv
  OBVIOUS
<1>1. ShapeInv
  BY BoundsAssumption DEF OAuthInit, ShapeInv
<1>2. LoginsExpire /\ CodesRepeat /\ PostsFit /\ GrantsFit
  BY DEF OAuthInit, LoginsExpire, CodesRepeat, PostsFit, GrantsFit, NoPost
<1> QED BY <1>1, <1>2 DEF OAuthInv

LEMMA LoginStays ==
  ASSUME OAuthInv, UNCHANGED oauthVars
  PROVE  OAuthInv'
BY DEF OAuthInv, ShapeInv, LoginsExpire, CodesRepeat, Repeats, PostsFit, GrantsFit, Fits, oauthVars,
       TokenPost, Grant

LEMMA RegisterKeeps ==
  ASSUME OAuthInv, NEW i \in Installs, NEW uris \in SUBSET Redirects, Register(i, uris)
  PROVE  OAuthInv'
<1>1. /\ id' = [id EXCEPT ![i] = [kind |-> "client", expires |-> 0, key |-> key, uris |-> uris, at |-> now]]
      /\ UNCHANGED <<now, key, started, upstream, codes, post, granted>>
  BY DEF Register
<1>2. [kind |-> "client", expires |-> 0, key |-> key, uris |-> uris, at |-> now] \in ClientId
  BY DEF OAuthInv, ShapeInv, ClientId
<1>3. ShapeInv'
  BY <1>1, <1>2 DEF OAuthInv, ShapeInv, TokenPost, Grant
<1> QED BY <1>1, <1>3 DEF OAuthInv, LoginsExpire, CodesRepeat, Repeats, PostsFit, GrantsFit, Fits

LEMMA AuthorizeKeeps ==
  ASSUME OAuthInv, NEW i \in Installs, NEW r \in Redirects, Authorize(i, r)
  PROVE  OAuthInv'
<1> DEFINE l == [kind |-> "login", expires |-> now + LoginTtl, key |-> key,
                 client |-> id[i], redirect |-> r, challenge |-> i]
<1>1. /\ started' = started \cup {l}
      /\ UNCHANGED <<now, key, id, upstream, codes, post, granted>>
  BY DEF Authorize
<1>2. id[i] \in ClientId
  BY DEF OAuthInv, ShapeInv, Authorize, KnownClient, Opens, NoId, None
<1>3. l \in Login /\ l.expires # 0
  BY <1>2, TtlAssumption DEF OAuthInv, ShapeInv, Login
<1> HIDE DEF l
<1>5. ShapeInv'
  BY <1>1, <1>3 DEF OAuthInv, ShapeInv, TokenPost, Grant
<1>6. LoginsExpire'
  BY <1>1, <1>3 DEF OAuthInv, LoginsExpire
<1> QED BY <1>1, <1>5, <1>6 DEF OAuthInv, CodesRepeat, Repeats, PostsFit, GrantsFit, Fits

LEMMA UserFinishesKeeps ==
  ASSUME OAuthInv, NEW n \in 1..MaxOnce, UserFinishes(n)
  PROVE  OAuthInv'
<1>1. /\ upstream' = [upstream EXCEPT ![n] = "issued"]
      /\ UNCHANGED <<now, key, id, started, codes, post, granted>>
  BY DEF UserFinishes
<1>2. ShapeInv'
  BY <1>1 DEF OAuthInv, ShapeInv, TokenPost, Grant
<1> QED BY <1>1, <1>2 DEF OAuthInv, LoginsExpire, CodesRepeat, Repeats, PostsFit, GrantsFit, Fits

(* A callback opens its login while that has not expired, so that the code   *)
(* it issues expires within both lifetimes.                                  *)
LEMMA CallbackKeeps ==
  ASSUME OAuthInv, NEW l \in started, NEW n \in 1..MaxOnce, Callback(l, n)
  PROVE  OAuthInv'
<1> DEFINE c == [kind |-> "code", expires |-> now + CodeTtl, key |-> key, client |-> l.client,
                 redirect |-> l.redirect, challenge |-> l.challenge, upstream |-> n]
<1>1. /\ codes' = codes \cup {c} /\ CallbackOpens(l)
      /\ UNCHANGED <<now, key, id, started, upstream, post, granted>>
  BY DEF Callback
<1>2. l \in Login /\ l.expires # 0
  BY DEF OAuthInv, ShapeInv, LoginsExpire
<1>3. l.expires >= now
  BY <1>1, <1>2 DEF CallbackOpens, Opens
<1>4. c \in Code /\ c.expires # 0 /\ Repeats(c, l)
  BY <1>2, <1>3, TtlAssumption DEF OAuthInv, ShapeInv, Login, Code, Repeats
<1> HIDE DEF c
<1>5. TokenPost \subseteq TokenPost' /\ Grant \subseteq Grant'
  BY <1>1 DEF TokenPost, Grant
<1>6. ShapeInv'
  BY <1>1, <1>4, <1>5 DEF OAuthInv, ShapeInv
<1>7. CodesRepeat'
  BY <1>1, <1>4 DEF OAuthInv, CodesRepeat, Repeats
<1> QED BY <1>1, <1>6, <1>7 DEF OAuthInv, LoginsExpire, PostsFit, GrantsFit, Fits

(* A token request is let through with a code of its own client id, which    *)
(* its own verifier answers, and which has not expired.                      *)
LEMMA AskTokenKeeps ==
  ASSUME OAuthInv, NEW h \in Posts, NEW i \in Installs, NEW c \in codes,
         NEW r \in Redirects \cup {None}, AskToken(h, i, c, r)
  PROVE  OAuthInv'
<1> DEFINE q == [NoPost EXCEPT !.pc = "asked", !.by = i, !.id = id[i], !.code = c, !.at = now]
<1>1. /\ post' = [post EXCEPT ![h] = q]
      /\ OpenCode(c, id[i]) /\ c.challenge = i /\ KnownClient(i)
      /\ UNCHANGED <<now, key, id, started, upstream, codes, granted>>
  BY DEF AskToken
<1>2. id[i] \in ClientId
  BY <1>1 DEF OAuthInv, ShapeInv, KnownClient, Opens, NoId, None
<1>3. c.expires \in Nat /\ c.expires # 0 /\ now \in Nat
  BY DEF OAuthInv, ShapeInv, CodesRepeat, Code
<1>4. q \in TokenPost
  BY <1>2 DEF OAuthInv, ShapeInv, TokenPost, NoPost, Outcomes
<1>5. Fits(q)
  BY <1>1, <1>3 DEF Fits, NoPost, OpenCode, Opens
<1> HIDE DEF q
<1>6. ShapeInv'
  BY <1>1, <1>4 DEF OAuthInv, ShapeInv, TokenPost, Grant
<1>7. PostsFit'
  BY <1>1, <1>5 DEF OAuthInv, ShapeInv, PostsFit, Fits
<1> QED BY <1>1, <1>6, <1>7 DEF OAuthInv, LoginsExpire, CodesRepeat, Repeats, GrantsFit, Fits

(* An answer leaves what was asked alone.                                    *)
LEMMA AnswerKeeps ==
  ASSUME OAuthInv, NEW h \in Posts, post[h].pc # "idle", NEW a \in Outcomes,
         post' = [post EXCEPT ![h].pc = "answered", ![h].answer = a], UNCHANGED codes
  PROVE  post' \in [Posts -> TokenPost' \cup {NoPost}] /\ PostsFit'
<1>1. post[h] \in TokenPost
  BY DEF OAuthInv, ShapeInv, NoPost
<1>2. /\ post'[h].by = post[h].by /\ post'[h].id = post[h].id /\ post'[h].code = post[h].code
      /\ post'[h].at = post[h].at
      /\ post'[h] \in TokenPost
      /\ post' \in [Posts -> TokenPost \cup {NoPost}]
      /\ \A g \in Posts : g # h => post'[g] = post[g]
  BY <1>1 DEF OAuthInv, ShapeInv, TokenPost
<1>3. TokenPost' = TokenPost
  BY DEF TokenPost
<1>4. ASSUME NEW g \in Posts, post'[g].pc # "idle"
      PROVE  Fits(post'[g])
  <2>1. CASE g = h
    BY <1>2, <2>1 DEF OAuthInv, PostsFit, Fits
  <2>2. CASE g # h
    BY <1>2, <1>4, <2>2 DEF OAuthInv, PostsFit
  <2> QED BY <2>1, <2>2
<1> QED BY <1>2, <1>3, <1>4 DEF PostsFit, Fits

LEMMA RedeemedKeeps ==
  ASSUME OAuthInv, NEW h \in Posts, Redeemed(h)
  PROVE  OAuthInv'
<1> DEFINE n == post[h].code.upstream
<1>1. post[h].pc = "asked"
  BY DEF Redeemed
<1>2. /\ upstream' = [upstream EXCEPT ![n] = "redeemed"]
      /\ UNCHANGED <<now, key, id, started, codes, granted>>
  BY DEF Redeemed
<1>3. PICK a \in {"token"} \cup (Faults \cap {"lost", "not a credential"}) :
        post' = [post EXCEPT ![h].pc = "answered", ![h].answer = a]
  BY DEF Redeemed
<1>4. a \in Outcomes
  BY DEF Outcomes
<1>5. post' \in [Posts -> TokenPost' \cup {NoPost}] /\ PostsFit'
  BY <1>1, <1>2, <1>3, <1>4, AnswerKeeps
<1>6. ShapeInv'
  BY <1>2, <1>5 DEF OAuthInv, ShapeInv, Grant
<1> QED BY <1>2, <1>5, <1>6 DEF OAuthInv, LoginsExpire, CodesRepeat, Repeats, GrantsFit, Fits

LEMMA NotRedeemedKeeps ==
  ASSUME OAuthInv, NEW h \in Posts, NotRedeemed(h)
  PROVE  OAuthInv'
<1>1. post[h].pc = "asked" /\ UNCHANGED <<now, key, id, started, upstream, codes, granted>>
  BY DEF NotRedeemed
<1>2. PICK a \in (Faults \cap {"unreachable", "throttled"}) \cup {"rejected"} :
        post' = [post EXCEPT ![h].pc = "answered", ![h].answer = a]
  BY DEF NotRedeemed
<1>3. a \in Outcomes
  BY DEF Outcomes
<1>4. post' \in [Posts -> TokenPost' \cup {NoPost}] /\ PostsFit'
  BY <1>1, <1>2, <1>3, AnswerKeeps
<1>5. ShapeInv'
  BY <1>1, <1>4 DEF OAuthInv, ShapeInv, Grant
<1> QED BY <1>1, <1>4, <1>5 DEF OAuthInv, LoginsExpire, CodesRepeat, Repeats, GrantsFit, Fits

LEMMA TokenAnsweredKeeps ==
  ASSUME OAuthInv, NEW h \in Posts, TokenAnswered(h)
  PROVE  OAuthInv'
<1> DEFINE p == post[h]
           g == [by |-> p.by, id |-> p.id, code |-> p.code, at |-> p.at]
<1>1. /\ p.pc = "answered" /\ post' = [post EXCEPT ![h] = NoPost]
      /\ granted' \subseteq granted \cup {g}
      /\ UNCHANGED <<now, key, id, started, upstream, codes>>
  BY DEF TokenAnswered
<1>2. post' \in [Posts -> TokenPost' \cup {NoPost}] /\ PostsFit'
  BY <1>1 DEF OAuthInv, ShapeInv, TokenPost, PostsFit, Fits, NoPost
<1>3. p \in TokenPost /\ Fits(p)
  BY <1>1 DEF OAuthInv, ShapeInv, PostsFit, NoPost
<1>4. g \in Grant /\ Fits(g)
  BY <1>3 DEF TokenPost, Grant, Fits
<1> HIDE DEF g
<1>5. granted' \subseteq Grant' /\ GrantsFit'
  BY <1>1, <1>4 DEF OAuthInv, ShapeInv, GrantsFit, Grant, Fits
<1>6. ShapeInv'
  BY <1>1, <1>2, <1>5 DEF OAuthInv, ShapeInv
<1> QED BY <1>1, <1>2, <1>5, <1>6 DEF OAuthInv, LoginsExpire, CodesRepeat, Repeats

(* The clock and the signing secret move; no envelope changes with them.     *)
LEMMA TimeKeeps ==
  ASSUME OAuthInv, Tick \/ Rotate
  PROVE  OAuthInv'
<1>1. UNCHANGED <<id, started, upstream, codes, post, granted>>
  BY DEF Tick, Rotate
<1>2. now' \in 0..MaxNow /\ key' \in 1..MaxKeys
  BY BoundsAssumption DEF OAuthInv, ShapeInv, Tick, Rotate
<1>3. ShapeInv'
  BY <1>1, <1>2 DEF OAuthInv, ShapeInv, TokenPost, Grant
<1> QED BY <1>1, <1>3 DEF OAuthInv, LoginsExpire, CodesRepeat, Repeats, PostsFit, GrantsFit, Fits

LEMMA LoginKept ==
  ASSUME OAuthInv, [Next]_vars
  PROVE  OAuthInv'
<1>1. CASE Boot \/ UNCHANGED vars
  BY <1>1, LoginStays DEF Boot, vars
<1>2. CASE Deploy
  BY <1>2, TimeKeeps DEF Deploy
<1>3. ASSUME NEW i \in Installs, NEW uris \in SUBSET Redirects, Register(i, uris)
      PROVE  OAuthInv'
  BY <1>3, RegisterKeeps
<1>4. ASSUME NEW i \in Installs, NEW r \in Redirects, Authorize(i, r)
      PROVE  OAuthInv'
  BY <1>4, AuthorizeKeeps
<1>5. ASSUME NEW l \in started, NEW n \in 1..MaxOnce, Callback(l, n)
      PROVE  OAuthInv'
  BY <1>5, CallbackKeeps
<1>6. ASSUME NEW h \in Posts, NEW i \in Installs, NEW c \in codes, NEW r \in Redirects \cup {None}, AskToken(h, i, c, r)
      PROVE  OAuthInv'
  BY <1>6, AskTokenKeeps
<1>7. ASSUME NEW n \in 1..MaxOnce, UserFinishes(n)
      PROVE  OAuthInv'
  BY <1>7, UserFinishesKeeps
<1>8. ASSUME NEW h \in Posts, Redeemed(h) \/ NotRedeemed(h) \/ TokenAnswered(h)
      PROVE  OAuthInv'
  BY <1>8, RedeemedKeeps, NotRedeemedKeeps, TokenAnsweredKeeps
<1>9. CASE Tick
  BY <1>9, TimeKeeps
<1>10. ASSUME NEW s \in Slots,
              (\E b \in Bearers : Arrive(s, b))
              \/ Gate(s) \/ Connect(s) \/ Handle(s) \/ ToolAnswers(s) \/ BodyEnds(s) \/ BodyCancelled(s)
       PROVE  OAuthInv'
  <2>1. UNCHANGED oauthVars
    BY <1>10 DEF Arrive, Gate, Connect, Handle, ToolAnswers, BodyEnds, BodyCancelled
  <2> QED BY <2>1, LoginStays
<1> QED BY <1>1, <1>2, <1>3, <1>4, <1>5, <1>6, <1>7, <1>8, <1>9, <1>10 DEF Next

(* LoginInv: a token goes to an install that began a login under the client  *)
(* id it presents, by way of that login's redirect URI, and is asked for     *)
(* within both lifetimes of that login, however often a callback is reloaded *)
(* and whichever one-time code came with the login's state; a registration   *)
(* is honoured for as long as its signing secret is (src/src/oauth.ts,       *)
(* authorize, handleCallback, exchangeAuthorizationCode, getClient).         *)
THEOREM LoginIsSound == Spec => []LoginInv
<1>1. Init => OAuthInv
  BY LoginStarts DEF Init
<1>2. OAuthInv /\ [Next]_vars => OAuthInv'
  BY LoginKept
<1> QED BY <1>1, <1>2, InvImpliesLoginInv, PTL DEF Spec

-----------------------------------------------------------------------------
(* The endpoint: one request.                                                *)

(* A request's server works under the token of that request alone, and its   *)
(* transport is open exactly from its connection to its release.             *)
Sound(q) ==
  /\ q \in Request
  /\ q.ran \in {None, q.bearer}
  /\ q.pc \in {"connect", "handle", "body"} => q.auth = q.bearer
  /\ q.transport = "open" <=> q.pc \in {"handle", "body"}
  /\ q.answer # "lost"

SlotsInv ==
  /\ built \in {"unset", "handler", "error"}
  /\ mcp \in [Slots -> Request]
  /\ \A s \in Slots : Sound(mcp[s])

LEMMA InvImpliesEndpointInv == SlotsInv => EndpointInv
BY DEF SlotsInv, Sound, EndpointInv, EndpointTypeOK, WorkIsTheCallers, AnswersAreWhole

(* The values of a request's fields.                                         *)
Stages     == {"gate", "connect", "handle", "body", "released"}
Transports == {"none", "open", "closed"}
Answers    == {"pending", "written", "none"}
Statuses   == {0, 200, 202, 401, 500, 503}

(* A step sets fields of a request.                                          *)
LEMMA RequestFields ==
  ASSUME NEW q \in Request
  PROVE  /\ \A v \in Stages : [q EXCEPT !.pc = v] \in Request
         /\ \A v \in Bearers : [q EXCEPT !.bearer = v] \in Request
         /\ \A v \in Bearers : [q EXCEPT !.auth = v] \in Request
         /\ \A v \in Bearers : [q EXCEPT !.ran = v] \in Request
         /\ \A v \in Transports : [q EXCEPT !.transport = v] \in Request
         /\ \A v \in Answers : [q EXCEPT !.answer = v] \in Request
         /\ \A v \in Statuses : [q EXCEPT !.status = v] \in Request
<1>1. \A v \in Stages : [q EXCEPT !.pc = v] \in Request
  BY DEF Request, Stages
<1>2. \A v \in Bearers : [q EXCEPT !.bearer = v] \in Request
  BY DEF Request, Bearers
<1>3. \A v \in Bearers : [q EXCEPT !.auth = v] \in Request
  BY DEF Request, Bearers
<1>4. \A v \in Bearers : [q EXCEPT !.ran = v] \in Request
  BY DEF Request, Bearers
<1>5. \A v \in Transports : [q EXCEPT !.transport = v] \in Request
  BY DEF Request, Transports
<1>6. \A v \in Answers : [q EXCEPT !.answer = v] \in Request
  BY DEF Request, Answers
<1>7. \A v \in Statuses : [q EXCEPT !.status = v] \in Request
  BY DEF Request, Statuses
<1> QED BY <1>1, <1>2, <1>3, <1>4, <1>5, <1>6, <1>7

LEMMA FieldValues ==
  /\ {"gate", "connect", "handle", "body", "released"} \subseteq Stages
  /\ {"open", "closed"} \subseteq Transports /\ {"written", "none", "pending"} \subseteq Answers
  /\ {401, 500, 503, 202, 200} \subseteq Statuses
BY DEF Stages, Transports, Answers, Statuses

(* Two fields at once.                                                       *)
LEMMA RequestPairs ==
  ASSUME NEW q \in Request
  PROVE  /\ \A v \in Stages :
              \A w \in Statuses : [q EXCEPT !.pc = v, !.status = w] \in Request
         /\ \A v \in Stages :
              \A w \in Bearers : [q EXCEPT !.pc = v, !.auth = w] \in Request
         /\ \A v \in Stages :
              \A w \in Transports : [q EXCEPT !.pc = v, !.transport = w] \in Request
         /\ \A v \in Bearers :
              \A w \in Answers : [q EXCEPT !.ran = v, !.answer = w] \in Request
<1>1. ASSUME NEW v \in Stages, NEW w \in Statuses
      PROVE  [q EXCEPT !.pc = v, !.status = w] \in Request
  <2>1. [q EXCEPT !.pc = v, !.status = w] = [[q EXCEPT !.pc = v] EXCEPT !.status = w]
    OBVIOUS
  <2>2. [q EXCEPT !.pc = v] \in Request
    BY RequestFields, Zenon
  <2> QED BY <2>1, <2>2, RequestFields, Zenon
<1>2. ASSUME NEW v \in Stages, NEW w \in Bearers
      PROVE  [q EXCEPT !.pc = v, !.auth = w] \in Request
  <2>1. [q EXCEPT !.pc = v, !.auth = w] = [[q EXCEPT !.pc = v] EXCEPT !.auth = w]
    OBVIOUS
  <2>2. [q EXCEPT !.pc = v] \in Request
    BY RequestFields, Zenon
  <2> QED BY <2>1, <2>2, RequestFields, Zenon
<1>3. ASSUME NEW v \in Stages, NEW w \in Transports
      PROVE  [q EXCEPT !.pc = v, !.transport = w] \in Request
  <2>1. [q EXCEPT !.pc = v, !.transport = w] = [[q EXCEPT !.pc = v] EXCEPT !.transport = w]
    OBVIOUS
  <2>2. [q EXCEPT !.pc = v] \in Request
    BY RequestFields, Zenon
  <2> QED BY <2>1, <2>2, RequestFields, Zenon
<1>4. ASSUME NEW v \in Bearers, NEW w \in Answers
      PROVE  [q EXCEPT !.ran = v, !.answer = w] \in Request
  <2>1. [q EXCEPT !.ran = v, !.answer = w] = [[q EXCEPT !.ran = v] EXCEPT !.answer = w]
    OBVIOUS
  <2>2. [q EXCEPT !.ran = v] \in Request
    BY RequestFields, Zenon
  <2> QED BY <2>1, <2>2, RequestFields, Zenon
<1> QED BY <1>1, <1>2, <1>3, <1>4

LEMMA ReleaseFields ==
  ASSUME NEW q \in Request
  PROVE  Release(q) \in Request
<1>1. "released" \in Stages /\ "closed" \in Transports
  BY FieldValues
<1> QED BY <1>1, RequestPairs, Zenon DEF Release

(* What Sound asks of a request that a step has made of another one.         *)
LEMMA SoundFields ==
  ASSUME NEW q \in Request,
         q.ran \in {None, q.bearer},
         q.pc \in {"connect", "handle", "body"} => q.auth = q.bearer,
         q.transport = "open" <=> q.pc \in {"handle", "body"},
         q.answer # "lost"
  PROVE  Sound(q)
BY DEF Sound

LEMMA SlotKeeps ==
  ASSUME SlotsInv, NEW s \in Slots, NEW q, Sound(q), Set(s, q), UNCHANGED built
  PROVE  SlotsInv'
BY DEF SlotsInv, Sound, Set

LEMMA SlotsKept ==
  ASSUME SlotsInv, [Next]_vars
  PROVE  SlotsInv'
<1>1. CASE UNCHANGED mcp
  <2>1. built' \in {"unset", "handler", "error"}
    BY DEF SlotsInv, Next, vars, Boot, Deploy, Arrive, Gate, Connect, Handle, ToolAnswers, BodyEnds, BodyCancelled
  <2> QED BY <1>1, <2>1 DEF SlotsInv
<1>2. ASSUME NEW s \in Slots, NEW b \in Bearers, Arrive(s, b)
      PROVE  SlotsInv'
  <2> DEFINE q == [NoRequest EXCEPT !.pc = "gate", !.bearer = b]
             r == [NoRequest EXCEPT !.bearer = b, !.status = 503]
  <2>1. q \in Request /\ r \in Request
    <3>1. NoRequest \in Request
      BY DEF Request, NoRequest
    <3>2. "gate" \in Stages /\ 503 \in Statuses
      BY FieldValues DEF Stages
    <3>3. [NoRequest EXCEPT !.pc = "gate"] \in Request
      BY <3>1, <3>2, RequestFields, Zenon
    <3>4. [NoRequest EXCEPT !.bearer = b] \in Request
      BY <3>1, RequestFields, Zenon
    <3>5. q = [[NoRequest EXCEPT !.pc = "gate"] EXCEPT !.bearer = b]
      OBVIOUS
    <3>6. r = [[NoRequest EXCEPT !.bearer = b] EXCEPT !.status = 503]
      OBVIOUS
    <3>7. [[NoRequest EXCEPT !.pc = "gate"] EXCEPT !.bearer = b] \in Request
      BY <3>3, RequestFields, Zenon
    <3>8. [[NoRequest EXCEPT !.bearer = b] EXCEPT !.status = 503] \in Request
      <4>1. \A c \in Statuses : [[NoRequest EXCEPT !.bearer = b] EXCEPT !.status = c] \in Request
        BY <3>4, RequestFields, Zenon
      <4> QED BY <3>2, <4>1
    <3> QED BY <3>5, <3>6, <3>7, <3>8
  <2>2. /\ q.pc = "gate" /\ q.ran = None /\ q.transport = "none" /\ q.answer = "none"
        /\ r.pc = "released" /\ r.ran = None /\ r.transport = "none" /\ r.answer = "none"
    BY DEF NoRequest
  <2> HIDE DEF q, r
  <2>3. Sound(q) /\ Sound(r)
    BY <2>1, <2>2, SoundFields
  <2>4. (Set(s, q) \/ Set(s, r)) /\ UNCHANGED built
    BY <1>2 DEF Arrive, q, r
  <2> QED BY <2>3, <2>4, SlotKeeps
<1>3. ASSUME NEW s \in Slots, Gate(s)
      PROVE  SlotsInv'
  <2>1. Sound(mcp[s]) /\ mcp[s].pc = "gate" /\ UNCHANGED built
    BY <1>3 DEF SlotsInv, Gate
  <2>2. \A c \in Statuses : [mcp[s] EXCEPT !.pc = "released", !.status = c] \in Request
    <3>1. mcp[s] \in Request /\ "released" \in Stages
      BY <2>1, FieldValues DEF Sound
    <3>2. \A v \in Stages : \A c \in Statuses : [mcp[s] EXCEPT !.pc = v, !.status = c] \in Request
      BY <3>1, RequestPairs, Zenon
    <3> QED BY <3>1, <3>2, Zenon
  <2>3. ASSUME NEW c \in {401, 500}
        PROVE  Sound([mcp[s] EXCEPT !.pc = "released", !.status = c])
    <3> DEFINE q == [mcp[s] EXCEPT !.pc = "released", !.status = c]
    <3>1. q \in Request
      <4>1. c \in Statuses
        BY FieldValues
      <4> QED BY <2>2, <4>1, Zenon
    <3>2. /\ q.pc = "released" /\ q.ran = mcp[s].ran /\ q.bearer = mcp[s].bearer
          /\ q.transport = mcp[s].transport /\ q.answer = mcp[s].answer
      BY <2>1 DEF Sound, Request
    <3> HIDE DEF q
    <3>3. Sound(q)
      BY <2>1, <3>1, <3>2, SoundFields DEF Sound
    <3> QED BY <3>3 DEF q
  <2> DEFINE t == [mcp[s] EXCEPT !.pc = "connect", !.auth = mcp[s].bearer]
  <2>4. Sound(t)
    <3>1. t \in Request
      <4>1. mcp[s] \in Request /\ mcp[s].bearer \in Bearers /\ "connect" \in Stages
        BY <2>1, FieldValues DEF Sound, Request, Bearers
      <4> QED BY <4>1, RequestPairs, Zenon
    <3>2. /\ t.pc = "connect" /\ t.ran = mcp[s].ran /\ t.bearer = mcp[s].bearer /\ t.auth = t.bearer
          /\ t.transport = mcp[s].transport /\ t.answer = mcp[s].answer
      BY <2>1 DEF Sound, Request
    <3> HIDE DEF t
    <3> QED BY <2>1, <3>1, <3>2, SoundFields DEF Sound
  <2>5. Admit(s) = [mcp EXCEPT ![s] = t]
    BY DEF Admit, SlotsInv, Request
  <2> HIDE DEF t
  <2>6. CASE Set(s, [mcp[s] EXCEPT !.pc = "released", !.status = 401])
    BY <2>1, <2>3, <2>6, SlotKeeps
  <2>7. CASE Set(s, [mcp[s] EXCEPT !.pc = "released", !.status = 500])
    BY <2>1, <2>3, <2>7, SlotKeeps
  <2>8. CASE mcp' = Admit(s)
    BY <2>1, <2>4, <2>5, <2>8, SlotKeeps DEF Set
  <2> QED BY <1>3, <2>6, <2>7, <2>8 DEF Gate
<1>4. ASSUME NEW s \in Slots, Connect(s)
      PROVE  SlotsInv'
  <2> DEFINE q == [mcp[s] EXCEPT !.pc = "handle", !.transport = "open"]
  <2>1. Sound(mcp[s]) /\ mcp[s].pc = "connect"
    BY <1>4 DEF SlotsInv, Connect
  <2>2. Sound(q)
    <3>1. q \in Request
      <4>1. mcp[s] \in Request /\ "handle" \in Stages /\ "open" \in Transports
        BY <2>1, FieldValues DEF Sound
      <4> QED BY <4>1, RequestPairs, Zenon
    <3>2. /\ q.pc = "handle" /\ q.ran = mcp[s].ran /\ q.bearer = mcp[s].bearer /\ q.auth = mcp[s].auth
          /\ q.transport = "open" /\ q.answer = mcp[s].answer
      BY <2>1 DEF Sound, Request
    <3> HIDE DEF q
    <3> QED BY <2>1, <3>1, <3>2, SoundFields DEF Sound
  <2> QED BY <1>4, <2>2, SlotKeeps DEF Connect
<1>5. ASSUME NEW s \in Slots, Handle(s)
      PROVE  SlotsInv'
  <2>1. Sound(mcp[s]) /\ mcp[s].pc = "handle"
    BY <1>5 DEF SlotsInv, Handle
  <2>2. ASSUME NEW c \in {500, 202}
        PROVE  Sound(WithoutBody(mcp[s], c))
    <3> DEFINE q == WithoutBody(mcp[s], c)
    <3>1. q \in Request
      <4>1. c \in Statuses /\ q = [Release(mcp[s]) EXCEPT !.status = c]
        BY FieldValues DEF WithoutBody
      <4>2. Release(mcp[s]) \in Request
        BY <2>1, ReleaseFields DEF Sound
      <4>3. [Release(mcp[s]) EXCEPT !.status = c] \in Request
        BY <4>1, <4>2, RequestFields, Zenon
      <4> QED BY <4>1, <4>3
    <3>2. /\ q.pc = "released" /\ q.ran = mcp[s].ran /\ q.bearer = mcp[s].bearer
          /\ q.transport = "closed" /\ q.answer = mcp[s].answer
      BY <2>1 DEF Sound, Request, WithoutBody, Release
    <3> HIDE DEF q
    <3>3. Sound(q)
      BY <2>1, <3>1, <3>2, SoundFields DEF Sound
    <3> QED BY <3>3 DEF q
  <2>3. ASSUME NEW a \in {"none", "pending"}
        PROVE  Sound(WithBody(mcp[s], a))
    <3> DEFINE q == WithBody(mcp[s], a)
    <3>1. q \in Request
      <4>1. mcp[s] \in Request /\ "body" \in Stages /\ a \in Answers /\ 200 \in Statuses
        BY <2>1, FieldValues DEF Sound
      <4>2. [mcp[s] EXCEPT !.pc = "body", !.status = 200] \in Request
        BY <4>1, RequestPairs, Zenon
      <4>3. q = [[mcp[s] EXCEPT !.pc = "body", !.status = 200] EXCEPT !.answer = a]
        BY DEF WithBody
      <4>4. [[mcp[s] EXCEPT !.pc = "body", !.status = 200] EXCEPT !.answer = a] \in Request
        BY <4>1, <4>2, RequestFields, Zenon
      <4> QED BY <4>3, <4>4
    <3>2. /\ q.pc = "body" /\ q.ran = mcp[s].ran /\ q.bearer = mcp[s].bearer /\ q.auth = mcp[s].auth
          /\ q.transport = mcp[s].transport /\ q.answer = a
      BY <2>1 DEF Sound, Request, WithBody
    <3> HIDE DEF q
    <3>3. Sound(q)
      BY <2>1, <3>1, <3>2, SoundFields DEF Sound
    <3> QED BY <3>3 DEF q
  <2> QED BY <1>5, <2>2, <2>3, SlotKeeps DEF Handle
<1>6. ASSUME NEW s \in Slots, ToolAnswers(s)
      PROVE  SlotsInv'
  <2> DEFINE q == [mcp[s] EXCEPT !.ran = mcp[s].auth, !.answer = "written"]
  <2>1. Sound(mcp[s]) /\ mcp[s].pc = "body"
    BY <1>6 DEF SlotsInv, ToolAnswers
  <2>2. Sound(q)
    <3>1. q \in Request
      <4>1. mcp[s] \in Request /\ mcp[s].auth \in Bearers /\ "written" \in Answers
        BY <2>1, FieldValues DEF Sound, Request, Bearers
      <4> QED BY <4>1, RequestPairs, Zenon
    <3>2. /\ q.pc = "body" /\ q.ran = mcp[s].auth /\ q.bearer = mcp[s].bearer /\ q.auth = mcp[s].auth
          /\ q.transport = mcp[s].transport /\ q.answer = "written"
      BY <2>1 DEF Sound, Request
    <3> HIDE DEF q
    <3> QED BY <2>1, <3>1, <3>2, SoundFields DEF Sound
  <2>3. mcp[s].transport = "open"
    BY <2>1 DEF Sound
  <2>4. Set(s, q) /\ UNCHANGED built
    BY <1>6, <2>3 DEF ToolAnswers
  <2> QED BY <2>2, <2>4, SlotKeeps
<1>7. ASSUME NEW s \in Slots, BodyEnds(s) \/ BodyCancelled(s)
      PROVE  SlotsInv'
  <2>1. Sound(mcp[s]) /\ mcp[s].pc = "body"
    BY <1>7 DEF SlotsInv, BodyEnds, BodyCancelled
  <2> DEFINE q == Release(mcp[s])
             r == [Release(mcp[s]) EXCEPT !.answer = "none"]
  <2>2. q \in Request /\ r \in Request
    <3>1. q \in Request /\ "none" \in Answers
      BY <2>1, FieldValues, ReleaseFields DEF Sound
    <3> QED BY <3>1, RequestFields, Zenon
  <2>3. /\ q.pc = "released" /\ q.ran = mcp[s].ran /\ q.bearer = mcp[s].bearer
        /\ q.transport = "closed" /\ q.answer = mcp[s].answer
    BY <2>1 DEF Sound, Request, Release
  <2>4. /\ r.pc = "released" /\ r.ran = mcp[s].ran /\ r.bearer = mcp[s].bearer
        /\ r.transport = "closed" /\ r.answer = "none"
    BY <2>1 DEF Sound, Request, Release
  <2>5. (Set(s, q) \/ Set(s, r)) /\ UNCHANGED built
    BY <1>7 DEF BodyEnds, BodyCancelled
  <2> HIDE DEF q, r
  <2>6. Sound(q) /\ Sound(r)
    BY <2>1, <2>2, <2>3, <2>4, SoundFields DEF Sound
  <2> QED BY <2>5, <2>6, SlotKeeps
<1> QED BY <1>1, <1>2, <1>3, <1>4, <1>5, <1>6, <1>7 DEF Next, vars, Boot, Deploy

(* EndpointInv: a tool works under the token that came with its own request, *)
(* no transport is closed under an answer that is still to be written, and   *)
(* none stays open behind a released request (src/src/http.ts,               *)
(* createHttpHandler).                                                       *)
THEOREM RequestsAreApart == Spec => []EndpointInv
<1>1. Init => SlotsInv
  <2> SUFFICES ASSUME Init PROVE SlotsInv
    OBVIOUS
  <2>1. Sound(NoRequest) /\ NoRequest \in Request
    BY DEF Sound, NoRequest, Request
  <2> QED BY <2>1 DEF Init, SlotsInv
<1>2. SlotsInv /\ [Next]_vars => SlotsInv'
  BY SlotsKept
<1> QED BY <1>1, <1>2, InvImpliesEndpointInv, PTL DEF Spec
=============================================================================
