---------------------------- MODULE HostedServer ----------------------------
(***************************************************************************)
(* The hosted server (src/src/http.ts, src/api/index.ts): the login of     *)
(* OAuthFlow in front of the MCP endpoint, which serves each request with  *)
(* a server and a transport of its own, under the token of that request,   *)
(* and releases the transport with the response's body.                    *)
(***************************************************************************)
EXTENDS OAuthFlow

CONSTANTS
  Slots,   \* MCP requests in progress at one time
  Overlap  \* bound: are there MCP requests while installs log in?

ASSUME OverlapAssumption == Overlap \in BOOLEAN

VARIABLES
  built,  \* the memo of the deployment: unset, the handler, or the error
  mcp     \* MCP requests

vars == <<oauthVars, built, mcp>>

(* A request: the token it presents, the one its server works under, its     *)
(* transport, and how far the tool's answer has come.                        *)
Request ==
  [pc : {"gate", "connect", "handle", "body", "released"},
   bearer : Installs \cup {None},
   auth : Installs \cup {None},
   ran : Installs \cup {None},
   transport : {"none", "open", "closed"},
   answer : {"pending", "lost", "written", "none"},
   status : {0, 200, 202, 401, 500, 503}]

NoRequest ==
  [pc |-> "released", bearer |-> None, auth |-> None, ran |-> None, transport |-> "none",
   answer |-> "none", status |-> 0]

EndpointTypeOK ==
  /\ built \in {"unset", "handler", "error"}
  /\ mcp \in [Slots -> Request]
  /\ \A s \in Slots : mcp[s].pc = "released" => mcp[s].transport # "open"

Init ==
  /\ OAuthInit
  /\ built = "unset"
  /\ mcp = [s \in Slots |-> NoRequest]

Set(s, q) == mcp' = [mcp EXCEPT ![s] = q]

(* hosted(): built on the first request, and kept, be it an error.           *)
Boot ==
  /\ built = "unset"
  /\ built' \in {"handler", "error"}
  /\ UNCHANGED <<oauthVars, mcp>>

Served == built = "handler"

(* What a request may present: the token of a user who logged in, or who     *)
(* took it from the dashboard, or nothing.                                   *)
Bearers == Installs \cup {None}

(* Logins and MCP requests share nothing but the handler they run in, so     *)
(* that they may be looked at one after the other.                           *)
NoLogin == \A i \in Installs : id[i] = NoId
NoMcp   == \A s \in Slots : mcp[s] = NoRequest

(* The handler: an OAuth path is served by OAuthFlow; the MCP path is left   *)
(* alone by it, so that its body can still be read, and goes to the gate.    *)
Arrive(s, b) ==
  /\ mcp[s].pc = "released" /\ b \in Bearers
  /\ Overlap \/ NoLogin
  /\ \/ Served /\ Set(s, [NoRequest EXCEPT !.pc = "gate", !.bearer = b])
     \/ built = "error" /\ Set(s, [NoRequest EXCEPT !.bearer = b, !.status = 503])
  /\ UNCHANGED <<oauthVars, built>>

(* Mutant: what the bearer check found is kept by the process. *)
AdmitForAll(s) ==
  [q \in Slots |->
     IF q = s THEN [mcp[s] EXCEPT !.pc = "connect", !.auth = mcp[s].bearer]
     ELSE IF mcp[q].pc = "connect" THEN [mcp[q] EXCEPT !.auth = mcp[s].bearer] ELSE mcp[q]]

(* authenticate: the middleware hands the identity over in next().           *)
Admit(s) == [mcp EXCEPT ![s].pc = "connect", ![s].auth = mcp[s].bearer]

(* The gate answers by itself, 401 for a token that is refused and 500 when  *)
(* it could not be verified, or lets the request pass.                       *)
Gate(s) ==
  /\ mcp[s].pc = "gate"
  /\ \/ Set(s, [mcp[s] EXCEPT !.pc = "released", !.status = 401])
     \/ mcp[s].bearer # None /\ Set(s, [mcp[s] EXCEPT !.pc = "released", !.status = 500])
     \/ mcp[s].bearer # None /\ mcp' = Admit(s)
  /\ UNCHANGED <<oauthVars, built>>

(* A server and a transport for this request alone.                          *)
Connect(s) ==
  /\ mcp[s].pc = "connect"
  /\ Set(s, [mcp[s] EXCEPT !.pc = "handle", !.transport = "open"])
  /\ UNCHANGED <<oauthVars, built>>

(* Mutant: the request is over before its transport is. *)
ReleaseLater(q) == [q EXCEPT !.pc = "released"]

Release(q) == [q EXCEPT !.pc = "released", !.transport = "closed"]

(* Nothing will ever end a response without a body.                          *)
WithoutBody(q, status) == [Release(q) EXCEPT !.status = status]

(* Mutant: the transport is closed in a finally around handleRequest. *)
WithBodyFinally(q, answer) ==
  [q EXCEPT !.pc = "body", !.transport = "closed", !.status = 200, !.answer = answer]

(* handleRequest resolves with the headers; the body is still to come.       *)
WithBody(q, answer) == [q EXCEPT !.pc = "body", !.status = 200, !.answer = answer]

(* handleRequest throws, takes a notification, opens a stream of server      *)
(* messages, or has a call answered.                                         *)
Handle(s) ==
  /\ mcp[s].pc = "handle"
  /\ \/ Set(s, WithoutBody(mcp[s], 500))
     \/ Set(s, WithoutBody(mcp[s], 202))
     \/ Set(s, WithBody(mcp[s], "none"))
     \/ Set(s, WithBody(mcp[s], "pending"))
  /\ UNCHANGED <<oauthVars, built>>

(* A tool works with the client that resolveClientFromAuth builds for it.    *)
ToolAnswers(s) ==
  /\ mcp[s].pc = "body" /\ mcp[s].answer = "pending"
  /\ Set(s, [mcp[s] EXCEPT !.ran = mcp[s].auth,
                           !.answer = IF mcp[s].transport = "open" THEN "written" ELSE "lost"])
  /\ UNCHANGED <<oauthVars, built>>

(* The transport ends the body after the answer: flush.                      *)
BodyEnds(s) ==
  /\ mcp[s].pc = "body" /\ mcp[s].answer \in {"written", "lost"}
  /\ Set(s, Release(mcp[s]))
  /\ UNCHANGED <<oauthVars, built>>

(* Mutant: no cancel hook. *)
BodyCancelledUnheard(s) ==
  /\ mcp[s].pc = "body"
  /\ Set(s, [mcp[s] EXCEPT !.answer = "none"])
  /\ UNCHANGED <<oauthVars, built>>

(* The caller goes away: cancel.                                             *)
BodyCancelled(s) ==
  /\ mcp[s].pc = "body"
  /\ Set(s, [Release(mcp[s]) EXCEPT !.answer = "none"])
  /\ UNCHANGED <<oauthVars, built>>

(* A new deployment; requests in progress end on the old one.                *)
Deploy == Rotate /\ built' = "unset" /\ UNCHANGED mcp


Next ==
  \/ Boot \/ Deploy
  \/ /\ UNCHANGED <<built, mcp>>
     /\ \/ /\ Served /\ (Overlap \/ NoMcp)
           /\ \/ \E i \in Installs, uris \in SUBSET Redirects : Register(i, uris)
              \/ \E i \in Installs, r \in Redirects : Authorize(i, r)
              \/ \E l \in started, n \in 1..MaxOnce : Callback(l, n)
              \/ \E h \in Posts, i \in Installs, c \in codes, r \in Redirects \cup {None} : AskToken(h, i, c, r)
        \/ \E n \in 1..MaxOnce : UserFinishes(n)
        \/ \E h \in Posts : Redeemed(h) \/ NotRedeemed(h) \/ TokenAnswered(h)
        \/ Tick
  \/ \E s \in Slots :
       \/ \E b \in Bearers : Arrive(s, b)
       \/ Gate(s) \/ Connect(s) \/ Handle(s) \/ ToolAnswers(s) \/ BodyEnds(s) \/ BodyCancelled(s)

Spec == Init /\ [][Next]_vars

(* Node runs what is due; a stream that its caller keeps open is cancelled   *)
(* when the platform's time for an invocation is over.                       *)
Fairness ==
  \A s \in Slots :
    WF_vars(Gate(s)) /\ WF_vars(Connect(s)) /\ WF_vars(Handle(s)) /\ WF_vars(BodyCancelled(s))

FairSpec == Spec /\ Fairness

-----------------------------------------------------------------------------
(* Properties.                                                               *)

(* createHttpHandler: a tool works under the token that came with its own    *)
(* request, however many requests are in progress, and never without one.    *)
WorkIsTheCallers ==
  \A s \in Slots : mcp[s].ran # None => mcp[s].ran = mcp[s].bearer

(* createHttpHandler, "closing at that point killed the stream mid-write":   *)
(* no transport is closed under an answer that is still to be written.       *)
AnswersAreWhole == \A s \in Slots : mcp[s].answer # "lost"

(* What the endpoint promises of each request, and a released one has closed *)
(* its transport.                                                            *)
EndpointInv == EndpointTypeOK /\ WorkIsTheCallers /\ AnswersAreWhole

(* "The transport still has to be released": each transport is closed in the *)
(* end, whether its request throws, has no body, is read or is cancelled.    *)
TransportsAreReleased ==
  \A s \in Slots : mcp[s].transport = "open" ~> mcp[s].transport = "closed"
=============================================================================
