------------------------------- MODULE Errand ---------------------------------
(***************************************************************************)
(* A caller that uses tools one at a time in a customer's name, and the    *)
(* requests of the call that is being answered.                            *)
(***************************************************************************)
EXTENDS Naturals, FiniteSets, Sequences, TLC

CONSTANTS
  None,
  Tasks,       \* what a caller may be at
  MaxCalls,    \* bound: calls of a behaviour, by task
  MaxTrouble,  \* bound, by task: requests that fail or whose answer is lost
  MaxMoves     \* bound, by task: what persons and other sessions do meanwhile

ASSUME BoundsAssumption ==
  MaxCalls \in [Tasks -> Nat] /\ MaxTrouble \in [Tasks -> Nat] /\ MaxMoves \in [Tasks -> Nat]

ASSUME NoneAssumption == None \notin Nat

VARIABLES
  task,     \* what the caller is at
  call,     \* the call that is being answered
  said,     \* what the last call was answered
  calls, trouble, moves

errand == <<task, call, said, calls, trouble, moves>>

NoCall == [tool |-> "none", pc |-> "idle"]
Idle == call = NoCall

ErrandInit == task \in Tasks /\ call = NoCall /\ said = None /\ calls = 0 /\ trouble = 0 /\ moves = 0
ErrandTypeOK == task \in Tasks /\ calls \in 0 .. MaxCalls[task] /\ trouble \in 0 .. MaxTrouble[task] /\ moves \in 0 .. MaxMoves[task]

Begin(c) ==
  /\ Idle /\ calls < MaxCalls[task]
  /\ call' = c /\ calls' = calls + 1 /\ said' = None
  /\ UNCHANGED <<task, trouble, moves>>

At(tool, pc) == call.tool = tool /\ call.pc = pc

(* The call goes on, or is over: with a result, or with the error that was   *)
(* thrown.                                                                   *)
Goto(c) == call' = c /\ UNCHANGED said
To(pc) == Goto([call EXCEPT !.pc = pc])
Return(result) == call' = NoCall /\ said' = result
Thrown == [is |-> "error"]

(* A request is answered, or fails for good after its retries: it was not    *)
(* served, or it was and the answer did not come back.                       *)
Answered == UNCHANGED <<task, calls, trouble, moves>>
Trouble == trouble < MaxTrouble[task] /\ trouble' = trouble + 1 /\ UNCHANGED <<task, calls, moves>>

(* What others do meanwhile.                                                 *)
Moves == moves < MaxMoves[task] /\ moves' = moves + 1 /\ UNCHANGED <<task, call, said, calls, trouble>>
================================================================================
