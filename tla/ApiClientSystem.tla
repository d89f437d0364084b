-------------------------- MODULE ApiClientSystem ---------------------------
(***************************************************************************)
(* UnitreeApiClient under the most general use its header allows: calls    *)
(* and sends at any moment, and callbacks that start another call while    *)
(* the reply or the sweep that runs them is still being handled.           *)
(***************************************************************************)
EXTENDS UnitreeApiClient, Sequences

CONSTANTS
  Calls,     \* one element per invocation of UnitreeApiClient::call
  MaxSends   \* bound: how many times `send` is used

VARIABLES
  returned,  \* what `call` returned, "none" until it is invoked, and "lost"
             \* when the process died before it was answered
  results    \* the results each callback has been invoked with, in order

vars == <<clientVars, returned, results>>

SendBody == "send"   \* what a plain send carries: no call's request

ASSUME SystemAssumption ==
  /\ MaxSends \in Nat
  /\ SendBody \notin Calls
  /\ Foreign \notin Calls \cup {SendBody}

Init ==
  /\ ClientInit
  /\ returned = [c \in Calls |-> "none"]
  /\ results = [c \in Calls |-> <<>>]

(* One invocation of `call`, wherever it is made from.                     *)
MakeCall(c) ==
  /\ returned[c] = "none"
  /\ DeadlineInReach
  /\ \/ /\ call(c, c)
        /\ returned' = [returned EXCEPT ![c] = "true"]
     \/ /\ Full
        /\ returned' = [returned EXCEPT ![c] = "false"]
        /\ UNCHANGED apiVars

Call(c) ==
  /\ Idle
  /\ MakeCall(c)
  /\ UNCHANGED <<owed, replies, steady, now, results>>

Send(noreply) ==
  /\ Idle
  /\ Cardinality({req \in requests : req.body = SendBody}) < MaxSends
  /\ send(SendBody, noreply)
  /\ UNCHANGED <<owed, replies, steady, now, returned, results>>

(* The running handler invokes one of its callbacks, which may call again. *)
RunCallback(o) ==
  /\ owed' = owed \ {o}
  /\ results' = [results EXCEPT ![o.callback] = Append(@, o.result)]
  /\ \/ \E c \in Calls : MakeCall(c)
     \/ UNCHANGED <<apiVars, returned>>
  /\ UNCHANGED <<replies, steady, now>>

(* Its process takes the calls that wait for an answer with it.            *)
Restart ==
  /\ ClientRestart
  /\ returned' = [c \in Calls |->
       IF returned[c] = "true" /\ results[c] = <<>> THEN "lost" ELSE returned[c]]
  /\ UNCHANGED results

Served ==
  \/ \E c \in Calls : Call(c)
  \/ \E noreply \in BOOLEAN : Send(noreply)
  \/ \E msg \in replies : responseCallback(msg) /\ UNCHANGED <<returned, results>>
  \/ \E o \in owed : RunCallback(o)

Next ==
  \/ Served
  \/ sweepTimeouts /\ UNCHANGED <<returned, results>>
  \/ Restart
  \/ Environment /\ UNCHANGED <<returned, results>>

(* The sweep timer keeps firing, a handler that has started finishes, and  *)
(* time passes.  Nothing is assumed of the robot, the network or callers.  *)
Fairness ==
  /\ WF_vars(sweepTimeouts /\ UNCHANGED <<returned, results>>)
  /\ WF_vars(\E o \in owed : RunCallback(o))
  /\ WF_vars(Elapse /\ UNCHANGED <<returned, results>>)

SafeSpec == Init /\ [][Next]_vars

Spec == SafeSpec /\ Fairness

-----------------------------------------------------------------------------
(* Type correctness.                                                       *)

Bodies == Calls \cup {SendBody}

(* Every variable of the client and of its callers keeps its type.         *)
TypeOK ==
  /\ ClientTypeOK(Calls, Bodies)
  /\ returned \in [Calls -> {"none", "true", "false", "lost"}]
  /\ results \in [Calls -> Seq(Result)]

-----------------------------------------------------------------------------
(* Safety.                                                                 *)

(* "Invokes on_response exactly once": never twice, whatever replies are   *)
(* duplicated, come late or race the sweep, and never for a call that      *)
(* returned false (responseCallback and sweepTimeouts erase before they    *)
(* run the callback).                                                      *)
AtMostOneAnswer ==
  \A c \in Calls :
    /\ Len(results[c]) <= 1
    /\ results[c] # <<>> => returned[c] = "true"

AwaitsReply(c) == \E id \in DOMAIN pending : pending[id].callback = c

BeingAnswered(c) == \E o \in owed : o.callback = c

(* A call that returned true and was not answered yet is still known to    *)
(* the client: no id is reused, so no emplace is swallowed, and no handler *)
(* drops an entry without running its callback.                            *)
NoCallForgotten ==
  \A c \in Calls :
    returned[c] = "true" /\ results[c] = <<>> => AwaitsReply(c) \/ BeingAnswered(c)

(* The caller is told ok only if the robot reported status 0 for the       *)
(* request of this very call: a reply to another request, to a send or to  *)
(* a foreign node never answers it (responseCallback matches on the id,    *)
(* so that ids must be apart).                                             *)
OkMeansAccepted ==
  \A c \in Calls : \A i \in DOMAIN results[c] :
    results[c][i].ok => Acknowledged(c)

(* The table never outgrows g_MAX_PENDING, callbacks that call again       *)
(* included.                                                               *)
PendingBounded == Cardinality(DOMAIN pending) <= MaxPending

-----------------------------------------------------------------------------
(* The inductive invariant: what makes the safety properties hold.         *)

Unanswered(c) == returned[c] = "true" /\ results[c] = <<>>

(* The table holds unanswered calls, each once, under the id its request   *)
(* was published with.                                                     *)
PendingSound ==
  /\ \A id \in DOMAIN pending :
       /\ Unanswered(pending[id].callback)
       /\ [id |-> id, body |-> pending[id].callback, noreply |-> FALSE] \in requests
  /\ \A i, j \in DOMAIN pending : pending[i].callback = pending[j].callback => i = j

(* A callback the running handler owes has left the table, is owed once,   *)
(* and gets ok only if the robot accepted its request.                     *)
OwedSound ==
  /\ \A o \in owed :
       /\ Unanswered(o.callback)
       /\ ~AwaitsReply(o.callback)
       /\ o.result.ok => Acknowledged(o.callback)
  /\ \A o1, o2 \in owed : o1.callback = o2.callback => o1 = o2

(* The safety properties together with the facts that make them inductive. *)
IInv ==
  /\ TypeOK
  /\ IdsIssued
  /\ PendingSound
  /\ OwedSound
  /\ AtMostOneAnswer
  /\ NoCallForgotten
  /\ OkMeansAccepted

-----------------------------------------------------------------------------
(* Liveness and refinement.                                                *)

(* Every call that returned true is answered, even by a robot that has     *)
(* gone silent and with a ROS clock that is set back and forth, unless its *)
(* process dies first.                                                     *)
EveryCallAnswered ==
  \A c \in Calls : returned[c] = "true" ~> results[c] # <<>> \/ returned[c] = "lost"

(* A call answered a second time would be in a state ApiCall has not.      *)
CallState(c) ==
  IF Len(results[c]) > 1 THEN "answered twice"
  ELSE IF results[c] # <<>>
  THEN IF results[c][1].ok THEN "ok" ELSE "failed"
  ELSE CASE returned[c] = "none" -> "idle"
         [] returned[c] = "false" -> "refused"
         [] returned[c] = "lost" -> "lost"
         [] returned[c] = "true" -> "waiting"

Abstract == INSTANCE ApiCall WITH
  state <- [c \in Calls |-> CallState(c)],
  accepted <- {c \in Calls : Accepted(c)}

(* The client implements what its header promises (ApiCall).               *)
ImplementsApiCall == Abstract!Spec

(* What of it does not depend on the clock and the executor going on: how  *)
(* a call may proceed, from what it may succeed, and that nothing more     *)
(* becomes of it once answered.                                            *)
KeepsApiCall == Abstract!SafeSpec
=============================================================================
