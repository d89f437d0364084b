------------------------------ MODULE ApiCall -------------------------------
(***************************************************************************)
(* What UnitreeApiClient promises its callers, and nothing about how:      *)
(* "Invokes on_response exactly once: on the reply, or on the timeout.     *)
(* Returns false without publishing when too many calls are in flight."    *)
(* (unitree_api_client.hpp).                                               *)
(*                                                                         *)
(* Calls are independent of each other; several may move in one step,      *)
(* because the callback of one may start another.                          *)
(***************************************************************************)
CONSTANT Calls

VARIABLES
  state,      \* how far each call has got
  accepted    \* the calls whose request the robot reported status 0 for

callVars == <<state, accepted>>

States == {"idle", "refused", "waiting", "lost", "ok", "failed"}

Init ==
  /\ state = [c \in Calls |-> "idle"]
  /\ accepted = {}

(* A call may be refused or taken; a taken one may succeed only if the     *)
(* robot accepted it, and may always fail: the reply may say so, or be     *)
(* late or lost.  It may be lost with its process.  Whatever has been      *)
(* answered or refused stays so.                                           *)
Move(c) ==
  \/ state'[c] = state[c]
  \/ state[c] = "idle" /\ state'[c] \in {"refused", "waiting"}
  \/ state[c] = "waiting" /\ state'[c] \in {"failed", "lost"}
  \/ state[c] = "waiting" /\ state'[c] = "ok" /\ c \in accepted

Progress ==
  /\ state' \in [Calls -> States]
  /\ \A c \in Calls : Move(c)
  /\ UNCHANGED accepted

(* Only a published request can be accepted, perhaps after its timeout.    *)
Accept(c) ==
  /\ state[c] \in {"waiting", "lost", "ok", "failed"}
  /\ accepted' = accepted \cup {c}
  /\ UNCHANGED state

Next == Progress \/ \E c \in Calls : Accept(c)

Answer(c) ==
  /\ state[c] = "waiting"
  /\ Progress
  /\ state'[c] \in {"ok", "failed"}

SafeSpec == Init /\ [][Next]_callVars

Spec == SafeSpec /\ \A c \in Calls : WF_callVars(Answer(c))
=============================================================================
