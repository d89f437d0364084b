---------------------------- MODULE ModeService -----------------------------
(***************************************************************************)
(* What the `mode` service promises (README, "mode"; the comments of       *)
(* go2_sport_bridge), and nothing about how: a named preset runs step by   *)
(* step, each step once the robot has accepted the one before; only one    *)
(* preset runs at a time; what is refused is not sent; success means that  *)
(* the robot accepted every step; and every call ends, whatever velocity   *)
(* commands and other services do meanwhile.                               *)
(***************************************************************************)
EXTENDS Integers, FiniteSets

CONSTANTS
  Callers,
  Names,     \* the names callers ask for
  Presets,   \* the names that stand for a preset
  Blocked,   \* the names that are not to be run
  Length,    \* preset -> its number of steps
  Waits      \* wait_for_response: the robot's answers are awaited

VARIABLES
  mode,      \* the name each caller asked for
  status,    \* how far each caller's preset has got
  sent,      \* how many of its steps were published
  accepted   \* which of those the robot reported status 0 for

modeVars == <<mode, status, sent, accepted>>

Init ==
  /\ status = [c \in Callers |-> "idle"]
  /\ sent = [c \in Callers |-> 0]
  /\ accepted = [c \in Callers |-> {}]

Running(c) == status[c] = "running"

Ask(c, name) ==
  /\ mode' = [mode EXCEPT ![c] = name]
  /\ UNCHANGED accepted

Refuse(c, name) ==
  /\ Ask(c, name)
  /\ name \notin Presets \ Blocked \/ \E other \in Callers : Running(other)
  /\ status' = [status EXCEPT ![c] = "refused"]
  /\ UNCHANGED sent

(* The first step may find no room among the requests in flight.           *)
Start(c, name) ==
  /\ Ask(c, name)
  /\ name \in Presets \ Blocked
  /\ \A other \in Callers : ~Running(other)
  /\ \/ /\ status' = [status EXCEPT ![c] = "running"]
        /\ sent' = [sent EXCEPT ![c] = 1]
     \/ /\ status' = [status EXCEPT ![c] = "failed"]
        /\ UNCHANGED sent

Continue(c) ==
  /\ Running(c)
  /\ sent[c] < Length[mode[c]]
  /\ Waits => sent[c] \in accepted[c]
  /\ sent' = [sent EXCEPT ![c] = @ + 1]
  /\ UNCHANGED <<mode, status, accepted>>

Succeed(c) ==
  /\ Running(c)
  /\ sent[c] = Length[mode[c]]
  /\ Waits => accepted[c] = 1 .. sent[c]
  /\ status' = [status EXCEPT ![c] = "succeeded"]
  /\ UNCHANGED <<mode, sent, accepted>>

Fail(c) ==
  /\ Running(c)
  /\ status' = [status EXCEPT ![c] = "failed"]
  /\ UNCHANGED <<mode, sent, accepted>>

(* The robot accepts a step that was published, perhaps too late.          *)
Accept(c) ==
  /\ \E nth \in 1 .. sent[c] : accepted' = [accepted EXCEPT ![c] = @ \cup {nth}]
  /\ UNCHANGED <<mode, status, sent>>

Next ==
  \E c \in Callers :
    \/ /\ status[c] = "idle" /\ status'[c] # "idle"
       /\ \E name \in Names : Refuse(c, name) \/ Start(c, name)
    \/ Continue(c)
    \/ Succeed(c) \/ Fail(c)
    \/ Accept(c)

SafeSpec == Init /\ [][Next]_modeVars

Spec == SafeSpec /\ \A c \in Callers : WF_modeVars(Succeed(c) \/ Fail(c))
=============================================================================
