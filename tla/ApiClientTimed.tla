--------------------------- MODULE ApiClientTimed ---------------------------
(***************************************************************************)
(* UnitreeApiClient with its sweep timer as it really is: periodic, on the *)
(* steady clock, while the deadlines it looks for are on the ROS clock.    *)
(* ApiClientSystem lets the sweep run at any moment; here the executor is  *)
(* punctual: a timer that is due runs within its tick, and so does         *)
(* whatever a handler has begun.                                           *)
(***************************************************************************)
EXTENDS ApiClientSystem

CONSTANTS
  SweepPeriod,   \* g_SWEEP_PERIOD_MS, in clock ticks
  Spread         \* how far the ROS clock may ever be set

(* A reply the robot would send with the status and the data of a timeout  *)
(* could not be told from one; here it sends none.                         *)
ASSUME TimedAssumption ==
  /\ SweepPeriod \in Nat \ {0}
  /\ Timeout > 0
  /\ Spread \in Nat
  /\ \A o1, o2 \in Offsets : o1 - o2 <= Spread
  /\ StatusTimeout \notin Codes \/ NoData \notin Data

VARIABLES
  sweep_due,   \* when sweep_timer_ fires next, on the steady clock
  called_at    \* when each call was made; until then, the steady clock

timedVars == <<vars, sweep_due, called_at>>

TimedInit ==
  /\ Init
  /\ sweep_due = SweepPeriod
  /\ called_at = [c \in Calls |-> 0]

NoteCalls ==
  called_at' = [c \in Calls |-> IF returned[c] = "none" THEN steady' ELSE called_at[c]]

SweepTimer_Slow ==
  /\ steady = sweep_due
  /\ sweepTimeouts
  /\ sweep_due' = sweep_due + SweepPeriod + 1
  /\ UNCHANGED <<returned, results>>

SweepTimer ==
  /\ steady = sweep_due
  /\ sweepTimeouts
  /\ sweep_due' = sweep_due + SweepPeriod
  /\ UNCHANGED <<returned, results>>

Tick ==
  /\ Elapse
  /\ Idle /\ steady < sweep_due
  /\ UNCHANGED <<sweep_due, returned, results>>

(* A new process arms a new timer.                                         *)
TimedRestart ==
  /\ Restart
  /\ sweep_due' = steady + SweepPeriod

TimedNext ==
  /\ \/ SweepTimer
     \/ Tick
     \/ TimedRestart
     \/ Served /\ UNCHANGED sweep_due
     \/ Environment /\ UNCHANGED <<steady, sweep_due, returned, results>>
  /\ NoteCalls

TimedSpec == TimedInit /\ [][TimedNext]_timedVars

-----------------------------------------------------------------------------
(* "Only bounds how late a timeout is noticed": a call that nobody replies *)
(* to is answered before its timeout and one sweep period have gone by,    *)
(* and not before its timeout, give or take what the ROS clock was set by  *)
(* in between (sweepTimeouts compares ROS times, on a steady timer).       *)
TimeoutOnTime ==
  /\ \A c \in Calls :
       Unanswered(c) => steady < called_at[c] + Timeout + SweepPeriod + Spread
  /\ \A o \in owed :
       o.result = TimedOut => steady >= called_at[o.callback] + Timeout - Spread

-----------------------------------------------------------------------------
(* What makes TimeoutOnTime inductive.                                     *)

(* The timer is never late, and never more than a period ahead.            *)
TimerSound == sweep_due - SweepPeriod <= steady /\ steady <= sweep_due

(* A pending call's deadline was read off the ROS clock when it was made,  *)
(* and the last sweep found it not due.                                    *)
DeadlinesSound ==
  \A id \in DOMAIN pending :
    LET made == called_at[pending[id].callback]
    IN /\ made <= steady
       /\ pending[id].deadline - made - Timeout \in Offsets
       /\ made + Timeout + Spread > sweep_due - SweepPeriod

OwedInTime ==
  \A o \in owed :
    LET made == called_at[o.callback]
    IN /\ steady < made + Timeout + SweepPeriod + Spread
       /\ o.result = TimedOut => steady >= made + Timeout - Spread

TimedInv ==
  /\ IInv
  /\ sweep_due \in Nat
  /\ called_at \in [Calls -> Nat]
  /\ \A c \in Calls : returned[c] = "none" => called_at[c] = steady
  /\ TimerSound
  /\ DeadlinesSound
  /\ OwedInTime
=============================================================================
