----------------------- MODULE ApiClientTimed_proofs ------------------------
(***************************************************************************)
(* Proofs about the sweep timer, for every timeout, sweep period and       *)
(* spread of the ROS clock.  They rest on the invariant of                 *)
(* ApiClientSystem: a timed step is one of the client's steps.             *)
(***************************************************************************)
EXTENDS ApiClientTimed, ApiClientSystem_proofs

LEMMA TimedIsNext == [TimedNext]_timedVars => [Next]_vars
<1> SUFFICES ASSUME [TimedNext]_timedVars PROVE [Next]_vars
  OBVIOUS
<1>1. CASE SweepTimer
  BY <1>1 DEF SweepTimer, Next
<1>2. CASE Tick
  BY <1>2 DEF Tick, Next, Environment
<1>3. CASE TimedRestart
  BY <1>3 DEF TimedRestart, Next
<1>4. CASE Served
  BY <1>4 DEF Next
<1>5. CASE Environment /\ UNCHANGED <<steady, sweep_due, returned, results>>
  BY <1>5 DEF Next
<1>6. CASE UNCHANGED timedVars
  BY <1>6 DEF timedVars
<1> QED
  BY <1>1, <1>2, <1>3, <1>4, <1>5, <1>6 DEF TimedNext

-----------------------------------------------------------------------------
(* What a step does to the table.                                          *)

(* An entry was there, or stands for a call made in this step.             *)
Entries ==
  \A id \in DOMAIN pending' :
    \/ id \in DOMAIN pending /\ pending'[id] = pending[id]
    \/ /\ pending'[id].callback \in Calls
       /\ returned[pending'[id].callback] = "none"
       /\ pending'[id].deadline = now + Timeout

(* No call is taken back.                                                  *)
NoneTakenBack == \A c \in Calls : returned'[c] = "none" => returned[c] = "none"

LEMMA MakeCallEntries ==
  ASSUME TypeOK, NEW c \in Calls, MakeCall(c)
  PROVE  Entries /\ NoneTakenBack
<1>1. NoneTakenBack
  BY DEF MakeCall, NoneTakenBack, TypeOK, ClientTypeOK
<1>2. CASE UNCHANGED apiVars
  BY <1>1, <1>2 DEF apiVars, Entries
<1>3. CASE call(c, c)
  <2> DEFINE value == [callback |-> c, deadline |-> now + Timeout]
  <2>1. pending' = Emplace(pending, nextId, value)
    BY <1>3 DEF call
  <2>2. value.callback = c /\ value.deadline = now + Timeout /\ returned[c] = "none"
    BY DEF MakeCall
  <2> HIDE DEF value
  <2>3. \A id \in DOMAIN pending' :
          pending'[id] = value \/ (id \in DOMAIN pending /\ pending'[id] = pending[id])
    BY <2>1 DEF Emplace
  <2> QED BY <1>1, <2>2, <2>3 DEF Entries
<1> QED
  BY <1>2, <1>3 DEF MakeCall

LEMMA ServedEntries ==
  ASSUME TypeOK, Served
  PROVE  Entries /\ NoneTakenBack /\ UNCHANGED <<steady, now>>
<1>1. ASSUME NEW c \in Calls, Call(c)
      PROVE  Entries /\ NoneTakenBack /\ UNCHANGED <<steady, now>>
  BY <1>1, MakeCallEntries DEF Call
<1>2. ASSUME NEW noreply \in BOOLEAN, Send(noreply)
      PROVE  Entries /\ NoneTakenBack /\ UNCHANGED <<steady, now>>
  BY <1>2 DEF Send, send, Entries, NoneTakenBack
<1>3. ASSUME NEW msg \in replies, responseCallback(msg), UNCHANGED <<returned, results>>
      PROVE  Entries /\ NoneTakenBack /\ UNCHANGED <<steady, now>>
  BY <1>3 DEF responseCallback, Erase, Entries, NoneTakenBack
<1>4. ASSUME NEW o \in owed, RunCallback(o)
      PROVE  Entries /\ NoneTakenBack /\ UNCHANGED <<steady, now>>
  <2>1. CASE \E c \in Calls : MakeCall(c)
    BY <1>4, <2>1, MakeCallEntries DEF RunCallback
  <2>2. CASE UNCHANGED <<apiVars, returned>>
    BY <1>4, <2>2 DEF RunCallback, apiVars, Entries, NoneTakenBack
  <2> QED BY <1>4, <2>1, <2>2 DEF RunCallback
<1> QED
  BY <1>1, <1>2, <1>3, <1>4 DEF Served

LEMMA TimedEntries ==
  ASSUME TypeOK, TimedNext
  PROVE  Entries /\ NoneTakenBack
<1>1. CASE SweepTimer
  BY <1>1 DEF SweepTimer, sweepTimeouts, Erase, Entries, NoneTakenBack
<1>2. CASE Tick
  BY <1>2 DEF Tick, Elapse, Entries, NoneTakenBack
<1>3. CASE TimedRestart
  BY <1>3 DEF TimedRestart, Restart, ClientRestart, TypeOK, ClientTypeOK, Entries, NoneTakenBack
<1>4. CASE Served
  BY <1>4, ServedEntries
<1>5. CASE Environment /\ UNCHANGED <<steady, sweep_due, returned, results>>
  BY <1>5 DEF Environment, RobotReplies, ForeignReply, Elapse, ClockSet, Entries,
              NoneTakenBack
<1> QED
  BY <1>1, <1>2, <1>3, <1>4, <1>5 DEF TimedNext

-----------------------------------------------------------------------------
(* The clocks and the timer.                                               *)

ClockFacts ==
  /\ steady \in Nat /\ steady' \in Nat /\ sweep_due \in Nat
  /\ now \in Int /\ now - steady \in Offsets
  /\ Timeout \in Int /\ Timeout > 0 /\ SweepPeriod \in Nat \ {0} /\ Spread \in Nat
  /\ steady <= steady'

LEMMA Clocks == ASSUME TimedInv, TypeOK', TimedNext PROVE ClockFacts
<1>1. TypeOK
  BY DEF TimedInv, IInv
<1>2. steady \in Nat /\ steady' \in Nat /\ now \in Int /\ now - steady \in Offsets
  BY <1>1, ClientAssumption DEF TypeOK, ClientTypeOK
<1>3. steady' = steady \/ steady' = steady + 1
  <2>1. CASE SweepTimer
    BY <2>1 DEF SweepTimer, sweepTimeouts
  <2>2. CASE Tick
    BY <2>2 DEF Tick, Elapse
  <2>3. CASE TimedRestart
    BY <2>3 DEF TimedRestart, Restart, ClientRestart
  <2>4. CASE Served
    BY <1>1, <2>4, ServedEntries
  <2>5. CASE Environment /\ UNCHANGED <<steady, sweep_due, returned, results>>
    BY <2>5
  <2> QED BY <2>1, <2>2, <2>3, <2>4, <2>5 DEF TimedNext
<1>4. sweep_due \in Nat
  BY DEF TimedInv
<1> QED
  BY <1>2, <1>3, <1>4, ClientAssumption, TimedAssumption DEF ClockFacts

(* The timer stays within a period of the clock.                           *)
LEMMA TimerKept ==
  ASSUME TimedInv, TypeOK', TimedNext
  PROVE  sweep_due' \in Nat /\ TimerSound'
<1>1. ClockFacts /\ TypeOK
  BY Clocks DEF TimedInv, IInv
<1>2. sweep_due - SweepPeriod <= steady /\ steady <= sweep_due
  BY DEF TimedInv, TimerSound
<1>3. CASE SweepTimer
  BY <1>1, <1>2, <1>3 DEF SweepTimer, sweepTimeouts, TimerSound, ClockFacts
<1>4. CASE Tick
  BY <1>1, <1>2, <1>4 DEF Tick, Elapse, TimerSound, ClockFacts
<1>5. CASE TimedRestart
  BY <1>1, <1>5 DEF TimedRestart, Restart, ClientRestart, TimerSound, ClockFacts
<1>6. CASE Served /\ UNCHANGED sweep_due
  BY <1>1, <1>2, <1>6, ServedEntries DEF TimerSound, ClockFacts
<1>7. CASE Environment /\ UNCHANGED <<steady, sweep_due, returned, results>>
  BY <1>1, <1>2, <1>7 DEF TimerSound, ClockFacts
<1> QED
  BY <1>3, <1>4, <1>5, <1>6, <1>7 DEF TimedNext

(* When a call was made is noted in the step that makes it, and kept.      *)
LEMMA CalledAtKept ==
  ASSUME TimedInv, TypeOK', TimedNext
  PROVE  /\ called_at' \in [Calls -> Nat]
         /\ \A c \in Calls : returned'[c] = "none" => called_at'[c] = steady'
         /\ \A c \in Calls : returned[c] = "none" => called_at'[c] = steady'
         /\ \A c \in Calls : returned[c] # "none" => called_at'[c] = called_at[c]
<1>1. NoneTakenBack /\ ClockFacts
  BY Clocks, TimedEntries DEF TimedInv, IInv
<1>2. NoteCalls
  BY DEF TimedNext
<1> QED
  BY <1>1, <1>2 DEF NoteCalls, NoneTakenBack, TimedInv, ClockFacts

-----------------------------------------------------------------------------
(* Deadlines.                                                              *)

(* How far a deadline lies from its call, for the ROS clock as it is now.  *)
LEMMA DeadlineSpread ==
  ASSUME NEW deadline \in Int, NEW made \in Nat, NEW ros \in Int, NEW mono \in Nat,
         deadline - made - Timeout \in Offsets, ros - mono \in Offsets
  PROVE  /\ deadline > ros => made + Timeout + Spread > mono
         /\ deadline <= ros => mono >= made + Timeout - Spread
<1> DEFINE o1 == deadline - made - Timeout
           o2 == ros - mono
<1>1. o1 \in Int /\ o2 \in Int /\ Timeout \in Int /\ Spread \in Nat
  BY ClientAssumption, TimedAssumption
<1>2. o1 - o2 <= Spread /\ o2 - o1 <= Spread
  BY TimedAssumption
<1>3. deadline = made + Timeout + o1 /\ ros = mono + o2
  BY <1>1
<1> HIDE DEF o1, o2
<1> QED
  BY <1>1, <1>2, <1>3

LEMMA DeadlinesKept ==
  ASSUME TimedInv, TypeOK', TimedNext
  PROVE  DeadlinesSound'
<1>1. ClockFacts /\ TypeOK /\ Entries
  BY Clocks, TimedEntries DEF TimedInv, IInv
<1>2. sweep_due - SweepPeriod <= steady /\ steady <= sweep_due
  BY DEF TimedInv, TimerSound
<1> SUFFICES ASSUME NEW id \in DOMAIN pending'
             PROVE  LET made == called_at'[pending'[id].callback]
                    IN /\ made <= steady'
                       /\ pending'[id].deadline - made - Timeout \in Offsets
                       /\ made + Timeout + Spread > sweep_due' - SweepPeriod
  BY DEF DeadlinesSound
<1> DEFINE c == pending'[id].callback
           made == called_at'[c]
<1>3. c \in Calls /\ pending'[id].deadline \in Int
  BY DEF TypeOK, ClientTypeOK
<1>4. made \in Nat
  BY <1>3, CalledAtKept
<1>5. CASE /\ c \in Calls /\ returned[c] = "none"
           /\ pending'[id].deadline = now + Timeout
  <2>1. steady' = steady /\ sweep_due' = sweep_due /\ made = steady'
    <3>1. CASE Served /\ UNCHANGED sweep_due
      BY <1>1, <1>5, <3>1, ServedEntries, CalledAtKept
    <3>2. CASE pending' = pending \/ DOMAIN pending' = {} \/ pending' = Erase(pending, Expired)
      <4>1. id \in DOMAIN pending /\ pending'[id] = pending[id]
        BY <3>2 DEF Erase
      <4> QED
        BY <1>5, <4>1 DEF TimedInv, IInv, PendingSound, Unanswered
    <3>3. CASE TimedRestart
      BY <3>3, <3>2 DEF TimedRestart, Restart, ClientRestart
    <3>4. CASE SweepTimer
      BY <3>4, <3>2 DEF SweepTimer, sweepTimeouts
    <3>5. CASE Tick
      BY <3>5, <3>2 DEF Tick, Elapse
    <3>6. CASE Environment
      BY <3>6, <3>2 DEF Environment, RobotReplies, ForeignReply, Elapse, ClockSet
    <3> QED BY <3>1, <3>3, <3>4, <3>5, <3>6 DEF TimedNext
  <2>2. pending'[id].deadline - made - Timeout = now - steady
    BY <1>1, <1>5, <2>1 DEF ClockFacts
  <2> QED
    BY <1>1, <1>2, <2>1, <2>2 DEF ClockFacts
<1>6. CASE id \in DOMAIN pending /\ pending'[id] = pending[id]
  <2>1. /\ made = called_at[pending[id].callback]
        /\ c = pending[id].callback
    <3>1. returned[pending[id].callback] = "true"
      BY <1>6 DEF TimedInv, IInv, PendingSound, Unanswered
    <3> QED BY <1>3, <1>6, <3>1, CalledAtKept
  <2>2. /\ made <= steady
        /\ pending'[id].deadline - made - Timeout \in Offsets
        /\ made + Timeout + Spread > sweep_due - SweepPeriod
    BY <1>6, <2>1 DEF TimedInv, DeadlinesSound
  <2> HIDE DEF made
  <2>3. made <= steady'
    BY <1>1, <1>4, <2>2 DEF ClockFacts
  <2>4. made + Timeout + Spread > sweep_due' - SweepPeriod
    <3>1. CASE SweepTimer
      <4>1. /\ steady = sweep_due /\ sweep_due' = sweep_due + SweepPeriod
            /\ pending' = Erase(pending, Expired)
        BY <3>1 DEF SweepTimer, sweepTimeouts
      <4>2. ~(pending'[id].deadline <= now)
        BY <1>6, <4>1 DEF Erase, Expired
      <4>3. pending'[id].deadline > now
        BY <1>1, <1>3, <4>2 DEF ClockFacts
      <4>4. made + Timeout + Spread > steady
        BY <1>1, <1>3, <1>4, <2>2, <4>3, DeadlineSpread DEF ClockFacts
      <4> QED BY <1>1, <1>4, <4>1, <4>4 DEF ClockFacts
    <3>2. CASE UNCHANGED sweep_due
      BY <2>2, <3>2
    <3>3. CASE TimedRestart
      BY <3>3 DEF TimedRestart, Restart, ClientRestart
    <3> QED BY <3>1, <3>2, <3>3 DEF TimedNext, Tick
  <2> QED BY <2>2, <2>3, <2>4 DEF made
<1> QED
  BY <1>1, <1>5, <1>6 DEF Entries

-----------------------------------------------------------------------------
(* What is owed.                                                           *)

(* A call in the table is not late yet.                                    *)
LEMMA PendingNotLate ==
  ASSUME TimedInv, NEW id \in DOMAIN pending
  PROVE  /\ pending[id].callback \in Calls
         /\ steady < called_at[pending[id].callback] + Timeout + SweepPeriod + Spread
<1>1. pending[id].callback \in Calls
  BY DEF TimedInv, IInv, TypeOK, ClientTypeOK
<1> DEFINE made == called_at[pending[id].callback]
<1>2. /\ made \in Nat /\ steady \in Nat /\ sweep_due \in Nat
      /\ Timeout \in Int /\ SweepPeriod \in Nat /\ Spread \in Nat
  <2>1. made \in Nat /\ sweep_due \in Nat
    BY <1>1 DEF TimedInv
  <2>2. steady \in Nat
    BY ClientAssumption DEF TimedInv, IInv, TypeOK, ClientTypeOK
  <2> QED BY <2>1, <2>2, ClientAssumption, TimedAssumption
<1>3. made + Timeout + Spread > sweep_due - SweepPeriod /\ steady <= sweep_due
  BY DEF TimedInv, DeadlinesSound, TimerSound
<1> HIDE DEF made
<1>4. steady < made + Timeout + SweepPeriod + Spread
  BY <1>2, <1>3
<1> QED
  BY <1>1, <1>4 DEF made

(* Callbacks just taken out of the table come in time.                     *)
LEMMA TakenOutInTime ==
  ASSUME TimedInv, TypeOK', TimedNext, NEW id \in DOMAIN pending, NEW result,
         steady' = steady,
         result = TimedOut => pending[id].deadline <= now
  PROVE  LET made == called_at'[Owe(id, result).callback]
         IN /\ steady' < made + Timeout + SweepPeriod + Spread
            /\ result = TimedOut => steady' >= made + Timeout - Spread
<1> DEFINE c == pending[id].callback
           made == called_at[c]
<1>1. c \in Calls /\ returned[c] = "true"
  BY PendingNotLate DEF TimedInv, IInv, PendingSound, Unanswered
<1>2. Owe(id, result).callback = c /\ called_at'[c] = made
  BY <1>1, CalledAtKept DEF Owe
<1>3. /\ pending[id].deadline \in Int /\ made \in Nat
      /\ pending[id].deadline - made - Timeout \in Offsets
  BY <1>1 DEF TimedInv, IInv, TypeOK, ClientTypeOK, DeadlinesSound
<1>4. ClockFacts
  BY Clocks
<1>5. steady < made + Timeout + SweepPeriod + Spread
  BY PendingNotLate
<1> HIDE DEF made, c
<1>6. result = TimedOut => steady >= made + Timeout - Spread
  BY <1>3, <1>4, DeadlineSpread DEF ClockFacts
<1> QED
  BY <1>2, <1>5, <1>6

LEMMA OwedKept ==
  ASSUME TimedInv, TypeOK', TimedNext
  PROVE  OwedInTime'
<1>1. TypeOK
  BY DEF TimedInv, IInv
<1>2. ASSUME owed' \subseteq owed, steady' = steady PROVE OwedInTime'
  <2>1. \A o \in owed : called_at'[o.callback] = called_at[o.callback]
    BY CalledAtKept DEF TimedInv, IInv, OwedSound, Unanswered, TypeOK, ClientTypeOK
  <2> QED
    BY <1>2, <2>1 DEF TimedInv, OwedInTime
<1>3. CASE SweepTimer
  <2>1. /\ steady' = steady
        /\ \A o \in owed' : \E id \in DOMAIN pending :
             o = Owe(id, TimedOut) /\ pending[id].deadline <= now
    BY <1>3 DEF SweepTimer, sweepTimeouts, Expired
  <2>2. ASSUME NEW o \in owed'
        PROVE  LET made == called_at'[o.callback]
               IN /\ steady' < made + Timeout + SweepPeriod + Spread
                  /\ o.result = TimedOut => steady' >= made + Timeout - Spread
    <3>1. PICK id \in DOMAIN pending :
            o = Owe(id, TimedOut) /\ pending[id].deadline <= now
      BY <2>1
    <3> QED BY <2>1, <3>1, TakenOutInTime
  <2> QED BY <2>2 DEF OwedInTime
<1>4. CASE Tick
  BY <1>4 DEF Tick, Elapse, Idle, OwedInTime
<1>5. CASE TimedRestart
  BY <1>5 DEF TimedRestart, Restart, ClientRestart, OwedInTime
<1>6. ASSUME NEW msg \in replies, responseCallback(msg) PROVE OwedInTime'
  <2>1. steady' = steady
    BY <1>6 DEF responseCallback
  <2>2. CASE msg.id \notin DOMAIN pending
    BY <1>2, <1>6, <2>1, <2>2 DEF responseCallback
  <2>3. CASE msg.id \in DOMAIN pending
    <3>1. owed' = {Owe(msg.id, Replied(msg))}
      BY <1>6, <2>3 DEF responseCallback
    <3>2. Replied(msg) # TimedOut
      <4>1. msg.code \in Codes /\ msg.data \in Data
        BY <1>1 DEF TypeOK, ClientTypeOK
      <4>2. /\ Replied(msg).status_code = msg.code /\ Replied(msg).data = msg.data
            /\ TimedOut.status_code = StatusTimeout /\ TimedOut.data = NoData
        BY DEF Replied, TimedOut, ApiResult
      <4> QED BY <4>1, <4>2, TimedAssumption
    <3>3. Owe(msg.id, Replied(msg)).result = Replied(msg)
      BY DEF Owe
    <3>4. steady' < called_at'[Owe(msg.id, Replied(msg)).callback]
                      + Timeout + SweepPeriod + Spread
      BY <2>1, <2>3, <3>2, TakenOutInTime
    <3> QED BY <3>1, <3>2, <3>3, <3>4 DEF OwedInTime
  <2> QED BY <2>2, <2>3
<1>7. CASE Served
  <2>1. ASSUME NEW c \in Calls, Call(c) PROVE OwedInTime'
    BY <1>2, <2>1 DEF Call
  <2>2. ASSUME NEW noreply \in BOOLEAN, Send(noreply) PROVE OwedInTime'
    BY <1>2, <2>2 DEF Send
  <2>3. ASSUME NEW o \in owed, RunCallback(o) PROVE OwedInTime'
    BY <1>2, <2>3 DEF RunCallback
  <2> QED BY <1>6, <1>7, <2>1, <2>2, <2>3 DEF Served
<1>8. CASE Environment /\ UNCHANGED <<steady, sweep_due, returned, results>>
  BY <1>2, <1>8 DEF Environment, RobotReplies, ForeignReply, Elapse, ClockSet
<1> QED
  BY <1>3, <1>4, <1>5, <1>7, <1>8 DEF TimedNext

-----------------------------------------------------------------------------
(* The theorems.                                                           *)

LEMMA TimedStep == TimedInv /\ [TimedNext]_timedVars => TimedInv'
<1> SUFFICES ASSUME TimedInv, [TimedNext]_timedVars PROVE TimedInv'
  OBVIOUS
<1>1. IInv'
  BY TimedIsNext, InvStep DEF TimedInv
<1>2. TypeOK'
  BY <1>1 DEF IInv
<1>3. CASE TimedNext
  BY <1>1, <1>2, <1>3, TimerKept, CalledAtKept, DeadlinesKept, OwedKept DEF TimedInv
<1>4. CASE UNCHANGED timedVars
  BY <1>1, <1>4 DEF TimedInv, timedVars, vars, clientVars, TimerSound, DeadlinesSound,
                    OwedInTime
<1> QED
  BY <1>3, <1>4

LEMMA TimedStart == TimedInit => TimedInv
<1> SUFFICES ASSUME TimedInit PROVE TimedInv
  OBVIOUS
<1>1. IInv
  BY InvInit DEF TimedInit
<1>2. /\ DOMAIN pending = {} /\ owed = {} /\ steady = 0 /\ sweep_due = SweepPeriod
      /\ called_at = [c \in Calls |-> 0]
  BY DEF TimedInit, Init, ClientInit
<1>3. TimerSound /\ sweep_due \in Nat
  BY <1>2, TimedAssumption DEF TimerSound
<1>4. DeadlinesSound /\ OwedInTime
  BY <1>2 DEF DeadlinesSound, OwedInTime
<1> QED
  BY <1>1, <1>2, <1>3, <1>4 DEF TimedInv

(* What the deadlines and the timer keep to each other.                    *)
THEOREM TimedInvariant == TimedSpec => []TimedInv
<1>1. TimedInv /\ [TimedNext]_timedVars => TimedInv'
  BY TimedStep
<1> QED
  BY <1>1, TimedStart, PTL DEF TimedSpec

(* A call nobody replies to is answered within its timeout and one sweep   *)
(* period, and not before its timeout, up to the spread of the ROS clock.  *)
THEOREM TimeoutsOnTime == TimedSpec => []TimeoutOnTime
<1>1. TimedInv => TimeoutOnTime
  <2> SUFFICES ASSUME TimedInv PROVE TimeoutOnTime
    OBVIOUS
  <2>1. ASSUME NEW c \in Calls, Unanswered(c)
        PROVE  steady < called_at[c] + Timeout + SweepPeriod + Spread
    <3>1. AwaitsReply(c) \/ BeingAnswered(c)
      BY <2>1 DEF TimedInv, IInv, NoCallForgotten, Unanswered
    <3>2. CASE AwaitsReply(c)
      BY <3>2, PendingNotLate DEF AwaitsReply
    <3>3. CASE BeingAnswered(c)
      BY <3>3 DEF BeingAnswered, TimedInv, OwedInTime
    <3> QED BY <3>1, <3>2, <3>3
  <2> QED
    BY <2>1 DEF TimeoutOnTime, TimedInv, OwedInTime
<1> QED
  BY <1>1, TimedInvariant, PTL
=============================================================================
