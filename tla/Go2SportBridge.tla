--------------------------- MODULE Go2SportBridge ---------------------------
(***************************************************************************)
(* The Sport API bridge (go2_sport_bridge.cpp): six services and cmd_vel   *)
(* over one UnitreeApiClient, and the mode sequences, which run one step   *)
(* per robot reply with a timer between steps.                             *)
(*                                                                         *)
(* Payloads are left out: what a request asks the robot for is its api_id. *)
(* A request's body also records, for the properties, whom it was          *)
(* published for, as which step, and when.                                 *)
(***************************************************************************)
EXTENDS UnitreeApiClient, SportPresets

CONSTANTS
  Clients,            \* the service calls that may be made, one element each
  Requests,           \* what a service call may ask for
  presets,            \* presets_: mode name -> its steps
  BlockedNames,       \* the blocked_modes parameter
  wait_for_response,  \* wait_for_response_
  None,               \* the empty optional; a timer that is not armed
  MaxMoves,           \* bound: velocity commands received
  LastArrival,        \* bound: the last tick at which a service is called
  Lateness            \* bound: ticks that due work is left waiting

SpeedLevels == {-1, 1}    \* g_SPEED_LEVEL_LOW, g_SPEED_LEVEL_HIGH
BlockNothing == "none"    \* g_BLOCK_NOTHING
Sequence == "sequence"    \* the callback of a sequence's step
CmdVel == "cmd_vel"       \* whom a Move is published for

Bodies == [for : Clients \cup {CmdVel}, step : Nat, api_id : Int, at : 0 .. MaxSteady]

Callbacks == Clients \cup {Sequence}

Messages == {"", "accepted", "published", "rejected", "got no reply", "could not be sent",
             "invalid mode", "blocked", "another sequence is in progress",
             "the preset has no steps", "bad level", "needs wait_for_response",
             "could not read a flag"}

Responses == [success : BOOLEAN, message : Messages, enable : BOOLEAN]

SequenceRun == [name : DOMAIN presets, index : Nat, request_id : Clients,
                last_message : Messages, ok : BOOLEAN]

ASSUME SportAssumption ==
  /\ presets \in [DOMAIN presets -> Seq([api_id : Int, wait_after : Nat])]
  /\ BlockNothing \notin DOMAIN presets
  /\ wait_for_response \in BOOLEAN
  /\ MaxMoves \in Nat /\ LastArrival \in Nat /\ Lateness \in Nat
  /\ None \notin Int /\ None \notin Requests /\ None \notin SequenceRun
  /\ Sequence \notin Clients /\ CmdVel \notin Clients
  /\ Foreign \notin Bodies

VARIABLES
  active_sequence,  \* active_sequence_: the SequenceRun, or None
  sequence_timer,   \* when sequence_timer_ fires, None if it is not armed
  asked,            \* what each service call asked for, None before it comes
  responses         \* the responses sent to each service call, in order

bridgeVars == <<active_sequence, sequence_timer, asked, responses>>
vars == <<clientVars, bridgeVars>>

Init ==
  /\ ClientInit
  /\ active_sequence = None
  /\ sequence_timer = None
  /\ asked = [r \in Clients |-> None]
  /\ responses = [r \in Clients |-> <<>>]

blocked_modes_Unset == {}

blocked_modes == BlockedNames \ {BlockNothing}

-----------------------------------------------------------------------------
(* Responses.  The two services whose response has no message field log    *)
(* theirs.                                                                 *)

Response(success, message) ==
  [success |-> success, message |-> message, enable |-> FALSE]

send_response(r, response) ==
  responses' = [responses EXCEPT ![r] = Append(@, response)]

(* A handler answers at once, having published nothing.                    *)
Refuse(r, message) ==
  /\ send_response(r, Response(FALSE, message))
  /\ UNCHANGED <<apiVars, owed, active_sequence, sequence_timer>>

describe(result, waited) ==
  CASE ~waited -> "published"
    [] waited /\ result.ok -> "accepted"
    [] waited /\ ~result.ok /\ result.status_code < 0 -> "got no reply"
    [] waited /\ ~result.ok /\ result.status_code >= 0 -> "rejected"

-----------------------------------------------------------------------------
(* Requests to the robot.                                                  *)

Body(who, nth, api_id) == [for |-> who, step |-> nth, api_id |-> api_id, at |-> steady]

CanSend == wait_for_response => ~Full

(* Without wait_for_response the callback runs before sendRequest returns: *)
(* it is owed by this very handler.                                        *)
sendRequest(body, callback) ==
  \/ /\ wait_for_response
     /\ call(body, callback)
     /\ UNCHANGED owed
  \/ /\ ~wait_for_response
     /\ send(body, FALSE)
     /\ owed' = {[id |-> nextId, callback |-> callback,
                  result |-> ApiResult(TRUE, StatusOk, NoData)]}

-----------------------------------------------------------------------------
(* Mode sequences.                                                         *)

Steps(run) == presets[run.name]

(* run.index steps are done.                                               *)
CurrentStep(run) == Steps(run)[run.index + 1]

finishSequence_Silent(run) ==
  /\ active_sequence' = None
  /\ sequence_timer' = None
  /\ IF run.ok
     THEN send_response(run.request_id, Response(TRUE, run.last_message))
     ELSE UNCHANGED responses

finishSequence(run) ==
  /\ active_sequence' = None
  /\ sequence_timer' = None
  /\ send_response(run.request_id, Response(run.ok, run.last_message))

(* `timer` is what the caller leaves of sequence_timer_.                    *)
advanceSequence(run, timer) ==
  \/ /\ run.index >= Len(Steps(run))
     /\ finishSequence(run)
     /\ UNCHANGED <<apiVars, owed>>
  \/ /\ run.index < Len(Steps(run))
     /\ sendRequest(Body(run.request_id, run.index + 1, CurrentStep(run).api_id), Sequence)
     /\ active_sequence' = run
     /\ sequence_timer' = timer
     /\ UNCHANGED responses
  \/ /\ run.index < Len(Steps(run))
     /\ ~CanSend
     /\ finishSequence([run EXCEPT !.ok = FALSE, !.last_message = "could not be sent"])
     /\ UNCHANGED <<apiVars, owed>>

startSequence(r, name) ==
  IF presets[name] = <<>>
  THEN Refuse(r, "the preset has no steps")
  ELSE advanceSequence([name |-> name, index |-> 0, request_id |-> r,
                        last_message |-> "", ok |-> TRUE], sequence_timer)

AfterStep(run, result) ==
  [run EXCEPT !.ok = @ /\ result.ok,
              !.last_message = describe(result, wait_for_response),
              !.index = @ + 1]

(* The next step waits for a timer that fires at `tick`.                   *)
create_wall_timer(run, tick) ==
  /\ active_sequence' = run
  /\ sequence_timer' = tick
  /\ UNCHANGED responses

onStepResult_IgnoresFailure(result) ==
  LET run == active_sequence
  IN create_wall_timer([AfterStep(run, result) EXCEPT !.ok = TRUE],
                       steady + CurrentStep(run).wait_after)

onStepResult_TimerOnlyToWait(result) ==
  LET run == active_sequence
      wait == CurrentStep(run).wait_after
  IN \/ ~result.ok /\ finishSequence(AfterStep(run, result))
     \/ result.ok /\ create_wall_timer(AfterStep(run, result),
                                        IF wait = 0 THEN None ELSE steady + wait)

onStepResult_SkipsWait(result) ==
  LET after == AfterStep(active_sequence, result)
  IN \/ ~result.ok /\ finishSequence(after)
     \/ result.ok /\ create_wall_timer(after, steady)

(* The callback of a step.  Even a wait of zero goes through the timer.    *)
onStepResult(result) ==
  LET run == active_sequence
      after == AfterStep(run, result)
  IN \/ ~result.ok /\ finishSequence(after)
     \/ result.ok /\ create_wall_timer(after, steady + CurrentStep(run).wait_after)

(* The timer cancels itself first.                                         *)
SequenceTimer ==
  /\ Idle
  /\ sequence_timer # None
  /\ sequence_timer <= steady
  /\ advanceSequence(active_sequence, None)
  /\ UNCHANGED <<replies, steady, now, asked>>

Busy_Never == FALSE

Busy == active_sequence # None

handleMode(r, mode) ==
  \/ /\ mode \notin DOMAIN presets
     /\ Refuse(r, "invalid mode")
  \/ /\ mode \in DOMAIN presets \cap blocked_modes
     /\ Refuse(r, "blocked")
  \/ /\ mode \in DOMAIN presets \ blocked_modes
     /\ Busy
     /\ Refuse(r, "another sequence is in progress")
  \/ /\ mode \in DOMAIN presets \ blocked_modes
     /\ ~Busy
     /\ startSequence(r, mode)

-----------------------------------------------------------------------------
(* The services that are one request each.                                 *)

Forward_UnsentForgotten(r, api_id) ==
  /\ \/ sendRequest(Body(r, 1, api_id), r)
     \/ ~CanSend /\ UNCHANGED <<apiVars, owed>>
  /\ UNCHANGED <<active_sequence, sequence_timer, responses>>

Forward(r, api_id) ==
  \/ /\ sendRequest(Body(r, 1, api_id), r)
     /\ UNCHANGED <<active_sequence, sequence_timer, responses>>
  \/ /\ ~CanSend
     /\ Refuse(r, "could not be sent")

handleSpeedLevel(r, level) ==
  \/ level \notin SpeedLevels /\ Refuse(r, "bad level")
  \/ level \in SpeedLevels /\ Forward(r, SportApiId.SPEED_LEVEL)

handleSwitchJoystick(r) == Forward(r, SportApiId.SWITCH_JOYSTICK)

handleEuler(r) == Forward(r, SportApiId.EULER)

handlePose(r) == Forward(r, SportApiId.POSE)

handleGetAutoRecovery(r) ==
  \/ ~wait_for_response /\ Refuse(r, "needs wait_for_response")
  \/ wait_for_response /\ Forward(r, SportApiId.AUTO_RECOVERY_GET)

(* What get_auto_recovery reads out of the reply's payload.                *)
IsFlag(data) == data \in {"true", "false"}

(* The callback of a forwarded request.                                    *)
onResult(r, result) ==
  LET message == describe(result, wait_for_response)
  IN \/ /\ asked[r].service # "get_auto_recovery" \/ ~result.ok
        /\ send_response(r, Response(result.ok, message))
     \/ /\ asked[r].service = "get_auto_recovery" /\ result.ok
        /\ IsFlag(result.data)
        /\ send_response(r, [Response(TRUE, message) EXCEPT !.enable = result.data = "true"])
     \/ /\ asked[r].service = "get_auto_recovery" /\ result.ok
        /\ ~IsFlag(result.data)
        /\ send_response(r, Response(FALSE, "could not read a flag"))

-----------------------------------------------------------------------------
(* The node's handlers, and the next-state relation.                       *)

ServiceCall(r, request) ==
  /\ Idle
  /\ asked[r] = None
  /\ steady <= LastArrival
  /\ asked' = [asked EXCEPT ![r] = request]
  /\ \/ request.service = "mode" /\ handleMode(r, request.mode)
     \/ request.service = "speed_level" /\ handleSpeedLevel(r, request.level)
     \/ request.service = "switch_joystick" /\ handleSwitchJoystick(r)
     \/ request.service = "euler" /\ handleEuler(r)
     \/ request.service = "pose" /\ handlePose(r)
     \/ request.service = "get_auto_recovery" /\ handleGetAutoRecovery(r)
  /\ UNCHANGED <<replies, steady, now>>

cmdVelCallback_Preempts ==
  /\ Idle
  /\ Cardinality({req \in requests : req.body.for = CmdVel}) < MaxMoves
  /\ send(Body(CmdVel, 1, SportApiId.MOVE), TRUE)
  /\ active_sequence' = None
  /\ sequence_timer' = None
  /\ UNCHANGED <<owed, replies, steady, now, asked, responses>>

cmdVelCallback ==
  /\ Idle
  /\ Cardinality({req \in requests : req.body.for = CmdVel}) < MaxMoves
  /\ send(Body(CmdVel, 1, SportApiId.MOVE), TRUE)
  /\ UNCHANGED <<owed, replies, steady, now, bridgeVars>>

RunCallback(o) ==
  /\ owed' = owed \ {o}
  /\ \/ o.callback = Sequence /\ onStepResult(o.result)
     \/ /\ o.callback # Sequence
        /\ onResult(o.callback, o.result)
        /\ UNCHANGED <<active_sequence, sequence_timer>>
  /\ UNCHANGED <<apiVars, replies, steady, now, asked>>

(* Bounds: a handler ends in the tick it started in; a timer or a timeout  *)
(* that is due is left waiting for at most Lateness ticks.                 *)
InTime ==
  /\ Idle
  /\ sequence_timer # None => steady < sequence_timer + Lateness
  /\ \A id \in DOMAIN pending : now < pending[id].deadline + Lateness

Next ==
  \/ \E r \in Clients, request \in Requests : ServiceCall(r, request)
  \/ cmdVelCallback
  \/ SequenceTimer
  \/ \E msg \in replies : responseCallback(msg) /\ UNCHANGED bridgeVars
  \/ sweepTimeouts /\ UNCHANGED bridgeVars
  \/ \E o \in owed : RunCallback(o)
  \/ Environment /\ (steady' > steady => InTime) /\ UNCHANGED bridgeVars

SafeSpec == Init /\ [][Next]_vars

(* The executor: its timers keep firing, a handler that has started        *)
(* finishes, and time passes.  Nothing is assumed of the robot.            *)
Fairness ==
  /\ WF_vars(sweepTimeouts /\ UNCHANGED bridgeVars)
  /\ WF_vars(SequenceTimer)
  /\ WF_vars(\E o \in owed : RunCallback(o))
  /\ WF_vars(Elapse /\ InTime /\ UNCHANGED bridgeVars)

Spec == SafeSpec /\ Fairness

-----------------------------------------------------------------------------
(* Type correctness.                                                       *)

(* Every variable of the bridge and of its client keeps its type.          *)
TypeOK ==
  /\ ClientTypeOK(Callbacks, Bodies)
  /\ active_sequence = None \/ active_sequence \in SequenceRun
  /\ sequence_timer = None \/ sequence_timer \in Nat
  /\ asked \in [Clients -> Requests \cup {None}]
  /\ responses \in [Clients -> Seq(Responses)]

-----------------------------------------------------------------------------
(* Safety.                                                                 *)

Answered(r) == responses[r] # <<>>

IsMode(r) == asked[r] # None /\ asked[r].service = "mode"

AwaitsReply(callback) == \E id \in DOMAIN pending : pending[id].callback = callback

IsOwed(callback) == \E o \in owed : o.callback = callback

Tracked(r) ==
  /\ Len(responses[r]) <= 1
  /\ Answered(r) => asked[r] # None
  /\ asked[r] # None /\ ~Answered(r) =>
       \/ AwaitsReply(r)
       \/ IsOwed(r)
       \/ active_sequence # None /\ active_sequence.request_id = r

(* A service call is answered at most once, and one that is not answered   *)
(* yet has its request in flight, its callback owed, or its sequence       *)
(* running: the handlers answer late, through a callback that keeps the    *)
(* request id, and no path drops it.                                       *)
EveryCallTracked == \A r \in Clients : Tracked(r)

(* A sequence is never stuck and never run by two things at once: while    *)
(* one is active, exactly one of a step in the table, a step's callback    *)
(* owed, or the timer armed will carry it on, and a step only if there is  *)
(* one to be done: the code reads the optional active_sequence_, and       *)
(* steps_[index_], unchecked.  While none is active nothing is left over   *)
(* that would.                                                             *)
SequenceSound ==
  LET inTable == {id \in DOMAIN pending : pending[id].callback = Sequence}
      due == {o \in owed : o.callback = Sequence}
      timers == {sequence_timer} \ {None}
  IN IF active_sequence = None
     THEN inTable = {} /\ due = {} /\ timers = {}
     ELSE /\ Cardinality(inTable) + Cardinality(due) + Cardinality(timers) = 1
          /\ timers = {} => active_sequence.index < Len(Steps(active_sequence))
          /\ asked[active_sequence.request_id].mode = active_sequence.name
          /\ ~Answered(active_sequence.request_id)

StepAccepted(r, nth) ==
  \E req \in requests : req.body.for = r /\ req.body.step = nth /\ Acknowledged(req.body)

SuccessIsEarned(r) ==
  Answered(r) /\ responses[r][1].success /\ wait_for_response =>
    \A nth \in (IF IsMode(r) THEN DOMAIN presets[asked[r].mode] ELSE {1}) :
      /\ StepAccepted(r, nth)
      /\ asked[r].service = "get_auto_recovery" /\ IdsApart =>
           \E msg \in replies :
             /\ msg.to.for = r /\ msg.code = StatusOk /\ IsFlag(msg.data)
             /\ responses[r][1].enable = (msg.data = "true")

(* "success means the robot reported status code 0": for every step of a   *)
(* mode, for the one request of any other service.  What get_auto_recovery *)
(* reports is what that reply said.                                        *)
SuccessMeansAccepted == \A r \in Clients : SuccessIsEarned(r)

FollowsItsStep(req) ==
  req.body.for \in Clients /\ req.body.step > 1 =>
    \E prev \in requests :
      /\ prev.body.for = req.body.for
      /\ prev.body.step = req.body.step - 1
      /\ prev.id < req.id
      /\ LET done == presets[asked[req.body.for].mode][prev.body.step]
         IN prev.body.at + done.wait_after <= req.body.at
      /\ wait_for_response => Acknowledged(prev.body)

(* "Later steps assume the earlier ones took effect": step n + 1 is        *)
(* published after step n, no earlier than n's wait allows, and only once  *)
(* the robot has accepted n.                                               *)
StepsFollow == \A req \in requests : FollowsItsStep(req)

OneModeUnanswered ==
  \A r, s \in Clients :
    IsMode(r) /\ ~Answered(r) /\ IsMode(s) /\ ~Answered(s) => r = s

NoModeBetween(first, other, last) ==
  LET r == first.body.for
      s == other.body.for
  IN /\ last.body.for = r /\ r # s /\ {r, s} \subseteq Clients
     /\ first.id < other.id /\ other.id < last.id
     => ~IsMode(s)

Uninterrupted ==
  \A first, other, last \in requests : NoModeBetween(first, other, last)

(* "Only one sequence runs at a time": at most one mode call is being      *)
(* carried out, and no step of another was published between its steps.    *)
OneSequenceAtATime == OneModeUnanswered /\ Uninterrupted

(* What a call may be told that had a request published.                   *)
SentMessages == {"accepted", "published", "rejected", "got no reply",
                 "could not be sent", "could not read a flag"}

(* What is refused is not sent, not even later: a blocked or unknown mode, *)
(* a mode during another sequence, a speed level the firmware rejects.     *)
RefusedNeverSent ==
  \A req \in requests :
    LET r == req.body.for
    IN /\ IF r = CmdVel THEN req.noreply ELSE ~req.noreply
       /\ r # CmdVel /\ IsMode(r) => asked[r].mode \notin BlockedNames
       /\ r # CmdVel /\ Answered(r) => responses[r][1].message \in SentMessages

(* "Status code reported to the caller when the robot never replied": a    *)
(* result described as "got no reply" is one no reply brought; only a      *)
(* reply carries data.                                                     *)
NoReplyMeansSilent ==
  \A o \in owed :
    describe(o.result, wait_for_response) = "got no reply" => o.result.data = NoData

-----------------------------------------------------------------------------
(* The inductive invariant: what makes the safety properties hold.         *)

(* r waits for the answer to its one request.                              *)
Waiting(r) == asked[r] # None /\ ~IsMode(r) /\ ~Answered(r)

(* There is somebody to take the callback's result.                        *)
Expected(callback) ==
  IF callback = Sequence THEN active_sequence # None ELSE Waiting(callback)

(* The request whose result the callback takes.                            *)
Concerns(req, callback) ==
  IF callback = Sequence
  THEN /\ req.body.for = active_sequence.request_id
       /\ req.body.step = active_sequence.index + 1
  ELSE req.body.for = callback /\ req.body.step = 1

(* The table holds expected callbacks, each once, under the id its request *)
(* was published with.                                                     *)
PendingSound ==
  /\ \A id \in DOMAIN pending :
       /\ Expected(pending[id].callback)
       /\ \E req \in requests : req.id = id /\ Concerns(req, pending[id].callback)
  /\ \A i, j \in DOMAIN pending : pending[i].callback = pending[j].callback => i = j
  /\ ~wait_for_response => DOMAIN pending = {}

(* A callback owed is expected, has left the table, is owed once, and is   *)
(* told ok only with what a reply to its request carried.                  *)
OwedSound ==
  /\ \A o \in owed :
       /\ Expected(o.callback)
       /\ ~AwaitsReply(o.callback)
       /\ \E req \in requests :
            /\ Concerns(req, o.callback)
            /\ wait_for_response /\ o.result.ok /\ IdsApart =>
                 \E msg \in replies : /\ msg.to = req.body /\ msg.code = StatusOk
                                      /\ msg.data = o.result.data
  /\ \A o1, o2 \in owed : o1.callback = o2.callback => o1 = o2

(* The timer is armed exactly between two steps.                           *)
SequenceCarriedOn ==
  IF active_sequence = None THEN sequence_timer = None
  ELSE sequence_timer = None <=> AwaitsReply(Sequence) \/ IsOwed(Sequence)

(* A step that was published, and accepted if that is waited for.          *)
StepDone(req, r, nth) ==
  /\ req.body.for = r /\ req.body.step = nth
  /\ wait_for_response => Acknowledged(req.body)

(* How many steps of the active sequence were published.                   *)
Published ==
  IF sequence_timer = None THEN active_sequence.index + 1 ELSE active_sequence.index

(* The active sequence has carried out the first steps of the mode that    *)
(* was asked for, published no others, and none of another mode since.     *)
RunSound ==
  active_sequence # None =>
    LET run == active_sequence
        r == run.request_id
    IN /\ run.ok
       /\ run.name \notin blocked_modes
       /\ IsMode(r) /\ asked[r].mode = run.name /\ ~Answered(r)
       /\ Published \in 1 .. Len(Steps(run))
       /\ run.index > 0 => run.last_message \in {"accepted", "published"}
       /\ \A nth \in 1 .. run.index : \E req \in requests : StepDone(req, r, nth)
       /\ sequence_timer # None =>
            \E req \in requests :
              /\ StepDone(req, r, run.index)
              /\ req.body.at + Steps(run)[run.index].wait_after <= sequence_timer
       /\ \A req \in requests : req.body.for = r =>
            /\ req.body.step \in 1 .. Published
            /\ \A other \in requests :
                 other.body.for \in Clients \ {r} /\ IsMode(other.body.for)
                   => other.id < req.id

RequestSound(req) ==
  LET r == req.body.for
  IN /\ req.body.at <= steady
     /\ r = CmdVel => req.noreply
     /\ r # CmdVel =>
          /\ ~req.noreply
          /\ asked[r] # None
          /\ IF IsMode(r)
             THEN /\ asked[r].mode \in DOMAIN presets \ blocked_modes
                  /\ req.body.step \in DOMAIN presets[asked[r].mode]
             ELSE req.body.step = 1
          /\ Answered(r) => responses[r][1].message \in SentMessages

(* A request stands for a step of the mode its caller asked for, or is the *)
(* only one of its call.                                                   *)
RequestsSound == \A req \in requests : RequestSound(req)

StepsOf(r) == {req \in requests : IsMode(r) /\ req.body.for = r}

(* Each step of a mode is published once, the first ones first.            *)
StepsCounted ==
  /\ IsFiniteSet(requests)
  /\ \A r \in Clients : \A req \in StepsOf(r) : req.body.step \in 1 .. Cardinality(StepsOf(r))
  /\ active_sequence # None => Cardinality(StepsOf(active_sequence.request_id)) = Published

(* The safety properties together with the facts that make them inductive. *)
IInv ==
  /\ TypeOK
  /\ IdsIssued
  /\ PendingSound
  /\ OwedSound
  /\ SequenceCarriedOn
  /\ RunSound
  /\ RequestsSound
  /\ EveryCallTracked
  /\ SuccessMeansAccepted
  /\ StepsFollow
  /\ Uninterrupted
  /\ StepsCounted

-----------------------------------------------------------------------------
(* The abstract service, and liveness.                                     *)

Refusals == {"invalid mode", "blocked", "another sequence is in progress"}

Ending(response) ==
  IF response.success THEN "succeeded"
  ELSE IF response.message \in Refusals THEN "refused" ELSE "failed"

(* A call answered a second time would be in a state ModeService has not.  *)
ModeStatus(r) ==
  IF ~IsMode(r) THEN "idle"
  ELSE IF Len(responses[r]) > 1 THEN "answered twice"
  ELSE IF Answered(r) THEN Ending(responses[r][1]) ELSE "running"

ModeView == [r \in Clients |-> IF IsMode(r) THEN asked[r].mode ELSE None]

StatusView == [r \in Clients |-> ModeStatus(r)]

SentView == [r \in Clients |-> Cardinality(StepsOf(r))]

AcceptedView ==
  [r \in Clients |-> {req.body.step : req \in {q \in StepsOf(r) : Accepted(q.body)}}]

ModeNames == {request.mode : request \in {q \in Requests : q.service = "mode"}}

Abstract == INSTANCE ModeService WITH
  Callers <- Clients,
  Names <- ModeNames,
  Presets <- DOMAIN presets,
  Blocked <- BlockedNames,
  Length <- [name \in DOMAIN presets |-> Len(presets[name])],
  Waits <- wait_for_response,
  mode <- ModeView,
  status <- StatusView,
  sent <- SentView,
  accepted <- AcceptedView

(* The bridge keeps what the README says of `mode` (ModeService), with     *)
(* velocity commands and other services in between.                        *)
ImplementsModeService == Abstract!Spec

(* What of it does not depend on the robot or the clock going on.          *)
KeepsModeService == Abstract!SafeSpec

(* Every service call is answered, and with it every sequence ends, by a   *)
(* robot that accepts, rejects or stays silent.                            *)
EveryCallAnswered == \A r \in Clients : asked[r] # None ~> Answered(r)
=============================================================================
