------------------------ MODULE Go2SportBridge_proofs ------------------------
(***************************************************************************)
(* Proofs about the Sport API bridge, for any number of calls, any         *)
(* presets, table size, timeout and clock, and both values of              *)
(* wait_for_response.                                                      *)
(***************************************************************************)
EXTENDS Go2SportBridge, UnitreeApiClient_proofs, SequenceTheorems, FiniteSetTheorems

-----------------------------------------------------------------------------
(* What the handlers do, as effects on the state.                          *)

(* r is answered, and nothing was published or is left running for it.     *)
RefusedWith(r, message) ==
  /\ responses' = [responses EXCEPT ![r] = Append(@, Response(FALSE, message))]
  /\ UNCHANGED <<apiVars, owed>>
  /\ \/ UNCHANGED <<active_sequence, sequence_timer>>
     \/ active_sequence = None /\ active_sequence' = None /\ sequence_timer' = None

Refused(r) == \E message \in Messages : RefusedWith(r, message)

(* A mode is told why: it may not run, or it could not be started.         *)
ModeRefused(r, name) ==
  \E message \in Messages :
    /\ RefusedWith(r, message)
    /\ message \in Refusals <=>
         name \notin DOMAIN presets \ blocked_modes \/ active_sequence # None

(* The first step of a mode is published.                                  *)
Started(r, name) ==
  /\ active_sequence = None
  /\ name \in DOMAIN presets \ blocked_modes /\ Len(presets[name]) >= 1
  /\ \E api_id \in Int : sendRequest(Body(r, 1, api_id), Sequence)
  /\ active_sequence' = [name |-> name, index |-> 0, request_id |-> r,
                         last_message |-> "", ok |-> TRUE]
  /\ UNCHANGED <<sequence_timer, responses>>

(* The one request of another service is published.                        *)
Forwarded(r) ==
  /\ \E api_id \in Int : sendRequest(Body(r, 1, api_id), r)
  /\ UNCHANGED <<active_sequence, sequence_timer, responses>>

(* The active sequence ends with its answer.                               *)
Finished(ok, message) ==
  /\ active_sequence' = None
  /\ sequence_timer' = None
  /\ responses' = [responses EXCEPT ![active_sequence.request_id] =
                     Append(@, Response(ok, message))]
  /\ UNCHANGED apiVars

(* The timer publishes the next step.                                      *)
Stepped ==
  /\ active_sequence.index < Len(Steps(active_sequence))
  /\ \E api_id \in Int :
       sendRequest(Body(active_sequence.request_id, active_sequence.index + 1, api_id),
                   Sequence)
  /\ sequence_timer' = None
  /\ UNCHANGED <<active_sequence, responses>>

(* The timer finds nothing left to do, or cannot do it.                    *)
Ended ==
  /\ \/ /\ active_sequence.index >= Len(Steps(active_sequence))
        /\ Finished(active_sequence.ok, active_sequence.last_message)
     \/ Finished(FALSE, "could not be sent")
  /\ UNCHANGED owed

(* A step's callback lets the sequence go on.                              *)
StepTaken(o) ==
  LET run == active_sequence
  IN /\ o.result.ok
     /\ active_sequence' \in SequenceRun
     /\ active_sequence'.name = run.name
     /\ active_sequence'.index = run.index + 1
     /\ active_sequence'.request_id = run.request_id
     /\ active_sequence'.last_message \in {"accepted", "published"}
     /\ active_sequence'.ok = run.ok
     /\ sequence_timer' = steady + CurrentStep(run).wait_after
     /\ UNCHANGED <<apiVars, responses>>

(* Any other callback answers its call.                                    *)
Responded(r, result) ==
  /\ \E resp \in Responses :
       /\ responses' = [responses EXCEPT ![r] = Append(@, resp)]
       /\ resp.message \in SentMessages
       /\ resp.success => result.ok
       /\ resp.success /\ asked[r].service = "get_auto_recovery" =>
            IsFlag(result.data) /\ resp.enable = (result.data = "true")
  /\ UNCHANGED <<apiVars, active_sequence, sequence_timer>>

LEMMA PresetFacts ==
  ASSUME NEW name \in DOMAIN presets
  PROVE  /\ Len(presets[name]) \in Nat
         /\ DOMAIN presets[name] = 1 .. Len(presets[name])
         /\ presets[name] # <<>> => Len(presets[name]) >= 1
         /\ \A i \in 1 .. Len(presets[name]) : /\ presets[name][i].api_id \in Int
                                               /\ presets[name][i].wait_after \in Nat
<1>1. presets[name] \in Seq([api_id : Int, wait_after : Nat])
  BY SportAssumption
<1> DEFINE steps == presets[name]
<1>2. steps \in Seq([api_id : Int, wait_after : Nat])
  BY <1>1
<1> HIDE DEF steps
<1>3. /\ Len(steps) \in Nat /\ DOMAIN steps = 1 .. Len(steps)
      /\ steps # <<>> => Len(steps) >= 1
  BY <1>2
<1>4. \A i \in 1 .. Len(steps) : steps[i] \in [api_id : Int, wait_after : Nat]
  BY <1>2, ElementOfSeq
<1>5. \A i \in 1 .. Len(steps) : steps[i].api_id \in Int /\ steps[i].wait_after \in Nat
  BY <1>4
<1> QED
  BY <1>3, <1>5 DEF steps

LEMMA DescribeFacts ==
  ASSUME NEW result \in Result
  PROVE  /\ describe(result, wait_for_response) \in
              {"accepted", "published", "got no reply", "rejected"}
         /\ result.ok => describe(result, wait_for_response) \in {"accepted", "published"}
<1> DEFINE code == result.status_code
<1>1. code \in Int
  <2>1. code \in Codes \/ code = StatusOk \/ code = StatusTimeout
    BY DEF Result
  <2> HIDE DEF code
  <2>2. code = StatusTimeout => code \in Int
    BY DEF StatusTimeout
  <2>3. code = StatusOk => code \in Int
    BY DEF StatusOk
  <2> QED BY <2>1, <2>2, <2>3, ClientAssumption
<1>2. code < 0 \/ code >= 0
  BY <1>1
<1>3. wait_for_response \in BOOLEAN /\ result.ok \in BOOLEAN
  BY SportAssumption DEF Result
<1>4. CASE ~wait_for_response
  BY <1>4, Zenon DEF describe
<1>5. CASE wait_for_response /\ result.ok
  BY <1>5, Zenon DEF describe
<1>6. CASE wait_for_response /\ ~result.ok
  <2>1. describe(result, wait_for_response) \in {"got no reply", "rejected"}
    BY <1>2, <1>6, Zenon DEF describe
  <2> QED BY <1>6, <2>1
<1> QED
  BY <1>3, <1>4, <1>5, <1>6

LEMMA ApiIdsInt ==
  /\ SportApiId.SPEED_LEVEL \in Int /\ SportApiId.SWITCH_JOYSTICK \in Int
  /\ SportApiId.EULER \in Int /\ SportApiId.POSE \in Int
  /\ SportApiId.AUTO_RECOVERY_GET \in Int /\ SportApiId.MOVE \in Int
BY DEF SportApiId

LEMMA ModeEffect ==
  ASSUME NEW r \in Clients, NEW name, handleMode(r, name), owed = {}
  PROVE  ModeRefused(r, name) \/ Started(r, name)
<1> DEFINE mayNot == name \notin DOMAIN presets \ blocked_modes \/ active_sequence # None
<1>1. ASSUME NEW message, Refuse(r, message) PROVE RefusedWith(r, message)
  BY <1>1 DEF Refuse, send_response, RefusedWith
<1>2. ASSUME name \in DOMAIN presets \ blocked_modes, ~Busy, presets[name] # <<>>,
             startSequence(r, name)
      PROVE  RefusedWith(r, "could not be sent") \/ Started(r, name)
  <2> DEFINE run == [name |-> name, index |-> 0, request_id |-> r,
                     last_message |-> "", ok |-> TRUE]
  <2>1. advanceSequence(run, sequence_timer)
    BY <1>2 DEF startSequence
  <2>2. /\ run.name = name /\ run.index = 0 /\ run.request_id = r
        /\ Steps(run) = presets[name]
    BY DEF Steps
  <2>3. active_sequence = None
    BY <1>2 DEF Busy
  <2> DEFINE unsent == [run EXCEPT !.ok = FALSE, !.last_message = "could not be sent"]
  <2>4. /\ unsent.request_id = r /\ unsent.ok = FALSE
        /\ unsent.last_message = "could not be sent"
    OBVIOUS
  <2> HIDE DEF unsent
  <2> HIDE DEF run
  <2>5. Len(presets[name]) >= 1 /\ Len(presets[name]) \in Nat
        /\ presets[name][1].api_id \in Int
    BY <1>2, PresetFacts
  <2>6. ~(run.index >= Len(Steps(run))) /\ run.index + 1 = 1
        /\ CurrentStep(run).api_id = presets[name][1].api_id
    BY <2>2, <2>5 DEF CurrentStep
  <2>7. CASE /\ sendRequest(Body(run.request_id, run.index + 1, CurrentStep(run).api_id),
                            Sequence)
             /\ active_sequence' = run /\ sequence_timer' = sequence_timer
             /\ UNCHANGED responses
    BY <1>2, <2>2, <2>3, <2>5, <2>6, <2>7 DEF Started, run
  <2>8. CASE finishSequence(unsent) /\ UNCHANGED <<apiVars, owed>>
    BY <2>3, <2>4, <2>8 DEF finishSequence, send_response, RefusedWith
  <2> QED BY <2>1, <2>6, <2>7, <2>8 DEF advanceSequence, unsent
<1>3. ASSUME mayNot,
             \E message \in {"invalid mode", "blocked",
                             "another sequence is in progress"} : Refuse(r, message)
      PROVE  ModeRefused(r, name)
  <2>1. PICK message \in {"invalid mode", "blocked", "another sequence is in progress"} :
          RefusedWith(r, message)
    BY <1>1, <1>3
  <2>2. message \in Messages /\ message \in Refusals
    BY DEF Messages, Refusals
  <2> QED BY <1>3, <2>1, <2>2 DEF ModeRefused
<1>4. ASSUME ~mayNot, NEW message \in {"the preset has no steps", "could not be sent"},
             RefusedWith(r, message)
      PROVE  ModeRefused(r, name)
  <2>1. message \in Messages /\ message \notin Refusals
    BY DEF Messages, Refusals
  <2> QED BY <1>4, <2>1 DEF ModeRefused
<1>5. ASSUME name \in DOMAIN presets \ blocked_modes, ~Busy, startSequence(r, name)
      PROVE  ModeRefused(r, name) \/ Started(r, name)
  <2>1. ~mayNot
    BY <1>5 DEF Busy
  <2>2. CASE presets[name] = <<>>
    BY <1>1, <1>4, <1>5, <2>1, <2>2 DEF startSequence
  <2>3. CASE presets[name] # <<>>
    BY <1>2, <1>4, <1>5, <2>1, <2>3
  <2> QED BY <2>2, <2>3
<1> QED
  BY <1>3, <1>5 DEF handleMode, Busy

LEMMA ServiceCallEffect ==
  ASSUME NEW r \in Clients, NEW request \in Requests, ServiceCall(r, request)
  PROVE  /\ owed = {} /\ asked[r] = None
         /\ asked' = [asked EXCEPT ![r] = request]
         /\ UNCHANGED <<replies, steady, now>>
         /\ \/ /\ request.service = "mode"
               /\ ModeRefused(r, request.mode) \/ Started(r, request.mode)
            \/ /\ request.service # "mode"
               /\ Refused(r) \/ Forwarded(r)
<1> DEFINE Does == \/ /\ request.service = "mode"
                      /\ ModeRefused(r, request.mode) \/ Started(r, request.mode)
                   \/ /\ request.service # "mode"
                      /\ Refused(r) \/ Forwarded(r)
<1>1. ASSUME NEW message \in Messages, Refuse(r, message) PROVE Refused(r)
  BY <1>1 DEF Refuse, send_response, Refused, RefusedWith
<1>2. ASSUME NEW api_id \in Int, Forward(r, api_id) PROVE Refused(r) \/ Forwarded(r)
  BY <1>1, <1>2 DEF Forward, Forwarded, Messages
<1>3. ASSUME request.service = "mode", handleMode(r, request.mode), owed = {} PROVE Does
  BY <1>3, ModeEffect
<1>4. ASSUME request.service = "speed_level", handleSpeedLevel(r, request.level) PROVE Does
  BY <1>1, <1>2, <1>4, ApiIdsInt DEF handleSpeedLevel, Messages
<1>5. ASSUME request.service = "switch_joystick", handleSwitchJoystick(r) PROVE Does
  BY <1>2, <1>5, ApiIdsInt DEF handleSwitchJoystick
<1>6. ASSUME request.service = "euler", handleEuler(r) PROVE Does
  BY <1>2, <1>6, ApiIdsInt DEF handleEuler
<1>7. ASSUME request.service = "pose", handlePose(r) PROVE Does
  BY <1>2, <1>7, ApiIdsInt DEF handlePose
<1>8. ASSUME request.service = "get_auto_recovery", handleGetAutoRecovery(r) PROVE Does
  BY <1>1, <1>2, <1>8, ApiIdsInt DEF handleGetAutoRecovery, Messages
<1> QED
  BY <1>3, <1>4, <1>5, <1>6, <1>7, <1>8 DEF ServiceCall, Idle

LEMMA RunFacts ==
  ASSUME TypeOK, active_sequence # None
  PROVE  /\ active_sequence \in SequenceRun
         /\ active_sequence.name \in DOMAIN presets
         /\ active_sequence.index \in Nat
         /\ active_sequence.request_id \in Clients
         /\ active_sequence.last_message \in Messages
         /\ active_sequence.ok \in BOOLEAN
         /\ Len(Steps(active_sequence)) \in Nat
         /\ DOMAIN Steps(active_sequence) = 1 .. Len(Steps(active_sequence))
         /\ \A i \in 1 .. Len(Steps(active_sequence)) :
              /\ Steps(active_sequence)[i].api_id \in Int
              /\ Steps(active_sequence)[i].wait_after \in Nat
<1>1. active_sequence \in SequenceRun
  BY DEF TypeOK
<1>2. /\ active_sequence.name \in DOMAIN presets
      /\ active_sequence.index \in Nat
      /\ active_sequence.request_id \in Clients
      /\ active_sequence.last_message \in Messages
      /\ active_sequence.ok \in BOOLEAN
  BY <1>1 DEF SequenceRun
<1> QED
  BY <1>1, <1>2, PresetFacts DEF Steps

LEMMA TimerEffect ==
  ASSUME TypeOK, active_sequence # None, SequenceTimer
  PROVE  /\ owed = {} /\ sequence_timer \in Nat /\ sequence_timer <= steady
         /\ UNCHANGED <<replies, steady, now, asked>>
         /\ Stepped \/ Ended
<1> DEFINE run == active_sequence
           unsent == [run EXCEPT !.ok = FALSE, !.last_message = "could not be sent"]
<1>1. /\ owed = {} /\ sequence_timer \in Nat /\ sequence_timer <= steady
      /\ UNCHANGED <<replies, steady, now, asked>>
      /\ advanceSequence(run, None)
  BY DEF SequenceTimer, Idle, TypeOK
<1>2. run.index \in Nat /\ Len(Steps(run)) \in Nat /\ run \in SequenceRun
      /\ \A i \in 1 .. Len(Steps(run)) : Steps(run)[i].api_id \in Int
  BY RunFacts
<1>3. /\ unsent.request_id = run.request_id /\ unsent.ok = FALSE
      /\ unsent.last_message = "could not be sent"
  BY <1>2 DEF SequenceRun
<1> HIDE DEF unsent
<1>4. CASE /\ run.index >= Len(Steps(run)) /\ finishSequence(run)
           /\ UNCHANGED <<apiVars, owed>>
  BY <1>1, <1>4 DEF finishSequence, send_response, Finished, Ended
<1>5. CASE /\ run.index < Len(Steps(run))
           /\ sendRequest(Body(run.request_id, run.index + 1, CurrentStep(run).api_id),
                          Sequence)
           /\ active_sequence' = run /\ sequence_timer' = None
           /\ UNCHANGED responses
  <2>1. CurrentStep(run).api_id \in Int
    BY <1>2, <1>5 DEF CurrentStep
  <2> QED BY <1>1, <1>5, <2>1 DEF Stepped
<1>6. CASE finishSequence(unsent) /\ UNCHANGED <<apiVars, owed>>
  BY <1>1, <1>3, <1>6 DEF finishSequence, send_response, Finished, Ended
<1> QED
  BY <1>1, <1>4, <1>5, <1>6 DEF advanceSequence, unsent

LEMMA AfterStepFacts ==
  ASSUME TypeOK, active_sequence # None, NEW result \in Result
  PROVE  LET run == active_sequence
             after == AfterStep(run, result)
         IN /\ after \in SequenceRun
            /\ after.name = run.name /\ after.index = run.index + 1
            /\ after.request_id = run.request_id
            /\ after.ok = (run.ok /\ result.ok)
            /\ after.last_message = describe(result, wait_for_response)
<1> DEFINE run == active_sequence
           message == describe(result, wait_for_response)
           goesOn == run.ok /\ result.ok
           after == [run EXCEPT !.ok = goesOn, !.last_message = message,
                                !.index = run.index + 1]
<1>1. AfterStep(run, result) = after
  BY Zenon DEF AfterStep
<1>2. run \in SequenceRun /\ run.index + 1 \in Nat /\ goesOn \in BOOLEAN
  BY RunFacts
<1>3. message \in Messages
  <2>1. message \in {"accepted", "published", "got no reply", "rejected"}
    BY DescribeFacts
  <2> HIDE DEF message
  <2> QED BY <2>1 DEF Messages
<1> HIDE DEF goesOn, message, run
<1>4. /\ after \in SequenceRun
      /\ after.name = run.name /\ after.index = run.index + 1
      /\ after.request_id = run.request_id
      /\ after.ok = goesOn /\ after.last_message = message
  BY <1>2, <1>3 DEF SequenceRun
<1> HIDE DEF after
<1> QED
  BY <1>1, <1>4, Zenon DEF goesOn, message, run

LEMMA CallbackEffect ==
  ASSUME TypeOK, NEW o \in owed, RunCallback(o),
         o.callback = Sequence => active_sequence # None /\ active_sequence.ok
  PROVE  /\ owed' = owed \ {o} /\ UNCHANGED <<replies, steady, now, asked>>
         /\ \/ /\ o.callback = Sequence
               /\ StepTaken(o) \/ \E message \in SentMessages : Finished(FALSE, message)
            \/ o.callback \in Clients /\ Responded(o.callback, o.result)
<1> DEFINE run == active_sequence
           result == o.result
           text == describe(result, wait_for_response)
<1>1. /\ owed' = owed \ {o} /\ UNCHANGED <<apiVars, replies, steady, now, asked>>
      /\ \/ o.callback = Sequence /\ onStepResult(o.result)
         \/ /\ o.callback # Sequence /\ onResult(o.callback, o.result)
            /\ UNCHANGED <<active_sequence, sequence_timer>>
  BY DEF RunCallback
<1>2. result \in Result /\ o.callback \in Clients \cup {Sequence}
  BY DEF TypeOK, ClientTypeOK, Callbacks
<1>3. /\ text \in {"accepted", "published", "got no reply", "rejected"}
      /\ result.ok => text \in {"accepted", "published"}
  BY <1>2, DescribeFacts
<1>4. text \in SentMessages /\ text \in Messages
  <2> HIDE DEF text
  <2> QED BY <1>3 DEF SentMessages, Messages
<1>5. ASSUME o.callback = Sequence, onStepResult(result)
      PROVE  StepTaken(o) \/ \E message \in SentMessages : Finished(FALSE, message)
  <2> DEFINE after == AfterStep(run, result)
  <2>1. /\ after \in SequenceRun
        /\ after.name = run.name /\ after.index = run.index + 1
        /\ after.request_id = run.request_id
        /\ after.ok = (run.ok /\ result.ok)
        /\ after.last_message = text
    BY <1>2, <1>5, AfterStepFacts
  <2>2. \/ ~result.ok /\ finishSequence(after)
        \/ result.ok /\ create_wall_timer(after, steady + CurrentStep(run).wait_after)
    BY <1>5 DEF onStepResult
  <2>3. run.ok = TRUE
    BY <1>5, RunFacts
  <2> HIDE DEF after, text
  <2>4. CASE ~result.ok /\ finishSequence(after)
    <3>1. after.ok = FALSE
      BY <2>1, <2>4
    <3>2. Finished(FALSE, text)
      BY <1>1, <2>1, <2>4, <3>1 DEF finishSequence, send_response, Finished
    <3> QED BY <1>4, <3>2
  <2>5. CASE result.ok /\ create_wall_timer(after, steady + CurrentStep(run).wait_after)
    <3>1. text \in {"accepted", "published"} /\ after.ok = run.ok
      BY <1>3, <2>1, <2>3, <2>5
    <3> QED BY <1>1, <2>1, <2>3, <2>5, <3>1 DEF create_wall_timer, StepTaken
  <2> QED BY <2>2, <2>4, <2>5
<1>6. ASSUME o.callback # Sequence, onResult(o.callback, result),
             UNCHANGED <<active_sequence, sequence_timer>>
      PROVE  Responded(o.callback, result)
  <2> DEFINE r == o.callback
             flag == [Response(TRUE, text) EXCEPT !.enable = result.data = "true"]
  <2>1. \A success \in BOOLEAN, message \in Messages :
          /\ Response(success, message) \in Responses
          /\ Response(success, message).message = message
          /\ Response(success, message).success = success
    BY DEF Response, Responses
  <2>2. \A message \in Messages, enable \in BOOLEAN :
          LET resp == [Response(TRUE, message) EXCEPT !.enable = enable]
          IN resp \in Responses /\ resp.message = message /\ resp.enable = enable
    <3> HIDE DEF text
    <3> QED BY DEF Response, Responses
  <2>3. /\ flag \in Responses /\ flag.message = text
        /\ flag.enable = (result.data = "true")
    <3> DEFINE d == (result.data = "true")
    <3>1. d \in BOOLEAN
      OBVIOUS
    <3> QED BY <1>4, <2>2, <3>1, Zenon
  <2>4. result.ok \in BOOLEAN
    BY <1>2 DEF Result
  <2>5. \/ /\ asked[r].service # "get_auto_recovery" \/ ~result.ok
           /\ send_response(r, Response(result.ok, text))
        \/ /\ asked[r].service = "get_auto_recovery" /\ result.ok
           /\ IsFlag(result.data) /\ send_response(r, flag)
        \/ send_response(r, Response(FALSE, "could not read a flag"))
    BY <1>6 DEF onResult
  <2> HIDE DEF text, flag
  <2>6. "could not read a flag" \in Messages \cap SentMessages
    BY DEF Messages, SentMessages
  <2>7. ASSUME asked[r].service # "get_auto_recovery" \/ ~result.ok,
               send_response(r, Response(result.ok, text))
        PROVE  Responded(r, result)
    BY <1>1, <1>4, <1>6, <2>1, <2>4, <2>7 DEF send_response, Responded
  <2>8. ASSUME result.ok, IsFlag(result.data), send_response(r, flag)
        PROVE  Responded(r, result)
    BY <1>1, <1>4, <1>6, <2>3, <2>8 DEF send_response, Responded
  <2>9. ASSUME send_response(r, Response(FALSE, "could not read a flag"))
        PROVE  Responded(r, result)
    BY <1>1, <1>6, <2>1, <2>6, <2>9 DEF send_response, Responded
  <2> QED BY <2>5, <2>7, <2>8, <2>9
<1> QED
  BY <1>1, <1>2, <1>5, <1>6

-----------------------------------------------------------------------------
(* Sending, and answering.                                                 *)

(* The request is published under a new id, and its callback is entered    *)
(* under that id, or owed.                                                 *)
Sent(who, nth, callback) ==
  \E req :
    /\ requests' = requests \cup {req}
    /\ req.body.for = who /\ req.body.step = nth /\ req.body.at = steady
    /\ ~req.noreply
    /\ \A old \in requests : old.id < req.id
    /\ \/ /\ wait_for_response /\ owed' = {}
          /\ req.id \notin DOMAIN pending
          /\ DOMAIN pending' = DOMAIN pending \cup {req.id}
          /\ pending'[req.id].callback = callback
          /\ \A id \in DOMAIN pending : pending'[id] = pending[id]
       \/ /\ ~wait_for_response /\ pending' = pending
          /\ \E o : owed' = {o} /\ o.callback = callback

LEMMA SentFacts ==
  ASSUME TypeOK, IdsIssued, owed = {}, NEW who \in Clients, NEW nth \in Nat,
         NEW api_id \in Int, NEW callback \in Callbacks,
         sendRequest(Body(who, nth, api_id), callback),
         UNCHANGED <<replies, steady, now>>
  PROVE  ClientTypeOK(Callbacks, Bodies)' /\ IdsIssued' /\ Sent(who, nth, callback)
<1> DEFINE body == Body(who, nth, api_id)
           req == [id |-> nextId, body |-> body, noreply |-> FALSE]
           done == [id |-> nextId, callback |-> callback,
                    result |-> ApiResult(TRUE, StatusOk, NoData)]
<1>1. ClientTypeOK(Callbacks, Bodies)
  BY DEF TypeOK
<1>2. body \in Bodies /\ body.for = who /\ body.step = nth /\ body.at = steady
  BY <1>1 DEF Body, Bodies, ClientTypeOK
<1>3. /\ nextId \in Nat /\ nextId \notin DOMAIN pending
      /\ \A old \in requests : old.id < nextId
  BY <1>1, NextIdNew
<1>4. done \in [id : Nat, callback : Callbacks, result : Result] /\ done.callback = callback
  <2>1. ApiResult(TRUE, StatusOk, NoData) \in Result
    BY DEF ApiResult, Result
  <2> HIDE DEF body
  <2> QED BY <1>3, <2>1
<1>5. req.id = nextId /\ req.body = body /\ req.noreply = FALSE
  OBVIOUS
<1> HIDE DEF body
<1>6. CASE wait_for_response /\ call(body, callback) /\ UNCHANGED owed
  <2>1. CallEnters(body, callback)
    BY <1>1, <1>6, CallIsEntered
  <2>2. ClientTypeOK(Callbacks, Bodies)'
    BY <1>1, <1>2, <1>6, CallKeepsTypes
  <2>3. IdsIssued'
    <3>1. /\ publish(nextId, body, FALSE) /\ last_id' = nextId
          /\ DOMAIN pending' \subseteq DOMAIN pending \cup {nextId}
      BY <2>1 DEF CallEnters
    <3> QED BY <1>1, <3>1, PublishKeepsIds
  <2>4. /\ requests' = requests \cup {req}
        /\ DOMAIN pending' = DOMAIN pending \cup {nextId}
        /\ pending'[nextId].callback = callback
        /\ \A id \in DOMAIN pending : pending'[id] = pending[id]
    BY <2>1 DEF CallEnters, publish
  <2> HIDE DEF req
  <2> QED BY <1>2, <1>3, <1>5, <1>6, <2>2, <2>3, <2>4 DEF Sent
<1>7. CASE ~wait_for_response /\ send(body, FALSE) /\ owed' = {done}
  <2>1. publish(nextId, body, FALSE) /\ last_id' = nextId /\ UNCHANGED pending
    BY <1>7 DEF send
  <2>2. ClientTypeOK(Callbacks, Bodies)'
    <3>1. owed' \subseteq [id : Nat, callback : Callbacks, result : Result]
      BY <1>4, <1>7
    <3> QED BY <1>1, <1>2, <1>7, <3>1, SendOwingKeepsTypes
  <2>3. IdsIssued'
    BY <1>1, <2>1, PublishKeepsIds
  <2>4. requests' = requests \cup {req}
    BY <2>1 DEF publish
  <2> HIDE DEF req, done
  <2> QED BY <1>2, <1>3, <1>4, <1>5, <1>7, <2>1, <2>2, <2>3, <2>4 DEF Sent
<1> QED
  BY <1>6, <1>7 DEF sendRequest, body

LEMMA ResponseFacts ==
  ASSUME NEW success \in BOOLEAN, NEW message \in Messages
  PROVE  /\ Response(success, message) \in Responses
         /\ Response(success, message).success = success
         /\ Response(success, message).message = message
BY DEF Response, Responses

LEMMA AnswerFacts ==
  ASSUME TypeOK, NEW r \in Clients, NEW resp \in Responses, ~Answered(r),
         responses' = [responses EXCEPT ![r] = Append(@, resp)]
  PROVE  /\ responses' \in [Clients -> Seq(Responses)]
         /\ Len(responses'[r]) = 1 /\ responses'[r] # <<>> /\ responses'[r][1] = resp
         /\ \A s \in Clients : s # r => responses'[s] = responses[s]
<1>1. responses \in [Clients -> Seq(Responses)] /\ responses[r] = <<>>
  BY DEF TypeOK, Answered
<1>2. responses'[r] = Append(<<>>, resp)
  BY <1>1
<1>3. /\ Append(<<>>, resp) \in Seq(Responses) /\ Len(Append(<<>>, resp)) = 1
      /\ Append(<<>>, resp)[1] = resp /\ Append(<<>>, resp) # <<>>
  OBVIOUS
<1> QED
  BY <1>1, <1>2, <1>3

-----------------------------------------------------------------------------
(* The table and the callbacks owed.                                       *)

(* The callback, if it was expected, still is, and of the same request.    *)
Carried(callback) ==
  /\ Expected(callback) => Expected(callback)'
  /\ \A req \in requests : Concerns(req, callback) => Concerns(req, callback)'

LEMMA TableKept ==
  ASSUME PendingSound, requests \subseteq requests',
         DOMAIN pending' \subseteq DOMAIN pending,
         \A id \in DOMAIN pending' : pending'[id] = pending[id],
         \A callback : AwaitsReply(callback) => Carried(callback)
  PROVE  PendingSound'
<1>1. ASSUME NEW id \in DOMAIN pending', NEW callback, callback = pending'[id].callback
      PROVE  /\ Expected(callback)'
             /\ \E req \in requests' : req.id = id /\ Concerns(req, callback)'
  <2>1. id \in DOMAIN pending /\ pending[id].callback = callback
    BY <1>1
  <2>2. Expected(callback) /\ \E req \in requests : req.id = id /\ Concerns(req, callback)
    BY <2>1 DEF PendingSound
  <2>3. Carried(callback)
    BY <2>1 DEF AwaitsReply
  <2> QED BY <2>2, <2>3 DEF Carried
<1>2. \A i, j \in DOMAIN pending' : pending'[i].callback = pending'[j].callback => i = j
  BY DEF PendingSound
<1>3. ~wait_for_response => DOMAIN pending' = {}
  BY DEF PendingSound
<1> QED
  BY <1>1, <1>2, <1>3 DEF PendingSound, Expected, Concerns, Waiting, IsMode, Answered

(* A callback leaves the list of the owed ones, or none does.              *)
LEMMA OwedKept ==
  ASSUME OwedSound, owed' \subseteq owed,
         requests \subseteq requests', replies \subseteq replies',
         DOMAIN pending' \subseteq DOMAIN pending,
         \A id \in DOMAIN pending' : pending'[id] = pending[id],
         \A o \in owed' : \A callback : callback = o.callback => Carried(callback)
  PROVE  OwedSound'
<1>0. IdsApart' => IdsApart
  BY AcknowledgedStays
<1>1. ASSUME NEW o \in owed', NEW callback, callback = o.callback
      PROVE  /\ Expected(callback)'
             /\ ~(\E id \in DOMAIN pending' : pending'[id].callback = callback)
             /\ \E req \in requests' :
                  /\ Concerns(req, callback)'
                  /\ wait_for_response /\ o.result.ok /\ IdsApart' =>
                       \E msg \in replies' : /\ msg.to = req.body /\ msg.code = StatusOk
                                             /\ msg.data = o.result.data
  <2>1. o \in owed
    OBVIOUS
  <2>2. /\ Expected(callback) /\ ~AwaitsReply(callback)
        /\ \E req \in requests :
             /\ Concerns(req, callback)
             /\ wait_for_response /\ o.result.ok /\ IdsApart =>
                  \E msg \in replies : /\ msg.to = req.body /\ msg.code = StatusOk
                                       /\ msg.data = o.result.data
    BY <1>1, <2>1 DEF OwedSound
  <2>3. Carried(callback)
    BY <1>1
  <2> QED BY <1>0, <2>2, <2>3 DEF Carried, AwaitsReply
<1>2. \A o1, o2 \in owed' : o1.callback = o2.callback => o1 = o2
  BY DEF OwedSound
<1> QED
  BY <1>1, <1>2 DEF OwedSound, Expected, Concerns, Waiting, IsMode, Answered, AwaitsReply

(* A reply or the sweep moves callbacks from the table to the list.        *)
LEMMA HandOverKeepsTables ==
  ASSUME ClientTypeOK(Callbacks, Bodies), IdsIssued, PendingSound,
         NEW S, HandsOver(S), UNCHANGED bridgeVars
  PROVE  /\ PendingSound' /\ OwedSound'
         /\ \A callback : AwaitsReply(callback) \/ IsOwed(callback) <=>
                           AwaitsReply(callback)' \/ IsOwed(callback)'
<1>1. /\ S \subseteq DOMAIN pending /\ owed = {}
      /\ DOMAIN pending' = DOMAIN pending \ S
      /\ \A id \in DOMAIN pending' : pending'[id] = pending[id]
      /\ UNCHANGED <<requests, replies>>
      /\ IdsApart' => IdsApart
  BY AcknowledgedStays DEF HandsOver
<1>2. /\ \A o \in owed' : o.id \in S /\ o.callback = pending[o.id].callback
      /\ \A id \in S : \E o \in owed' : o.id = id
      /\ \A o1, o2 \in owed' : o1.id = o2.id => o1 = o2
  BY DEF HandsOver
<1>3. ASSUME NEW o \in owed', o.result.ok
      PROVE  \E msg \in replies : /\ msg.id = o.id /\ msg.code = StatusOk
                                   /\ msg.data = o.result.data
  BY <1>3 DEF HandsOver
<1>4. ASSUME NEW callback PROVE Carried(callback)
  BY <1>1, Zenon DEF Carried, Expected, Concerns, Waiting, IsMode, Answered, bridgeVars
<1>5. PendingSound'
  BY <1>1, <1>4, TableKept
<1>6. ASSUME NEW o \in owed', NEW callback, callback = o.callback
      PROVE  /\ Expected(callback)'
             /\ ~(\E id \in DOMAIN pending' : pending'[id].callback = callback)
             /\ \E req \in requests' :
                  /\ Concerns(req, callback)'
                  /\ wait_for_response /\ o.result.ok /\ IdsApart' =>
                       \E msg \in replies' : /\ msg.to = req.body /\ msg.code = StatusOk
                                             /\ msg.data = o.result.data
  <2>1. o.id \in DOMAIN pending /\ o.id \notin DOMAIN pending'
        /\ pending[o.id].callback = callback
    BY <1>1, <1>2, <1>6
  <2>2. PICK req \in requests : req.id = o.id /\ Concerns(req, callback)
    BY <2>1 DEF PendingSound
  <2>3. Expected(callback)' /\ Concerns(req, callback)'
    BY <1>4, <2>1, <2>2 DEF PendingSound, Carried
  <2>4. \A id \in DOMAIN pending : pending[id].callback = callback => id = o.id
    BY <2>1 DEF PendingSound
  <2>5. ASSUME o.result.ok, IdsApart
        PROVE  \E msg \in replies : /\ msg.to = req.body /\ msg.code = StatusOk
                                     /\ msg.data = o.result.data
    <3>1. PICK msg \in replies : /\ msg.id = o.id /\ msg.code = StatusOk
                                 /\ msg.data = o.result.data
      BY <1>3, <2>5
    <3>2. msg.id = req.id
      BY <2>2, <3>1
    <3>3. msg.to = req.body
      BY <2>5, <3>2, ReplyToItsRequest
    <3> QED BY <3>1, <3>3
  <2> QED BY <1>1, <2>1, <2>2, <2>3, <2>4, <2>5
<1>7. \A o1, o2 \in owed' : o1.callback = o2.callback => o1 = o2
  BY <1>1, <1>2 DEF PendingSound
<1>8. OwedSound'
  BY <1>6, <1>7 DEF OwedSound, Expected, Concerns, Waiting, IsMode, Answered, AwaitsReply
<1>9. ASSUME NEW callback
      PROVE  AwaitsReply(callback) \/ IsOwed(callback) <=>
             AwaitsReply(callback)' \/ IsOwed(callback)'
  <2>1. ASSUME NEW id \in DOMAIN pending, pending[id].callback = callback
        PROVE  AwaitsReply(callback)' \/ IsOwed(callback)'
    <3>1. CASE id \in S
      BY <1>2, <2>1, <3>1 DEF IsOwed
    <3>2. CASE id \notin S
      BY <1>1, <2>1, <3>2 DEF AwaitsReply
    <3> QED BY <3>1, <3>2
  <2>2. ASSUME NEW o \in owed', o.callback = callback PROVE AwaitsReply(callback)
    BY <1>1, <1>2, <2>2 DEF AwaitsReply
  <2>3. ASSUME NEW id \in DOMAIN pending', pending'[id].callback = callback
        PROVE  AwaitsReply(callback)
    BY <1>1, <2>3 DEF AwaitsReply
  <2>4. ~IsOwed(callback)
    BY <1>1 DEF IsOwed
  <2> QED BY <2>1, <2>2, <2>3, <2>4 DEF AwaitsReply, IsOwed
<1> QED
  BY <1>5, <1>8, <1>9

(* A request is sent whose result its callback can take.                   *)
LEMMA SentKeepsTables ==
  ASSUME PendingSound, owed = {}, NEW who, NEW nth, NEW callback,
         Sent(who, nth, callback), ~AwaitsReply(callback), Expected(callback)',
         \A req : req.body.for = who /\ req.body.step = nth => Concerns(req, callback)',
         \A other : AwaitsReply(other) => Carried(other)
  PROVE  /\ PendingSound' /\ OwedSound'
         /\ AwaitsReply(callback)' \/ IsOwed(callback)'
         /\ \A other : other # callback =>
              (AwaitsReply(other) <=> AwaitsReply(other)') /\ ~IsOwed(other)'
<1>1. PICK req :
        /\ requests' = requests \cup {req}
        /\ req.body.for = who /\ req.body.step = nth
        /\ \/ /\ wait_for_response /\ owed' = {}
              /\ req.id \notin DOMAIN pending
              /\ DOMAIN pending' = DOMAIN pending \cup {req.id}
              /\ pending'[req.id].callback = callback
              /\ \A id \in DOMAIN pending : pending'[id] = pending[id]
           \/ /\ ~wait_for_response /\ pending' = pending
              /\ \E o : owed' = {o} /\ o.callback = callback
  BY DEF Sent
<1>2. Concerns(req, callback)'
  BY <1>1
<1>3. CASE wait_for_response
  <2>1. /\ owed' = {} /\ req.id \notin DOMAIN pending
        /\ DOMAIN pending' = DOMAIN pending \cup {req.id}
        /\ pending'[req.id].callback = callback
        /\ \A id \in DOMAIN pending : pending'[id] = pending[id]
    BY <1>1, <1>3
  <2>2. ASSUME NEW id \in DOMAIN pending', NEW other, other = pending'[id].callback
        PROVE  /\ Expected(other)'
               /\ \E r \in requests' : r.id = id /\ Concerns(r, other)'
    <3>1. CASE id = req.id
      BY <1>1, <1>2, <2>1, <2>2, <3>1
    <3>2. CASE id # req.id
      <4>1. id \in DOMAIN pending /\ pending[id].callback = other
        BY <2>1, <2>2, <3>2
      <4>2. Expected(other) /\ \E r \in requests : r.id = id /\ Concerns(r, other)
        BY <4>1 DEF PendingSound
      <4>3. Carried(other)
        BY <4>1 DEF AwaitsReply
      <4> QED BY <1>1, <4>2, <4>3 DEF Carried
    <3> QED BY <3>1, <3>2
  <2>3. \A i, j \in DOMAIN pending' : pending'[i].callback = pending'[j].callback => i = j
    BY <2>1 DEF PendingSound, AwaitsReply
  <2>4. PendingSound'
    BY <1>3, <2>2, <2>3 DEF PendingSound, Expected, Concerns, Waiting, IsMode, Answered
  <2>5. OwedSound'
    BY <2>1, Zenon DEF OwedSound
  <2> QED BY <2>1, <2>4, <2>5 DEF AwaitsReply, IsOwed
<1>4. CASE ~wait_for_response
  <2>1. pending' = pending /\ DOMAIN pending = {}
    BY <1>1, <1>4 DEF PendingSound
  <2>2. PICK o : owed' = {o} /\ o.callback = callback
    BY <1>1, <1>4
  <2>3. PendingSound'
    BY <1>4, <2>1, Zenon DEF PendingSound
  <2>4. ASSUME NEW due \in owed', NEW other, other = due.callback
        PROVE  /\ Expected(other)'
               /\ ~(\E id \in DOMAIN pending' : pending'[id].callback = other)
               /\ \E r \in requests' : Concerns(r, other)'
    BY <1>1, <1>2, <2>1, <2>2, <2>4
  <2>5. OwedSound'
    BY <1>4, <2>2, <2>4
       DEF OwedSound, Expected, Concerns, Waiting, IsMode, Answered, AwaitsReply
  <2> QED BY <2>1, <2>2, <2>3, <2>5 DEF AwaitsReply, IsOwed
<1> QED
  BY <1>3, <1>4

-----------------------------------------------------------------------------
(* What was asked, answered, published and replied stays so: what a step   *)
(* of the system has to show is only what it adds.                         *)

Onward ==
  /\ \A r \in Clients : asked[r] # None => asked'[r] = asked[r]
  /\ \A r \in Clients : Answered(r) => responses'[r] = responses[r]
  /\ requests \subseteq requests'
  /\ replies \subseteq replies'
  /\ steady <= steady'

LEMMA RequestType ==
  ASSUME TypeOK, NEW req \in requests
  PROVE  /\ req.id \in Nat /\ req.body \in Bodies
         /\ req.body.for \in Clients \/ req.body.for = CmdVel
         /\ req.body.step \in Nat /\ req.body.at \in Nat /\ steady \in Nat
<1>1. req.id \in Nat /\ req.body \in Bodies /\ steady \in Nat
  BY ClientAssumption DEF TypeOK, ClientTypeOK
<1>2. /\ req.body.for \in Clients \cup {CmdVel} /\ req.body.step \in Nat
      /\ req.body.at \in 0 .. MaxSteady
  BY <1>1 DEF Bodies
<1> QED
  BY <1>1, <1>2, ClientAssumption

LEMMA SuccessKept ==
  ASSUME SuccessMeansAccepted, EveryCallTracked, Onward,
         \A r \in Clients : ~Answered(r) => SuccessIsEarned(r)'
  PROVE  SuccessMeansAccepted'
<1> SUFFICES ASSUME NEW r \in Clients PROVE SuccessIsEarned(r)'
  BY DEF SuccessMeansAccepted
<1>1. CASE ~Answered(r)
  BY <1>1
<1>2. CASE Answered(r)
  <2>1. asked[r] # None
    BY <1>2 DEF EveryCallTracked, Tracked
  <2>2. /\ responses'[r] = responses[r] /\ asked'[r] = asked[r]
        /\ requests \subseteq requests' /\ replies \subseteq replies'
    BY <1>2, <2>1 DEF Onward
  <2>3. SuccessIsEarned(r)
    BY DEF SuccessMeansAccepted
  <2>4. IsMode(r)' <=> IsMode(r)
    BY <2>2 DEF IsMode
  <2>5. ASSUME NEW nth, StepAccepted(r, nth) PROVE StepAccepted(r, nth)'
    BY <2>2, <2>5, AcknowledgedStays DEF StepAccepted
  <2>6. IdsApart' => IdsApart
    BY <2>2, AcknowledgedStays
  <2> QED BY <1>2, <2>2, <2>3, <2>4, <2>5, <2>6 DEF SuccessIsEarned, Answered
<1> QED
  BY <1>1, <1>2

LEMMA RequestsKept ==
  ASSUME TypeOK, RequestsSound, Onward, steady' \in Nat,
         \A req \in requests' : req \in requests \/ RequestSound(req)',
         \A r \in Clients : asked[r] # None /\ ~Answered(r) /\ Answered(r)' =>
                              responses'[r][1].message \in SentMessages
  PROVE  RequestsSound'
<1> SUFFICES ASSUME NEW req \in requests PROVE RequestSound(req)'
  BY DEF RequestsSound
<1> DEFINE r == req.body.for
<1>1. RequestSound(req)
  BY DEF RequestsSound
<1>2. /\ r \in Clients \/ r = CmdVel
      /\ req.body.at \in Nat /\ steady \in Nat /\ steady' \in Nat /\ steady <= steady'
  BY RequestType DEF Onward
<1>3. CASE r = CmdVel
  BY <1>1, <1>2, <1>3 DEF RequestSound
<1>4. CASE r # CmdVel
  <2>1. r \in Clients /\ asked[r] # None
    BY <1>1, <1>2, <1>4 DEF RequestSound
  <2>2. asked'[r] = asked[r] /\ (IsMode(r)' <=> IsMode(r))
    BY <2>1 DEF Onward, IsMode
  <2>3. Answered(r)' => responses'[r][1].message \in SentMessages
    <3>1. CASE Answered(r)
      <4>1. responses'[r] = responses[r]
        BY <2>1, <3>1 DEF Onward
      <4>2. responses[r][1].message \in SentMessages
        BY <1>1, <1>4, <3>1 DEF RequestSound
      <4> QED BY <4>1, <4>2
    <3>2. CASE ~Answered(r)
      BY <2>1, <3>2
    <3> QED BY <3>1, <3>2
  <2> QED BY <1>1, <1>2, <1>4, <2>1, <2>2, <2>3 DEF RequestSound
<1> QED
  BY <1>3, <1>4

LEMMA StepsKept ==
  ASSUME TypeOK, RequestsSound, StepsFollow, Onward,
         \A req \in requests' : req \in requests \/ FollowsItsStep(req)'
  PROVE  StepsFollow'
<1> SUFFICES ASSUME NEW req \in requests, req.body.for \in Clients, req.body.step > 1
             PROVE  FollowsItsStep(req)'
  BY DEF StepsFollow, FollowsItsStep
<1> DEFINE r == req.body.for
<1>1. RequestSound(req) /\ FollowsItsStep(req)
  BY DEF RequestsSound, StepsFollow
<1>2. asked[r] # None
  BY <1>1, SportAssumption DEF RequestSound
<1>3. asked'[r] = asked[r] /\ requests \subseteq requests' /\ replies \subseteq replies'
  BY <1>2 DEF Onward
<1>4. PICK prev \in requests :
        /\ prev.body.for = r /\ prev.body.step = req.body.step - 1 /\ prev.id < req.id
        /\ prev.body.at + presets[asked[r].mode][prev.body.step].wait_after <= req.body.at
        /\ wait_for_response => Acknowledged(prev.body)
  BY <1>1 DEF FollowsItsStep
<1>5. wait_for_response => Acknowledged(prev.body)'
  BY <1>3, <1>4, AcknowledgedStays
<1> QED
  BY <1>3, <1>4, <1>5 DEF FollowsItsStep

(* The request published last ends no interruption of its sequence.        *)
LEMMA UninterruptedKept ==
  ASSUME TypeOK, RequestsSound, Uninterrupted, Onward, NEW req,
         requests' = requests \cup {req}, req.id \in Nat,
         \A old \in requests : old.id < req.id,
         \A first, other \in requests :
           /\ first.body.for = req.body.for /\ req.body.for \in Clients
           /\ other.body.for \in Clients \ {req.body.for} /\ IsMode(other.body.for)
           => other.id < first.id
  PROVE  Uninterrupted'
<1> SUFFICES ASSUME NEW first \in requests', NEW other \in requests',
                    NEW last \in requests',
                    last.body.for = first.body.for, first.body.for # other.body.for,
                    first.body.for \in Clients, other.body.for \in Clients,
                    first.id < other.id, other.id < last.id
             PROVE  ~IsMode(other.body.for)'
  BY Zenon DEF Uninterrupted, NoModeBetween
<1>1. \A old \in requests : old.id \in Nat
  BY RequestType
<1>2. other \in requests /\ first \in requests
  BY <1>1
<1>3. asked[other.body.for] # None
  BY <1>2, SportAssumption DEF RequestsSound, RequestSound
<1>4. IsMode(other.body.for)' <=> IsMode(other.body.for)
  BY <1>3 DEF Onward, IsMode
<1>5. CASE last \in requests
  BY <1>2, <1>4, <1>5 DEF Uninterrupted, NoModeBetween
<1>6. CASE last = req
  BY <1>1, <1>2, <1>4, <1>6
<1> QED
  BY <1>5, <1>6

LEMMA UninterruptedUnchanged ==
  ASSUME RequestsSound, Uninterrupted, Onward, UNCHANGED requests
  PROVE  Uninterrupted'
<1> SUFFICES ASSUME NEW first \in requests, NEW other \in requests, NEW last \in requests,
                    other.body.for \in Clients, NoModeBetween(first, other, last)
             PROVE  NoModeBetween(first, other, last)'
  BY Zenon DEF Uninterrupted, NoModeBetween
<1>1. asked[other.body.for] # None
  BY SportAssumption DEF RequestsSound, RequestSound
<1>2. IsMode(other.body.for)' <=> IsMode(other.body.for)
  BY <1>1 DEF Onward, IsMode
<1> QED
  BY <1>2 DEF NoModeBetween

-----------------------------------------------------------------------------
(* The active sequence.                                                    *)

(* An unanswered mode call is the one of the active sequence.              *)
LEMMA WaitsForItsSequence ==
  ASSUME PendingSound, OwedSound, EveryCallTracked, NEW r \in Clients,
         IsMode(r), ~Answered(r)
  PROVE  active_sequence # None /\ active_sequence.request_id = r
<1>1. r # Sequence /\ ~Waiting(r)
  BY SportAssumption DEF Waiting
<1>2. ~Expected(r)
  BY <1>1 DEF Expected
<1>3. ~AwaitsReply(r)
  BY <1>2 DEF PendingSound, AwaitsReply
<1>4. ~IsOwed(r)
  BY <1>2 DEF OwedSound, IsOwed
<1> QED
  BY <1>3, <1>4 DEF EveryCallTracked, Tracked, IsMode

LEMMA RunKept ==
  ASSUME TypeOK, RunSound, RequestsSound, Onward,
         UNCHANGED <<active_sequence, sequence_timer>>,
         \A r \in Clients : asked[r] # None /\ IsMode(r) /\ ~Answered(r) => ~Answered(r)',
         \A req \in requests' \ requests :
           req.body.for \in Clients =>
             asked[req.body.for] = None /\ ~IsMode(req.body.for)'
  PROVE  RunSound'
<1> SUFFICES ASSUME active_sequence # None PROVE RunSound'
  BY DEF RunSound
<1> DEFINE run == active_sequence
           r == run.request_id
<1>1. /\ run.ok
      /\ run.name \notin blocked_modes
      /\ IsMode(r) /\ asked[r].mode = run.name /\ ~Answered(r)
      /\ Published \in 1 .. Len(Steps(run))
      /\ run.index > 0 => run.last_message \in {"accepted", "published"}
  BY DEF RunSound
<1>2. /\ \A nth \in 1 .. run.index : \E req \in requests : StepDone(req, r, nth)
      /\ sequence_timer # None =>
           \E req \in requests :
             /\ StepDone(req, r, run.index)
             /\ req.body.at + Steps(run)[run.index].wait_after <= sequence_timer
  BY DEF RunSound
<1>3. \A req \in requests : req.body.for = r =>
        /\ req.body.step \in 1 .. Published
        /\ \A other \in requests :
             other.body.for \in Clients \ {r} /\ IsMode(other.body.for)
               => other.id < req.id
  BY DEF RunSound
<1>4. r \in Clients /\ asked[r] # None
  BY <1>1, RunFacts DEF IsMode
<1>5. /\ asked'[r] = asked[r] /\ ~Answered(r)' /\ IsMode(r)'
      /\ requests \subseteq requests' /\ replies \subseteq replies'
      /\ active_sequence' = run /\ sequence_timer' = sequence_timer
  BY <1>1, <1>4 DEF Onward, IsMode
<1>6. ASSUME NEW req \in requests, NEW nth, StepDone(req, r, nth)
      PROVE  StepDone(req, r, nth)'
  BY <1>5, <1>6, AcknowledgedStays DEF StepDone
<1>7. Published' = Published
  BY <1>5 DEF Published
<1>8. ASSUME NEW req \in requests', req.body.for = r
      PROVE  /\ req.body.step \in 1 .. Published
             /\ \A other \in requests' :
                  other.body.for \in Clients \ {r} /\ IsMode(other.body.for)'
                    => other.id < req.id
  <2>1. req \in requests
    BY <1>4, <1>8
  <2>2. ASSUME NEW other \in requests', other.body.for \in Clients \ {r},
               IsMode(other.body.for)'
        PROVE  other.id < req.id
    <3>1. other \in requests
      BY <2>2
    <3>2. asked[other.body.for] # None
      BY <3>1, <2>2, SportAssumption DEF RequestsSound, RequestSound
    <3>3. IsMode(other.body.for)
      BY <2>2, <3>2 DEF Onward, IsMode
    <3> QED BY <1>3, <1>8, <2>1, <2>2, <3>1, <3>3
  <2> QED BY <1>3, <1>8, <2>1, <2>2
<1>9. /\ \A nth \in 1 .. run.index : \E req \in requests' : StepDone(req, r, nth)'
      /\ sequence_timer # None =>
           \E req \in requests' :
             /\ StepDone(req, r, run.index)'
             /\ req.body.at + Steps(run)[run.index].wait_after <= sequence_timer
  BY <1>2, <1>5, <1>6
<1> QED
  BY <1>1, <1>5, <1>7, <1>8, <1>9 DEF RunSound, Steps, StepDone, IsMode

(* The steps published, where none is added.                               *)
LEMMA CountKept ==
  ASSUME TypeOK, RequestsSound, StepsCounted, Onward, IsFiniteSet(requests'),
         \A req \in requests' \ requests :
           req.body.for \in Clients => ~IsMode(req.body.for)',
         active_sequence' # None =>
           /\ active_sequence # None /\ Published' = Published
           /\ active_sequence'.request_id = active_sequence.request_id
  PROVE  StepsCounted'
<1>1. ASSUME NEW r \in Clients PROVE StepsOf(r)' = StepsOf(r)
  <2>1. ASSUME NEW req \in StepsOf(r) PROVE req \in StepsOf(r)'
    BY <2>1 DEF StepsOf, IsMode, Onward
  <2>2. ASSUME NEW req \in StepsOf(r)' PROVE req \in StepsOf(r)
    <3>1. req \in requests /\ req.body.for = r /\ IsMode(r)'
      BY <2>2 DEF StepsOf
    <3>2. asked[r] # None
      BY <3>1, SportAssumption DEF RequestsSound, RequestSound
    <3> QED BY <3>1, <3>2 DEF StepsOf, IsMode, Onward
  <2> QED BY <2>1, <2>2
<1>2. \A r \in Clients :
        \A req \in StepsOf(r)' : req.body.step \in 1 .. Cardinality(StepsOf(r)')
  BY <1>1 DEF StepsCounted
<1>3. ASSUME active_sequence' # None, NEW r, r = active_sequence.request_id
      PROVE  Cardinality(StepsOf(r)') = Published'
  BY <1>1, <1>3, RunFacts DEF StepsCounted
<1> QED
  BY <1>2, <1>3 DEF StepsCounted, StepsOf, IsMode

(* And where the next step of the active sequence is.                      *)
LEMMA CountNext ==
  ASSUME TypeOK, RequestsSound, StepsCounted, Onward, NEW req, NEW r \in Clients,
         requests' = requests \cup {req}, req \notin requests,
         req.body.for = r, IsMode(r)', req.body.step = Cardinality(StepsOf(r)) + 1,
         active_sequence' # None, active_sequence'.request_id = r,
         Published' = req.body.step
  PROVE  StepsCounted'
<1>1. ASSUME NEW s \in Clients, s # r PROVE StepsOf(s)' = StepsOf(s)
  <2>1. ASSUME NEW q \in StepsOf(s) PROVE q \in StepsOf(s)'
    BY <2>1 DEF StepsOf, IsMode, Onward
  <2>2. ASSUME NEW q \in StepsOf(s)' PROVE q \in StepsOf(s)
    <3>1. q \in requests /\ q.body.for = s /\ IsMode(s)'
      BY <1>1, <2>2 DEF StepsOf
    <3>2. asked[s] # None
      BY <3>1, SportAssumption DEF RequestsSound, RequestSound
    <3> QED BY <3>1, <3>2 DEF StepsOf, IsMode, Onward
  <2> QED BY <2>1, <2>2
<1>2. StepsOf(r)' = StepsOf(r) \cup {req}
  <2>1. \A q \in requests : q.body.for = r => asked[r] # None
    BY SportAssumption DEF RequestsSound, RequestSound
  <2> QED BY <2>1 DEF StepsOf, IsMode, Onward
<1>3. /\ IsFiniteSet(requests) /\ IsFiniteSet(requests')
      /\ IsFiniteSet(StepsOf(r)) /\ Cardinality(StepsOf(r)) \in Nat
  <2>1. IsFiniteSet(requests) /\ StepsOf(r) \subseteq requests
    BY DEF StepsCounted, StepsOf
  <2> QED BY <2>1, FS_AddElement, FS_Subset, FS_CardinalityType
<1>4. Cardinality(StepsOf(r)') = Cardinality(StepsOf(r)) + 1
  <2>1. req \notin StepsOf(r)
    BY DEF StepsOf
  <2> QED BY <1>2, <1>3, <2>1, FS_AddElement
<1>5. ASSUME NEW s \in Clients, NEW q \in StepsOf(s)'
      PROVE  q.body.step \in 1 .. Cardinality(StepsOf(s)')
  <2>1. CASE s # r
    BY <1>1, <1>5, <2>1 DEF StepsCounted
  <2>2. CASE s = r
    <3>1. q \in StepsOf(r) => q.body.step \in 1 .. Cardinality(StepsOf(r))
      BY DEF StepsCounted
    <3>2. q \in StepsOf(r) \/ q = req
      BY <1>2, <1>5, <2>2
    <3> QED BY <1>3, <1>4, <2>2, <3>1, <3>2
  <2> QED BY <2>1, <2>2
<1>6. Cardinality(StepsOf(r)') = Published'
  BY <1>4
<1> QED
  BY <1>3, <1>5, <1>6 DEF StepsCounted, StepsOf, IsMode

-----------------------------------------------------------------------------
(* Each action keeps the invariant.                                        *)

LEMMA IsCarried ==
  ASSUME TypeOK, NEW callback \in Callbacks,
         callback = Sequence => UNCHANGED active_sequence,
         callback # Sequence /\ Waiting(callback) =>
           asked'[callback] = asked[callback] /\ responses'[callback] = responses[callback]
  PROVE  Carried(callback)
<1>1. CASE callback = Sequence
  BY <1>1 DEF Carried, Expected, Concerns
<1>2. CASE callback # Sequence
  BY <1>2 DEF Carried, Expected, Concerns, Waiting, IsMode, Answered
<1> QED
  BY <1>1, <1>2

LEMMA AwaitedFacts ==
  ASSUME TypeOK, PendingSound, NEW callback, AwaitsReply(callback)
  PROVE  callback \in Callbacks /\ Expected(callback)
<1>1. PICK id \in DOMAIN pending : pending[id].callback = callback
  BY DEF AwaitsReply
<1> QED
  BY <1>1 DEF PendingSound, TypeOK, ClientTypeOK

LEMMA TrackedKept ==
  ASSUME NEW r \in Clients, Tracked(r), asked'[r] = asked[r], responses'[r] = responses[r],
         Waiting(r) /\ AwaitsReply(r) => AwaitsReply(r)' \/ IsOwed(r)',
         Waiting(r) /\ IsOwed(r) => IsOwed(r)',
         active_sequence # None /\ active_sequence.request_id = r /\ ~Answered(r) =>
           active_sequence' # None /\ active_sequence'.request_id = r,
         PendingSound, OwedSound
  PROVE  Tracked(r)'
<1>1. r # Sequence
  BY SportAssumption
<1>2. AwaitsReply(r) => Waiting(r)
  BY <1>1 DEF AwaitsReply, PendingSound, Expected
<1>3. IsOwed(r) => Waiting(r)
  BY <1>1 DEF IsOwed, OwedSound, Expected
<1> QED
  BY <1>2, <1>3 DEF Tracked, Answered

(* A call that has just come has no history.                               *)
LEMMA NewCallFacts ==
  ASSUME IInv, NEW r \in Clients, NEW request \in Requests, asked[r] = None,
         asked' = [asked EXCEPT ![r] = request]
  PROVE  /\ ~Answered(r) /\ responses[r] = <<>> /\ ~AwaitsReply(r)
         /\ \A req \in requests : req.body.for # r
         /\ active_sequence # None => active_sequence.request_id # r
         /\ asked' \in [Clients -> Requests \cup {None}]
         /\ asked'[r] = request /\ request # None
         /\ \A s \in Clients : s # r => asked'[s] = asked[s]
         /\ r # Sequence /\ r # CmdVel
<1>1. TypeOK /\ PendingSound /\ RunSound /\ RequestsSound /\ EveryCallTracked
  BY DEF IInv
<1>2. r # Sequence /\ r # CmdVel /\ request # None
  BY SportAssumption
<1>3. ~Answered(r) /\ responses[r] = <<>>
  BY <1>1 DEF EveryCallTracked, Tracked, Answered
<1>4. ~AwaitsReply(r)
  BY <1>1, <1>2, AwaitedFacts DEF Expected, Waiting
<1>5. \A req \in requests : req.body.for # r
  BY <1>1, <1>2 DEF RequestsSound, RequestSound
<1>6. active_sequence # None => active_sequence.request_id # r
  BY <1>1 DEF RunSound, IsMode
<1>7. asked \in [Clients -> Requests \cup {None}]
  BY <1>1 DEF TypeOK
<1> QED
  BY <1>2, <1>3, <1>4, <1>5, <1>6, <1>7

LEMMA RefusedKeeps ==
  ASSUME IInv, NEW r \in Clients, NEW request \in Requests, owed = {},
         asked[r] = None, asked' = [asked EXCEPT ![r] = request], Refused(r),
         UNCHANGED <<replies, steady, now>>
  PROVE  IInv'
<1>1. /\ TypeOK /\ IdsIssued /\ PendingSound /\ OwedSound /\ SequenceCarriedOn
      /\ RunSound /\ RequestsSound /\ EveryCallTracked
      /\ SuccessMeansAccepted /\ StepsFollow /\ Uninterrupted /\ StepsCounted
  BY DEF IInv
<1>2. /\ UNCHANGED <<pending, last_id, owed, requests, replies, steady, now>>
      /\ UNCHANGED <<active_sequence, sequence_timer>>
  BY <1>1 DEF Refused, RefusedWith, apiVars, SequenceCarriedOn
<1>3. /\ ~Answered(r) /\ ~AwaitsReply(r)
      /\ \A req \in requests : req.body.for # r
      /\ active_sequence # None => active_sequence.request_id # r
      /\ asked' \in [Clients -> Requests \cup {None}]
      /\ asked'[r] # None
      /\ \A s \in Clients : s # r => asked'[s] = asked[s]
  BY NewCallFacts
<1>4. PICK message \in Messages :
        responses' = [responses EXCEPT ![r] = Append(@, Response(FALSE, message))]
  BY DEF Refused, RefusedWith
<1>5. /\ responses' \in [Clients -> Seq(Responses)]
      /\ Len(responses'[r]) = 1 /\ responses'[r] # <<>>
      /\ responses'[r][1].success = FALSE
      /\ \A s \in Clients : s # r => responses'[s] = responses[s]
  <2> DEFINE resp == Response(FALSE, message)
  <2>1. resp \in Responses /\ resp.success = FALSE
    BY ResponseFacts
  <2>2. responses' = [responses EXCEPT ![r] = Append(@, resp)]
    BY <1>4
  <2> HIDE DEF resp
  <2> QED BY <1>1, <1>3, <2>1, <2>2, AnswerFacts
<1>6. TypeOK'
  BY <1>1, <1>2, <1>3, <1>5 DEF TypeOK, ClientTypeOK
<1>7. Onward
  BY <1>2, <1>3, <1>5, <1>6, ClientAssumption DEF Onward, TypeOK, ClientTypeOK
<1>8. ASSUME NEW callback, AwaitsReply(callback) PROVE Carried(callback)
  BY <1>1, <1>2, <1>3, <1>5, <1>8, AwaitedFacts, IsCarried DEF Callbacks
<1>9. PendingSound'
  BY <1>1, <1>2, <1>8, TableKept
<1>10. OwedSound'
  BY <1>2, Zenon DEF OwedSound
<1>11. SequenceCarriedOn' /\ IdsIssued'
  BY <1>1, <1>2 DEF SequenceCarriedOn, AwaitsReply, IsOwed, IdsIssued
<1>12. RunSound'
  <2>1. \A s \in Clients : asked[s] # None /\ ~Answered(s) => ~Answered(s)'
    BY <1>5 DEF Answered
  <2> QED BY <1>1, <1>2, <1>7, <2>1, RunKept
<1>13. RequestsSound'
  <2>1. \A s \in Clients : asked[s] # None /\ ~Answered(s) => ~Answered(s)'
    BY <1>5 DEF Answered
  <2>2. steady' \in Nat
    BY <1>6, ClientAssumption DEF TypeOK, ClientTypeOK
  <2> QED BY <1>1, <1>2, <1>7, <2>1, <2>2, RequestsKept
<1>14. EveryCallTracked'
  <2>1. Tracked(r)'
    BY <1>3, <1>5 DEF Tracked, Answered
  <2>2. ASSUME NEW s \in Clients, s # r PROVE Tracked(s)'
    BY <1>1, <1>2, <1>3, <1>5, <2>2, TrackedKept DEF EveryCallTracked, AwaitsReply, IsOwed
  <2> QED BY <2>1, <2>2 DEF EveryCallTracked
<1>15. SuccessMeansAccepted'
  <2>1. \A s \in Clients : ~Answered(s) => SuccessIsEarned(s)'
    BY <1>5 DEF SuccessIsEarned, Answered
  <2> QED BY <1>1, <1>7, <2>1, SuccessKept
<1>16. StepsFollow'
  BY <1>1, <1>2, <1>7, StepsKept
<1>17. Uninterrupted'
  BY <1>1, <1>2, <1>7, UninterruptedUnchanged
<1>18. StepsCounted'
  BY <1>1, <1>2, <1>7, CountKept DEF StepsCounted, Published
<1> QED
  BY <1>6, <1>9, <1>10, <1>11, <1>12, <1>13, <1>14, <1>15, <1>16, <1>17, <1>18 DEF IInv

LEMMA ForwardedKeeps ==
  ASSUME IInv, NEW r \in Clients, NEW request \in Requests, owed = {},
         asked[r] = None, asked' = [asked EXCEPT ![r] = request],
         request.service # "mode", Forwarded(r), UNCHANGED <<replies, steady, now>>
  PROVE  IInv'
<1>1. /\ TypeOK /\ IdsIssued /\ PendingSound /\ OwedSound /\ SequenceCarriedOn
      /\ RunSound /\ RequestsSound /\ EveryCallTracked
      /\ SuccessMeansAccepted /\ StepsFollow /\ Uninterrupted /\ StepsCounted
  BY DEF IInv
<1>2. UNCHANGED <<replies, steady, now, active_sequence, sequence_timer, responses>>
  BY DEF Forwarded
<1>3. /\ ~Answered(r) /\ ~AwaitsReply(r)
      /\ \A req \in requests : req.body.for # r
      /\ active_sequence # None => active_sequence.request_id # r
      /\ asked' \in [Clients -> Requests \cup {None}]
      /\ asked'[r] # None /\ asked'[r] = request
      /\ \A s \in Clients : s # r => asked'[s] = asked[s]
      /\ r # Sequence /\ r # CmdVel
  BY NewCallFacts
<1>4. ClientTypeOK(Callbacks, Bodies)' /\ IdsIssued' /\ Sent(r, 1, r)
  BY <1>1, <1>2, SentFacts DEF Forwarded, Callbacks
<1>5. PICK req :
        /\ requests' = requests \cup {req}
        /\ req.body.for = r /\ req.body.step = 1 /\ req.body.at = steady
        /\ ~req.noreply
        /\ \A old \in requests : old.id < req.id
  BY <1>4 DEF Sent
<1>6. TypeOK'
  BY <1>1, <1>2, <1>3, <1>4 DEF TypeOK
<1>7. steady \in Nat /\ steady' = steady /\ req.id \in Nat
  BY <1>2, <1>5, <1>6, ClientAssumption DEF TypeOK, ClientTypeOK
<1>8. Onward
  BY <1>2, <1>3, <1>5, <1>7 DEF Onward
<1>9. ~IsMode(r)' /\ ~Answered(r)' /\ Waiting(r)'
  BY <1>2, <1>3 DEF IsMode, Answered, Waiting
<1>10. /\ PendingSound' /\ OwedSound'
       /\ AwaitsReply(r)' \/ IsOwed(r)'
       /\ \A other : other # r => (AwaitsReply(other) <=> AwaitsReply(other)')
                                 /\ ~IsOwed(other)'
  <2>1. ASSUME NEW other, AwaitsReply(other) PROVE Carried(other)
    BY <1>1, <1>2, <1>3, <2>1, AwaitedFacts, IsCarried DEF Callbacks
  <2>2. Expected(r)'
    BY <1>3, <1>9 DEF Expected
  <2>3. \A q : q.body.for = r /\ q.body.step = 1 => Concerns(q, r)'
    BY <1>3 DEF Concerns
  <2> QED BY <1>1, <1>3, <1>4, <2>1, <2>2, <2>3, SentKeepsTables
<1>11. SequenceCarriedOn'
  <2>1. ~IsOwed(Sequence)
    BY DEF IsOwed
  <2> QED BY <1>1, <1>2, <1>3, <1>10, <2>1 DEF SequenceCarriedOn
<1>12. RunSound'
  BY <1>1, <1>2, <1>5, <1>8, <1>9, RunKept DEF Answered
<1>13. RequestsSound'
  <2>1. RequestSound(req)'
    BY <1>3, <1>5, <1>7, <1>9 DEF RequestSound
  <2>2. steady' \in Nat
    BY <1>7
  <2> QED BY <1>1, <1>2, <1>5, <1>8, <2>1, <2>2, RequestsKept DEF Answered
<1>14. EveryCallTracked'
  <2>1. Tracked(r)'
    BY <1>1, <1>2, <1>3, <1>9, <1>10 DEF Tracked, EveryCallTracked
  <2>2. ASSUME NEW s \in Clients, s # r PROVE Tracked(s)'
    <3>1. ~IsOwed(s)
      BY DEF IsOwed
    <3> QED BY <1>1, <1>2, <1>3, <1>10, <2>2, <3>1, TrackedKept DEF EveryCallTracked
  <2> QED BY <2>1, <2>2 DEF EveryCallTracked
<1>15. SuccessMeansAccepted'
  <2>1. \A s \in Clients : ~Answered(s) => SuccessIsEarned(s)'
    BY <1>2 DEF SuccessIsEarned, Answered
  <2> QED BY <1>1, <1>8, <2>1, SuccessKept
<1>16. StepsFollow'
  <2>1. FollowsItsStep(req)'
    BY <1>5 DEF FollowsItsStep
  <2> QED BY <1>1, <1>5, <1>8, <2>1, StepsKept
<1>17. Uninterrupted'
  BY <1>1, <1>3, <1>5, <1>7, <1>8, UninterruptedKept
<1>18. StepsCounted'
  <2>1. IsFiniteSet(requests')
    BY <1>1, <1>5, FS_AddElement DEF StepsCounted
  <2> QED BY <1>1, <1>2, <1>5, <1>8, <1>9, <2>1, CountKept DEF Published
<1> QED
  BY <1>4, <1>6, <1>10, <1>11, <1>12, <1>13, <1>14, <1>15, <1>16, <1>17, <1>18 DEF IInv

LEMMA StartedKeeps ==
  ASSUME IInv, NEW r \in Clients, NEW request \in Requests, owed = {},
         asked[r] = None, asked' = [asked EXCEPT ![r] = request],
         request.service = "mode", Started(r, request.mode),
         UNCHANGED <<replies, steady, now>>
  PROVE  IInv'
<1> DEFINE name == request.mode
<1>1. /\ TypeOK /\ IdsIssued /\ PendingSound /\ OwedSound /\ SequenceCarriedOn
      /\ RunSound /\ RequestsSound /\ EveryCallTracked
      /\ SuccessMeansAccepted /\ StepsFollow /\ Uninterrupted /\ StepsCounted
  BY DEF IInv
<1>2. /\ UNCHANGED <<replies, steady, now, sequence_timer, responses>>
      /\ active_sequence = None /\ sequence_timer = None
  BY <1>1 DEF Started, SequenceCarriedOn
<1>3. /\ ~Answered(r) /\ ~AwaitsReply(r)
      /\ \A req \in requests : req.body.for # r
      /\ asked' \in [Clients -> Requests \cup {None}]
      /\ asked'[r] # None /\ asked'[r] = request
      /\ \A s \in Clients : s # r => asked'[s] = asked[s]
      /\ r # Sequence /\ r # CmdVel
  BY NewCallFacts
<1>4. ClientTypeOK(Callbacks, Bodies)' /\ IdsIssued' /\ Sent(r, 1, Sequence)
  BY <1>1, <1>2, SentFacts DEF Started, Callbacks
<1>5. PICK req :
        /\ requests' = requests \cup {req}
        /\ req.body.for = r /\ req.body.step = 1 /\ req.body.at = steady
        /\ ~req.noreply
        /\ \A old \in requests : old.id < req.id
  BY <1>4 DEF Sent
<1>6. name \in DOMAIN presets \ blocked_modes /\ Len(presets[name]) >= 1
  BY DEF Started
<1>7. /\ active_sequence' \in SequenceRun /\ active_sequence' # None
      /\ active_sequence'.name = name /\ active_sequence'.index = 0
      /\ active_sequence'.request_id = r /\ active_sequence'.ok
  <2>1. active_sequence' = [name |-> name, index |-> 0, request_id |-> r,
                            last_message |-> "", ok |-> TRUE]
    BY DEF Started
  <2>2. active_sequence' \in SequenceRun
    BY <1>6, <2>1 DEF SequenceRun, Messages
  <2> QED BY <2>1, <2>2, SportAssumption
<1>8. TypeOK'
  BY <1>1, <1>2, <1>3, <1>4, <1>7 DEF TypeOK
<1>9. steady \in Nat /\ steady' = steady /\ req.id \in Nat
  BY <1>2, <1>5, <1>8, ClientAssumption DEF TypeOK, ClientTypeOK
<1>10. Onward
  BY <1>2, <1>3, <1>5, <1>9 DEF Onward
<1>11. IsMode(r)' /\ ~Answered(r)'
  BY <1>2, <1>3 DEF IsMode, Answered
<1>12. /\ PendingSound' /\ OwedSound'
       /\ AwaitsReply(Sequence)' \/ IsOwed(Sequence)'
       /\ \A other : other # Sequence => (AwaitsReply(other) <=> AwaitsReply(other)')
                                        /\ ~IsOwed(other)'
  <2>1. ~AwaitsReply(Sequence)
    BY <1>1, <1>2, AwaitedFacts DEF Expected
  <2>2. ASSUME NEW other, AwaitsReply(other) PROVE Carried(other)
    BY <1>1, <1>2, <1>3, <2>1, <2>2, AwaitedFacts, IsCarried DEF Callbacks
  <2>3. Expected(Sequence)'
    BY <1>7 DEF Expected
  <2>4. \A q : q.body.for = r /\ q.body.step = 1 => Concerns(q, Sequence)'
    BY <1>7 DEF Concerns
  <2> QED BY <1>1, <1>4, <2>1, <2>2, <2>3, <2>4, SentKeepsTables
<1>13. SequenceCarriedOn'
  BY <1>2, <1>7, <1>12 DEF SequenceCarriedOn
<1>14. Len(presets[name]) \in Nat /\ DOMAIN presets[name] = 1 .. Len(presets[name])
  BY <1>6, PresetFacts
<1>15. RunSound'
  <2>1. Published' = 1
    BY <1>2, <1>7 DEF Published
  <2>2. \A q \in requests' : q.body.for = r => q = req
    BY <1>3, <1>5
  <2>3. \A q \in requests' : q.body.for = r =>
          /\ q.body.step \in 1 .. 1
          /\ \A other \in requests' : other.body.for \in Clients \ {r} => other.id < q.id
    BY <1>5, <2>2
  <2> QED BY <1>2, <1>3, <1>6, <1>7, <1>11, <1>14, <2>1, <2>3 DEF RunSound, Steps
<1>16. RequestsSound'
  <2>1. RequestSound(req)'
    BY <1>3, <1>5, <1>6, <1>9, <1>11, <1>14 DEF RequestSound
  <2>2. steady' \in Nat
    BY <1>9
  <2> QED BY <1>1, <1>2, <1>5, <1>10, <2>1, <2>2, RequestsKept DEF Answered
<1>17. EveryCallTracked'
  <2>1. Tracked(r)'
    BY <1>1, <1>2, <1>3, <1>7, <1>11 DEF Tracked, EveryCallTracked
  <2>2. ASSUME NEW s \in Clients, s # r PROVE Tracked(s)'
    <3>1. ~IsOwed(s) /\ s # Sequence
      BY SportAssumption DEF IsOwed
    <3> QED BY <1>1, <1>2, <1>3, <1>12, <2>2, <3>1, TrackedKept DEF EveryCallTracked
  <2> QED BY <2>1, <2>2 DEF EveryCallTracked
<1>18. SuccessMeansAccepted'
  <2>1. \A s \in Clients : ~Answered(s) => SuccessIsEarned(s)'
    BY <1>2 DEF SuccessIsEarned, Answered
  <2> QED BY <1>1, <1>10, <2>1, SuccessKept
<1>19. StepsFollow'
  <2>1. FollowsItsStep(req)'
    BY <1>5 DEF FollowsItsStep
  <2> QED BY <1>1, <1>5, <1>10, <2>1, StepsKept
<1>20. Uninterrupted'
  BY <1>1, <1>3, <1>5, <1>9, <1>10, UninterruptedKept
<1>21. StepsCounted'
  <2>1. StepsOf(r) = {} /\ Cardinality(StepsOf(r)) = 0
    BY <1>3, FS_EmptySet DEF StepsOf
  <2>2. /\ Published' = req.body.step /\ req.body.step = Cardinality(StepsOf(r)) + 1
        /\ req \notin requests
    BY <1>2, <1>5, <1>7, <1>9, <2>1 DEF Published
  <2> QED BY <1>1, <1>5, <1>7, <1>10, <1>11, <2>1, <2>2, CountNext
<1> QED
  BY <1>4, <1>8, <1>12, <1>13, <1>15, <1>16, <1>17, <1>18, <1>19, <1>20, <1>21 DEF IInv

(* The end of a sequence, wherever it comes from.                          *)
LEMMA FinishedKeeps ==
  ASSUME IInv, active_sequence # None, NEW ok \in BOOLEAN, NEW message \in SentMessages,
         Finished(ok, message),
         ok => /\ sequence_timer # None
               /\ active_sequence.index >= Len(Steps(active_sequence)),
         owed' = {o \in owed : o.callback # Sequence}, ~AwaitsReply(Sequence),
         UNCHANGED <<replies, steady, now, asked>>
  PROVE  IInv'
<1> DEFINE run == active_sequence
           resp == Response(ok, message)
<1>1. /\ TypeOK /\ IdsIssued /\ PendingSound /\ OwedSound /\ SequenceCarriedOn
      /\ RunSound /\ RequestsSound /\ EveryCallTracked
      /\ SuccessMeansAccepted /\ StepsFollow /\ Uninterrupted /\ StepsCounted
  BY DEF IInv
<1>0. PICK r \in Clients : r = run.request_id
  BY <1>1, RunFacts
<1>2. /\ UNCHANGED <<pending, last_id, requests, replies, steady, now, asked>>
      /\ active_sequence' = None /\ sequence_timer' = None
      /\ responses' = [responses EXCEPT ![r] = Append(@, resp)]
  BY <1>0 DEF Finished, apiVars
<1>3. /\ run.index \in Nat /\ Len(Steps(run)) \in Nat
      /\ DOMAIN Steps(run) = 1 .. Len(Steps(run))
  BY <1>1, RunFacts
<1>4. IsMode(r) /\ asked[r].mode = run.name /\ ~Answered(r) /\ r # Sequence
  BY <1>0, <1>1, SportAssumption DEF RunSound
<1>5. message \in Messages
  BY DEF Messages, SentMessages
<1>6. resp \in Responses /\ resp.success = ok /\ resp.message = message
  BY <1>5, ResponseFacts
<1> HIDE DEF resp
<1>7. /\ responses' \in [Clients -> Seq(Responses)]
      /\ Len(responses'[r]) = 1 /\ responses'[r] # <<>> /\ responses'[r][1] = resp
      /\ \A s \in Clients : s # r => responses'[s] = responses[s]
  BY <1>1, <1>2, <1>3, <1>4, <1>6, AnswerFacts
<1>8. TypeOK'
  <2>1. owed' \subseteq owed
    OBVIOUS
  <2> QED BY <1>1, <1>2, <1>7, <2>1 DEF TypeOK, ClientTypeOK
<1>9. Onward
  BY <1>2, <1>4, <1>7, <1>8, ClientAssumption DEF Onward, TypeOK, ClientTypeOK
<1>10. ~Waiting(r)
  BY <1>4 DEF Waiting
<1>11. ASSUME NEW callback \in Callbacks, callback # Sequence PROVE Carried(callback)
  <2>1. callback \in Clients
    BY <1>11 DEF Callbacks
  <2>2. Waiting(callback) => responses'[callback] = responses[callback]
    BY <1>7, <1>10, <2>1
  <2> QED BY <1>1, <1>2, <1>11, <2>2, IsCarried
<1>12. PendingSound'
  <2>1. ASSUME NEW callback, AwaitsReply(callback) PROVE Carried(callback)
    BY <1>1, <1>11, <2>1, AwaitedFacts
  <2> QED BY <1>1, <1>2, <2>1, TableKept
<1>13. OwedSound'
  <2>1. \A o \in owed : o.callback \in Callbacks
    BY <1>1 DEF TypeOK, ClientTypeOK
  <2>2. \A o \in owed' : \A callback : callback = o.callback => Carried(callback)
    BY <1>11, <2>1
  <2> QED BY <1>1, <1>2, <2>2, OwedKept
<1>14. SequenceCarriedOn' /\ RunSound' /\ IdsIssued'
  BY <1>1, <1>2 DEF SequenceCarriedOn, RunSound, IdsIssued
<1>15. RequestsSound'
  <2>1. \A s \in Clients : asked[s] # None /\ ~Answered(s) /\ Answered(s)' =>
                            responses'[s][1].message \in SentMessages
    BY <1>6, <1>7 DEF Answered
  <2>2. steady' \in Nat
    BY <1>8, ClientAssumption DEF TypeOK, ClientTypeOK
  <2> QED BY <1>1, <1>2, <1>9, <2>1, <2>2, RequestsKept
<1>16. EveryCallTracked'
  <2>1. Tracked(r)'
    BY <1>2, <1>4, <1>7 DEF Tracked, Answered, IsMode
  <2>2. ASSUME NEW s \in Clients, s # r PROVE Tracked(s)'
    <3>1. s # Sequence
      BY SportAssumption
    <3>2. IsOwed(s) => IsOwed(s)'
      BY <3>1 DEF IsOwed
    <3>3. AwaitsReply(s) => AwaitsReply(s)'
      BY <1>2 DEF AwaitsReply
    <3> QED BY <1>0, <1>1, <1>2, <1>7, <2>2, <3>2, <3>3, TrackedKept DEF EveryCallTracked
  <2> QED BY <2>1, <2>2 DEF EveryCallTracked
<1>17. SuccessMeansAccepted'
  <2>1. ASSUME ok, wait_for_response, NEW nth \in DOMAIN presets[asked[r].mode]
        PROVE  StepAccepted(r, nth)'
    <3>1. Published \in 1 .. Len(Steps(run)) /\ Published = run.index
      BY <1>1, <2>1 DEF RunSound, Published
    <3>2. nth \in 1 .. run.index
      BY <1>3, <1>4, <2>1, <3>1 DEF Steps
    <3>3. PICK req \in requests : StepDone(req, r, nth)
      BY <1>0, <1>1, <3>2 DEF RunSound
    <3>4. Acknowledged(req.body)'
      BY <1>2, <2>1, <3>3, AcknowledgedStays DEF StepDone
    <3> QED BY <1>2, <3>3, <3>4 DEF StepDone, StepAccepted
  <2>2. asked[r].service # "get_auto_recovery" /\ IsMode(r)'
    BY <1>2, <1>4 DEF IsMode
  <2>3. SuccessIsEarned(r)'
    BY <1>2, <1>6, <1>7, <2>1, <2>2 DEF SuccessIsEarned
  <2>4. \A s \in Clients : s # r /\ ~Answered(s) => SuccessIsEarned(s)'
    BY <1>7 DEF SuccessIsEarned, Answered
  <2> QED BY <1>1, <1>9, <2>3, <2>4, SuccessKept
<1>18. StepsFollow'
  BY <1>1, <1>2, <1>9, StepsKept
<1>19. Uninterrupted'
  BY <1>1, <1>2, <1>9, UninterruptedUnchanged
<1>20. StepsCounted'
  BY <1>1, <1>2, <1>9, CountKept DEF StepsCounted, Published
<1> QED
  BY <1>8, <1>12, <1>13, <1>14, <1>15, <1>16, <1>17, <1>18, <1>19, <1>20 DEF IInv

(* The next step follows on the last one.                                  *)
LEMMA SteppedKeeps ==
  ASSUME IInv, active_sequence # None, owed = {},
         sequence_timer \in Nat, sequence_timer <= steady, Stepped,
         UNCHANGED <<replies, steady, now, asked>>
  PROVE  IInv'
<1> DEFINE run == active_sequence
           r == run.request_id
<1>1. /\ TypeOK /\ IdsIssued /\ PendingSound /\ OwedSound /\ SequenceCarriedOn
      /\ RunSound /\ RequestsSound /\ EveryCallTracked
      /\ SuccessMeansAccepted /\ StepsFollow /\ Uninterrupted /\ StepsCounted
  BY DEF IInv
<1>2. /\ UNCHANGED <<replies, steady, now, asked, responses, active_sequence>>
      /\ sequence_timer' = None /\ sequence_timer # None
      /\ run.index < Len(Steps(run))
  BY SportAssumption DEF Stepped
<1>3. /\ r \in Clients /\ run.index \in Nat /\ Len(Steps(run)) \in Nat
      /\ DOMAIN Steps(run) = 1 .. Len(Steps(run))
      /\ \A i \in 1 .. Len(Steps(run)) : Steps(run)[i].wait_after \in Nat
  BY <1>1, RunFacts
<1>4. /\ run.ok /\ run.name \notin blocked_modes
      /\ IsMode(r) /\ asked[r].mode = run.name /\ ~Answered(r)
      /\ r # Sequence /\ r # CmdVel /\ asked[r] # None
      /\ run.index > 0 => run.last_message \in {"accepted", "published"}
      /\ \A nth \in 1 .. run.index : \E req \in requests : StepDone(req, r, nth)
  BY <1>1, <1>3, SportAssumption DEF RunSound, IsMode
<1>5. Published = run.index /\ run.index >= 1
  BY <1>1, <1>2 DEF RunSound, Published
<1>6. /\ \A req \in requests : req.body.for = r =>
           /\ req.body.step \in 1 .. run.index
           /\ \A other \in requests :
                other.body.for \in Clients \ {r} /\ IsMode(other.body.for)
                  => other.id < req.id
  BY <1>1, <1>5 DEF RunSound
<1>7. /\ ClientTypeOK(Callbacks, Bodies)' /\ IdsIssued'
      /\ Sent(r, run.index + 1, Sequence)
  <2>1. run.index + 1 \in Nat
    BY <1>3
  <2> QED BY <1>1, <1>2, <1>3, <2>1, SentFacts DEF Stepped, Callbacks
<1>8. PICK req :
        /\ requests' = requests \cup {req}
        /\ req.body.for = r /\ req.body.step = run.index + 1 /\ req.body.at = steady
        /\ ~req.noreply
        /\ \A old \in requests : old.id < req.id
  BY <1>7 DEF Sent
<1>9. TypeOK'
  BY <1>1, <1>2, <1>7 DEF TypeOK
<1>10. steady \in Nat /\ steady' = steady /\ req.id \in Nat
  BY <1>2, <1>8, <1>9, ClientAssumption DEF TypeOK, ClientTypeOK
<1>11. Onward
  BY <1>2, <1>8, <1>10 DEF Onward
<1>12. /\ PendingSound' /\ OwedSound'
       /\ AwaitsReply(Sequence)' \/ IsOwed(Sequence)'
       /\ \A other : other # Sequence => (AwaitsReply(other) <=> AwaitsReply(other)')
                                        /\ ~IsOwed(other)'
  <2>1. ~AwaitsReply(Sequence)
    BY <1>1, <1>2 DEF SequenceCarriedOn
  <2>2. ASSUME NEW other, AwaitsReply(other) PROVE Carried(other)
    BY <1>1, <1>2, <2>2, AwaitedFacts, IsCarried DEF Callbacks
  <2>3. Expected(Sequence)'
    BY <1>2 DEF Expected
  <2>4. \A q : q.body.for = r /\ q.body.step = run.index + 1 => Concerns(q, Sequence)'
    BY <1>2 DEF Concerns
  <2> QED BY <1>1, <1>7, <2>1, <2>2, <2>3, <2>4, SentKeepsTables
<1>13. SequenceCarriedOn'
  BY <1>2, <1>12 DEF SequenceCarriedOn
<1>14. IsMode(r)' /\ ~Answered(r)'
  BY <1>2, <1>4 DEF IsMode, Answered
<1>15. RunSound'
  <2>1. Published' = run.index + 1 /\ run.index + 1 \in 1 .. Len(Steps(run))
    BY <1>2, <1>3 DEF Published
  <2>2. ASSUME NEW nth \in 1 .. run.index
        PROVE  \E q \in requests' : StepDone(q, r, nth)'
    BY <1>2, <1>4, <1>8, AcknowledgedStays DEF StepDone
  <2>3. ASSUME NEW q \in requests', q.body.for = r
        PROVE  /\ q.body.step \in 1 .. run.index + 1
               /\ \A other \in requests' :
                    other.body.for \in Clients \ {r} /\ IsMode(other.body.for)'
                      => other.id < q.id
    <3>1. \A other \in requests' : other.body.for # r => other \in requests
      BY <1>8
    <3>2. \A other : IsMode(other.body.for)' <=> IsMode(other.body.for)
      BY <1>2 DEF IsMode
    <3>3. CASE q \in requests
      BY <1>3, <1>6, <2>3, <3>1, <3>2, <3>3
    <3>4. CASE q = req
      BY <1>3, <1>8, <3>1, <3>4
    <3> QED BY <1>8, <3>3, <3>4
  <2> QED BY <1>2, <1>4, <1>14, <2>1, <2>2, <2>3 DEF RunSound, StepDone, Steps, IsMode
<1>16. RequestsSound'
  <2>1. RequestSound(req)'
    <3>1. asked'[r].mode \in DOMAIN presets \ blocked_modes
      BY <1>1, <1>2, <1>4, RunFacts
    <3>2. req.body.step \in DOMAIN presets[asked'[r].mode]
      BY <1>2, <1>3, <1>4, <1>8 DEF Steps
    <3>3. asked'[r] # None /\ req.body.at <= steady'
      BY <1>2, <1>4, <1>8, <1>10
    <3> QED BY <1>2, <1>4, <1>8, <1>14, <3>1, <3>2, <3>3 DEF RequestSound, IsMode, Answered
  <2>2. steady' \in Nat
    BY <1>10
  <2> QED BY <1>1, <1>2, <1>8, <1>11, <2>1, <2>2, RequestsKept DEF Answered
<1>17. EveryCallTracked'
  <2>1. ASSUME NEW s \in Clients PROVE Tracked(s)'
    <3>1. ~IsOwed(s) /\ s # Sequence
      BY SportAssumption DEF IsOwed
    <3> QED BY <1>1, <1>2, <1>12, <3>1, TrackedKept DEF EveryCallTracked
  <2> QED BY <2>1 DEF EveryCallTracked
<1>18. SuccessMeansAccepted'
  <2>1. \A s \in Clients : ~Answered(s) => SuccessIsEarned(s)'
    BY <1>2 DEF SuccessIsEarned, Answered
  <2> QED BY <1>1, <1>11, <2>1, SuccessKept
<1>19. StepsFollow'
  <2>1. PICK prev \in requests :
          /\ StepDone(prev, r, run.index)
          /\ prev.body.at + Steps(run)[run.index].wait_after <= sequence_timer
    BY <1>1, <1>2 DEF RunSound
  <2>2. prev.body.at \in Nat /\ Steps(run)[run.index].wait_after \in Nat
    BY <1>1, <1>2, <1>3, <1>5, RequestType
  <2>3. prev.body.at + Steps(run)[run.index].wait_after <= req.body.at
    BY <1>8, <1>10, <2>1, <2>2
  <2>4. wait_for_response => Acknowledged(prev.body)'
    BY <1>2, <1>8, <2>1, AcknowledgedStays DEF StepDone
  <2>5. FollowsItsStep(req)'
    <3>1. prev.body.step = run.index /\ prev.body.for = r /\ prev \in requests'
          /\ prev.id < req.id
      BY <1>8, <2>1 DEF StepDone
    <3>2. run.index = req.body.step - 1
      BY <1>3, <1>8
    <3>3. presets[asked'[r].mode][run.index] = Steps(run)[run.index]
      BY <1>2, <1>4 DEF Steps
    <3> QED BY <1>8, <2>3, <2>4, <3>1, <3>2, <3>3 DEF FollowsItsStep
  <2> QED BY <1>1, <1>8, <1>11, <2>5, StepsKept
<1>20. Uninterrupted'
  BY <1>1, <1>6, <1>8, <1>10, <1>11, UninterruptedKept
<1>21. StepsCounted'
  <2>1. Cardinality(StepsOf(r)) = run.index
    BY <1>1, <1>5 DEF StepsCounted
  <2>2. Published' = run.index + 1 /\ req \notin requests
    BY <1>2, <1>8, <1>10 DEF Published
  <2> QED BY <1>1, <1>2, <1>3, <1>8, <1>11, <1>14, <2>1, <2>2, CountNext
<1> QED
  BY <1>7, <1>9, <1>12, <1>13, <1>15, <1>16, <1>17, <1>18, <1>19, <1>20, <1>21 DEF IInv

(* A step's callback makes it a step that is done.                         *)
LEMMA StepTakenKeeps ==
  ASSUME IInv, active_sequence # None, NEW o \in owed, o.callback = Sequence,
         StepTaken(o), owed' = owed \ {o}, UNCHANGED <<replies, steady, now, asked>>
  PROVE  IInv'
<1> DEFINE run == active_sequence
<1>1. /\ TypeOK /\ IdsIssued /\ PendingSound /\ OwedSound /\ SequenceCarriedOn
      /\ RunSound /\ RequestsSound /\ EveryCallTracked
      /\ SuccessMeansAccepted /\ StepsFollow /\ Uninterrupted /\ StepsCounted
  BY DEF IInv
<1>2. PICK r \in Clients : r = run.request_id
  BY <1>1, RunFacts
<1>3. /\ run.index \in Nat /\ Len(Steps(run)) \in Nat
      /\ \A i \in 1 .. Len(Steps(run)) : Steps(run)[i].wait_after \in Nat
  BY <1>1, RunFacts
<1>4. PICK k \in Nat : k = run.index + 1
  BY <1>3
<1>5. /\ UNCHANGED <<pending, last_id, requests, replies, steady, now, asked, responses>>
      /\ o.result.ok
      /\ active_sequence' \in SequenceRun
      /\ active_sequence'.name = run.name /\ active_sequence'.index = k
      /\ active_sequence'.request_id = r
      /\ active_sequence'.last_message \in {"accepted", "published"}
      /\ active_sequence'.ok = run.ok
      /\ sequence_timer' = steady + Steps(run)[k].wait_after
  BY <1>2, <1>4 DEF StepTaken, apiVars, CurrentStep
<1>6. active_sequence' # None /\ r # Sequence
  BY <1>5, SportAssumption
<1>7. /\ run.ok /\ run.name \notin blocked_modes
      /\ IsMode(r) /\ asked[r].mode = run.name /\ ~Answered(r)
      /\ \A nth \in 1 .. run.index : \E req \in requests : StepDone(req, r, nth)
  BY <1>1, <1>2 DEF RunSound
<1>8. IsOwed(Sequence) /\ ~AwaitsReply(Sequence) /\ sequence_timer = None
  <2>1. IsOwed(Sequence) /\ ~AwaitsReply(Sequence)
    BY <1>1 DEF IsOwed, OwedSound
  <2> QED BY <1>1, <2>1 DEF SequenceCarriedOn
<1>9. Published = k /\ k \in 1 .. Len(Steps(run))
  BY <1>1, <1>4, <1>8 DEF RunSound, Published
<1>10. \A req \in requests : req.body.for = r =>
         /\ req.body.step \in 1 .. k
         /\ \A other \in requests :
              other.body.for \in Clients \ {r} /\ IsMode(other.body.for)
                => other.id < req.id
  BY <1>1, <1>2, <1>9 DEF RunSound
<1>11. PICK req \in requests :
         /\ req.body.for = r /\ req.body.step = k
         /\ wait_for_response => Acknowledged(req.body)
  <2>1. PICK req \in requests :
          /\ Concerns(req, Sequence)
          /\ wait_for_response /\ o.result.ok /\ IdsApart =>
               \E msg \in replies : /\ msg.to = req.body /\ msg.code = StatusOk
                                    /\ msg.data = o.result.data
    BY <1>1 DEF OwedSound
  <2> QED BY <1>2, <1>4, <1>5, <2>1 DEF Concerns, Acknowledged, Accepted
<1>12. steady \in Nat /\ sequence_timer' \in Nat
       /\ Steps(run)[k].wait_after \in Nat /\ req.body.at \in Nat
  BY <1>1, <1>3, <1>5, <1>9, RequestType
<1>13. TypeOK'
  <2>1. owed' \subseteq owed
    OBVIOUS
  <2> QED BY <1>1, <1>5, <1>12, <2>1 DEF TypeOK, ClientTypeOK
<1>14. Onward
  BY <1>5, <1>12 DEF Onward
<1>15. ASSUME NEW callback \in Callbacks, callback # Sequence PROVE Carried(callback)
  BY <1>1, <1>5, <1>15, IsCarried
<1>16. PendingSound'
  <2>1. ASSUME NEW callback, AwaitsReply(callback) PROVE Carried(callback)
    BY <1>1, <1>8, <1>15, <2>1, AwaitedFacts
  <2> QED BY <1>1, <1>5, <2>1, TableKept
<1>17. \A due \in owed : due # o => due.callback # Sequence
  BY <1>1 DEF OwedSound
<1>18. OwedSound'
  <2>1. \A due \in owed : due.callback \in Callbacks
    BY <1>1 DEF TypeOK, ClientTypeOK
  <2>2. \A due \in owed' : \A callback : callback = due.callback => Carried(callback)
    BY <1>15, <1>17, <2>1
  <2> QED BY <1>1, <1>5, <2>2, OwedKept
<1>19. SequenceCarriedOn' /\ IdsIssued'
  <2>1. ~AwaitsReply(Sequence)' /\ ~IsOwed(Sequence)'
    BY <1>5, <1>8, <1>17 DEF AwaitsReply, IsOwed
  <2>2. sequence_timer' # None
    BY <1>12, SportAssumption
  <2> QED BY <1>1, <1>5, <1>6, <2>1, <2>2 DEF SequenceCarriedOn, IdsIssued
<1>20. RunSound'
  <2>1. sequence_timer' # None /\ Published' = k
    BY <1>5, <1>12, SportAssumption DEF Published
  <2>2. ASSUME NEW nth \in 1 .. k PROVE \E q \in requests : StepDone(q, r, nth)'
    <3>1. CASE nth = k
      BY <1>5, <1>11, <3>1, AcknowledgedStays DEF StepDone
    <3>2. CASE nth # k
      <4>1. nth \in 1 .. run.index
        BY <1>3, <1>4, <3>2
      <4> QED BY <1>5, <1>7, <4>1, AcknowledgedStays DEF StepDone
    <3> QED BY <3>1, <3>2
  <2>3. StepDone(req, r, k)'
    BY <1>5, <1>11, AcknowledgedStays DEF StepDone
  <2>4. req.body.at + Steps(run)[k].wait_after <= sequence_timer'
    <3>1. req.body.at <= steady
      BY <1>1 DEF RequestsSound, RequestSound
    <3> QED BY <1>5, <1>12, <3>1
  <2>5. IsMode(r)' /\ ~Answered(r)' /\ \A s : IsMode(s)' <=> IsMode(s)
    BY <1>5, <1>7 DEF IsMode, Answered
  <2>6. presets[run.name] = Steps(run)
    BY DEF Steps
  <2> QED BY <1>5, <1>7, <1>9, <1>10, <2>1, <2>2, <2>3, <2>4, <2>5, <2>6
          DEF RunSound, Steps, StepDone, IsMode
<1>21. RequestsSound'
  <2>1. steady' \in Nat
    BY <1>5, <1>12
  <2> QED BY <1>1, <1>5, <1>14, <2>1, RequestsKept DEF Answered
<1>22. EveryCallTracked'
  <2>1. ASSUME NEW s \in Clients PROVE Tracked(s)'
    <3>1. s # Sequence
      BY SportAssumption
    <3>2. IsOwed(s) => IsOwed(s)'
      BY <3>1 DEF IsOwed
    <3>3. AwaitsReply(s) => AwaitsReply(s)'
      BY <1>5 DEF AwaitsReply
    <3> QED BY <1>1, <1>2, <1>5, <1>6, <3>2, <3>3, TrackedKept DEF EveryCallTracked
  <2> QED BY <2>1 DEF EveryCallTracked
<1>23. SuccessMeansAccepted'
  <2>1. \A s \in Clients : ~Answered(s) => SuccessIsEarned(s)'
    BY <1>5 DEF SuccessIsEarned, Answered
  <2> QED BY <1>1, <1>14, <2>1, SuccessKept
<1>24. StepsFollow'
  BY <1>1, <1>5, <1>14, StepsKept
<1>25. Uninterrupted'
  BY <1>1, <1>5, <1>14, UninterruptedUnchanged
<1>26. StepsCounted'
  <2>1. Published' = k
    BY <1>5, <1>12, SportAssumption DEF Published
  <2> QED BY <1>1, <1>2, <1>5, <1>9, <1>14, <2>1, CountKept DEF StepsCounted
<1> QED
  BY <1>13, <1>16, <1>18, <1>19, <1>20, <1>21, <1>22, <1>23, <1>24, <1>25, <1>26 DEF IInv

(* Any other callback answers the call that waited.                        *)
LEMMA RespondedKeeps ==
  ASSUME IInv, NEW o \in owed, NEW r \in Clients, r = o.callback,
         Responded(r, o.result), owed' = owed \ {o},
         UNCHANGED <<replies, steady, now, asked>>
  PROVE  IInv'
<1>1. /\ TypeOK /\ IdsIssued /\ PendingSound /\ OwedSound /\ SequenceCarriedOn
      /\ RunSound /\ RequestsSound /\ EveryCallTracked
      /\ SuccessMeansAccepted /\ StepsFollow /\ Uninterrupted /\ StepsCounted
  BY DEF IInv
<1>2. /\ UNCHANGED <<pending, last_id, requests, replies, steady, now, asked>>
      /\ UNCHANGED <<active_sequence, sequence_timer>>
  BY DEF Responded, apiVars
<1>3. PICK resp \in Responses :
        /\ responses' = [responses EXCEPT ![r] = Append(@, resp)]
        /\ resp.message \in SentMessages
        /\ resp.success => o.result.ok
        /\ resp.success /\ asked[r].service = "get_auto_recovery" =>
             IsFlag(o.result.data) /\ resp.enable = (o.result.data = "true")
  BY DEF Responded
<1>4. r # Sequence
  BY SportAssumption
<1>5. /\ Waiting(r) /\ ~AwaitsReply(r)
      /\ \E req \in requests :
           /\ req.body.for = r /\ req.body.step = 1
           /\ wait_for_response /\ o.result.ok /\ IdsApart =>
                \E msg \in replies : /\ msg.to = req.body /\ msg.code = StatusOk
                                     /\ msg.data = o.result.data
  BY <1>1, <1>4 DEF OwedSound, Expected, Concerns
<1>6. asked[r] # None /\ ~IsMode(r) /\ ~Answered(r)
  BY <1>5 DEF Waiting
<1>7. /\ responses' \in [Clients -> Seq(Responses)]
      /\ Len(responses'[r]) = 1 /\ responses'[r] # <<>> /\ responses'[r][1] = resp
      /\ \A s \in Clients : s # r => responses'[s] = responses[s]
  BY <1>1, <1>3, <1>6, AnswerFacts
<1>8. TypeOK'
  <2>1. owed' \subseteq owed
    OBVIOUS
  <2> QED BY <1>1, <1>2, <1>7, <2>1 DEF TypeOK, ClientTypeOK
<1>9. Onward
  BY <1>2, <1>6, <1>7, <1>8, ClientAssumption DEF Onward, TypeOK, ClientTypeOK
<1>10. ASSUME NEW callback \in Callbacks, callback # r PROVE Carried(callback)
  BY <1>1, <1>2, <1>7, <1>10, IsCarried DEF Callbacks
<1>11. PendingSound'
  <2>1. ASSUME NEW callback, AwaitsReply(callback) PROVE Carried(callback)
    BY <1>1, <1>5, <1>10, <2>1, AwaitedFacts
  <2> QED BY <1>1, <1>2, <2>1, TableKept
<1>12. \A due \in owed : due # o => due.callback # r
  BY <1>1 DEF OwedSound
<1>13. OwedSound'
  <2>1. \A due \in owed : due.callback \in Callbacks
    BY <1>1 DEF TypeOK, ClientTypeOK
  <2>2. \A due \in owed' : \A callback : callback = due.callback => Carried(callback)
    BY <1>10, <1>12, <2>1
  <2> QED BY <1>1, <1>2, <2>2, OwedKept
<1>14. SequenceCarriedOn' /\ IdsIssued'
  <2>1. IsOwed(Sequence)' <=> IsOwed(Sequence)
    BY <1>4 DEF IsOwed
  <2> QED BY <1>1, <1>2, <2>1 DEF SequenceCarriedOn, IdsIssued, AwaitsReply
<1>15. RunSound'
  <2>1. \A s \in Clients : IsMode(s) /\ ~Answered(s) => ~Answered(s)'
    BY <1>6, <1>7 DEF Answered
  <2> QED BY <1>1, <1>2, <1>9, <2>1, RunKept
<1>16. RequestsSound'
  <2>1. \A s \in Clients : asked[s] # None /\ ~Answered(s) /\ Answered(s)' =>
                            responses'[s][1].message \in SentMessages
    BY <1>3, <1>7 DEF Answered
  <2>2. steady' \in Nat
    BY <1>8, ClientAssumption DEF TypeOK, ClientTypeOK
  <2> QED BY <1>1, <1>2, <1>9, <2>1, <2>2, RequestsKept
<1>17. EveryCallTracked'
  <2>1. Tracked(r)'
    BY <1>2, <1>6, <1>7 DEF Tracked, Answered
  <2>2. ASSUME NEW s \in Clients, s # r PROVE Tracked(s)'
    <3>1. IsOwed(s) => IsOwed(s)'
      BY <2>2 DEF IsOwed
    <3>2. AwaitsReply(s) => AwaitsReply(s)'
      BY <1>2 DEF AwaitsReply
    <3> QED BY <1>1, <1>2, <1>7, <2>2, <3>1, <3>2, TrackedKept DEF EveryCallTracked
  <2> QED BY <2>1, <2>2 DEF EveryCallTracked
<1>18. SuccessMeansAccepted'
  <2>1. ASSUME wait_for_response, resp.success
        PROVE  /\ StepAccepted(r, 1)'
               /\ asked[r].service = "get_auto_recovery" /\ IdsApart =>
                    \E msg \in replies :
                      /\ msg.to.for = r /\ msg.code = StatusOk /\ IsFlag(msg.data)
                      /\ resp.enable = (msg.data = "true")
    <3>1. PICK req \in requests :
            /\ req.body.for = r /\ req.body.step = 1
            /\ IdsApart => \E msg \in replies : /\ msg.to = req.body /\ msg.code = StatusOk
                                                  /\ msg.data = o.result.data
      BY <1>3, <1>5, <2>1
    <3>2. Acknowledged(req.body)
      BY <3>1 DEF Acknowledged, Accepted
    <3>3. StepAccepted(r, 1)'
      BY <1>2, <3>1, <3>2, AcknowledgedStays DEF StepAccepted
    <3> QED BY <1>3, <2>1, <3>1, <3>3
  <2>2. ~IsMode(r)'
    BY <1>2, <1>6 DEF IsMode
  <2>3. SuccessIsEarned(r)'
    BY <1>2, <1>7, <2>1, <2>2, AcknowledgedStays DEF SuccessIsEarned
  <2>4. \A s \in Clients : s # r /\ ~Answered(s) => SuccessIsEarned(s)'
    BY <1>7 DEF SuccessIsEarned, Answered
  <2> QED BY <1>1, <1>9, <2>3, <2>4, SuccessKept
<1>19. StepsFollow'
  BY <1>1, <1>2, <1>9, StepsKept
<1>20. Uninterrupted'
  BY <1>1, <1>2, <1>9, UninterruptedUnchanged
<1>21. StepsCounted'
  BY <1>1, <1>2, <1>9, CountKept DEF StepsCounted, Published
<1> QED
  BY <1>8, <1>11, <1>13, <1>14, <1>15, <1>16, <1>17, <1>18, <1>19, <1>20, <1>21 DEF IInv

(* A velocity command is published beside whatever is going on.            *)
LEMMA MoveKeeps ==
  ASSUME IInv, cmdVelCallback
  PROVE  IInv'
<1> DEFINE body == Body(CmdVel, 1, SportApiId.MOVE)
<1>1. /\ TypeOK /\ IdsIssued /\ PendingSound /\ OwedSound /\ SequenceCarriedOn
      /\ RunSound /\ RequestsSound /\ EveryCallTracked
      /\ SuccessMeansAccepted /\ StepsFollow /\ Uninterrupted /\ StepsCounted
  BY DEF IInv
<1>2. /\ send(body, TRUE) /\ owed = {}
      /\ UNCHANGED <<pending, owed, replies, steady, now, bridgeVars>>
      /\ requests' = requests \cup {[id |-> nextId, body |-> body, noreply |-> TRUE]}
      /\ last_id' = nextId
  BY DEF cmdVelCallback, Idle, send, publish
<1>3. UNCHANGED <<active_sequence, sequence_timer, asked, responses>>
  BY <1>2 DEF bridgeVars
<1>4. ClientTypeOK(Callbacks, Bodies)
  BY <1>1 DEF TypeOK
<1>5. body \in Bodies /\ body.for = CmdVel /\ body.at = steady
  BY <1>4, ApiIdsInt DEF Body, Bodies, ClientTypeOK
<1> HIDE DEF body
<1>6. PICK req : /\ requests' = requests \cup {req}
                 /\ req.id = nextId /\ req.body = body /\ req.noreply
  <2> DEFINE move == [id |-> nextId, body |-> body, noreply |-> TRUE]
  <2>1. move.id = nextId /\ move.body = body /\ move.noreply = TRUE
    OBVIOUS
  <2>2. requests' = requests \cup {move}
    BY <1>2
  <2> HIDE DEF move
  <2> QED BY <2>1, <2>2
<1>7. ClientTypeOK(Callbacks, Bodies)' /\ IdsIssued'
  <2>1. ClientTypeOK(Callbacks, Bodies)'
    BY <1>2, <1>4, <1>5, SendKeepsTypes
  <2>2. publish(nextId, body, TRUE)
    BY <1>2 DEF publish
  <2> QED BY <1>1, <1>2, <1>4, <2>1, <2>2, PublishKeepsIds
<1>8. req.id \in Nat /\ \A old \in requests : old.id < req.id
  BY <1>1, <1>4, <1>6, NextIdNew
<1>9. steady \in Nat /\ steady' = steady /\ CmdVel \notin Clients
  BY <1>2, <1>4, ClientAssumption, SportAssumption DEF ClientTypeOK
<1>10. TypeOK'
  BY <1>1, <1>3, <1>7 DEF TypeOK
<1>11. Onward
  BY <1>2, <1>3, <1>9 DEF Onward
<1>12. ASSUME NEW callback PROVE Carried(callback)
  BY <1>3, Zenon DEF Carried, Expected, Concerns, Waiting, IsMode, Answered
<1>13. PendingSound'
  BY <1>1, <1>2, <1>12, TableKept
<1>14. OwedSound'
  BY <1>2, Zenon DEF OwedSound
<1>15. SequenceCarriedOn'
  BY <1>1, <1>2, <1>3 DEF SequenceCarriedOn, AwaitsReply, IsOwed
<1>16. RunSound'
  BY <1>1, <1>2, <1>3, <1>5, <1>6, <1>9, <1>11, RunKept DEF Answered
<1>17. RequestsSound'
  <2>1. RequestSound(req)'
    BY <1>5, <1>6, <1>9 DEF RequestSound
  <2> QED BY <1>1, <1>3, <1>6, <1>9, <1>11, <2>1, RequestsKept DEF Answered
<1>18. EveryCallTracked'
  BY <1>1, <1>2, <1>3 DEF EveryCallTracked, Tracked, Answered, AwaitsReply, IsOwed
<1>19. SuccessMeansAccepted'
  <2>1. \A s \in Clients : ~Answered(s) => SuccessIsEarned(s)'
    BY <1>3 DEF SuccessIsEarned, Answered
  <2> QED BY <1>1, <1>11, <2>1, SuccessKept
<1>20. StepsFollow'
  <2>1. FollowsItsStep(req)'
    BY <1>5, <1>6, <1>9 DEF FollowsItsStep
  <2> QED BY <1>1, <1>6, <1>11, <2>1, StepsKept
<1>21. Uninterrupted'
  <2>1. req.body.for \notin Clients
    BY <1>5, <1>6, <1>9
  <2> QED BY <1>1, <1>6, <1>8, <1>11, <2>1, UninterruptedKept
<1>22. StepsCounted'
  <2>1. IsFiniteSet(requests')
    BY <1>1, <1>6, FS_AddElement DEF StepsCounted
  <2> QED BY <1>1, <1>3, <1>5, <1>6, <1>9, <1>11, <2>1, CountKept DEF Published
<1> QED
  BY <1>7, <1>10, <1>13, <1>14, <1>15, <1>16, <1>17, <1>18, <1>19, <1>20, <1>21, <1>22 DEF IInv

LEMMA HandOverKeeps ==
  ASSUME IInv, NEW S, HandsOver(S), UNCHANGED bridgeVars,
         ClientTypeOK(Callbacks, Bodies)'
  PROVE  IInv'
<1>1. /\ TypeOK /\ IdsIssued /\ PendingSound /\ OwedSound /\ SequenceCarriedOn
      /\ RunSound /\ RequestsSound /\ EveryCallTracked
      /\ SuccessMeansAccepted /\ StepsFollow /\ Uninterrupted /\ StepsCounted
  BY DEF IInv
<1>2. /\ UNCHANGED <<last_id, requests, replies, steady, now>>
      /\ UNCHANGED <<active_sequence, sequence_timer, asked, responses>>
      /\ DOMAIN pending' \subseteq DOMAIN pending
  BY DEF HandsOver, bridgeVars
<1>3. /\ PendingSound' /\ OwedSound'
      /\ \A callback : AwaitsReply(callback) \/ IsOwed(callback) <=>
                        AwaitsReply(callback)' \/ IsOwed(callback)'
  BY <1>1, HandOverKeepsTables DEF TypeOK
<1>4. TypeOK'
  BY <1>1, <1>2 DEF TypeOK
<1>5. IdsIssued'
  BY <1>1, <1>2, HandlerKeepsIds
<1>6. steady' \in Nat /\ Onward
  BY <1>2, <1>4, ClientAssumption DEF Onward, TypeOK, ClientTypeOK
<1>7. SequenceCarriedOn'
  BY <1>1, <1>2, <1>3 DEF SequenceCarriedOn
<1>8. RunSound'
  BY <1>1, <1>2, <1>6, RunKept DEF Answered
<1>9. RequestsSound'
  BY <1>1, <1>2, <1>6, RequestsKept DEF Answered
<1>10. EveryCallTracked'
  BY <1>1, <1>2, <1>3 DEF EveryCallTracked, Tracked, Answered
<1>11. SuccessMeansAccepted'
  <2>1. \A s \in Clients : ~Answered(s) => SuccessIsEarned(s)'
    BY <1>2 DEF SuccessIsEarned, Answered
  <2> QED BY <1>1, <1>6, <2>1, SuccessKept
<1>12. StepsFollow'
  BY <1>1, <1>2, <1>6, StepsKept
<1>13. Uninterrupted'
  BY <1>1, <1>2, <1>6, UninterruptedUnchanged
<1>14. StepsCounted'
  BY <1>1, <1>2, <1>6, CountKept DEF StepsCounted, Published
<1> QED
  BY <1>3, <1>4, <1>5, <1>7, <1>8, <1>9, <1>10, <1>11, <1>12, <1>13, <1>14 DEF IInv

(* Replies, the clocks, and steps in which nothing happens.                *)
LEMMA EnvironmentKeeps ==
  ASSUME IInv, Environment \/ UNCHANGED clientVars, UNCHANGED bridgeVars
  PROVE  IInv'
<1>1. /\ TypeOK /\ IdsIssued /\ PendingSound /\ OwedSound /\ SequenceCarriedOn
      /\ RunSound /\ RequestsSound /\ EveryCallTracked
      /\ SuccessMeansAccepted /\ StepsFollow /\ Uninterrupted /\ StepsCounted
  BY DEF IInv
<1>2. ClientTypeOK(Callbacks, Bodies) /\ Foreign \notin Bodies
  BY <1>1, SportAssumption DEF TypeOK
<1>3. /\ UNCHANGED <<pending, last_id, owed, requests>>
      /\ replies \subseteq replies'
      /\ steady' \in Nat /\ steady <= steady'
      /\ ClientTypeOK(Callbacks, Bodies)' /\ IdsIssued'
  <2>1. CASE Environment
    BY <1>1, <1>2, <2>1, EnvironmentEffect, EnvironmentKeepsTypes, EnvironmentKeepsIds
  <2>2. CASE UNCHANGED clientVars
    <3>1. UNCHANGED <<pending, last_id, owed, requests, replies, steady, now>>
      BY <2>2 DEF clientVars
    <3>2. ClientTypeOK(Callbacks, Bodies)' /\ IdsIssued'
      BY <1>1, <1>2, <3>1 DEF ClientTypeOK, IdsIssued
    <3> QED BY <3>1, <3>2, ClientAssumption DEF ClientTypeOK
  <2> QED BY <2>1, <2>2
<1>4. UNCHANGED <<active_sequence, sequence_timer, asked, responses>>
  BY DEF bridgeVars
<1>5. TypeOK'
  BY <1>1, <1>3, <1>4 DEF TypeOK
<1>6. Onward
  BY <1>3, <1>4 DEF Onward
<1>7. ASSUME NEW callback PROVE Carried(callback)
  BY <1>3, <1>4, Zenon DEF Carried, Expected, Concerns, Waiting, IsMode, Answered
<1>8. PendingSound'
  BY <1>1, <1>3, <1>7, TableKept
<1>9. OwedSound'
  BY <1>1, <1>3, <1>7, OwedKept
<1>10. SequenceCarriedOn'
  BY <1>1, <1>3, <1>4 DEF SequenceCarriedOn, AwaitsReply, IsOwed
<1>11. RunSound'
  BY <1>1, <1>3, <1>4, <1>6, RunKept DEF Answered
<1>12. RequestsSound'
  BY <1>1, <1>3, <1>4, <1>6, RequestsKept DEF Answered
<1>13. EveryCallTracked'
  BY <1>1, <1>3, <1>4 DEF EveryCallTracked, Tracked, Answered, AwaitsReply, IsOwed
<1>14. SuccessMeansAccepted'
  <2>1. \A s \in Clients : ~Answered(s) => SuccessIsEarned(s)'
    BY <1>4 DEF SuccessIsEarned, Answered
  <2> QED BY <1>1, <1>6, <2>1, SuccessKept
<1>15. StepsFollow'
  BY <1>1, <1>3, <1>6, StepsKept
<1>16. Uninterrupted'
  BY <1>1, <1>3, <1>6, UninterruptedUnchanged
<1>17. StepsCounted'
  BY <1>1, <1>3, <1>4, <1>6, CountKept DEF StepsCounted, Published
<1> QED
  BY <1>3, <1>5, <1>8, <1>9, <1>10, <1>11, <1>12, <1>13, <1>14, <1>15, <1>16, <1>17 DEF IInv

-----------------------------------------------------------------------------
(* Theorems.                                                               *)

LEMMA InitSound ==
  Init => IInv
<1> SUFFICES ASSUME Init PROVE IInv
  OBVIOUS
<1>1. /\ pending = <<>> /\ last_id = 0 /\ owed = {} /\ requests = {} /\ replies = {}
      /\ steady = 0 /\ now = 0
      /\ active_sequence = None /\ sequence_timer = None
      /\ asked = [r \in Clients |-> None]
      /\ responses = [r \in Clients |-> <<>>]
  BY DEF Init, ClientInit
<1>2. DOMAIN pending = {}
  BY <1>1
<1>3. TypeOK
  BY <1>1, <1>2, ClientAssumption DEF TypeOK, ClientTypeOK
<1>4. IdsIssued /\ PendingSound /\ OwedSound
  BY <1>1, <1>2 DEF IdsIssued, PendingSound, OwedSound
<1>5. SequenceCarriedOn /\ RunSound
  BY <1>1 DEF SequenceCarriedOn, RunSound
<1>6. RequestsSound /\ StepsFollow /\ Uninterrupted
  BY <1>1 DEF RequestsSound, StepsFollow, Uninterrupted
<1>7. EveryCallTracked /\ SuccessMeansAccepted
  BY <1>1 DEF EveryCallTracked, Tracked, SuccessMeansAccepted, SuccessIsEarned, Answered
<1>8. StepsCounted
  BY <1>1, FS_EmptySet DEF StepsCounted, StepsOf
<1> QED
  BY <1>3, <1>4, <1>5, <1>6, <1>7, <1>8 DEF IInv

LEMMA TimerKeeps ==
  ASSUME IInv, SequenceTimer
  PROVE  IInv'
<1>1. TypeOK /\ SequenceCarriedOn /\ RunSound
  BY DEF IInv
<1>2. active_sequence # None /\ sequence_timer # None
  BY <1>1 DEF SequenceTimer, SequenceCarriedOn
<1>3. /\ owed = {} /\ sequence_timer \in Nat /\ sequence_timer <= steady
      /\ UNCHANGED <<replies, steady, now, asked>>
      /\ Stepped \/ Ended
  BY <1>1, <1>2, TimerEffect
<1>4. ASSUME Stepped PROVE IInv'
  BY <1>2, <1>3, <1>4, SteppedKeeps
<1>5. ASSUME Ended PROVE IInv'
  <2>1. ~AwaitsReply(Sequence)
    BY <1>1, <1>2 DEF SequenceCarriedOn
  <2>2. owed' = {o \in owed : o.callback # Sequence}
    BY <1>3, <1>5 DEF Ended
  <2>3. CASE /\ active_sequence.index >= Len(Steps(active_sequence))
             /\ Finished(active_sequence.ok, active_sequence.last_message)
    <3>1. active_sequence.ok \in BOOLEAN
      BY <1>1, <1>2, RunFacts
    <3>2. active_sequence.index > 0
      BY <1>1, <1>2 DEF RunSound, Published
    <3>3. active_sequence.last_message \in SentMessages
      BY <1>1, <1>2, <3>2 DEF RunSound, SentMessages
    <3> QED BY <1>2, <1>3, <2>1, <2>2, <2>3, <3>1, <3>3, FinishedKeeps
  <2>4. CASE Finished(FALSE, "could not be sent")
    <3>1. "could not be sent" \in SentMessages
      BY DEF SentMessages
    <3> QED BY <1>2, <1>3, <2>1, <2>2, <2>4, <3>1, FinishedKeeps
  <2> QED BY <1>5, <2>3, <2>4 DEF Ended
<1> QED
  BY <1>3, <1>4, <1>5

LEMMA CallbackKeeps ==
  ASSUME IInv, NEW o \in owed, RunCallback(o)
  PROVE  IInv'
<1>1. TypeOK /\ OwedSound /\ RunSound
  BY DEF IInv
<1>2. o.callback = Sequence => active_sequence # None /\ active_sequence.ok
  BY <1>1 DEF OwedSound, Expected, RunSound
<1>3. /\ owed' = owed \ {o} /\ UNCHANGED <<replies, steady, now, asked>>
      /\ \/ /\ o.callback = Sequence
            /\ StepTaken(o) \/ \E message \in SentMessages : Finished(FALSE, message)
         \/ o.callback \in Clients /\ Responded(o.callback, o.result)
  BY <1>1, <1>2, CallbackEffect
<1>4. CASE o.callback = Sequence /\ StepTaken(o)
  BY <1>2, <1>3, <1>4, StepTakenKeeps
<1>5. ASSUME o.callback = Sequence, NEW message \in SentMessages, Finished(FALSE, message)
      PROVE  IInv'
  <2>1. owed' = {due \in owed : due.callback # Sequence} /\ ~AwaitsReply(Sequence)
    BY <1>1, <1>3, <1>5 DEF OwedSound
  <2> QED BY <1>2, <1>3, <1>5, <2>1, FinishedKeeps
<1>6. CASE o.callback \in Clients /\ Responded(o.callback, o.result)
  BY <1>3, <1>6, RespondedKeeps
<1> QED
  BY <1>3, <1>4, <1>5, <1>6

LEMMA StepSound ==
  ASSUME IInv, [Next]_vars
  PROVE  IInv'
<1>1. ClientTypeOK(Callbacks, Bodies)
  BY DEF IInv, TypeOK
<1>2. ASSUME NEW r \in Clients, NEW request \in Requests, ServiceCall(r, request)
      PROVE  IInv'
  BY <1>2, ServiceCallEffect, RefusedKeeps, StartedKeeps, ForwardedKeeps
     DEF ModeRefused, Refused
<1>3. ASSUME NEW msg \in replies, responseCallback(msg), UNCHANGED bridgeVars
      PROVE  IInv'
  <2>1. CASE msg.id \in DOMAIN pending
    BY <1>1, <1>3, <2>1, ResponseHandsOver, ResponseKeepsTypes, HandOverKeeps
  <2>2. CASE msg.id \notin DOMAIN pending
    <3>1. UNCHANGED clientVars
      BY <1>3, <2>2 DEF responseCallback, clientVars
    <3> QED BY <1>3, <3>1, EnvironmentKeeps
  <2> QED BY <2>1, <2>2
<1>4. ASSUME sweepTimeouts, UNCHANGED bridgeVars PROVE IInv'
  BY <1>1, <1>4, SweepHandsOver, SweepKeepsTypes, HandOverKeeps
<1>5. CASE UNCHANGED vars
  BY <1>5, EnvironmentKeeps DEF vars
<1> QED
  BY <1>2, <1>3, <1>4, <1>5, MoveKeeps, TimerKeeps, CallbackKeeps, EnvironmentKeeps DEF Next

(* The safety properties, and what makes them inductive, hold of every     *)
(* execution.                                                              *)
THEOREM InductiveInvariant == SafeSpec => []IInv
<1>1. Init => IInv
  BY InitSound
<1>2. IInv /\ [Next]_vars => IInv'
  BY StepSound
<1> QED
  BY <1>1, <1>2, PTL DEF SafeSpec

(* Every variable of the bridge and of its client keeps its type: the      *)
(* optional active_sequence_ is not read while it is empty, and no step is *)
(* read past the end of its preset.                                        *)
THEOREM TypeCorrect == SafeSpec => []TypeOK
<1>1. IInv => TypeOK
  BY DEF IInv
<1> QED
  BY <1>1, InductiveInvariant, PTL

(* A service call is answered at most once, and no path drops it.          *)
THEOREM CallsTracked == SafeSpec => []EveryCallTracked
<1>1. IInv => EveryCallTracked
  BY DEF IInv
<1> QED
  BY <1>1, InductiveInvariant, PTL

(* A caller told of success had every step of its mode, or its request,    *)
(* accepted by the robot.                                                  *)
THEOREM SuccessIsTheRobots == SafeSpec => []SuccessMeansAccepted
<1>1. IInv => SuccessMeansAccepted
  BY DEF IInv
<1> QED
  BY <1>1, InductiveInvariant, PTL

(* A step is published after the one before it was accepted and its wait   *)
(* has passed.                                                             *)
THEOREM StepsInOrder == SafeSpec => []StepsFollow
<1>1. IInv => StepsFollow
  BY DEF IInv
<1> QED
  BY <1>1, InductiveInvariant, PTL

(* At most one mode call is being carried out, and its steps are not       *)
(* interleaved with another's.                                             *)
THEOREM OneAtATime == SafeSpec => []OneSequenceAtATime
<1>1. IInv => OneModeUnanswered
  <2> SUFFICES ASSUME IInv, NEW r \in Clients, NEW s \in Clients,
                      IsMode(r), ~Answered(r), IsMode(s), ~Answered(s)
               PROVE  r = s
    BY DEF OneModeUnanswered
  <2> QED BY WaitsForItsSequence DEF IInv
<1>2. IInv => OneSequenceAtATime
  BY <1>1 DEF IInv, OneSequenceAtATime
<1> QED
  BY <1>2, InductiveInvariant, PTL

(* Exactly one thing carries an active sequence on, and nothing is left of *)
(* one that has ended.                                                     *)
THEOREM SequenceCarried == SafeSpec => []SequenceSound
<1>1. IInv => SequenceSound
  <2> SUFFICES ASSUME IInv PROVE SequenceSound
    OBVIOUS
  <2> DEFINE inTable == {id \in DOMAIN pending : pending[id].callback = Sequence}
             due == {o \in owed : o.callback = Sequence}
             timers == {sequence_timer} \ {None}
  <2>1. PendingSound /\ OwedSound /\ SequenceCarriedOn /\ RunSound /\ TypeOK
    BY DEF IInv
  <2>2. /\ inTable = {} <=> ~AwaitsReply(Sequence)
        /\ due = {} <=> ~IsOwed(Sequence)
        /\ timers = {} <=> sequence_timer = None
    BY DEF AwaitsReply, IsOwed
  <2>3. inTable # {} => \E id : inTable = {id}
    BY <2>1 DEF PendingSound
  <2>4. due # {} => \E o : due = {o}
    BY <2>1 DEF OwedSound
  <2>5. sequence_timer # None => timers = {sequence_timer}
    OBVIOUS
  <2>6. ~(AwaitsReply(Sequence) /\ IsOwed(Sequence))
    BY <2>1 DEF OwedSound, IsOwed
  <2>7. active_sequence = None => ~AwaitsReply(Sequence) /\ ~IsOwed(Sequence)
    BY <2>1 DEF PendingSound, OwedSound, AwaitsReply, IsOwed, Expected
  <2> HIDE DEF inTable, due, timers
  <2>8. ASSUME active_sequence # None
        PROVE  Cardinality(inTable) + Cardinality(due) + Cardinality(timers) = 1
    <3>1. Cardinality(inTable) = IF AwaitsReply(Sequence) THEN 1 ELSE 0
      BY <2>2, <2>3, FS_EmptySet, FS_Singleton
    <3>2. Cardinality(due) = IF IsOwed(Sequence) THEN 1 ELSE 0
      BY <2>2, <2>4, FS_EmptySet, FS_Singleton
    <3>3. Cardinality(timers) = IF sequence_timer # None THEN 1 ELSE 0
      BY <2>2, <2>5, FS_EmptySet, FS_Singleton
    <3> QED BY <2>1, <2>6, <2>8, <3>1, <3>2, <3>3 DEF SequenceCarriedOn
  <2>9. ASSUME active_sequence # None
        PROVE  /\ timers = {} => active_sequence.index < Len(Steps(active_sequence))
               /\ asked[active_sequence.request_id].mode = active_sequence.name
               /\ ~Answered(active_sequence.request_id)
    BY <2>1, <2>2, <2>9, RunFacts DEF RunSound, Published
  <2>10. active_sequence = None => inTable = {} /\ due = {} /\ timers = {}
    BY <2>1, <2>2, <2>7 DEF SequenceCarriedOn
  <2> QED BY <2>8, <2>9, <2>10, Zenon DEF SequenceSound, inTable, due, timers
<1> QED
  BY <1>1, InductiveInvariant, PTL

(* What is refused is not sent, not even later.                            *)
THEOREM RefusedStaysUnsent == SafeSpec => []RefusedNeverSent
<1>1. IInv => RefusedNeverSent
  <2> SUFFICES ASSUME IInv, NEW req \in requests
               PROVE  LET r == req.body.for
                      IN /\ IF r = CmdVel THEN req.noreply ELSE ~req.noreply
                         /\ r # CmdVel /\ IsMode(r) => asked[r].mode \notin BlockedNames
                         /\ r # CmdVel /\ Answered(r) =>
                              responses[r][1].message \in SentMessages
    BY Zenon DEF RefusedNeverSent
  <2>1. RequestSound(req)
    BY DEF IInv, RequestsSound
  <2> QED BY <2>1, SportAssumption DEF RequestSound, blocked_modes
<1> QED
  BY <1>1, InductiveInvariant, PTL
=============================================================================
