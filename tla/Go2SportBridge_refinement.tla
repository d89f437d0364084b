---------------------- MODULE Go2SportBridge_refinement ----------------------
(***************************************************************************)
(* Proof that the Sport API bridge keeps what ModeService says of the      *)
(* `mode` service: every step of the bridge is a step of it, or none.      *)
(***************************************************************************)
EXTENDS Go2SportBridge_proofs

-----------------------------------------------------------------------------
(* What a step of the bridge changes of the views.                         *)

Same(s) ==
  /\ ModeView'[s] = ModeView[s]
  /\ StatusView'[s] = StatusView[s]
  /\ SentView'[s] = SentView[s]
  /\ AcceptedView'[s] = AcceptedView[s]

(* How far a `mode` call has got that is answered at most once.            *)
LEMMA ModeStatusOf ==
  ASSUME NEW s \in Clients
  PROVE  /\ ~IsMode(s) => ModeStatus(s) = "idle"
         /\ IsMode(s) /\ responses[s] = <<>> => ModeStatus(s) = "running"
         /\ IsMode(s) /\ Len(responses[s]) = 1 /\ responses[s] # <<>>
              => ModeStatus(s) = Ending(responses[s][1])
         /\ IsMode(s)' /\ responses'[s] = <<>> => ModeStatus(s)' = "running"
         /\ IsMode(s)' /\ Len(responses'[s]) = 1 /\ responses'[s] # <<>>
              => ModeStatus(s)' = Ending(responses'[s][1])
<1>1. /\ responses[s] = <<>> => ~(Len(responses[s]) > 1)
      /\ Len(responses[s]) = 1 => ~(Len(responses[s]) > 1)
      /\ responses'[s] = <<>> => ~(Len(responses'[s]) > 1)
      /\ Len(responses'[s]) = 1 => ~(Len(responses'[s]) > 1)
  <2>1. ~(Len(<<>>) > 1) /\ ~(1 > 1)
    OBVIOUS
  <2> QED BY <2>1, Zenon
<1>2. /\ ModeStatus(s) =
           IF ~IsMode(s) THEN "idle"
           ELSE IF Len(responses[s]) > 1 THEN "answered twice"
           ELSE IF responses[s] # <<>> THEN Ending(responses[s][1]) ELSE "running"
      /\ ModeStatus(s)' =
           IF ~IsMode(s)' THEN "idle"
           ELSE IF Len(responses'[s]) > 1 THEN "answered twice"
           ELSE IF responses'[s] # <<>> THEN Ending(responses'[s][1]) ELSE "running"
  BY DEF ModeStatus, Answered, Ending
<1>3. /\ ~IsMode(s) => ModeStatus(s) = "idle"
      /\ IsMode(s) /\ responses[s] = <<>> => ModeStatus(s) = "running"
      /\ IsMode(s) /\ Len(responses[s]) = 1 /\ responses[s] # <<>>
           => ModeStatus(s) = Ending(responses[s][1])
  BY <1>1, <1>2, Zenon
<1>4. IsMode(s)' /\ responses'[s] = <<>> => ModeStatus(s)' = "running"
  BY <1>1, <1>2, Zenon
<1>5. IsMode(s)' /\ Len(responses'[s]) = 1 /\ responses'[s] # <<>>
        => ModeStatus(s)' = Ending(responses'[s][1])
  BY <1>1, <1>2, Zenon
<1> QED
  BY <1>3, <1>4, <1>5

LEMMA ViewAt ==
  ASSUME NEW s \in Clients
  PROVE  /\ ModeView[s] = IF IsMode(s) THEN asked[s].mode ELSE None
         /\ StatusView[s] = ModeStatus(s)
         /\ SentView[s] = Cardinality(StepsOf(s))
         /\ AcceptedView[s] = {req.body.step : req \in {q \in StepsOf(s) : Accepted(q.body)}}
         /\ ModeView'[s] = (IF IsMode(s) THEN asked[s].mode ELSE None)'
         /\ StatusView'[s] = ModeStatus(s)'
         /\ SentView'[s] = Cardinality(StepsOf(s)')
         /\ AcceptedView'[s] =
              {req.body.step : req \in {q \in StepsOf(s)' : Accepted(q.body)'}}
BY DEF ModeView, StatusView, SentView, AcceptedView

(* A change at one caller is a change of the function.                     *)
LEMMA ViewChanges ==
  ASSUME NEW r \in Clients, \A s \in Clients : s # r => Same(s)
  PROVE  /\ ModeView' = [ModeView EXCEPT ![r] = ModeView'[r]]
         /\ StatusView' = [StatusView EXCEPT ![r] = StatusView'[r]]
         /\ SentView' = [SentView EXCEPT ![r] = SentView'[r]]
         /\ AcceptedView' = [AcceptedView EXCEPT ![r] = AcceptedView'[r]]
         /\ ModeView'[r] = ModeView[r] => ModeView' = ModeView
         /\ StatusView'[r] = StatusView[r] => StatusView' = StatusView
         /\ SentView'[r] = SentView[r] => SentView' = SentView
         /\ AcceptedView'[r] = AcceptedView[r] => AcceptedView' = AcceptedView
<1>1. /\ ModeView = [s \in Clients |-> ModeView[s]]
      /\ ModeView' = [s \in Clients |-> ModeView'[s]]
  BY DEF ModeView
<1>2. /\ StatusView = [s \in Clients |-> StatusView[s]]
      /\ StatusView' = [s \in Clients |-> StatusView'[s]]
  BY DEF StatusView
<1>3. /\ SentView = [s \in Clients |-> SentView[s]]
      /\ SentView' = [s \in Clients |-> SentView'[s]]
  BY DEF SentView
<1>4. /\ AcceptedView = [s \in Clients |-> AcceptedView[s]]
      /\ AcceptedView' = [s \in Clients |-> AcceptedView'[s]]
  BY DEF AcceptedView
<1> QED
  BY <1>1, <1>2, <1>3, <1>4 DEF Same

LEMMA ViewsSame ==
  ASSUME \A s \in Clients : Same(s)
  PROVE  UNCHANGED Abstract!modeVars
<1>1. /\ ModeView = [s \in Clients |-> ModeView[s]]
      /\ ModeView' = [s \in Clients |-> ModeView'[s]]
  BY DEF ModeView
<1>2. /\ StatusView = [s \in Clients |-> StatusView[s]]
      /\ StatusView' = [s \in Clients |-> StatusView'[s]]
  BY DEF StatusView
<1>3. /\ SentView = [s \in Clients |-> SentView[s]]
      /\ SentView' = [s \in Clients |-> SentView'[s]]
  BY DEF SentView
<1>4. /\ AcceptedView = [s \in Clients |-> AcceptedView[s]]
      /\ AcceptedView' = [s \in Clients |-> AcceptedView'[s]]
  BY DEF AcceptedView
<1> QED
  BY <1>1, <1>2, <1>3, <1>4 DEF Same, Abstract!modeVars

(* A caller that is not the one the step is about sees nothing of it.      *)
LEMMA OthersSame ==
  ASSUME NEW s \in Clients, asked'[s] = asked[s],
         IsMode(s) => responses'[s] = responses[s],
         requests \subseteq requests',
         \A req \in requests' \ requests : IsMode(s) => req.body.for # s,
         \A q \in StepsOf(s) : Accepted(q.body)' <=> Accepted(q.body)
  PROVE  Same(s)
<1>1. IsMode(s)' <=> IsMode(s)
  BY DEF IsMode
<1>2. StepsOf(s)' = StepsOf(s)
  BY <1>1 DEF StepsOf
<1>3. ModeStatus(s)' = ModeStatus(s)
  BY <1>1 DEF ModeStatus, Answered
<1>4. {q \in StepsOf(s)' : Accepted(q.body)'} = {q \in StepsOf(s) : Accepted(q.body)}
  BY <1>2
<1> QED
  BY <1>1, <1>2, <1>3, <1>4, ViewAt DEF Same

(* Nor does one that does not call `mode`.                                 *)
LEMMA NoModeSame ==
  ASSUME NEW s \in Clients, ~IsMode(s), ~IsMode(s)'
  PROVE  Same(s)
<1>1. StepsOf(s)' = {} /\ StepsOf(s) = {}
  BY DEF StepsOf
<1>2. ModeStatus(s)' = ModeStatus(s)
  BY DEF ModeStatus
<1> QED
  BY <1>1, <1>2, ViewAt DEF Same

(* A request that was just published has not been accepted.                *)
LEMMA NewNotAccepted ==
  ASSUME TypeOK, IdsIssued, UNCHANGED replies, NEW req,
         \A old \in requests : old.body # req.body, req.body \in Bodies
  PROVE  ~Accepted(req.body)'
<1>1. \A msg \in replies : msg.to # req.body
  BY SportAssumption DEF IdsIssued
<1> QED
  BY <1>1 DEF Accepted

LEMMA MayRun ==
  DOMAIN presets \ BlockedNames = DOMAIN presets \ blocked_modes
BY SportAssumption DEF blocked_modes

(* Whoever is running has the active sequence.                             *)
LEMMA RunningFacts ==
  ASSUME IInv
  PROVE  /\ \A s \in Clients : Abstract!Running(s) <=> IsMode(s) /\ ~Answered(s)
         /\ \A s \in Clients : Abstract!Running(s) =>
              active_sequence # None /\ active_sequence.request_id = s
         /\ active_sequence # None => Abstract!Running(active_sequence.request_id)
<1>1. ASSUME NEW s \in Clients
      PROVE  Abstract!Running(s) <=> IsMode(s) /\ ~Answered(s)
  <2>1. StatusView[s] = ModeStatus(s)
    BY ViewAt
  <2>2. ModeStatus(s) = "running" <=> IsMode(s) /\ ~Answered(s)
    <3>1. ASSUME IsMode(s), Answered(s) PROVE ModeStatus(s) # "running"
      BY <3>1 DEF ModeStatus, Ending
    <3> QED BY <3>1, ModeStatusOf DEF Answered
  <2> QED BY <2>1, <2>2 DEF Abstract!Running
<1>2. ASSUME NEW s \in Clients, IsMode(s), ~Answered(s)
      PROVE  active_sequence # None /\ active_sequence.request_id = s
  BY <1>2, WaitsForItsSequence DEF IInv
<1>3. ASSUME active_sequence # None
      PROVE  /\ active_sequence.request_id \in Clients
             /\ IsMode(active_sequence.request_id)
             /\ ~Answered(active_sequence.request_id)
  BY <1>3, RunFacts DEF IInv, RunSound
<1> QED
  BY <1>1, <1>2, <1>3

-----------------------------------------------------------------------------
(* Each action maps to a step of the service, or to none.                  *)

Maps == [Abstract!Next]_(Abstract!modeVars)

LEMMA StuttersMap ==
  ASSUME \A s \in Clients : Same(s)
  PROVE  Maps
BY ViewsSame DEF Maps

(* A call that has just come is idle, and has no steps.                    *)
LEMMA NewCallView ==
  ASSUME IInv, NEW r \in Clients, NEW request \in Requests, asked[r] = None,
         asked' = [asked EXCEPT ![r] = request], UNCHANGED replies,
         \A s \in Clients : s # r => responses'[s] = responses[s],
         requests \subseteq requests',
         \A req \in requests' \ requests : req.body.for = r
  PROVE  /\ IsMode(r)' <=> request.service = "mode"
         /\ StatusView[r] = "idle" /\ SentView[r] = 0 /\ AcceptedView[r] = {}
         /\ ModeView'[r] = IF request.service = "mode" THEN request.mode ELSE None
         /\ \A s \in Clients : s # r => Same(s)
<1>1. /\ asked'[r] = request /\ request # None
      /\ \A s \in Clients : s # r => asked'[s] = asked[s]
  BY NewCallFacts
<1>2. /\ ~IsMode(r) /\ StepsOf(r) = {}
      /\ IsMode(r)' <=> request.service = "mode"
  BY <1>1 DEF IsMode, StepsOf
<1>3. StatusView[r] = "idle" /\ SentView[r] = 0 /\ AcceptedView[r] = {}
  BY <1>2, ViewAt, FS_EmptySet DEF ModeStatus
<1>4. ModeView'[r] = IF request.service = "mode" THEN request.mode ELSE None
  BY <1>1, <1>2, ViewAt
<1>5. ASSUME NEW s \in Clients, s # r PROVE Same(s)
  BY <1>1, <1>5, OthersSame DEF Accepted
<1> QED
  BY <1>2, <1>3, <1>4, <1>5

LEMMA RefusedMaps ==
  ASSUME IInv, NEW r \in Clients, NEW request \in Requests, asked[r] = None,
         asked' = [asked EXCEPT ![r] = request], UNCHANGED replies,
         request.service = "mode", ModeRefused(r, request.mode)
  PROVE  Maps
<1> DEFINE name == request.mode
<1>1. PICK message \in Messages :
        /\ RefusedWith(r, message)
        /\ message \in Refusals <=>
             name \notin DOMAIN presets \ blocked_modes \/ active_sequence # None
  BY DEF ModeRefused
<1> DEFINE resp == Response(FALSE, message)
<1>2. /\ UNCHANGED requests
      /\ responses' = [responses EXCEPT ![r] = Append(@, resp)]
  BY <1>1 DEF RefusedWith, apiVars
<1>3. resp \in Responses /\ resp.success = FALSE /\ resp.message = message
  BY ResponseFacts
<1> HIDE DEF resp
<1>4. TypeOK /\ ~Answered(r)
  BY NewCallFacts DEF IInv
<1>5. /\ responses'[r] # <<>> /\ responses'[r][1] = resp /\ Len(responses'[r]) = 1
      /\ \A s \in Clients : s # r => responses'[s] = responses[s]
  BY <1>2, <1>3, <1>4, AnswerFacts
<1>6. /\ IsMode(r)' /\ StatusView[r] = "idle"
      /\ SentView[r] = 0 /\ AcceptedView[r] = {} /\ ModeView'[r] = name
      /\ \A s \in Clients : s # r => Same(s)
  BY <1>2, <1>5, NewCallView
<1>7. StepsOf(r)' = {}
  BY <1>2, NewCallFacts DEF StepsOf
<1>8. SentView'[r] = 0 /\ AcceptedView'[r] = {}
  BY <1>7, ViewAt, FS_EmptySet
<1>9. StatusView'[r] = IF message \in Refusals THEN "refused" ELSE "failed"
  BY <1>3, <1>5, <1>6, ViewAt, ModeStatusOf DEF Ending
<1>10. /\ ModeView' = [ModeView EXCEPT ![r] = name]
       /\ StatusView' = [StatusView EXCEPT ![r] = StatusView'[r]]
       /\ UNCHANGED <<SentView, AcceptedView>>
  BY <1>6, <1>8, ViewChanges
<1>11. name \in ModeNames
  BY DEF ModeNames
<1>12. CASE message \in Refusals
  <2>1. name \notin DOMAIN presets \ BlockedNames \/ \E s \in Clients : Abstract!Running(s)
    BY <1>1, <1>4, <1>12, MayRun, RunningFacts, RunFacts
  <2>2. Abstract!Refuse(r, name)
    BY <1>9, <1>10, <1>12, <2>1 DEF Abstract!Refuse, Abstract!Ask
  <2> QED BY <1>6, <1>9, <1>11, <1>12, <2>2 DEF Maps, Abstract!Next
<1>13. CASE message \notin Refusals
  <2>1. name \in DOMAIN presets \ BlockedNames /\ \A s \in Clients : ~Abstract!Running(s)
    BY <1>1, <1>13, MayRun, RunningFacts
  <2>2. Abstract!Start(r, name)
    BY <1>9, <1>10, <1>13, <2>1 DEF Abstract!Start, Abstract!Ask
  <2> QED BY <1>6, <1>9, <1>11, <1>13, <2>2 DEF Maps, Abstract!Next
<1> QED
  BY <1>12, <1>13

LEMMA StartedMaps ==
  ASSUME IInv, NEW r \in Clients, NEW request \in Requests, owed = {}, asked[r] = None,
         asked' = [asked EXCEPT ![r] = request], UNCHANGED <<replies, steady, now>>,
         request.service = "mode", Started(r, request.mode)
  PROVE  Maps
<1> DEFINE name == request.mode
<1>1. /\ active_sequence = None /\ UNCHANGED responses
      /\ name \in DOMAIN presets \ BlockedNames
      /\ \E api_id \in Int : sendRequest(Body(r, 1, api_id), Sequence)
  BY MayRun DEF Started
<1>2. TypeOK /\ IdsIssued
  BY DEF IInv
<1>3. PICK req : /\ requests' = requests \cup {req}
                 /\ req.body.for = r /\ req.body.step = 1
                 /\ req.body \in Bodies
  <2>1. Sent(r, 1, Sequence) /\ ClientTypeOK(Callbacks, Bodies)'
    BY <1>1, <1>2, SentFacts DEF Callbacks
  <2> QED BY <2>1 DEF Sent, ClientTypeOK
<1>4. /\ IsMode(r)' /\ StatusView[r] = "idle"
      /\ SentView[r] = 0 /\ AcceptedView[r] = {} /\ ModeView'[r] = name
      /\ \A s \in Clients : s # r => Same(s)
  BY <1>1, <1>3, NewCallView
<1>5. (\A old \in requests : old.body.for # r) /\ ~Answered(r)
  BY NewCallFacts
<1>6. StepsOf(r)' = {req}
  BY <1>3, <1>4, <1>5 DEF StepsOf
<1>7. ~Accepted(req.body)'
  <2>1. \A old \in requests : old.body # req.body
    BY <1>3, <1>5
  <2> QED BY <1>2, <1>3, <2>1, NewNotAccepted
<1>8. SentView'[r] = 1 /\ AcceptedView'[r] = {}
  <2>1. Cardinality(StepsOf(r)') = 1
    BY <1>6, FS_Singleton
  <2>2. {q \in StepsOf(r)' : Accepted(q.body)'} = {}
    BY <1>6, <1>7
  <2> QED BY <2>1, <2>2, ViewAt
<1>9. StatusView'[r] = "running"
  BY <1>1, <1>4, <1>5, ViewAt, ModeStatusOf DEF Answered
<1>10. /\ ModeView' = [ModeView EXCEPT ![r] = name]
       /\ StatusView' = [StatusView EXCEPT ![r] = "running"]
       /\ SentView' = [SentView EXCEPT ![r] = 1]
       /\ UNCHANGED AcceptedView
  BY <1>4, <1>8, <1>9, ViewChanges
<1>11. \A s \in Clients : ~Abstract!Running(s)
  BY <1>1, RunningFacts
<1>12. Abstract!Start(r, name)
  BY <1>1, <1>10, <1>11 DEF Abstract!Start, Abstract!Ask
<1>13. name \in ModeNames
  BY DEF ModeNames
<1> QED
  BY <1>4, <1>9, <1>12, <1>13 DEF Maps, Abstract!Next

(* The calls of the other services are not the mode service's.             *)
LEMMA OtherCallMaps ==
  ASSUME IInv, NEW r \in Clients, NEW request \in Requests, owed = {}, asked[r] = None,
         asked' = [asked EXCEPT ![r] = request], UNCHANGED <<replies, steady, now>>,
         request.service # "mode", Refused(r) \/ Forwarded(r)
  PROVE  Maps
<1>1. TypeOK /\ IdsIssued
  BY DEF IInv
<1>2. ~IsMode(r) /\ responses \in [Clients -> Seq(Responses)]
  BY <1>1 DEF IsMode, TypeOK
<1>3. CASE Refused(r)
  <2>1. /\ UNCHANGED requests
        /\ \E message \in Messages :
             responses' = [responses EXCEPT ![r] = Append(@, Response(FALSE, message))]
    BY <1>3 DEF Refused, RefusedWith, apiVars
  <2>2. ~IsMode(r)' /\ \A s \in Clients : s # r => Same(s)
    BY <1>2, <2>1, NewCallView
  <2> QED BY <1>2, <2>2, NoModeSame, StuttersMap
<1>4. CASE Forwarded(r)
  <2>1. /\ UNCHANGED responses
        /\ \E api_id \in Int : sendRequest(Body(r, 1, api_id), r)
    BY <1>4 DEF Forwarded
  <2>2. PICK req : requests' = requests \cup {req} /\ req.body.for = r
    <3>1. Sent(r, 1, r)
      BY <1>1, <2>1, SentFacts DEF Callbacks
    <3> QED BY <3>1 DEF Sent
  <2>3. /\ requests \subseteq requests'
        /\ \A new \in requests' \ requests : new.body.for = r
        /\ \A s \in Clients : s # r => responses'[s] = responses[s]
    BY <2>1, <2>2
  <2>4. ~IsMode(r)' /\ \A s \in Clients : s # r => Same(s)
    BY <2>3, NewCallView
  <2> QED BY <1>2, <2>4, NoModeSame, StuttersMap
<1> QED
  BY <1>3, <1>4

(* A step that no mode call sees.                                          *)
LEMMA UnseenMaps ==
  ASSUME UNCHANGED <<asked, replies>>, requests \subseteq requests',
         \A req \in requests' \ requests : req.body.for \notin Clients,
         \A s \in Clients : IsMode(s) => responses'[s] = responses[s]
  PROVE  Maps
BY OthersSame, StuttersMap DEF Accepted

(* The next step of the active sequence.                                   *)
LEMMA SteppedMaps ==
  ASSUME IInv, IdsApart, active_sequence # None, owed = {},
         sequence_timer \in Nat, Stepped, UNCHANGED <<replies, steady, now, asked>>
  PROVE  Maps
<1>1. TypeOK /\ IdsIssued /\ RunSound /\ RequestsSound /\ StepsCounted
  BY DEF IInv
<1>2. PICK r \in Clients : r = active_sequence.request_id
  BY <1>1, RunFacts
<1>3. PICK n \in Nat : n = active_sequence.index
  BY <1>1, RunFacts
<1>4. /\ UNCHANGED <<replies, asked, responses>>
      /\ n < Len(Steps(active_sequence))
      /\ \E api_id \in Int : sendRequest(Body(r, n + 1, api_id), Sequence)
  BY <1>2, <1>3 DEF Stepped
<1>5. Published = n
  BY <1>3, SportAssumption DEF Published
<1>6. /\ IsMode(r) /\ asked[r].mode = active_sequence.name /\ ~Answered(r)
      /\ n >= 1
      /\ \E req \in requests : StepDone(req, r, n)
      /\ Cardinality(StepsOf(r)) = n
  BY <1>1, <1>2, <1>3, <1>5 DEF RunSound, StepsCounted
<1>7. PICK req : /\ requests' = requests \cup {req}
                 /\ req.body.for = r /\ req.body.step = n + 1
                 /\ req.body \in Bodies
  <2>1. n + 1 \in Nat
    OBVIOUS
  <2>2. Sent(r, n + 1, Sequence) /\ ClientTypeOK(Callbacks, Bodies)'
    BY <1>1, <1>4, <2>1, SentFacts DEF Callbacks
  <2> QED BY <2>2 DEF Sent, ClientTypeOK
<1>8. ASSUME NEW s \in Clients, s # r PROVE Same(s)
  BY <1>4, <1>7, <1>8, OthersSame DEF Accepted
<1>9. \A q \in StepsOf(r) : q \in requests /\ q.body.step \in 1 .. n
  BY <1>1, <1>6 DEF StepsCounted, StepsOf
<1>10. StepsOf(r)' = StepsOf(r) \cup {req} /\ req \notin StepsOf(r)
  BY <1>4, <1>6, <1>7, <1>9 DEF StepsOf, IsMode
<1>11. ~Accepted(req.body)'
  <2>1. \A old \in requests : old.body # req.body
    BY <1>6, <1>7, <1>9 DEF StepsOf
  <2> QED BY <1>1, <1>4, <1>7, <2>1, NewNotAccepted
<1>12. SentView[r] = n /\ SentView'[r] = n + 1
  <2>1. IsFiniteSet(StepsOf(r))
    BY <1>1, FS_Subset DEF StepsCounted, StepsOf
  <2> QED BY <1>6, <1>10, <2>1, ViewAt, FS_AddElement
<1>13. AcceptedView'[r] = AcceptedView[r]
  <2>1. {q \in StepsOf(r)' : Accepted(q.body)'} = {q \in StepsOf(r) : Accepted(q.body)}
    BY <1>4, <1>10, <1>11 DEF Accepted
  <2> QED BY <2>1, ViewAt
<1>14. ASSUME wait_for_response PROVE n \in AcceptedView[r]
  <2>1. PICK q \in requests : StepDone(q, r, n)
    BY <1>6
  <2>2. q \in StepsOf(r) /\ Accepted(q.body) /\ q.body.step = n
    BY <1>6, <1>14, <2>1 DEF StepDone, StepsOf, Acknowledged
  <2> QED BY <2>2, ViewAt
<1>15. ModeView[r] = active_sequence.name /\ ModeView'[r] = ModeView[r]
  BY <1>4, <1>6, ViewAt DEF IsMode
<1>16. StatusView[r] = "running" /\ StatusView'[r] = "running"
  BY <1>4, <1>6, ViewAt, ModeStatusOf DEF IsMode, Answered
<1>17. /\ SentView' = [SentView EXCEPT ![r] = n + 1]
       /\ UNCHANGED <<ModeView, StatusView, AcceptedView>>
  BY <1>8, <1>12, <1>13, <1>15, <1>16, ViewChanges
<1>18. n < [name \in DOMAIN presets |-> Len(presets[name])][ModeView[r]]
  BY <1>1, <1>4, <1>15, RunFacts DEF Steps
<1>19. Abstract!Continue(r)
  BY <1>12, <1>14, <1>16, <1>17, <1>18 DEF Abstract!Continue, Abstract!Running
<1> QED
  BY <1>19 DEF Maps, Abstract!Next

(* The end of the active sequence.                                         *)
LEMMA FinishedMaps ==
  ASSUME IInv, IdsApart, active_sequence # None,
         NEW ok \in BOOLEAN, NEW message \in SentMessages, Finished(ok, message),
         ok => /\ sequence_timer # None
               /\ active_sequence.index >= Len(Steps(active_sequence)),
         UNCHANGED <<replies, asked>>
  PROVE  Maps
<1> DEFINE resp == Response(ok, message)
<1>1. TypeOK /\ RunSound /\ StepsCounted
  BY DEF IInv
<1>2. PICK r \in Clients : r = active_sequence.request_id
  BY <1>1, RunFacts
<1>3. /\ UNCHANGED <<requests, replies, asked>>
      /\ responses' = [responses EXCEPT ![r] = Append(@, resp)]
  BY <1>2 DEF Finished, apiVars
<1>4. resp \in Responses /\ resp.success = ok /\ resp.message = message
  <2>1. message \in Messages
    BY DEF Messages, SentMessages
  <2> QED BY <2>1, ResponseFacts
<1>5. IsMode(r) /\ asked[r].mode = active_sequence.name /\ ~Answered(r)
  BY <1>1, <1>2 DEF RunSound
<1> HIDE DEF resp
<1>6. /\ responses'[r] # <<>> /\ responses'[r][1] = resp /\ Len(responses'[r]) = 1
      /\ \A s \in Clients : s # r => responses'[s] = responses[s]
  BY <1>1, <1>3, <1>4, <1>5, AnswerFacts
<1>7. \A s \in Clients : s # r => Same(s)
  BY <1>3, <1>6, OthersSame DEF Accepted
<1>8. IsMode(r)' /\ StepsOf(r)' = StepsOf(r)
  BY <1>3, <1>5 DEF IsMode, StepsOf
<1>9. ModeView[r] = active_sequence.name /\ ModeView'[r] = ModeView[r]
  BY <1>3, <1>5, <1>8, ViewAt
<1>10. SentView'[r] = SentView[r] /\ AcceptedView'[r] = AcceptedView[r]
  <2>1. {q \in StepsOf(r)' : Accepted(q.body)'} = {q \in StepsOf(r) : Accepted(q.body)}
    BY <1>3, <1>8 DEF Accepted
  <2> QED BY <1>8, <2>1, ViewAt
<1>11. StatusView[r] = "running"
  BY <1>5, ViewAt, ModeStatusOf DEF Answered
<1>12. StatusView'[r] = IF ok THEN "succeeded" ELSE "failed"
  <2>1. message \notin Refusals
    BY DEF Refusals, SentMessages
  <2> QED BY <1>4, <1>6, <1>8, <2>1, ViewAt, ModeStatusOf DEF Ending
<1>13. /\ StatusView' = [StatusView EXCEPT ![r] = StatusView'[r]]
       /\ UNCHANGED <<ModeView, SentView, AcceptedView>>
  BY <1>7, <1>9, <1>10, ViewChanges
<1>14. CASE ~ok
  <2>1. Abstract!Fail(r)
    BY <1>11, <1>12, <1>13, <1>14 DEF Abstract!Fail, Abstract!Running
  <2> QED BY <2>1 DEF Maps, Abstract!Next
<1>15. CASE ok
  <2>1. PICK n \in Nat : n = active_sequence.index
    BY <1>1, RunFacts
  <2>2. /\ n = Len(Steps(active_sequence)) /\ Cardinality(StepsOf(r)) = n
        /\ \A nth \in 1 .. n : \E req \in requests : StepDone(req, r, nth)
    BY <1>1, <1>2, <1>15, <2>1, RunFacts DEF RunSound, StepsCounted, Published
  <2>3. SentView[r] = n
    BY <2>2, ViewAt
  <2>4. n = [name \in DOMAIN presets |-> Len(presets[name])][ModeView[r]]
    BY <1>1, <1>9, <2>2, RunFacts DEF Steps
  <2>5. ASSUME wait_for_response PROVE AcceptedView[r] = 1 .. n
    <3>1. ASSUME NEW nth \in 1 .. n PROVE nth \in AcceptedView[r]
      <4>1. PICK q \in requests : StepDone(q, r, nth)
        BY <2>2
      <4>2. q \in StepsOf(r) /\ Accepted(q.body) /\ q.body.step = nth
        BY <1>5, <2>5, <4>1 DEF StepDone, StepsOf, Acknowledged
      <4> QED BY <4>2, ViewAt
    <3>2. ASSUME NEW nth \in AcceptedView[r] PROVE nth \in 1 .. n
      <4>1. PICK q \in StepsOf(r) : q.body.step = nth
        BY <3>2, ViewAt
      <4> QED BY <1>1, <2>2, <4>1 DEF StepsCounted
    <3> QED BY <3>1, <3>2
  <2>6. Abstract!Succeed(r)
    BY <1>11, <1>12, <1>13, <1>15, <2>3, <2>4, <2>5 DEF Abstract!Succeed, Abstract!Running
  <2> QED BY <2>6 DEF Maps, Abstract!Next
<1> QED
  BY <1>14, <1>15

(* The robot's answers: those to a mode's step say whether it accepts it.  *)
LEMMA RobotRepliesMaps ==
  ASSUME IInv, NEW req \in requests, NEW code \in Codes, NEW data \in Data,
         RobotReplies(req, code, data), UNCHANGED bridgeVars
  PROVE  Maps
<1> DEFINE msg == [id |-> req.id, to |-> req.body, code |-> code, data |-> data]
<1>1. /\ UNCHANGED <<requests, asked, responses>> /\ replies' = replies \cup {msg}
  BY DEF RobotReplies, bridgeVars
<1>2. TypeOK /\ StepsCounted
  BY DEF IInv
<1>3. ASSUME NEW body
      PROVE  Accepted(body)' <=> Accepted(body) \/ (body = req.body /\ code = StatusOk)
  <2>1. msg.to = req.body /\ msg.code = code
    OBVIOUS
  <2> HIDE DEF msg
  <2> QED BY <1>1, <2>1 DEF Accepted
<1>4. ASSUME NEW s \in Clients, IsMode(s) => req.body.for # s \/ code # StatusOk
      PROVE  Same(s)
  <2>1. \A q \in StepsOf(s) : Accepted(q.body)' <=> Accepted(q.body)
    BY <1>3, <1>4 DEF StepsOf
  <2> QED BY <1>1, <2>1, OthersSame
<1>5. CASE code # StatusOk \/ req.body.for \notin Clients
  BY <1>4, <1>5, StuttersMap
<1>6. CASE code = StatusOk /\ req.body.for \in Clients
  <2>1. PICK r \in Clients : r = req.body.for
    BY <1>6
  <2>2. \A s \in Clients : s # r => Same(s)
    BY <1>4, <2>1
  <2>3. CASE ~IsMode(r)
    BY <1>4, <2>2, <2>3, StuttersMap
  <2>4. CASE IsMode(r)
    <3>1. req \in StepsOf(r) /\ req.body.step \in 1 .. SentView[r]
      BY <1>2, <2>1, <2>4, ViewAt DEF StepsOf, StepsCounted
    <3>2. StepsOf(r)' = StepsOf(r) /\ IsMode(r)' /\ asked'[r] = asked[r]
      BY <1>1, <2>4 DEF StepsOf, IsMode
    <3>3. /\ ModeView'[r] = ModeView[r] /\ SentView'[r] = SentView[r]
          /\ StatusView'[r] = StatusView[r]
      BY <1>1, <2>4, <3>2, ViewAt DEF ModeStatus, Answered
    <3>4. AcceptedView'[r] = AcceptedView[r] \cup {req.body.step}
      <4>1. \A nth : nth \in AcceptedView'[r] <=>
                       \E q \in StepsOf(r) : Accepted(q.body)' /\ q.body.step = nth
        BY <3>2, ViewAt
      <4>2. \A nth : nth \in AcceptedView[r] <=>
                       \E q \in StepsOf(r) : Accepted(q.body) /\ q.body.step = nth
        BY ViewAt
      <4> QED BY <1>3, <1>6, <3>1, <4>1, <4>2
    <3>5. /\ AcceptedView' = [AcceptedView EXCEPT ![r] = @ \cup {req.body.step}]
          /\ UNCHANGED <<ModeView, StatusView, SentView>>
      BY <2>2, <3>3, <3>4, ViewChanges
    <3>6. Abstract!Accept(r)
      BY <3>1, <3>5 DEF Abstract!Accept
    <3> QED BY <3>6 DEF Maps, Abstract!Next
  <2> QED BY <2>3, <2>4
<1> QED
  BY <1>5, <1>6

LEMMA ServiceCallMaps ==
  ASSUME IInv, NEW r \in Clients, NEW request \in Requests, ServiceCall(r, request)
  PROVE  Maps
<1>1. /\ owed = {} /\ asked[r] = None
      /\ asked' = [asked EXCEPT ![r] = request]
      /\ UNCHANGED <<replies, steady, now>>
      /\ \/ /\ request.service = "mode"
            /\ ModeRefused(r, request.mode) \/ Started(r, request.mode)
         \/ /\ request.service # "mode"
            /\ Refused(r) \/ Forwarded(r)
  BY ServiceCallEffect
<1> QED
  BY <1>1, RefusedMaps, StartedMaps, OtherCallMaps

LEMMA MoveMaps ==
  ASSUME cmdVelCallback
  PROVE  Maps
<1> DEFINE move == [id |-> nextId, body |-> Body(CmdVel, 1, SportApiId.MOVE), noreply |-> TRUE]
<1>1. /\ UNCHANGED <<asked, replies, responses>>
      /\ requests' = requests \cup {move}
  BY DEF cmdVelCallback, bridgeVars, send, publish
<1>2. move.body.for = CmdVel
  BY DEF Body
<1> HIDE DEF move
<1> QED
  BY <1>1, <1>2, UnseenMaps, SportAssumption

LEMMA TimerMaps ==
  ASSUME IInv, IdsApart, SequenceTimer
  PROVE  Maps
<1>1. TypeOK /\ SequenceCarriedOn /\ RunSound
  BY DEF IInv
<1>2. active_sequence # None /\ sequence_timer # None
  BY <1>1 DEF SequenceTimer, SequenceCarriedOn
<1>3. /\ owed = {} /\ sequence_timer \in Nat
      /\ UNCHANGED <<replies, steady, now, asked>>
      /\ Stepped \/ Ended
  BY <1>1, <1>2, TimerEffect
<1>4. ASSUME Stepped PROVE Maps
  BY <1>2, <1>3, <1>4, SteppedMaps
<1>5. ASSUME /\ active_sequence.index >= Len(Steps(active_sequence))
             /\ Finished(active_sequence.ok, active_sequence.last_message)
      PROVE  Maps
  <2>1. active_sequence.index > 0 /\ active_sequence.ok \in BOOLEAN
    BY <1>1, <1>2, RunFacts DEF RunSound, Published
  <2>2. active_sequence.last_message \in SentMessages
    BY <1>1, <1>2, <2>1 DEF RunSound, SentMessages
  <2> QED BY <1>2, <1>3, <1>5, <2>1, <2>2, FinishedMaps
<1>6. ASSUME Finished(FALSE, "could not be sent") PROVE Maps
  <2>1. "could not be sent" \in SentMessages
    BY DEF SentMessages
  <2> QED BY <1>2, <1>3, <1>6, <2>1, FinishedMaps
<1> QED
  BY <1>3, <1>4, <1>5, <1>6 DEF Ended

LEMMA CallbackMaps ==
  ASSUME IInv, IdsApart, NEW o \in owed, RunCallback(o)
  PROVE  Maps
<1>1. TypeOK /\ OwedSound /\ RunSound
  BY DEF IInv
<1>2. o.callback = Sequence => active_sequence # None /\ active_sequence.ok
  BY <1>1 DEF OwedSound, Expected, RunSound
<1>3. /\ UNCHANGED <<replies, asked>>
      /\ \/ /\ o.callback = Sequence
            /\ StepTaken(o) \/ \E message \in SentMessages : Finished(FALSE, message)
         \/ o.callback \in Clients /\ Responded(o.callback, o.result)
  BY <1>1, <1>2, CallbackEffect
<1>4. CASE StepTaken(o)
  BY <1>3, <1>4, UnseenMaps DEF StepTaken, apiVars
<1>5. ASSUME o.callback = Sequence, NEW message \in SentMessages, Finished(FALSE, message)
      PROVE  Maps
  BY <1>2, <1>3, <1>5, FinishedMaps
<1>6. CASE o.callback \in Clients /\ Responded(o.callback, o.result)
  <2>1. PICK r \in Clients : r = o.callback
    BY <1>6
  <2>2. ~IsMode(r)
    BY <1>1, <2>1, SportAssumption DEF OwedSound, Expected, Waiting
  <2>3. /\ UNCHANGED requests
        /\ \E resp : responses' = [responses EXCEPT ![r] = Append(@, resp)]
    BY <1>6, <2>1 DEF Responded, apiVars
  <2>4. \A s \in Clients : IsMode(s) => responses'[s] = responses[s]
    BY <1>1, <2>2, <2>3 DEF TypeOK
  <2> QED BY <1>3, <2>3, <2>4, UnseenMaps
<1> QED
  BY <1>3, <1>4, <1>5, <1>6

LEMMA EnvironmentMaps ==
  ASSUME IInv, Environment, UNCHANGED bridgeVars
  PROVE  Maps
<1>1. ASSUME NEW req \in requests, NEW code \in Codes, NEW data \in Data,
             RobotReplies(req, code, data)
      PROVE  Maps
  BY <1>1, RobotRepliesMaps
<1>2. ASSUME NEW id \in ForeignIds, NEW code \in Codes, NEW data \in Data,
             ForeignReply(id, code, data)
      PROVE  Maps
  <2> DEFINE msg == [id |-> id, to |-> Foreign, code |-> code, data |-> data]
  <2>1. /\ UNCHANGED <<requests, asked, responses>> /\ replies' = replies \cup {msg}
    BY <1>2 DEF ForeignReply, bridgeVars
  <2>2. msg.to = Foreign
    OBVIOUS
  <2> HIDE DEF msg
  <2>3. ASSUME NEW q \in requests PROVE Accepted(q.body)' <=> Accepted(q.body)
    <3>1. q.body # Foreign
      BY RequestType, SportAssumption DEF IInv
    <3> QED BY <2>1, <2>2, <3>1 DEF Accepted
  <2>4. ASSUME NEW s \in Clients PROVE Same(s)
    BY <2>1, <2>3, OthersSame DEF StepsOf
  <2> QED BY <2>4, StuttersMap
<1>3. CASE Elapse \/ ClockSet
  BY <1>3, UnseenMaps DEF Elapse, ClockSet, bridgeVars
<1> QED
  BY <1>1, <1>2, <1>3 DEF Environment

LEMMA StepMaps ==
  ASSUME IInv, IdsApart, [Next]_vars
  PROVE  Maps
<1>1. ASSUME NEW msg \in replies, responseCallback(msg), UNCHANGED bridgeVars PROVE Maps
  BY <1>1, UnseenMaps DEF responseCallback, bridgeVars
<1>2. ASSUME sweepTimeouts, UNCHANGED bridgeVars PROVE Maps
  BY <1>2, UnseenMaps DEF sweepTimeouts, bridgeVars
<1>3. CASE UNCHANGED vars
  BY <1>3, UnseenMaps DEF vars, clientVars, bridgeVars
<1> QED
  BY <1>1, <1>2, <1>3, ServiceCallMaps, MoveMaps, TimerMaps, CallbackMaps, EnvironmentMaps
     DEF Next

LEMMA InitMaps ==
  Init => Abstract!Init
<1> SUFFICES ASSUME Init PROVE Abstract!Init
  OBVIOUS
<1>1. \A r \in Clients : ~IsMode(r) /\ StepsOf(r) = {}
  BY DEF Init, IsMode, StepsOf
<1>2. \A r \in Clients : StatusView[r] = "idle" /\ SentView[r] = 0 /\ AcceptedView[r] = {}
  BY <1>1, ViewAt, FS_EmptySet DEF ModeStatus
<1>3. StatusView = [r \in Clients |-> "idle"]
  BY <1>2 DEF StatusView
<1>4. SentView = [r \in Clients |-> 0]
  BY <1>2 DEF SentView
<1>5. AcceptedView = [r \in Clients |-> {}]
  BY <1>2 DEF AcceptedView
<1> QED
  BY <1>3, <1>4, <1>5 DEF Abstract!Init

(* The bridge keeps what ModeService says of `mode`, with velocity         *)
(* commands, other services, late and lost replies in between: every       *)
(* execution in which ids stay apart is one of the service's.              *)
THEOREM ImplementsTheService == SafeSpec /\ []IdsApart => KeepsModeService
<1>1. Init => Abstract!Init
  BY InitMaps
<1>2. IInv /\ IdsApart /\ [Next]_vars => [Abstract!Next]_(Abstract!modeVars)
  BY StepMaps DEF Maps
<1>3. SafeSpec => []IInv
  BY InductiveInvariant
<1> QED
  BY <1>1, <1>2, <1>3, PTL DEF SafeSpec, KeepsModeService, Abstract!SafeSpec
=============================================================================
