----------------------- MODULE ApiClientSystem_proofs ------------------------
(***************************************************************************)
(* Proofs about UnitreeApiClient under its most general use, for every     *)
(* number of calls, table size, timeout and clock bound.                   *)
(***************************************************************************)
EXTENDS ApiClientSystem, UnitreeApiClient_proofs

-----------------------------------------------------------------------------
(* Type correctness.                                                       *)

LEMMA MakeCallType ==
  ASSUME TypeOK, NEW c \in Calls, MakeCall(c),
         owed' \subseteq owed, UNCHANGED <<replies, steady, now>>
  PROVE  /\ ClientTypeOK(Calls, Bodies)'
         /\ returned' \in [Calls -> {"none", "true", "false", "lost"}]
<1>1. returned' \in [Calls -> {"none", "true", "false", "lost"}]
  BY DEF MakeCall, TypeOK
<1>2. CASE Full /\ UNCHANGED apiVars
  BY <1>1, <1>2 DEF TypeOK, ClientTypeOK, apiVars
<1>3. CASE call(c, c)
  BY <1>1, <1>3, CallKeepsTypes DEF TypeOK, Bodies
<1> QED
  BY <1>2, <1>3, <1>1 DEF MakeCall

LEMMA TypeStep == TypeOK /\ [Next]_vars => TypeOK'
<1> SUFFICES ASSUME TypeOK, [Next]_vars PROVE TypeOK'
  OBVIOUS
<1>1. ASSUME NEW c \in Calls, Call(c) PROVE TypeOK'
  BY <1>1, MakeCallType DEF Call, TypeOK
<1>2. ASSUME NEW noreply \in BOOLEAN, Send(noreply) PROVE TypeOK'
  BY <1>2, SendKeepsTypes DEF Send, TypeOK, Bodies
<1>3. ASSUME NEW msg \in replies, responseCallback(msg), UNCHANGED <<returned, results>>
      PROVE  TypeOK'
  BY <1>3, ResponseKeepsTypes DEF TypeOK
<1>4. ASSUME sweepTimeouts, UNCHANGED <<returned, results>> PROVE TypeOK'
  BY <1>4, SweepKeepsTypes DEF TypeOK
<1>5. ASSUME NEW o \in owed, RunCallback(o) PROVE TypeOK'
  <2>1. results' \in [Calls -> Seq(Result)]
    BY <1>5 DEF RunCallback, TypeOK, ClientTypeOK
  <2>2. owed' \subseteq owed /\ UNCHANGED <<replies, steady, now>>
    BY <1>5 DEF RunCallback
  <2>3. CASE \E c \in Calls : MakeCall(c)
    BY <2>1, <2>2, <2>3, MakeCallType DEF TypeOK
  <2>4. CASE UNCHANGED <<apiVars, returned>>
    BY <2>1, <2>2, <2>4 DEF TypeOK, ClientTypeOK, apiVars
  <2> QED BY <1>5, <2>3, <2>4 DEF RunCallback
<1>6. ASSUME Environment, UNCHANGED <<returned, results>> PROVE TypeOK'
  BY <1>6, EnvironmentKeepsTypes DEF TypeOK
<1>7. CASE Restart
  BY <1>7 DEF Restart, ClientRestart, TypeOK, ClientTypeOK
<1>8. CASE UNCHANGED vars
  BY <1>8 DEF vars, clientVars, TypeOK, ClientTypeOK
<1> QED
  BY <1>1, <1>2, <1>3, <1>4, <1>5, <1>6, <1>7, <1>8 DEF Next, Served

(* The client and its callers keep their types.                            *)
THEOREM TypeCorrect == Spec => []TypeOK
<1>1. Init => TypeOK
  BY ClientAssumption DEF Init, ClientInit, TypeOK, ClientTypeOK
<1> QED
  BY <1>1, TypeStep, PTL DEF Spec, SafeSpec

-----------------------------------------------------------------------------
(* The inductive invariant: what a step does to the state, then that it    *)
(* keeps each part of the invariant.                                       *)

(* `call` returned false to c and left the client alone.                   *)
Refused(c) ==
  /\ returned' = [returned EXCEPT ![c] = "false"]
  /\ UNCHANGED apiVars

(* `call` returned true to c: its request is entered under a new id.       *)
Entered(c) ==
  /\ returned' = [returned EXCEPT ![c] = "true"]
  /\ nextId \notin DOMAIN pending
  /\ DOMAIN pending' = DOMAIN pending \cup {nextId}
  /\ pending'[nextId].callback = c
  /\ \A k \in DOMAIN pending : pending'[k] = pending[k]
  /\ last_id' = nextId
  /\ requests' = requests \cup {[id |-> nextId, body |-> c, noreply |-> FALSE]}

(* Some call is refused or entered, or none is made.                       *)
CallEffect ==
  \/ UNCHANGED <<apiVars, returned>>
  \/ \E c \in Calls : returned[c] = "none" /\ (Refused(c) \/ Entered(c))

(* Some owed callback has been invoked, or none.                           *)
AnswerEffect ==
  \/ UNCHANGED <<owed, results>>
  \/ \E o \in owed :
       /\ owed' = owed \ {o}
       /\ results' = [results EXCEPT ![o.callback] = Append(@, o.result)]

LEMMA MakeCallEffect ==
  ASSUME TypeOK, IdsIssued, NEW c \in Calls, MakeCall(c)
  PROVE  CallEffect
<1>1. returned[c] = "none"
  BY DEF MakeCall
<1>2. nextId \in Nat /\ nextId > last_id
  BY NextIdFresh, ClientAssumption DEF TypeOK, ClientTypeOK
<1>3. nextId \notin DOMAIN pending
  BY <1>2 DEF IdsIssued, TypeOK, ClientTypeOK
<1>4. CASE call(c, c) /\ returned' = [returned EXCEPT ![c] = "true"]
  <2> DEFINE value == [callback |-> c, deadline |-> now + Timeout]
  <2>1. /\ pending' = Emplace(pending, nextId, value)
        /\ last_id' = nextId
        /\ requests' = requests \cup {[id |-> nextId, body |-> c, noreply |-> FALSE]}
    BY <1>4 DEF call, publish
  <2>2. value.callback = c
    OBVIOUS
  <2> HIDE DEF value
  <2>3. /\ DOMAIN pending' = DOMAIN pending \cup {nextId}
        /\ pending'[nextId] = value
        /\ \A k \in DOMAIN pending : pending'[k] = pending[k]
    BY <1>3, <2>1 DEF Emplace
  <2>4. Entered(c)
    BY <1>3, <1>4, <2>1, <2>2, <2>3 DEF Entered
  <2> QED BY <1>1, <2>4 DEF CallEffect
<1>5. CASE Full /\ UNCHANGED apiVars /\ returned' = [returned EXCEPT ![c] = "false"]
  BY <1>1, <1>5 DEF CallEffect, Refused
<1> QED
  BY <1>4, <1>5 DEF MakeCall

(* A call uses an id above all others.                                     *)
LEMMA CallKeepsIds ==
  ASSUME TypeOK, IdsIssued, CallEffect, UNCHANGED <<replies, steady>>
  PROVE  IdsIssued'
<1>1. CASE UNCHANGED apiVars
  BY <1>1 DEF IdsIssued, apiVars
<1>2. ASSUME NEW c \in Calls, Entered(c) PROVE IdsIssued'
  BY <1>2, PublishKeepsIds DEF Entered, publish, TypeOK
<1> QED
  BY <1>1, <1>2 DEF CallEffect, Refused

LEMMA CallKeepsAcks ==
  ASSUME CallEffect, UNCHANGED replies
  PROVE  \A c : Acknowledged(c) => Acknowledged(c)'
<1>1. requests \subseteq requests'
  BY DEF CallEffect, Refused, Entered, publish, apiVars
<1> QED
  BY <1>1, AcknowledgedStays

(* Facts about the calls: who may call, and who is being answered.         *)
LEMMA CallFacts ==
  ASSUME IInv, CallEffect, NEW x \in Calls
  PROVE  /\ Unanswered(x) => returned'[x] = "true"
         /\ returned[x] # "none" => returned'[x] = returned[x]
         /\ returned'[x] = "true" /\ returned[x] # "true" =>
              results[x] = <<>> /\ Entered(x)
<1>1. CASE UNCHANGED <<apiVars, returned>>
  BY <1>1 DEF Unanswered
<1>2. ASSUME NEW c \in Calls, returned[c] = "none", Refused(c) \/ Entered(c)
      PROVE  /\ returned[x] # "none" => returned'[x] = returned[x]
             /\ returned'[x] = "true" /\ returned[x] # "true" => x = c /\ Entered(c)
  BY <1>2 DEF Refused, Entered, IInv, TypeOK, ClientTypeOK
<1>3. returned[x] # "true" => results[x] = <<>>
  BY DEF IInv, AtMostOneAnswer
<1> QED
  BY <1>1, <1>2, <1>3 DEF CallEffect, Unanswered

LEMMA AnswerFacts ==
  ASSUME IInv, AnswerEffect, NEW x \in Calls
  PROVE  /\ owed' \subseteq owed
         /\ \/ /\ results'[x] = results[x]
               /\ \A o \in owed : o.callback = x => o \in owed'
            \/ \E o \in owed :
                 /\ o.callback = x /\ Unanswered(x)
                 /\ results'[x] = <<o.result>> /\ o.result \in Result
                 /\ \A p \in owed' : p.callback # x
<1>1. CASE UNCHANGED <<owed, results>>
  BY <1>1
<1>2. ASSUME NEW o \in owed, owed' = owed \ {o},
             results' = [results EXCEPT ![o.callback] = Append(@, o.result)]
      PROVE  /\ owed' \subseteq owed
             /\ o.callback # x => /\ results'[x] = results[x]
                                  /\ \A p \in owed : p.callback = x => p \in owed'
             /\ o.callback = x => /\ Unanswered(x)
                                  /\ results'[x] = <<o.result>> /\ o.result \in Result
                                  /\ \A p \in owed' : p.callback # x
  <2>1. o.callback \in Calls /\ o.result \in Result
    BY DEF IInv, TypeOK, ClientTypeOK
  <2>2. Unanswered(o.callback)
    BY DEF IInv, OwedSound
  <2>3. \A p \in owed' : p.callback # o.callback
    BY <1>2 DEF IInv, OwedSound
  <2>4. results'[o.callback] = <<o.result>>
    <3>1. results[o.callback] = <<>>
      BY <2>2 DEF Unanswered
    <3>2. results'[o.callback] = Append(results[o.callback], o.result)
      BY <1>2, <2>1 DEF IInv, TypeOK, ClientTypeOK
    <3> QED BY <3>1, <3>2
  <2>5. o.callback # x => results'[x] = results[x]
    BY <1>2 DEF IInv, TypeOK, ClientTypeOK
  <2> QED
    BY <1>2, <2>1, <2>2, <2>3, <2>4, <2>5
<1> QED
  BY <1>1, <1>2 DEF AnswerEffect

(* What is in the table after a call was there before, or is the call.     *)
LEMMA PendingFacts ==
  ASSUME IInv, CallEffect, NEW id \in DOMAIN pending'
  PROVE  \/ id \in DOMAIN pending /\ pending'[id] = pending[id]
         \/ \E c \in Calls :
              /\ returned[c] = "none" /\ Entered(c)
              /\ id = nextId /\ pending'[id].callback = c
<1>1. CASE UNCHANGED apiVars
  BY <1>1 DEF apiVars
<1>2. ASSUME NEW c \in Calls, returned[c] = "none", Entered(c)
      PROVE  \/ id \in DOMAIN pending /\ pending'[id] = pending[id]
             \/ /\ id = nextId /\ pending'[id].callback = c
  BY <1>2 DEF Entered
<1> QED
  BY <1>1, <1>2 DEF CallEffect, Refused

LEMMA CallKeepsPending ==
  ASSUME IInv, CallEffect, AnswerEffect
  PROVE  PendingSound'
<1> DEFINE Entry(id) ==
      [id |-> id, body |-> pending[id].callback, noreply |-> FALSE] \in requests
<1>1. requests \subseteq requests'
  BY DEF CallEffect, Refused, Entered, apiVars
<1>2. ASSUME NEW id \in DOMAIN pending'
      PROVE  /\ Unanswered(pending[id].callback)'
             /\ Entry(id)'
  <2>1. CASE id \in DOMAIN pending /\ pending'[id] = pending[id]
    <3> DEFINE d == pending[id].callback
    <3>1. d \in Calls /\ Unanswered(d) /\ AwaitsReply(d)
      BY <2>1 DEF IInv, TypeOK, ClientTypeOK, PendingSound, AwaitsReply
    <3>2. \A o \in owed : o.callback # d
      BY <3>1 DEF IInv, OwedSound
    <3>3. returned'[d] = "true" /\ results'[d] = results[d]
      BY <3>1, <3>2, CallFacts, AnswerFacts
    <3>4. Entry(id)
      BY <2>1 DEF IInv, PendingSound
    <3> QED
      BY <2>1, <3>1, <3>3, <3>4, <1>1 DEF Unanswered
  <2>2. ASSUME NEW c \in Calls, returned[c] = "none", Entered(c),
               id = nextId, pending'[id].callback = c
        PROVE  Unanswered(pending[id].callback)' /\ Entry(id)'
    <3>1. returned'[c] = "true" /\ [id |-> id, body |-> c, noreply |-> FALSE] \in requests'
      BY <2>2 DEF Entered, IInv, TypeOK, ClientTypeOK
    <3>2. results[c] = <<>> /\ ~Unanswered(c)
      BY <2>2 DEF IInv, AtMostOneAnswer, Unanswered
    <3>3. results'[c] = <<>>
      BY <3>2, AnswerFacts
    <3> QED BY <2>2, <3>1, <3>3 DEF Unanswered
  <2> QED BY <2>1, <2>2, PendingFacts
<1>3. ASSUME NEW i \in DOMAIN pending', NEW j \in DOMAIN pending',
             pending'[i].callback = pending'[j].callback
      PROVE  i = j
  <2>1. \A id \in DOMAIN pending : returned[pending[id].callback] = "true"
    BY DEF IInv, PendingSound, Unanswered
  <2>2. CASE i \in DOMAIN pending /\ j \in DOMAIN pending
    <3>1. pending'[i] = pending[i] /\ pending'[j] = pending[j]
      BY <2>2 DEF CallEffect, Refused, Entered, apiVars
    <3> QED BY <1>3, <2>2, <3>1 DEF IInv, PendingSound
  <2>3. \A k \in DOMAIN pending' :
          \/ k \in DOMAIN pending
          \/ k = nextId /\ returned[pending'[k].callback] = "none"
    <3> TAKE k \in DOMAIN pending'
    <3>1. ASSUME k \notin DOMAIN pending
          PROVE  k = nextId /\ returned[pending'[k].callback] = "none"
      <4>1. PICK c \in Calls : /\ returned[c] = "none" /\ Entered(c)
                              /\ k = nextId /\ pending'[k].callback = c
        BY <3>1, PendingFacts
      <4> QED BY <4>1
    <3> QED BY <3>1
  <2>4. \A k \in DOMAIN pending : pending'[k] = pending[k]
    BY DEF CallEffect, Refused, Entered, apiVars
  <2> QED BY <1>3, <2>1, <2>2, <2>3, <2>4
<1> QED
  BY <1>2, <1>3 DEF PendingSound

LEMMA CallKeepsOwed ==
  ASSUME IInv, CallEffect, AnswerEffect, UNCHANGED replies
  PROVE  OwedSound'
<1>1. owed' \subseteq owed /\ \A o \in owed : o.callback \in Calls
  BY DEF AnswerEffect, IInv, TypeOK, ClientTypeOK
<1>2. ASSUME NEW o \in owed'
      PROVE  /\ Unanswered(o.callback)'
             /\ ~AwaitsReply(o.callback)'
             /\ o.result.ok => Acknowledged(o.callback)'
  <2>1. /\ o \in owed /\ o.callback \in Calls
        /\ Unanswered(o.callback) /\ ~AwaitsReply(o.callback)
        /\ o.result.ok => Acknowledged(o.callback)
    BY <1>1 DEF IInv, OwedSound
  <2>2. returned'[o.callback] = "true" /\ results'[o.callback] = results[o.callback]
    BY <2>1, CallFacts, AnswerFacts
  <2>3. ASSUME NEW id \in DOMAIN pending' PROVE pending'[id].callback # o.callback
    <3>1. id \in DOMAIN pending => pending[id].callback # o.callback
      BY <2>1 DEF AwaitsReply
    <3>2. \A c \in Calls : returned[c] = "none" => c # o.callback
      BY <2>1 DEF Unanswered
    <3> QED BY <3>1, <3>2, PendingFacts
  <2> QED
    BY <2>1, <2>2, <2>3, CallKeepsAcks DEF Unanswered, AwaitsReply
<1> QED
  BY <1>1, <1>2 DEF OwedSound, IInv

LEMMA CallKeepsAnswers ==
  ASSUME IInv, CallEffect, AnswerEffect, UNCHANGED replies
  PROVE  AtMostOneAnswer' /\ NoCallForgotten' /\ OkMeansAccepted'
<1>1. ASSUME NEW x \in Calls
      PROVE  /\ Len(results'[x]) <= 1
             /\ results'[x] # <<>> => returned'[x] = "true"
             /\ \A i \in DOMAIN results'[x] : results'[x][i].ok => Acknowledged(x)'
  <2>1. CASE results'[x] = results[x]
    <3>1. /\ Len(results[x]) <= 1
          /\ results[x] # <<>> => returned[x] = "true"
          /\ \A i \in DOMAIN results[x] : results[x][i].ok => Acknowledged(x)
      BY DEF IInv, AtMostOneAnswer, OkMeansAccepted
    <3>2. returned[x] # "none" => returned'[x] = returned[x]
      BY CallFacts
    <3> QED BY <2>1, <3>1, <3>2, CallKeepsAcks
  <2>2. ASSUME NEW o \in owed, o.callback = x, Unanswered(x),
               results'[x] = <<o.result>>, o.result \in Result
        PROVE  /\ Len(results'[x]) <= 1
               /\ results'[x] # <<>> => returned'[x] = "true"
               /\ \A i \in DOMAIN results'[x] : results'[x][i].ok => Acknowledged(x)'
    <3>1. returned'[x] = "true"
      BY <2>2, CallFacts
    <3>2. o.result.ok => Acknowledged(x)
      BY <2>2 DEF IInv, OwedSound
    <3>3. Len(<<o.result>>) = 1 /\ DOMAIN <<o.result>> = 1 .. 1 /\ <<o.result>>[1] = o.result
      OBVIOUS
    <3> QED BY <2>2, <3>1, <3>2, <3>3, CallKeepsAcks
  <2> QED BY <2>1, <2>2, AnswerFacts
<1>2. ASSUME NEW x \in Calls, returned'[x] = "true", results'[x] = <<>>
      PROVE  AwaitsReply(x)' \/ BeingAnswered(x)'
  <2>1. results'[x] = results[x] /\ \A o \in owed : o.callback = x => o \in owed'
    <3>1. \A r \in Result : <<r>> # <<>>
      OBVIOUS
    <3> QED BY <1>2, <3>1, AnswerFacts
  <2>2. CASE returned[x] = "true"
    <3>1. AwaitsReply(x) \/ BeingAnswered(x)
      BY <1>2, <2>1, <2>2 DEF IInv, NoCallForgotten
    <3>2. \A k \in DOMAIN pending : k \in DOMAIN pending' /\ pending'[k] = pending[k]
      BY DEF CallEffect, Refused, Entered, apiVars
    <3> QED BY <2>1, <3>1, <3>2 DEF AwaitsReply, BeingAnswered
  <2>3. CASE returned[x] # "true"
    BY <1>2, <2>3, CallFacts DEF Entered, AwaitsReply
  <2> QED BY <2>2, <2>3
<1> QED
  BY <1>1, <1>2 DEF AtMostOneAnswer, NoCallForgotten, OkMeansAccepted

(* The entries S leave the table, and their callbacks are owed, with ok    *)
(* only for a call whose request was accepted.                             *)
AnswersDue(S) ==
  /\ HandsOver(S)
  /\ \A o \in owed' : o.result.ok => Acknowledged(o.callback)
  /\ UNCHANGED <<returned, results>>

LEMMA AnswersDueKeepsInv ==
  ASSUME IInv, TypeOK', NEW S, AnswersDue(S)
  PROVE  IInv'
<1>1. \A id \in DOMAIN pending :
        /\ Unanswered(pending[id].callback)
        /\ pending[id].callback \in Calls
        /\ [id |-> id, body |-> pending[id].callback, noreply |-> FALSE] \in requests
  BY DEF IInv, PendingSound, TypeOK, ClientTypeOK
<1>2. \A i, j \in DOMAIN pending : pending[i].callback = pending[j].callback => i = j
  BY DEF IInv, PendingSound
<1>3. IdsIssued' /\ \A c : Acknowledged(c) => Acknowledged(c)'
  BY AcknowledgedStays DEF AnswersDue, HandsOver, IInv, IdsIssued
<1>4. PendingSound'
  BY <1>1, <1>2 DEF AnswersDue, HandsOver, PendingSound, Unanswered
<1>5. OwedSound'
  <2>1. ASSUME NEW o \in owed'
        PROVE  /\ Unanswered(o.callback)'
               /\ o.result.ok => Acknowledged(o.callback)'
    <3>1. o.callback = pending[o.id].callback /\ o.id \in DOMAIN pending
      BY DEF AnswersDue, HandsOver
    <3>2. Unanswered(o.callback) /\ UNCHANGED <<returned, results, replies>>
      BY <3>1, <1>1 DEF AnswersDue, HandsOver
    <3> QED BY <1>3, <3>2 DEF AnswersDue, HandsOver, Unanswered
  <2>2. ASSUME NEW o \in owed', NEW id \in DOMAIN pending'
        PROVE  pending'[id].callback # o.callback
    BY <2>2, <1>2 DEF AnswersDue, HandsOver
  <2>3. ASSUME NEW o1 \in owed', NEW o2 \in owed', o1.callback = o2.callback
        PROVE  o1 = o2
    BY <2>3, <1>2 DEF AnswersDue, HandsOver
  <2> QED BY <2>1, <2>2, <2>3 DEF OwedSound, AwaitsReply
<1>6. AtMostOneAnswer' /\ OkMeansAccepted'
  BY <1>3 DEF AnswersDue, HandsOver, IInv, AtMostOneAnswer, OkMeansAccepted
<1>7. NoCallForgotten'
  <2>1. ASSUME NEW c \in Calls, returned[c] = "true", results[c] = <<>>
        PROVE  AwaitsReply(c)' \/ BeingAnswered(c)'
    <3>1. PICK id \in DOMAIN pending : pending[id].callback = c
      BY <2>1 DEF IInv, NoCallForgotten, AwaitsReply, BeingAnswered, AnswersDue, HandsOver
    <3>2. CASE id \in S
      BY <3>1, <3>2 DEF AnswersDue, HandsOver, BeingAnswered
    <3>3. CASE id \notin S
      BY <3>1, <3>3 DEF AnswersDue, HandsOver, AwaitsReply
    <3> QED BY <3>2, <3>3
  <2> QED BY <2>1 DEF NoCallForgotten, AnswersDue, HandsOver
<1> QED
  BY <1>3, <1>4, <1>5, <1>6, <1>7 DEF IInv

LEMMA HandsOverIsDue ==
  ASSUME IInv, NEW S, HandsOver(S), UNCHANGED <<returned, results>>
  PROVE  AnswersDue(S)
<1>1. ASSUME NEW o \in owed', o.result.ok, IdsApart PROVE Accepted(o.callback)
  <2>1. o.id \in DOMAIN pending /\ o.callback = pending[o.id].callback
    BY DEF HandsOver
  <2>2. [id |-> o.id, body |-> o.callback, noreply |-> FALSE] \in requests
    BY <2>1 DEF IInv, PendingSound
  <2>3. PICK msg \in replies : msg.id = o.id /\ msg.code = StatusOk
    BY <1>1 DEF HandsOver
  <2>4. msg.to = o.callback
    BY <1>1, <2>2, <2>3, ReplyToItsRequest DEF IInv
  <2> QED BY <2>3, <2>4 DEF Accepted
<1> QED
  BY <1>1 DEF AnswersDue, Acknowledged

(* A plain send uses up an id and touches nothing else.                    *)
LEMMA SendKeepsInv ==
  ASSUME IInv, TypeOK', NEW noreply \in BOOLEAN, Send(noreply)
  PROVE  IInv'
<1>1. /\ requests \subseteq requests'
      /\ UNCHANGED <<pending, owed, replies, steady, returned, results>>
  BY DEF Send, send, publish
<1>2. IdsIssued'
  BY <1>1, PublishKeepsIds DEF Send, send, IInv, TypeOK
<1>3. \A c : Acknowledged(c) => Acknowledged(c)'
  BY <1>1, AcknowledgedStays
<1>4. PendingSound' /\ OwedSound'
  BY <1>1, <1>3 DEF IInv, PendingSound, OwedSound, Unanswered, AwaitsReply
<1>5. AtMostOneAnswer' /\ NoCallForgotten' /\ OkMeansAccepted'
  BY <1>1, <1>3 DEF IInv, AtMostOneAnswer, NoCallForgotten, OkMeansAccepted,
                    AwaitsReply, BeingAnswered
<1> QED
  BY <1>2, <1>4, <1>5 DEF IInv

(* Nor does the environment, but for the replies it adds.                  *)
LEMMA EnvironmentKeepsInv ==
  ASSUME IInv, TypeOK', Environment, UNCHANGED <<returned, results>>
  PROVE  IInv'
<1>1. /\ UNCHANGED <<pending, owed, requests, returned, results>>
      /\ replies \subseteq replies'
  BY EnvironmentEffect DEF IInv, TypeOK
<1>2. Foreign \notin Bodies
  BY SystemAssumption DEF Bodies
<1>3. IdsIssued'
  BY <1>2, EnvironmentKeepsIds DEF IInv, TypeOK
<1>4. \A c : Acknowledged(c) => Acknowledged(c)'
  BY <1>1, AcknowledgedStays
<1>5. PendingSound' /\ OwedSound'
  BY <1>1, <1>4 DEF IInv, PendingSound, OwedSound, Unanswered, AwaitsReply
<1>6. AtMostOneAnswer' /\ NoCallForgotten' /\ OkMeansAccepted'
  BY <1>1, <1>4 DEF IInv, AtMostOneAnswer, NoCallForgotten, OkMeansAccepted,
              AwaitsReply, BeingAnswered
<1> QED
  BY <1>3, <1>5, <1>6 DEF IInv

(* A new process starts with an empty table, and behind the clock lie all  *)
(* ids of the old one.                                                     *)
LEMMA RestartKeepsInv ==
  ASSUME IInv, TypeOK', Restart
  PROVE  IInv'
<1>1. /\ DOMAIN pending' = {} /\ owed' = {} /\ last_id' = 0 /\ steady > last_id
      /\ UNCHANGED <<requests, replies, steady, results>>
  BY DEF Restart, ClientRestart
<1>2. \A c \in Calls :
        IF returned[c] = "true" /\ results[c] = <<>>
        THEN returned'[c] = "lost" ELSE returned'[c] = returned[c]
  BY DEF Restart
<1>3. IdsIssued'
  <2>1. \A req \in requests : req.id \in Nat /\ (req.id <= last_id \/ req.id < steady)
    BY DEF IInv, IdsIssued, TypeOK, ClientTypeOK
  <2>2. last_id \in Nat /\ steady \in Nat
    BY ClientAssumption DEF IInv, TypeOK, ClientTypeOK
  <2>3. \A req \in requests' : req.id < steady'
    BY <1>1, <2>1, <2>2
  <2> QED
    BY <1>1, <2>3 DEF IInv, IdsIssued
<1>4. PendingSound' /\ OwedSound'
  BY <1>1 DEF PendingSound, OwedSound
<1>5. AtMostOneAnswer' /\ NoCallForgotten' /\ OkMeansAccepted'
  BY <1>1, <1>2, AcknowledgedStays DEF IInv, AtMostOneAnswer, NoCallForgotten, OkMeansAccepted
<1> QED
  BY <1>3, <1>4, <1>5 DEF IInv

-----------------------------------------------------------------------------
(* The safety properties.                                                  *)

LEMMA InvStep == IInv /\ [Next]_vars => IInv'
<1> SUFFICES ASSUME IInv, [Next]_vars PROVE IInv'
  OBVIOUS
<1>1. TypeOK'
  BY TypeStep DEF IInv
<1>2. ASSUME CallEffect, AnswerEffect, UNCHANGED <<replies, steady>> PROVE IInv'
  <2>1. IdsIssued'
    BY <1>2, CallKeepsIds DEF IInv
  <2> QED
    BY <1>1, <1>2, <2>1, CallKeepsPending, CallKeepsOwed, CallKeepsAnswers DEF IInv
<1>3. ASSUME NEW c \in Calls, Call(c) PROVE IInv'
  <2>1. MakeCall(c) /\ AnswerEffect /\ UNCHANGED <<replies, steady>>
    BY <1>3 DEF Call, AnswerEffect
  <2> QED
    BY <1>2, <2>1, MakeCallEffect DEF IInv
<1>4. ASSUME NEW noreply \in BOOLEAN, Send(noreply) PROVE IInv'
  BY <1>1, <1>4, SendKeepsInv
<1>5. ASSUME NEW msg \in replies, responseCallback(msg), UNCHANGED <<returned, results>>
      PROVE  IInv'
  <2>1. CASE msg.id \in DOMAIN pending
    BY <1>1, <1>5, <2>1, ResponseHandsOver, HandsOverIsDue, AnswersDueKeepsInv
  <2>2. CASE msg.id \notin DOMAIN pending
    <3>1. CallEffect /\ AnswerEffect /\ UNCHANGED <<replies, steady>>
      BY <1>5, <2>2 DEF responseCallback, CallEffect, AnswerEffect, apiVars
    <3> QED BY <1>2, <3>1
  <2> QED BY <2>1, <2>2
<1>6. ASSUME sweepTimeouts, UNCHANGED <<returned, results>> PROVE IInv'
  BY <1>1, <1>6, SweepHandsOver, HandsOverIsDue, AnswersDueKeepsInv
<1>7. ASSUME NEW o \in owed, RunCallback(o) PROVE IInv'
  <2>1. CallEffect
    <3>1. CASE \E c \in Calls : MakeCall(c)
      BY <3>1, MakeCallEffect DEF IInv
    <3>2. CASE UNCHANGED <<apiVars, returned>>
      BY <3>2 DEF CallEffect
    <3> QED BY <1>7, <3>1, <3>2 DEF RunCallback
  <2>2. AnswerEffect /\ UNCHANGED <<replies, steady>>
    BY <1>7 DEF RunCallback, AnswerEffect
  <2> QED BY <1>2, <2>1, <2>2
<1>8. ASSUME Environment, UNCHANGED <<returned, results>> PROVE IInv'
  BY <1>1, <1>8, EnvironmentKeepsInv
<1>9. CASE Restart
  BY <1>1, <1>9, RestartKeepsInv
<1>10. CASE UNCHANGED vars
  <2>1. CallEffect /\ AnswerEffect /\ UNCHANGED <<replies, steady>>
    BY <1>10 DEF vars, clientVars, apiVars, CallEffect, AnswerEffect
  <2> QED BY <1>2, <2>1
<1> QED
  BY <1>3, <1>4, <1>5, <1>6, <1>7, <1>8, <1>9, <1>10 DEF Next, Served

LEMMA InvInit == Init => IInv
<1> SUFFICES ASSUME Init PROVE IInv
  OBVIOUS
<1>1. TypeOK
  BY ClientAssumption DEF Init, ClientInit, TypeOK, ClientTypeOK
<1>2. DOMAIN pending = {} /\ owed = {} /\ requests = {} /\ replies = {}
  BY DEF Init, ClientInit
<1>3. IdsIssued /\ PendingSound /\ OwedSound
  BY <1>2 DEF IdsIssued, PendingSound, OwedSound
<1>4. \A c \in Calls : returned[c] = "none" /\ results[c] = <<>>
  BY DEF Init
<1>5. AtMostOneAnswer /\ NoCallForgotten /\ OkMeansAccepted
  BY <1>4 DEF AtMostOneAnswer, NoCallForgotten, OkMeansAccepted
<1> QED
  BY <1>1, <1>3, <1>5 DEF IInv

(* The invariant that carries the safety properties.                       *)
THEOREM InductiveInvariant == Spec => []IInv
<1>1. IInv /\ [Next]_vars => IInv'
  BY InvStep
<1> QED
  BY <1>1, InvInit, PTL DEF Spec, SafeSpec

(* No callback runs twice, and none runs for a refused call.               *)
THEOREM AnsweredAtMostOnce == Spec => []AtMostOneAnswer
<1>1. IInv => AtMostOneAnswer
  BY DEF IInv
<1> QED
  BY <1>1, InductiveInvariant, PTL

(* A call that was taken stays known to the client until it is answered.   *)
THEOREM CallsRemembered == Spec => []NoCallForgotten
<1>1. IInv => NoCallForgotten
  BY DEF IInv
<1> QED
  BY <1>1, InductiveInvariant, PTL

(* Success is only ever reported to the call whose request the robot       *)
(* accepted.                                                               *)
THEOREM SuccessIsAccepted == Spec => []OkMeansAccepted
<1>1. IInv => OkMeansAccepted
  BY DEF IInv
<1> QED
  BY <1>1, InductiveInvariant, PTL

-----------------------------------------------------------------------------
(* The bound on the table needs no assumption on other nodes.              *)

Bounded == IsFiniteSet(DOMAIN pending) /\ PendingBounded

LEMMA MakeCallBounded ==
  ASSUME Bounded, NEW c \in Calls, MakeCall(c)
  PROVE  Bounded'
<1>1. CASE UNCHANGED apiVars
  BY <1>1 DEF apiVars, Bounded, PendingBounded
<1>2. CASE call(c, c)
  <2>1. DOMAIN pending' = DOMAIN pending \cup {nextId}
    BY <1>2 DEF call, Emplace
  <2>2. /\ IsFiniteSet(DOMAIN pending') 
        /\ \/ Cardinality(DOMAIN pending') = Cardinality(DOMAIN pending)
           \/ Cardinality(DOMAIN pending') = Cardinality(DOMAIN pending) + 1
    BY <2>1, FS_AddElement DEF Bounded
  <2>3. Cardinality(DOMAIN pending) \in Nat /\ ~(Cardinality(DOMAIN pending) >= MaxPending)
    BY <1>2, FS_CardinalityType DEF Bounded, call, Full
  <2> QED
    BY <2>2, <2>3, ClientAssumption DEF Bounded, PendingBounded
<1> QED
  BY <1>1, <1>2 DEF MakeCall

LEMMA BoundedStep == Bounded /\ [Next]_vars => Bounded'
<1> SUFFICES ASSUME Bounded, [Next]_vars PROVE Bounded'
  OBVIOUS
<1>1. ASSUME DOMAIN pending' \subseteq DOMAIN pending PROVE Bounded'
  <2>1. /\ IsFiniteSet(DOMAIN pending')
        /\ Cardinality(DOMAIN pending') <= Cardinality(DOMAIN pending)
    BY <1>1, FS_Subset DEF Bounded
  <2>2. Cardinality(DOMAIN pending') \in Nat /\ Cardinality(DOMAIN pending) \in Nat
    BY <2>1, FS_CardinalityType DEF Bounded
  <2> QED BY <2>1, <2>2, ClientAssumption DEF Bounded, PendingBounded
<1>2. ASSUME NEW c \in Calls, Call(c) PROVE Bounded'
  BY <1>2, MakeCallBounded DEF Call
<1>3. ASSUME NEW o \in owed, RunCallback(o) PROVE Bounded'
  BY <1>1, <1>3, MakeCallBounded DEF RunCallback, apiVars
<1>4. ASSUME NEW noreply \in BOOLEAN, Send(noreply) PROVE Bounded'
  BY <1>1, <1>4 DEF Send, send
<1>5. ASSUME NEW msg \in replies, responseCallback(msg) PROVE Bounded'
  BY <1>1, <1>5 DEF responseCallback, Erase
<1>6. CASE sweepTimeouts
  BY <1>1, <1>6 DEF sweepTimeouts, Erase
<1>7. CASE Environment
  BY <1>1, <1>7 DEF Environment, RobotReplies, ForeignReply, Elapse, ClockSet
<1>8. CASE Restart
  BY <1>1, <1>8 DEF Restart, ClientRestart
<1>9. CASE UNCHANGED vars
  BY <1>1, <1>9 DEF vars, clientVars
<1> QED
  BY <1>2, <1>3, <1>4, <1>5, <1>6, <1>7, <1>8, <1>9 DEF Next, Served

(* The table never outgrows g_MAX_PENDING.                                 *)
THEOREM TableBounded == Spec => []PendingBounded
<1>1. Init => Bounded
  <2>1. ASSUME Init PROVE DOMAIN pending = {}
    BY <2>1 DEF Init, ClientInit
  <2> QED BY <2>1, FS_EmptySet, ClientAssumption DEF Bounded, PendingBounded
<1>2. Bounded => PendingBounded
  BY DEF Bounded
<1> QED
  BY <1>1, <1>2, BoundedStep, PTL DEF Spec, SafeSpec

-----------------------------------------------------------------------------
(* Refinement: every step of the client is one that ApiCall allows.        *)

(* Only the request of a call that was taken is ever published.            *)
RequestsTaken ==
  \A req \in requests : req.body \in Calls => returned[req.body] \in {"true", "lost"}

LEMMA RequestsTakenStep ==
  ASSUME TypeOK, RequestsTaken, [Next]_vars
  PROVE  RequestsTaken'
<1>1. ASSUME UNCHANGED <<requests, returned>> PROVE RequestsTaken'
  BY <1>1 DEF RequestsTaken
<1>2. ASSUME NEW c \in Calls, MakeCall(c) PROVE RequestsTaken'
  BY <1>2 DEF MakeCall, call, publish, apiVars, RequestsTaken, TypeOK
<1>3. ASSUME NEW noreply \in BOOLEAN, Send(noreply) PROVE RequestsTaken'
  BY <1>3, SystemAssumption DEF Send, send, publish, RequestsTaken
<1>4. CASE Restart
  BY <1>4 DEF Restart, ClientRestart, RequestsTaken
<1> QED
  BY <1>1, <1>2, <1>3, <1>4
     DEF Next, Served, Call, responseCallback, sweepTimeouts, RunCallback, Environment,
         RobotReplies, ForeignReply, Elapse, ClockSet, apiVars, vars, clientVars

(* How far a call has got, read off what it returned and was told.         *)
LEMMA CallStateFacts ==
  ASSUME TypeOK, NEW c \in Calls, Len(results[c]) <= 1
  PROVE  /\ CallState(c) \in Abstract!States
         /\ results[c] = <<>> /\ returned[c] = "none" => CallState(c) = "idle"
         /\ results[c] = <<>> /\ returned[c] = "false" => CallState(c) = "refused"
         /\ results[c] = <<>> /\ returned[c] = "true" => CallState(c) = "waiting"
         /\ results[c] = <<>> /\ returned[c] = "lost" => CallState(c) = "lost"
         /\ results[c] # <<>> => CallState(c) \in {"ok", "failed"}
<1>1. returned[c] \in {"none", "true", "false", "lost"}
  BY DEF TypeOK
<1> QED
  BY <1>1 DEF CallState, Abstract!States

LEMMA AnsweredOnce ==
  ASSUME IInv
  PROVE  \A c \in Calls : Len(results[c]) <= 1
BY DEF IInv, AtMostOneAnswer

(* What ApiCall lets one call do.                                          *)
CallMoves(c) ==
  \/ CallState(c)' = CallState(c)
  \/ CallState(c) = "idle" /\ CallState(c)' \in {"refused", "waiting"}
  \/ CallState(c) = "waiting" /\ CallState(c)' \in {"failed", "lost"}
  \/ CallState(c) = "waiting" /\ CallState(c)' = "ok" /\ Accepted(c)

LEMMA ProgressFromMoves ==
  ASSUME IInv, UNCHANGED replies, \A c \in Calls : CallMoves(c)
  PROVE  Abstract!Progress
<1>1. \A c \in Calls : CallState(c)' \in Abstract!States
  <2>1. \A c \in Calls : CallState(c) \in Abstract!States
    BY AnsweredOnce, CallStateFacts DEF IInv
  <2> QED BY <2>1 DEF CallMoves, Abstract!States
<1>2. {c \in Calls : Accepted(c)}' = {c \in Calls : Accepted(c)}
  BY DEF Accepted
<1>3. \A c \in Calls : Abstract!Move(c)
  BY DEF Abstract!Move, CallMoves
<1> QED
  BY <1>1, <1>2, <1>3 DEF Abstract!Progress

LEMMA SameCallState ==
  ASSUME NEW c \in Calls, returned'[c] = returned[c], results'[c] = results[c]
  PROVE  CallState(c)' = CallState(c)
<1> DEFINE St(ret, res) ==
      IF Len(res) > 1 THEN "answered twice"
      ELSE IF res # <<>>
      THEN IF res[1].ok THEN "ok" ELSE "failed"
      ELSE CASE ret = "none" -> "idle"
             [] ret = "false" -> "refused"
             [] ret = "lost" -> "lost"
             [] ret = "true" -> "waiting"
<1>1. CallState(c) = St(returned[c], results[c])
  BY DEF CallState
<1>2. CallState(c)' = St(returned'[c], results'[c])
  BY DEF CallState
<1> HIDE DEF St
<1> QED
  BY <1>1, <1>2

LEMMA CallMovesInHandler ==
  ASSUME IInv, IdsApart, CallEffect, AnswerEffect, NEW x \in Calls
  PROVE  CallMoves(x)
<1>1. CASE results[x] # <<>>
  <2>1. returned[x] = "true" /\ ~Unanswered(x)
    BY <1>1 DEF IInv, AtMostOneAnswer, Unanswered
  <2>2. results'[x] = results[x] /\ returned'[x] = returned[x]
    BY <2>1, AnswerFacts, CallFacts
  <2>3. CallState(x)' = CallState(x)
    BY <2>2, SameCallState
  <2> QED BY <2>3 DEF CallMoves
<1>2. CASE results[x] = <<>> /\ results'[x] = <<>>
  <2>1. returned[x] = "none" => returned'[x] \in {"none", "true", "false"}
    BY DEF CallEffect, Refused, Entered, IInv, TypeOK
  <2>2. returned[x] # "none" => returned'[x] = returned[x]
    BY CallFacts
  <2>3. /\ returned[x] # "none" => CallState(x)' = CallState(x)
        /\ returned[x] = "none" => CallState(x) = "idle"
    BY <1>2, <2>2, SameCallState, AnsweredOnce, CallStateFacts DEF IInv
  <2>4. CallState(x)' = CASE returned'[x] = "none" -> "idle"
                          [] returned'[x] = "false" -> "refused"
                          [] returned'[x] = "lost" -> "lost"
                          [] returned'[x] = "true" -> "waiting"
    <3>1. ~(Len(results'[x]) > 1)
      BY <1>2
    <3> QED BY <1>2, <3>1, Zenon DEF CallState
  <2>5. returned[x] = "none" => CallState(x)' \in {"idle", "waiting", "refused"}
    BY <2>1, <2>4, Zenon
  <2> QED BY <2>3, <2>5 DEF CallMoves
<1>3. ASSUME NEW o \in owed, o.callback = x, Unanswered(x), results'[x] = <<o.result>>
      PROVE  CallMoves(x)
  <2>1. CallState(x) = "waiting"
    BY <1>3, AnsweredOnce, CallStateFacts DEF Unanswered, IInv
  <2>2. o.result.ok => Accepted(x)
    BY <1>3 DEF IInv, OwedSound, Acknowledged
  <2>3. CallState(x)' = IF o.result.ok THEN "ok" ELSE "failed"
    <3>1. /\ Len(results'[x]) = 1 /\ results'[x] # <<>>
          /\ results'[x][1] = o.result
      BY <1>3
    <3> QED BY <3>1 DEF CallState
  <2> QED BY <2>1, <2>2, <2>3 DEF CallMoves
<1> QED
  BY <1>1, <1>2, <1>3, AnswerFacts

LEMMA CallMovesInRestart ==
  ASSUME IInv, Restart, NEW x \in Calls
  PROVE  CallMoves(x)
<1>1. results'[x] = results[x]
      /\ returned'[x] = IF Unanswered(x) THEN "lost" ELSE returned[x]
  BY DEF Restart, Unanswered
<1>2. CASE Unanswered(x)
  <2>1. CallState(x) = "waiting"
    BY <1>2, AnsweredOnce, CallStateFacts DEF Unanswered, IInv
  <2>2. CallState(x)' = "lost"
    BY <1>1, <1>2 DEF CallState, Unanswered
  <2> QED BY <2>1, <2>2 DEF CallMoves
<1>3. CASE ~Unanswered(x)
  BY <1>1, <1>3, SameCallState DEF CallMoves
<1> QED
  BY <1>2, <1>3

(* A reply of the robot is a call accepted, or nothing ApiCall knows of.   *)
LEMMA EnvironmentAccepts ==
  ASSUME IInv, RequestsTaken, Environment, UNCHANGED <<returned, results>>
  PROVE  [Abstract!Next]_(Abstract!callVars)
<1>1. [c \in Calls |-> CallState(c)]' = [c \in Calls |-> CallState(c)]
  BY SameCallState, Zenon
<1> DEFINE accepted == {c \in Calls : Accepted(c)}
<1>2. ASSUME NEW req \in requests, NEW code \in Codes, NEW data \in Data,
             RobotReplies(req, code, data), accepted' # accepted
      PROVE  \E c \in Calls : Abstract!Accept(c)
  <2> DEFINE msg == [id |-> req.id, to |-> req.body, code |-> code, data |-> data]
  <2>1. replies' = replies \cup {msg} /\ msg.to = req.body
    BY <1>2 DEF RobotReplies
  <2> HIDE DEF msg
  <2>2. \A c \in Calls : Accepted(c)' <=> Accepted(c) \/ (msg.to = c /\ msg.code = StatusOk)
    BY <2>1 DEF Accepted
  <2>3. PICK c \in Calls : req.body = c /\ accepted' = accepted \cup {c}
    BY <1>2, <2>1, <2>2
  <2>4. returned[c] \in {"true", "lost"}
    BY <2>3 DEF RequestsTaken
  <2>5. CallState(c) \in {"waiting", "lost", "ok", "failed"}
    BY <2>4, AnsweredOnce, CallStateFacts DEF IInv
  <2>6. Abstract!Accept(c)
    BY <1>1, <2>3, <2>5 DEF Abstract!Accept
  <2> QED BY <2>6
<1>3. ASSUME NEW id \in ForeignIds, NEW code \in Codes, NEW data \in Data,
             ForeignReply(id, code, data)
      PROVE  accepted' = accepted
  <2>1. \A c \in Calls : c # Foreign
    BY SystemAssumption
  <2>2. \A c \in Calls : Accepted(c)' <=> Accepted(c)
    BY <1>3, <2>1 DEF ForeignReply, Accepted
  <2> QED BY <2>2
<1>4. ASSUME Elapse \/ ClockSet PROVE accepted' = accepted
  <2>1. UNCHANGED replies
    BY <1>4 DEF Elapse, ClockSet
  <2>2. accepted' = accepted
    BY <2>1 DEF Accepted
  <2> QED BY <2>2
<1>5. (\E c \in Calls : Abstract!Accept(c)) \/ accepted' = accepted
  BY <1>2, <1>3, <1>4 DEF Environment
<1> QED
  BY <1>1, <1>5 DEF Abstract!Next, Abstract!callVars

LEMMA ApiCallStep ==
  ASSUME IInv, IdsApart, RequestsTaken, [Next]_vars
  PROVE  [Abstract!Next]_(Abstract!callVars)
<1>1. ASSUME UNCHANGED replies, \A c \in Calls : CallMoves(c)
      PROVE  Abstract!Next
  BY <1>1, ProgressFromMoves DEF Abstract!Next
<1>2. ASSUME UNCHANGED <<replies, returned, results>> PROVE Abstract!Next
  BY <1>1, <1>2, SameCallState DEF CallMoves
<1>3. ASSUME NEW c \in Calls, Call(c) PROVE Abstract!Next
  <2>1. CallEffect /\ AnswerEffect /\ UNCHANGED replies
    BY <1>3, MakeCallEffect DEF Call, AnswerEffect, IInv
  <2> QED BY <1>1, <2>1, CallMovesInHandler
<1>4. ASSUME NEW o \in owed, RunCallback(o) PROVE Abstract!Next
  <2>1. CallEffect
    BY <1>4, MakeCallEffect DEF RunCallback, CallEffect, IInv
  <2>2. AnswerEffect /\ UNCHANGED replies
    BY <1>4 DEF RunCallback, AnswerEffect
  <2> QED BY <1>1, <2>1, <2>2, CallMovesInHandler
<1>5. CASE Restart
  BY <1>1, <1>5, CallMovesInRestart DEF Restart, ClientRestart
<1>6. ASSUME Environment, UNCHANGED <<returned, results>>
      PROVE  [Abstract!Next]_(Abstract!callVars)
  BY <1>6, EnvironmentAccepts
<1> QED
  BY <1>2, <1>3, <1>4, <1>5, <1>6
     DEF Next, Served, Send, responseCallback, sweepTimeouts, vars, clientVars

(* The client keeps what its header promises of every call, as long as no  *)
(* other node is replied to under its ids.                                 *)
THEOREM ClientKeepsApiCall == Spec /\ []IdsApart => KeepsApiCall
<1>1. Init => Abstract!Init
  <2> SUFFICES ASSUME Init PROVE Abstract!Init
    OBVIOUS
  <2>1. \A c \in Calls : CallState(c) = "idle"
    BY DEF Init, CallState
  <2>2. \A c \in Calls : ~Accepted(c)
    BY DEF Init, ClientInit, Accepted
  <2> QED BY <2>1, <2>2 DEF Abstract!Init
<1>2. Init => RequestsTaken
  BY DEF Init, ClientInit, RequestsTaken
<1>3. IInv => TypeOK
  BY DEF IInv
<1>4. IInv /\ IdsApart /\ RequestsTaken /\ [Next]_vars
        => RequestsTaken' /\ [Abstract!Next]_(Abstract!callVars)
  BY RequestsTakenStep, ApiCallStep DEF IInv
<1> QED
  BY <1>1, <1>2, <1>4, InductiveInvariant, PTL DEF Spec, SafeSpec, KeepsApiCall, Abstract!SafeSpec
=============================================================================
