----------------------- MODULE UnitreeApiClient_proofs -----------------------
(***************************************************************************)
(* What UnitreeApiClient's operations do, proved once for all of its       *)
(* users: they keep the client's types and its ids.  Callbacks and Bodies  *)
(* are what a user passes to `call` and `send`.                            *)
(***************************************************************************)
EXTENDS UnitreeApiClient, FiniteSetTheorems, TLAPS

(* The id the client assigns next is a number above every id it used, and  *)
(* not behind the clock.                                                   *)
LEMMA NextIdFresh ==
  ASSUME last_id \in Nat, steady \in Nat
  PROVE  nextId \in Nat /\ nextId > last_id /\ nextId >= steady
BY DEF nextId

(* So it is not in the table, and above every id ever published.           *)
LEMMA NextIdNew ==
  ASSUME NEW Callbacks, NEW Bodies, ClientTypeOK(Callbacks, Bodies), IdsIssued
  PROVE  /\ nextId \in Nat /\ nextId > last_id /\ nextId >= steady
         /\ nextId \notin DOMAIN pending
         /\ \A req \in requests : req.id \in Nat /\ req.id < nextId
<1>1. last_id \in Nat /\ steady \in Nat
  BY ClientAssumption DEF ClientTypeOK
<1>2. nextId \in Nat /\ nextId > last_id /\ nextId >= steady
  BY <1>1, NextIdFresh
<1> DEFINE new == nextId
<1> HIDE DEF new
<1>3. new \in Nat /\ new > last_id /\ new >= steady
  BY <1>2 DEF new
<1>4. \A id \in DOMAIN pending : id \in Nat /\ id <= last_id
  BY DEF IdsIssued, ClientTypeOK
<1>5. \A req \in requests : req.id \in Nat /\ (req.id <= last_id \/ req.id < steady)
  BY DEF IdsIssued, ClientTypeOK
<1>6. new \notin DOMAIN pending
  BY <1>1, <1>3, <1>4
<1>7. \A req \in requests : req.id \in Nat /\ req.id < new
  BY <1>1, <1>3, <1>5
<1> QED
  BY <1>2, <1>6, <1>7 DEF new

(* What `call` does when it takes a call: its callback is entered under    *)
(* that id, and its request is published under it.                         *)
CallEnters(body, callback) ==
  /\ nextId \notin DOMAIN pending
  /\ DOMAIN pending' = DOMAIN pending \cup {nextId}
  /\ pending'[nextId].callback = callback
  /\ \A id \in DOMAIN pending : pending'[id] = pending[id]
  /\ publish(nextId, body, FALSE)
  /\ last_id' = nextId

LEMMA CallIsEntered ==
  ASSUME NEW Callbacks, NEW Bodies, ClientTypeOK(Callbacks, Bodies), IdsIssued,
         NEW body, NEW callback, call(body, callback)
  PROVE  CallEnters(body, callback)
<1> DEFINE new == nextId
           entry == [callback |-> callback, deadline |-> now + Timeout]
<1>1. new \notin DOMAIN pending
  BY NextIdNew
<1>2. /\ pending' = Emplace(pending, new, entry)
      /\ publish(nextId, body, FALSE) /\ last_id' = nextId
  BY DEF call
<1>3. entry.callback = callback
  OBVIOUS
<1> HIDE DEF entry, new
<1>4. /\ DOMAIN pending' = DOMAIN pending \cup {new}
      /\ pending'[new] = entry
      /\ \A id \in DOMAIN pending : pending'[id] = pending[id]
  BY <1>1, <1>2 DEF Emplace
<1> QED
  BY <1>1, <1>2, <1>3, <1>4 DEF CallEnters, new

-----------------------------------------------------------------------------
(* Types.                                                                  *)

(* A request may be sent by a handler that then owes its own callback.     *)
LEMMA SendOwingKeepsTypes ==
  ASSUME NEW Callbacks, NEW Bodies, ClientTypeOK(Callbacks, Bodies),
         NEW body \in Bodies, NEW noreply \in BOOLEAN, send(body, noreply),
         owed' \subseteq [id : Nat, callback : Callbacks, result : Result],
         UNCHANGED <<replies, steady, now>>
  PROVE  ClientTypeOK(Callbacks, Bodies)'
<1>1. nextId \in Nat
  BY NextIdFresh, ClientAssumption DEF ClientTypeOK
<1>2. [id |-> nextId, body |-> body, noreply |-> noreply]
        \in [id : Nat, body : Bodies, noreply : BOOLEAN]
  BY <1>1
<1> QED
  BY <1>1, <1>2 DEF send, publish, ClientTypeOK

LEMMA SendKeepsTypes ==
  ASSUME NEW Callbacks, NEW Bodies, ClientTypeOK(Callbacks, Bodies),
         NEW body \in Bodies, NEW noreply \in BOOLEAN, send(body, noreply),
         UNCHANGED <<owed, replies, steady, now>>
  PROVE  ClientTypeOK(Callbacks, Bodies)'
<1>1. owed' \subseteq [id : Nat, callback : Callbacks, result : Result]
  BY DEF ClientTypeOK
<1> QED
  BY <1>1, SendOwingKeepsTypes

LEMMA CallKeepsTypes ==
  ASSUME NEW Callbacks, NEW Bodies, ClientTypeOK(Callbacks, Bodies),
         NEW body \in Bodies, NEW callback \in Callbacks, call(body, callback),
         owed' \subseteq owed, UNCHANGED <<replies, steady, now>>
  PROVE  ClientTypeOK(Callbacks, Bodies)'
<1> DEFINE entry == [callback |-> callback, deadline |-> now + Timeout]
           req == [id |-> nextId, body |-> body, noreply |-> FALSE]
<1>1. nextId \in Nat
  BY NextIdFresh, ClientAssumption DEF ClientTypeOK
<1>2. entry \in [callback : Callbacks, deadline : Int]
  BY ClientAssumption DEF ClientTypeOK
<1>3. req \in [id : Nat, body : Bodies, noreply : BOOLEAN]
  BY <1>1
<1>4. /\ pending' = Emplace(pending, nextId, entry)
      /\ last_id' = nextId /\ requests' = requests \cup {req}
  BY DEF call, publish
<1> HIDE DEF entry, req
<1>5. DOMAIN pending' = DOMAIN pending \cup {nextId}
  BY <1>4 DEF Emplace
<1>6. pending' \in [DOMAIN pending' -> [callback : Callbacks, deadline : Int]]
  BY <1>2, <1>4, <1>5 DEF Emplace, ClientTypeOK
<1> QED
  BY <1>1, <1>3, <1>4, <1>5, <1>6 DEF ClientTypeOK

LEMMA OwedType ==
  ASSUME NEW Callbacks, NEW Bodies, ClientTypeOK(Callbacks, Bodies),
         NEW id \in DOMAIN pending, NEW result \in Result
  PROVE  Owe(id, result) \in [id : Nat, callback : Callbacks, result : Result]
BY DEF Owe, ClientTypeOK

LEMMA ResultType ==
  ASSUME NEW Callbacks, NEW Bodies, ClientTypeOK(Callbacks, Bodies)
  PROVE  /\ TimedOut \in Result
         /\ \A msg \in replies : Replied(msg) \in Result
<1>1. \A msg \in replies : msg.code \in Codes /\ msg.data \in Data
  BY DEF ClientTypeOK
<1> QED
  BY <1>1 DEF TimedOut, Replied, ApiResult, Result

LEMMA ResponseKeepsTypes ==
  ASSUME NEW Callbacks, NEW Bodies, ClientTypeOK(Callbacks, Bodies),
         NEW msg \in replies, responseCallback(msg)
  PROVE  ClientTypeOK(Callbacks, Bodies)'
<1>1. CASE msg.id \in DOMAIN pending
  <2>1. Owe(msg.id, Replied(msg)) \in [id : Nat, callback : Callbacks, result : Result]
    BY <1>1, OwedType, ResultType, Zenon
  <2>2. /\ owed' = {Owe(msg.id, Replied(msg))}
        /\ pending' = Erase(pending, {msg.id})
        /\ UNCHANGED <<last_id, requests, replies, steady, now>>
    BY <1>1 DEF responseCallback
  <2>3. /\ DOMAIN pending' \subseteq Nat
        /\ pending' \in [DOMAIN pending' -> [callback : Callbacks, deadline : Int]]
    BY <2>2 DEF Erase, ClientTypeOK
  <2> QED BY <2>1, <2>2, <2>3 DEF ClientTypeOK
<1>2. CASE msg.id \notin DOMAIN pending
  BY <1>2 DEF responseCallback, ClientTypeOK
<1> QED
  BY <1>1, <1>2

LEMMA SweepKeepsTypes ==
  ASSUME NEW Callbacks, NEW Bodies, ClientTypeOK(Callbacks, Bodies), sweepTimeouts
  PROVE  ClientTypeOK(Callbacks, Bodies)'
<1>1. \A id \in DOMAIN pending :
        Owe(id, TimedOut) \in [id : Nat, callback : Callbacks, result : Result]
  BY OwedType, ResultType, Zenon
<1>2. owed' \subseteq [id : Nat, callback : Callbacks, result : Result]
  BY <1>1 DEF sweepTimeouts, Expired
<1>3. /\ DOMAIN pending' \subseteq Nat
      /\ pending' \in [DOMAIN pending' -> [callback : Callbacks, deadline : Int]]
  BY DEF sweepTimeouts, Erase, ClientTypeOK
<1> QED
  BY <1>2, <1>3 DEF sweepTimeouts, ClientTypeOK

(* The environment only adds replies and moves the clocks.                 *)
LEMMA EnvironmentEffect ==
  ASSUME NEW Callbacks, NEW Bodies, ClientTypeOK(Callbacks, Bodies), Environment
  PROVE  /\ UNCHANGED <<pending, last_id, owed, requests>>
         /\ replies \subseteq replies'
         /\ steady \in Nat /\ steady' \in Nat /\ steady' >= steady
<1>1. steady \in Nat
  BY ClientAssumption DEF ClientTypeOK
<1>2. ASSUME NEW req \in requests, NEW code \in Codes, NEW data \in Data,
             RobotReplies(req, code, data)
      PROVE  /\ UNCHANGED <<pending, last_id, owed, requests, steady>>
             /\ replies \subseteq replies'
  BY <1>2 DEF RobotReplies
<1>3. ASSUME NEW id \in ForeignIds, NEW code \in Codes, NEW data \in Data,
             ForeignReply(id, code, data)
      PROVE  /\ UNCHANGED <<pending, last_id, owed, requests, steady>>
             /\ replies \subseteq replies'
  BY <1>3 DEF ForeignReply
<1> QED
  BY <1>1, <1>2, <1>3 DEF Environment, Elapse, ClockSet

LEMMA EnvironmentKeepsTypes ==
  ASSUME NEW Callbacks, NEW Bodies, ClientTypeOK(Callbacks, Bodies), Environment
  PROVE  ClientTypeOK(Callbacks, Bodies)'
<1>1. ASSUME NEW req \in requests, NEW code \in Codes, NEW data \in Data,
             RobotReplies(req, code, data)
      PROVE  ClientTypeOK(Callbacks, Bodies)'
  <2>1. [id |-> req.id, to |-> req.body, code |-> code, data |-> data]
          \in [id : Nat \cup ForeignIds, to : Bodies \cup {Foreign}, code : Codes, data : Data]
    BY DEF ClientTypeOK
  <2> QED BY <1>1, <2>1 DEF RobotReplies, ClientTypeOK
<1>2. ASSUME NEW id \in ForeignIds, NEW code \in Codes, NEW data \in Data,
             ForeignReply(id, code, data)
      PROVE  ClientTypeOK(Callbacks, Bodies)'
  <2>1. [id |-> id, to |-> Foreign, code |-> code, data |-> data]
          \in [id : Nat \cup ForeignIds, to : Bodies \cup {Foreign}, code : Codes, data : Data]
    OBVIOUS
  <2> QED BY <1>2, <2>1 DEF ForeignReply, ClientTypeOK
<1>3. steady \in 0 .. MaxSteady /\ now \in Int /\ now - steady \in Offsets
  BY Zenon DEF ClientTypeOK
<1>4. ASSUME steady' \in 0 .. MaxSteady, now' \in Int, now' - steady' \in Offsets,
             UNCHANGED <<pending, last_id, owed, requests, replies>>
      PROVE  ClientTypeOK(Callbacks, Bodies)'
  BY <1>4, Zenon DEF ClientTypeOK
<1>5. CASE Elapse
  <2>1. steady' \in 0 .. MaxSteady /\ now' \in Int /\ now' - steady' = now - steady
    BY <1>3, <1>5, ClientAssumption DEF Elapse
  <2> QED BY <1>3, <1>4, <1>5, <2>1 DEF Elapse
<1>6. CASE ClockSet
  <2>1. PICK offset \in Offsets : now' = steady + offset
    BY <1>6 DEF ClockSet
  <2>2. now' \in Int /\ now' - steady = offset
    BY <1>3, <2>1, ClientAssumption
  <2> QED BY <1>3, <1>4, <1>6, <2>2 DEF ClockSet
<1> QED
  BY <1>1, <1>2, <1>5, <1>6 DEF Environment

-----------------------------------------------------------------------------
(* Ids.                                                                    *)

(* A request published under the next id keeps ids apart, whether or not   *)
(* it is entered in the table.                                             *)
LEMMA PublishKeepsIds ==
  ASSUME NEW Callbacks, NEW Bodies, ClientTypeOK(Callbacks, Bodies), IdsIssued,
         NEW body, NEW noreply, publish(nextId, body, noreply), last_id' = nextId,
         DOMAIN pending' \subseteq DOMAIN pending \cup {nextId},
         UNCHANGED <<replies, steady>>
  PROVE  IdsIssued'
<1> DEFINE new == nextId
           req == [id |-> new, body |-> body, noreply |-> noreply]
<1>1. /\ new \in Nat /\ last_id \in Nat /\ new > last_id
      /\ \A r \in requests : r.id \in Nat /\ r.id < new
  BY NextIdNew DEF ClientTypeOK
<1>2. /\ requests' = requests \cup {req} /\ req.id = new /\ last_id' = new
      /\ DOMAIN pending' \subseteq DOMAIN pending \cup {new}
  BY DEF publish
<1> HIDE DEF req, new
<1>3. \A id \in DOMAIN pending : id \in Nat /\ id <= last_id
  BY DEF IdsIssued, ClientTypeOK
<1>4. \A id \in DOMAIN pending' : id <= last_id'
  <2>1. \A id \in DOMAIN pending : id <= new
    BY <1>1, <1>3
  <2>2. new <= new
    BY <1>1
  <2> QED BY <1>2, <2>1, <2>2
<1>5. \A r \in requests' : r.id <= last_id' \/ r.id < steady'
  <2>1. \A r \in requests : r.id <= new
    BY <1>1
  <2>2. new <= new
    BY <1>1
  <2> QED BY <1>2, <2>1, <2>2
<1>6. \A r1, r2 \in requests' : r1.id = r2.id => r1 = r2
  <2>1. \A r1, r2 \in requests : r1.id = r2.id => r1 = r2
    BY DEF IdsIssued
  <2>2. \A r \in requests : r.id # new
    BY <1>1
  <2> QED BY <1>2, <2>1, <2>2
<1> QED
  BY <1>2, <1>4, <1>5, <1>6 DEF IdsIssued

(* A handler that only takes entries out of the table, or leaves it.       *)
LEMMA HandlerKeepsIds ==
  ASSUME IdsIssued, DOMAIN pending' \subseteq DOMAIN pending,
         UNCHANGED <<last_id, requests, replies, steady>>
  PROVE  IdsIssued'
BY DEF IdsIssued

LEMMA EnvironmentKeepsIds ==
  ASSUME NEW Callbacks, NEW Bodies, ClientTypeOK(Callbacks, Bodies),
         Foreign \notin Bodies, IdsIssued, Environment
  PROVE  IdsIssued'
<1>1. /\ UNCHANGED <<pending, last_id, owed, requests>>
      /\ steady \in Nat /\ steady' \in Nat /\ steady' >= steady
  BY EnvironmentEffect
<1>2. \A msg \in replies' \ replies : msg.to # Foreign =>
        \E req \in requests : req.id = msg.id /\ req.body = msg.to
  <2>1. ASSUME NEW req \in requests, NEW code \in Codes, NEW data \in Data,
               RobotReplies(req, code, data), NEW msg \in replies' \ replies
        PROVE  msg.id = req.id /\ msg.to = req.body /\ req.body # Foreign
    BY <2>1 DEF RobotReplies, ClientTypeOK
  <2>2. ASSUME NEW id \in ForeignIds, NEW code \in Codes, NEW data \in Data,
               ForeignReply(id, code, data), NEW msg \in replies' \ replies
        PROVE  msg.to = Foreign
    BY <2>2 DEF ForeignReply
  <2>3. CASE Elapse \/ ClockSet
    BY <2>3 DEF Elapse, ClockSet
  <2> QED BY <2>1, <2>2, <2>3 DEF Environment
<1>3. \A req \in requests : req.id \in Nat /\ last_id \in Nat
                            /\ (req.id <= last_id \/ req.id < steady)
  BY DEF IdsIssued, ClientTypeOK
<1>4. \A req \in requests' : req.id <= last_id' \/ req.id < steady'
  BY <1>1, <1>3
<1> QED
  BY <1>1, <1>2, <1>4 DEF IdsIssued

(* A reply under the id of a request answers that request, as long as no   *)
(* other node was replied to under an id of ours.                          *)
LEMMA ReplyToItsRequest ==
  ASSUME IdsIssued, IdsApart, NEW msg \in replies, NEW req \in requests,
         msg.id = req.id
  PROVE  msg.to # Foreign /\ msg.to = req.body
<1>1. msg.to # Foreign
  BY DEF IdsApart
<1> QED
  BY <1>1 DEF IdsIssued

(* Once ids have met they stay so, and what was accepted stays accepted.   *)
LEMMA AcknowledgedStays ==
  ASSUME requests \subseteq requests', replies \subseteq replies'
  PROVE  /\ IdsApart' => IdsApart
         /\ \A body : Acknowledged(body) => Acknowledged(body)'
BY DEF IdsApart, Acknowledged, Accepted

-----------------------------------------------------------------------------
(* Callbacks.                                                              *)

(* The entries S leave the table and their callbacks are owed; one is told *)
(* ok only by a reply with its id that reports status 0.                   *)
HandsOver(S) ==
  /\ S \subseteq DOMAIN pending
  /\ owed = {}
  /\ DOMAIN pending' = DOMAIN pending \ S
  /\ \A id \in DOMAIN pending' : pending'[id] = pending[id]
  /\ \A o \in owed' :
       /\ o.id \in S
       /\ o.callback = pending[o.id].callback
       /\ o.result.ok => \E msg \in replies : /\ msg.id = o.id /\ msg.code = StatusOk
                                               /\ msg.data = o.result.data
  /\ \A id \in S : \E o \in owed' : o.id = id
  /\ \A o1, o2 \in owed' : o1.id = o2.id => o1 = o2
  /\ UNCHANGED <<last_id, requests, replies, steady, now>>

LEMMA ResponseHandsOver ==
  ASSUME NEW msg \in replies, msg.id \in DOMAIN pending, responseCallback(msg)
  PROVE  HandsOver({msg.id})
<1> DEFINE due == Owe(msg.id, Replied(msg))
<1>1. /\ owed = {} /\ owed' = {due}
      /\ pending' = Erase(pending, {msg.id})
      /\ UNCHANGED <<last_id, requests, replies, steady, now>>
  BY DEF responseCallback, Idle
<1>2. /\ due.id = msg.id
      /\ due.callback = pending[msg.id].callback
      /\ due.result.ok = (msg.code = StatusOk)
      /\ due.result.data = msg.data
  BY DEF Owe, ApiResult, Replied
<1>3. /\ DOMAIN pending' = DOMAIN pending \ {msg.id}
      /\ \A id \in DOMAIN pending' : pending'[id] = pending[id]
  BY <1>1 DEF Erase
<1> HIDE DEF due
<1> QED
  BY <1>1, <1>2, <1>3 DEF HandsOver

LEMMA SweepHandsOver ==
  ASSUME sweepTimeouts
  PROVE  HandsOver(Expired)
<1> DEFINE due(id) == Owe(id, TimedOut)
<1>1. /\ owed = {} /\ owed' = {due(id) : id \in Expired}
      /\ pending' = Erase(pending, Expired)
      /\ UNCHANGED <<last_id, requests, replies, steady, now>>
  BY DEF sweepTimeouts, Idle
<1>2. \A id \in Expired : /\ due(id).id = id
                          /\ due(id).callback = pending[id].callback
                          /\ due(id).result.ok = FALSE
  BY DEF Owe, ApiResult, TimedOut
<1>3. /\ DOMAIN pending' = DOMAIN pending \ Expired
      /\ \A id \in DOMAIN pending' : pending'[id] = pending[id]
      /\ Expired \subseteq DOMAIN pending
  BY <1>1 DEF Erase, Expired
<1> HIDE DEF due
<1> QED
  BY <1>1, <1>2, <1>3 DEF HandsOver
=============================================================================
