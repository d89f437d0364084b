--------------------- MODULE Go2RobotStateBridge_proofs ----------------------
(***************************************************************************)
(* Proofs about the Robot State API bridge, for any number of calls, any   *)
(* payloads, table size, timeout and clock.                                *)
(***************************************************************************)
EXTENDS Go2RobotStateBridge, UnitreeApiClient_proofs, WellFoundedInduction

-----------------------------------------------------------------------------
(* The list of services: what Nth and Listed return.                       *)

(* A set of numbers has a least one.  (Induction on the numbers would need *)
(* a theorem with an operator parameter.)                                  *)
LEMMA LeastNatural ==
  ASSUME NEW S \in SUBSET Nat, S # {}
  PROVE  \E k \in S : \A j \in S : k <= j
<1> DEFINE R == OpToRel(<, Nat)
<1>1. IsWellFoundedOn(R, Nat)
  BY NatLessThanWellFounded
<1>2. \A j, k \in Nat : j < k => <<j, k>> \in R
  BY DEF OpToRel
<1> HIDE DEF R
<1>3. \E k \in S : \A j \in S : ~(<<j, k>> \in R)
  BY <1>1, WFMin
<1>4. \E k \in S : \A j \in S : ~(j < k)
  <2>1. S \subseteq Nat
    OBVIOUS
  <2> QED BY <1>2, <1>3, <2>1, Zenon
<1> QED
  BY <1>4

(* There is an n-th index, for each n up to their number: where the count  *)
(* of the indices so far first reaches n.                                  *)
LEMMA NthIsIndex ==
  ASSUME NEW m \in Nat, NEW indices \in SUBSET (1 .. m),
         NEW n \in 1 .. Cardinality(indices)
  PROVE  /\ Nth(indices, n) \in indices
         /\ Cardinality({j \in indices : j <= Nth(indices, n)}) = n
<1> DEFINE upTo(k) == {j \in indices : j <= k}
           reached == {k \in Nat : Cardinality(upTo(k)) >= n}
<1>1. IsFiniteSet(1 .. m)
  BY FS_Interval
<1>2. IsFiniteSet(indices)
  BY <1>1, FS_Subset
<1>3. indices \subseteq Nat /\ \A j \in indices : 1 <= j /\ j <= m
  OBVIOUS
<1>4. \A k \in Nat : IsFiniteSet(upTo(k)) /\ Cardinality(upTo(k)) \in Nat
  <2> SUFFICES ASSUME NEW k \in Nat
               PROVE  IsFiniteSet(upTo(k)) /\ Cardinality(upTo(k)) \in Nat
    OBVIOUS
  <2>1. upTo(k) \in SUBSET indices
    OBVIOUS
  <2>2. IsFiniteSet(upTo(k))
    BY <1>2, <2>1, FS_Subset
  <2> QED BY <2>2, FS_CardinalityType
<1>5. Cardinality(indices) \in Nat
  BY <1>2, FS_CardinalityType
<1>6. n \in Nat /\ n >= 1 /\ n <= Cardinality(indices)
  BY <1>5
<1>7. m \in reached
  <2>1. upTo(m) = indices
    BY <1>3
  <2>2. Cardinality(upTo(m)) = Cardinality(indices)
    BY <2>1
  <2> HIDE DEF upTo
  <2> QED BY <2>2, <1>5, <1>6
<1>8. PICK k \in reached : \A j \in reached : k <= j
  <2>1. reached \in SUBSET Nat /\ reached # {}
    BY <1>7
  <2> HIDE DEF reached
  <2> QED BY <2>1, LeastNatural
<1>9. k \in Nat /\ Cardinality(upTo(k)) >= n
  BY <1>8
<1>10. k > 0
  <2>1. upTo(0) = {}
    <3>1. \A j \in indices : ~(j <= 0)
      BY <1>3
    <3> QED BY <3>1
  <2>2. Cardinality(upTo(0)) = 0
    BY <2>1, FS_EmptySet
  <2> HIDE DEF upTo
  <2> QED BY <2>2, <1>6, <1>9
<1>11. k - 1 \in Nat
  BY <1>9, <1>10
<1>12. Cardinality(upTo(k - 1)) < n
  <2>1. k - 1 \notin reached
    <3>1. ~(k <= k - 1)
      BY <1>9
    <3> HIDE DEF reached
    <3> QED BY <1>8, <3>1
  <2>2. ~(Cardinality(upTo(k - 1)) >= n)
    BY <2>1, <1>11
  <2>3. Cardinality(upTo(k - 1)) \in Nat
    BY <1>4, <1>11
  <2> HIDE DEF upTo
  <2> QED BY <2>2, <2>3, <1>6
<1>13. \A j \in indices : j <= k <=> j <= k - 1 \/ j = k
  BY <1>3, <1>9
<1>14. k \notin indices => upTo(k) = upTo(k - 1)
  BY <1>13
<1>15. k \in indices => upTo(k) = upTo(k - 1) \cup {k}
  BY <1>13, <1>9
<1>16. k \notin upTo(k - 1)
  BY <1>9
<1>17. Cardinality(upTo(k)) \in Nat /\ Cardinality(upTo(k - 1)) \in Nat
       /\ IsFiniteSet(upTo(k - 1))
  BY <1>4, <1>9, <1>11
<1> HIDE DEF upTo, reached
<1>18. k \in indices
  <2>1. k \notin indices => Cardinality(upTo(k)) = Cardinality(upTo(k - 1))
    BY <1>14
  <2> QED BY <2>1, <1>6, <1>9, <1>12, <1>17
<1>19. Cardinality(upTo(k)) = n
  <2>1. Cardinality(upTo(k)) = Cardinality(upTo(k - 1)) + 1
    BY <1>15, <1>16, <1>17, <1>18, FS_AddElement
  <2> QED BY <2>1, <1>6, <1>9, <1>12, <1>17
<1> QED
  BY <1>18, <1>19 DEF Nth, upTo

(* The index i is the n-th for the n that counts the indices up to i.      *)
LEMMA NthOfRank ==
  ASSUME NEW m \in Nat, NEW indices \in SUBSET (1 .. m), NEW i \in indices
  PROVE  LET rank == Cardinality({j \in indices : j <= i})
         IN rank \in 1 .. Cardinality(indices) /\ Nth(indices, rank) = i
<1> DEFINE upTo(k) == {j \in indices : j <= k}
           rank == Cardinality(upTo(i))
<1>1. IsFiniteSet(indices)
  <2>1. IsFiniteSet(1 .. m)
    BY FS_Interval
  <2> QED BY <2>1, FS_Subset
<1>2. ASSUME NEW k \in Int
      PROVE  IsFiniteSet(upTo(k)) /\ Cardinality(upTo(k)) \in Nat
  <2>1. upTo(k) \in SUBSET indices
    OBVIOUS
  <2>2. IsFiniteSet(upTo(k))
    BY <1>1, <2>1, FS_Subset
  <2> QED BY <2>2, FS_CardinalityType
<1>3. ASSUME NEW j \in indices, NEW k \in indices, j < k
      PROVE  Cardinality(upTo(j)) < Cardinality(upTo(k))
  <2>1. upTo(j) \cup {k} \in SUBSET upTo(k) /\ k \notin upTo(j)
    <3>1. indices \subseteq Int
      OBVIOUS
    <3>2. \A x \in indices : x <= j => x <= k
      BY <1>3, <3>1
    <3>3. j \in Int /\ k \in Int /\ ~(k <= j) /\ k <= k
      BY <1>3, <3>1
    <3> QED BY <3>2, <3>3, Zenon
  <2>2. /\ IsFiniteSet(upTo(j)) /\ Cardinality(upTo(j)) \in Nat
        /\ IsFiniteSet(upTo(k)) /\ Cardinality(upTo(k)) \in Nat
    BY <1>2
  <2> HIDE DEF upTo
  <2>3. Cardinality(upTo(j) \cup {k}) = Cardinality(upTo(j)) + 1
    BY <2>1, <2>2, FS_AddElement
  <2>4. Cardinality(upTo(j) \cup {k}) <= Cardinality(upTo(k))
    BY <2>1, <2>2, FS_Subset
  <2> QED BY <2>2, <2>3, <2>4
<1>4. rank \in 1 .. Cardinality(indices)
  <2>1. upTo(i) \in SUBSET indices /\ i \in upTo(i)
    OBVIOUS
  <2>2. IsFiniteSet(upTo(i)) /\ Cardinality(upTo(i)) \in Nat
    BY <1>2
  <2> HIDE DEF upTo
  <2>3. Cardinality(upTo(i)) <= Cardinality(indices) /\ Cardinality(indices) \in Nat
    BY <1>1, <2>1, FS_Subset, FS_CardinalityType
  <2>4. Cardinality(upTo(i)) # 0
    BY <2>1, <2>2, FS_EmptySet
  <2> QED BY <2>2, <2>3, <2>4
<1>5. /\ Nth(indices, rank) \in indices
      /\ Cardinality(upTo(Nth(indices, rank))) = rank
  <2> HIDE DEF rank
  <2> QED BY <1>4, NthIsIndex
<1>6. Nth(indices, rank) = i
  <2> DEFINE k == Nth(indices, rank)
  <2>1. k \in indices /\ Cardinality(upTo(k)) = Cardinality(upTo(i))
    BY <1>5
  <2>2. Cardinality(upTo(i)) \in Nat /\ Cardinality(upTo(k)) \in Nat
    BY <1>2, <2>1
  <2> HIDE DEF k, upTo
  <2>3. ~(k < i) /\ ~(i < k)
    BY <1>3, <2>1, <2>2
  <2>4. k = i
    BY <2>1, <2>3
  <2> QED BY <2>4 DEF k
<1> QED
  BY <1>4, <1>6

(* A service has the fields its entry gives.                               *)
LEMMA FieldsRead ==
  ASSUME NEW entry, NEW field \in {"name", "status", "protect", "version"},
         field \in DOMAIN entry
  PROVE  ServiceState(entry)[field] = entry[field]
<1>1. CASE field = "name"
  BY <1>1 DEF ServiceState, Field
<1>2. CASE field = "status"
  BY <1>2 DEF ServiceState, Field
<1>3. CASE field = "protect"
  BY <1>3 DEF ServiceState, Field
<1>4. CASE field = "version"
  BY <1>4 DEF ServiceState, Field
<1> QED
  BY <1>1, <1>2, <1>3, <1>4

(* A list has the services of the array, as many as it has objects, each   *)
(* read out of one of them.                                                *)
LEMMA ListedFacts ==
  ASSUME NEW data \in DOMAIN ListIn
  PROVE  LET entries == ListIn[data]
             listed == Listed(entries)
         IN /\ listed \in Seq(ServiceStates)
            /\ Len(listed) = Cardinality(Objects(entries))
            /\ \A n \in DOMAIN listed :
                 \E i \in Objects(entries) : listed[n] = ServiceState(entries[i])
            /\ Reports(listed, entries)
<1> DEFINE entries == ListIn[data]
           listed == Listed(entries)
           objects == Objects(entries)
<1>1. /\ entries \in Seq({entries[i] : i \in DOMAIN entries})
      /\ \A i \in objects : ServiceState(entries[i]) \in ServiceStates
  BY RobotStateAssumption
<1>2. Len(entries) \in Nat /\ objects \subseteq 1 .. Len(entries)
  BY <1>1 DEF Objects
<1>3. Cardinality(objects) \in Nat
  <2> HIDE DEF objects, entries
  <2>1. IsFiniteSet(1 .. Len(entries))
    BY <1>2, FS_Interval
  <2>2. IsFiniteSet(objects)
    BY <1>2, <2>1, FS_Subset
  <2> QED BY <2>2, FS_CardinalityType
<1>4. \A n \in 1 .. Cardinality(objects) : Nth(objects, n) \in objects
  <2> HIDE DEF objects, entries
  <2> QED BY <1>2, NthIsIndex
<1>5. listed = [n \in 1 .. Cardinality(objects) |-> ServiceState(entries[Nth(objects, n)])]
  BY DEF Listed
<1> HIDE DEF listed, objects, entries
<1>6. DOMAIN listed = 1 .. Cardinality(objects) /\ Len(listed) = Cardinality(objects)
  BY <1>3, <1>5
<1>7. \A n \in DOMAIN listed : \E i \in objects : listed[n] = ServiceState(entries[i])
  BY <1>4, <1>5, <1>6
<1>8. listed \in Seq(ServiceStates)
  BY <1>1, <1>3, <1>5, <1>6, <1>7
<1>9. ASSUME NEW i \in objects, NEW field \in {"name", "status", "protect", "version"},
             field \in DOMAIN entries[i]
      PROVE  listed[Cardinality({j \in objects : j <= i})][field] = entries[i][field]
  <2> DEFINE rank == Cardinality({j \in objects : j <= i})
  <2>1. rank \in 1 .. Cardinality(objects) /\ Nth(objects, rank) = i
    BY <1>2, NthOfRank
  <2> HIDE DEF rank
  <2>2. listed[rank] = ServiceState(entries[i])
    BY <1>5, <2>1
  <2>3. ServiceState(entries[i])[field] = entries[i][field]
    BY <1>9, FieldsRead
  <2> QED BY <2>2, <2>3 DEF rank
<1> QED
  BY <1>6, <1>7, <1>8, <1>9 DEF Reports, listed, objects, entries

-----------------------------------------------------------------------------
(* Type correctness.                                                       *)

LEMMA DescribeFacts ==
  ASSUME NEW result \in Result
  PROVE  describe(result) \in {"accepted", "got no reply", "rejected"}
<1> DEFINE code == result.status_code
<1>1. code \in Int
  <2>1. code \in Codes \/ code = StatusOk \/ code = StatusTimeout
    BY DEF Result
  <2> HIDE DEF code
  <2>2. code = StatusTimeout => code \in Int
    BY DEF StatusTimeout
  <2>3. code = StatusOk => code \in Int
    BY DEF StatusOk
  <2> QED BY <2>1, <2>2, <2>3, ClientAssumption
<1>2. \/ result.ok
      \/ ~result.ok /\ result.status_code < 0
      \/ ~result.ok /\ result.status_code >= 0
  <2>1. code < 0 \/ code >= 0
    BY <1>1
  <2> QED BY <2>1, Zenon
<1> QED
  BY <1>2, Zenon DEF describe

LEMMA ResponseType ==
  ASSUME NEW success \in BOOLEAN, NEW message \in Messages
  PROVE  /\ Response(success, message) \in Responses
         /\ \A status \in Int :
              [Response(success, message) EXCEPT !.status = status] \in Responses
         /\ \A services \in Seq(ServiceStates) :
              [Response(success, message) EXCEPT !.services = services] \in Responses
<1>1. <<>> \in Seq(ServiceStates)
  OBVIOUS
<1>2. Response(success, message) =
        [success |-> success, message |-> message, status |-> 0, services |-> <<>>]
  BY DEF Response
<1>3. ASSUME NEW status \in Int, NEW services \in Seq(ServiceStates)
      PROVE  [success |-> success, message |-> message, status |-> status,
              services |-> services] \in Responses
  BY DEF Responses
<1>4. ASSUME NEW status \in Int
      PROVE  [Response(success, message) EXCEPT !.status = status] \in Responses
  <2>1. [Response(success, message) EXCEPT !.status = status] =
          [success |-> success, message |-> message, status |-> status, services |-> <<>>]
    BY <1>2
  <2> QED BY <1>1, <1>3, <2>1
<1>5. ASSUME NEW services \in Seq(ServiceStates)
      PROVE  [Response(success, message) EXCEPT !.services = services] \in Responses
  <2>1. [Response(success, message) EXCEPT !.services = services] =
          [success |-> success, message |-> message, status |-> 0, services |-> services]
    BY <1>2
  <2> QED BY <1>3, <2>1
<1> QED
  BY <1>1, <1>2, <1>3, <1>4, <1>5

(* What RunCallback adds to the responses of the call that waited.         *)
LEMMA CallbackResponds ==
  ASSUME TypeOK, NEW o \in owed, RunCallback(o)
  PROVE  \E resp \in Responses :
           /\ responses' = [responses EXCEPT ![o.callback] = Append(@, resp)]
           /\ resp.message # "could not be sent"
           /\ resp.success => o.result.ok
           /\ \/ ~resp.success /\ resp.services = <<>>
              \/ /\ resp.success /\ asked[o.callback] = "service_switch"
                 /\ o.result.data \in DOMAIN StatusIn
                 /\ resp.status = StatusIn[o.result.data]
                 /\ resp.services = <<>>
              \/ /\ resp.success /\ asked[o.callback] = "service_list"
                 /\ o.result.data \in DOMAIN ListIn
                 /\ resp.services = Listed(ListIn[o.result.data])
<1> DEFINE r == o.callback
           result == o.result
           text == describe(result)
<1>1. result \in Result /\ r \in Clients
  BY DEF TypeOK, ClientTypeOK
<1>2. text \in Messages /\ text # "could not be sent"
  <2>1. text \in {"accepted", "got no reply", "rejected"}
    BY <1>1, DescribeFacts
  <2> HIDE DEF text
  <2> QED BY <2>1 DEF Messages
<1>3. \/ asked[r] = "service_switch" /\ onSwitchResult(r, result)
      \/ asked[r] = "service_list" /\ onListResult(r, result)
  BY DEF RunCallback
<1> HIDE DEF r, result, text
<1>4. ASSUME ~result.ok, send_response(r, Response(FALSE, text))
      PROVE  \E resp \in Responses :
               /\ responses' = [responses EXCEPT ![r] = Append(@, resp)]
               /\ resp.message # "could not be sent"
               /\ ~resp.success /\ resp.services = <<>>
  <2>1. Response(FALSE, text) \in Responses
    BY <1>2, ResponseType
  <2> QED BY <1>2, <1>4, <2>1 DEF send_response, Response
<1>5. ASSUME NEW other \in {"could not read a status", "could not read a service list"},
             send_response(r, Response(FALSE, other))
      PROVE  \E resp \in Responses :
               /\ responses' = [responses EXCEPT ![r] = Append(@, resp)]
               /\ resp.message # "could not be sent"
               /\ ~resp.success /\ resp.services = <<>>
  <2>1. other \in Messages /\ other # "could not be sent"
    BY DEF Messages
  <2>2. Response(FALSE, other) \in Responses
    BY <2>1, ResponseType
  <2> QED BY <1>5, <2>1, <2>2 DEF send_response, Response
<1>6. ASSUME asked[r] = "service_switch", result.ok, result.data \in DOMAIN StatusIn,
             send_response(r, [Response(TRUE, text) EXCEPT
                                 !.status = StatusIn[result.data]])
      PROVE  \E resp \in Responses :
               /\ responses' = [responses EXCEPT ![r] = Append(@, resp)]
               /\ resp.message # "could not be sent" /\ resp.success
               /\ resp.status = StatusIn[result.data] /\ resp.services = <<>>
  <2>1. StatusIn[result.data] \in Int
    BY <1>6, RobotStateAssumption
  <2>2. [Response(TRUE, text) EXCEPT !.status = StatusIn[result.data]] \in Responses
    BY <1>2, <2>1, ResponseType
  <2> QED BY <1>2, <1>6, <2>2 DEF send_response, Response
<1>7. ASSUME asked[r] = "service_list", result.ok, result.data \in DOMAIN ListIn,
             send_response(r, [Response(TRUE, text) EXCEPT
                                 !.services = Listed(ListIn[result.data])])
      PROVE  \E resp \in Responses :
               /\ responses' = [responses EXCEPT ![r] = Append(@, resp)]
               /\ resp.message # "could not be sent" /\ resp.success
               /\ resp.services = Listed(ListIn[result.data])
  <2>1. Listed(ListIn[result.data]) \in Seq(ServiceStates)
    BY <1>7, ListedFacts
  <2>2. [Response(TRUE, text) EXCEPT !.services = Listed(ListIn[result.data])] \in Responses
    BY <1>2, <2>1, ResponseType
  <2> QED BY <1>2, <1>7, <2>2 DEF send_response, Response
<1>8. CASE asked[r] = "service_switch" /\ onSwitchResult(r, result)
  BY <1>4, <1>5, <1>6, <1>8 DEF onSwitchResult, r, result, text
<1>9. CASE asked[r] = "service_list" /\ onListResult(r, result)
  BY <1>4, <1>5, <1>7, <1>9 DEF onListResult, r, result, text
<1> QED
  BY <1>3, <1>8, <1>9

(* What a service call does: its request is entered, refused with an       *)
(* answer, or published with one.                                          *)
Entered(r, service) ==
  /\ service \in {"service_switch", "service_list"}
  /\ \E api_id \in Int : call(Body(r, api_id), r)
  /\ UNCHANGED responses

Refused(r, service) ==
  /\ service \in {"service_switch", "service_list"}
  /\ responses' = [responses EXCEPT
       ![r] = Append(@, Response(FALSE, "could not be sent"))]
  /\ UNCHANGED apiVars

Published(r, service) ==
  /\ service = "set_report_freq"
  /\ \E api_id \in Int : send(Body(r, api_id), TRUE)
  /\ responses' = [responses EXCEPT ![r] = Append(@, Response(TRUE, "published"))]

LEMMA ServiceCallEffect ==
  ASSUME NEW r \in Clients, NEW service \in Services, ServiceCall(r, service)
  PROVE  /\ owed = {} /\ asked[r] = None
         /\ asked' = [asked EXCEPT ![r] = service]
         /\ UNCHANGED <<owed, replies, steady, now>>
         /\ Entered(r, service) \/ Refused(r, service) \/ Published(r, service)
<1> DEFINE Does == Entered(r, service) \/ Refused(r, service) \/ Published(r, service)
<1>1. ASSUME NEW api_id \in Int, Forward(r, api_id),
             service \in {"service_switch", "service_list"}
      PROVE  Entered(r, service) \/ Refused(r, service)
  BY <1>1 DEF Forward, send_response, Entered, Refused
<1>2. /\ RobotStateApiId.SERVICE_SWITCH \in Int /\ RobotStateApiId.SERVICE_LIST \in Int
      /\ RobotStateApiId.SET_REPORT_FREQ \in Int
  BY DEF RobotStateApiId
<1>3. ASSUME service = "service_switch", handleServiceSwitch(r) PROVE Does
  BY <1>1, <1>2, <1>3 DEF handleServiceSwitch
<1>4. ASSUME service = "service_list", handleServiceList(r) PROVE Does
  BY <1>1, <1>2, <1>4 DEF handleServiceList
<1>5. ASSUME service = "set_report_freq", handleSetReportFreq(r) PROVE Does
  BY <1>2, <1>5 DEF handleSetReportFreq, send_response, Published
<1> QED
  BY <1>3, <1>4, <1>5 DEF ServiceCall, Idle

LEMMA TypeStep == TypeOK /\ [Next]_vars => TypeOK'
<1> SUFFICES ASSUME TypeOK, [Next]_vars PROVE TypeOK'
  OBVIOUS
<1>1. ASSUME NEW r \in Clients, NEW resp \in Responses,
             responses' = [responses EXCEPT ![r] = Append(@, resp)]
      PROVE  responses' \in [Clients -> Seq(Responses)]
  BY <1>1 DEF TypeOK
<1>2. ASSUME NEW r \in Clients, NEW service \in Services, ServiceCall(r, service)
      PROVE  TypeOK'
  <2>0. /\ Response(FALSE, "could not be sent") \in Responses
        /\ Response(TRUE, "published") \in Responses
    BY ResponseType DEF Messages
  <2>1. asked' \in [Clients -> Services \cup {None}]
    BY <1>2, ServiceCallEffect DEF TypeOK
  <2>2. \A api_id \in Int : Body(r, api_id) \in Bodies
    BY DEF Body, Bodies
  <2>3. UNCHANGED <<owed, replies, steady, now>>
    BY <1>2, ServiceCallEffect
  <2>4. CASE Entered(r, service)
    <3>1. PICK api_id \in Int : call(Body(r, api_id), r)
      BY <2>4 DEF Entered
    <3>2. ClientTypeOK(Clients, Bodies)'
      BY <2>2, <2>3, <3>1, CallKeepsTypes DEF TypeOK
    <3> QED BY <2>1, <2>4, <3>2 DEF TypeOK, Entered
  <2>5. CASE Refused(r, service)
    <3>1. responses' \in [Clients -> Seq(Responses)]
      BY <1>1, <2>0, <2>5 DEF Refused
    <3> QED BY <2>1, <2>3, <2>5, <3>1 DEF TypeOK, ClientTypeOK, Refused, apiVars
  <2>6. CASE Published(r, service)
    <3>1. PICK api_id \in Int : send(Body(r, api_id), TRUE)
      BY <2>6 DEF Published
    <3>2. ClientTypeOK(Clients, Bodies)'
      BY <2>2, <2>3, <3>1, SendKeepsTypes DEF TypeOK
    <3>3. responses' \in [Clients -> Seq(Responses)]
      BY <1>1, <2>0, <2>6 DEF Published
    <3> QED BY <2>1, <3>2, <3>3 DEF TypeOK
  <2> QED BY <1>2, <2>4, <2>5, <2>6, ServiceCallEffect
<1>3. ASSUME NEW msg \in replies, responseCallback(msg), UNCHANGED bridgeVars
      PROVE  TypeOK'
  BY <1>3, ResponseKeepsTypes DEF TypeOK, bridgeVars
<1>4. ASSUME sweepTimeouts, UNCHANGED bridgeVars PROVE TypeOK'
  BY <1>4, SweepKeepsTypes DEF TypeOK, bridgeVars
<1>5. ASSUME NEW o \in owed, RunCallback(o) PROVE TypeOK'
  <2>1. o.callback \in Clients
    BY DEF TypeOK, ClientTypeOK
  <2>2. responses' \in [Clients -> Seq(Responses)]
    BY <1>1, <1>5, <2>1, CallbackResponds
  <2> QED BY <1>5, <2>2 DEF RunCallback, TypeOK, ClientTypeOK, apiVars
<1>6. ASSUME Environment, UNCHANGED bridgeVars PROVE TypeOK'
  BY <1>6, EnvironmentKeepsTypes DEF TypeOK, bridgeVars
<1>7. CASE UNCHANGED vars
  BY <1>7 DEF vars, clientVars, bridgeVars, TypeOK, ClientTypeOK
<1> QED
  BY <1>2, <1>3, <1>4, <1>5, <1>6, <1>7 DEF Next

LEMMA TypeInit == Init => TypeOK
BY ClientAssumption DEF Init, ClientInit, TypeOK, ClientTypeOK

(* The bridge and its client keep their types.                             *)
THEOREM TypeCorrect == Spec => []TypeOK
BY TypeInit, TypeStep, PTL DEF Spec, SafeSpec

-----------------------------------------------------------------------------
(* What a response reports of the replies to its call.                     *)

Reported(service, resp, msgs) ==
  /\ resp.success /\ service = "service_switch" =>
       \E msg \in msgs : msg.data \in DOMAIN StatusIn /\ resp.status = StatusIn[msg.data]
  /\ resp.success /\ service = "service_list" =>
       \E msg \in msgs : /\ msg.data \in DOMAIN ListIn
                        /\ Reports(resp.services, ListIn[msg.data])
  /\ \A i \in DOMAIN resp.services : resp.services[i].status = 0 =>
       \E msg \in msgs :
         msg.data \in DOMAIN ListIn /\ \E j \in Objects(ListIn[msg.data]) :
           LET entry == ListIn[msg.data][j]
           IN /\ Field(entry, "name", "") = resp.services[i].name
              /\ "status" \in DOMAIN entry /\ entry["status"] = 0

AllReported ==
  \A r \in Clients :
    Answered(r) /\ IdsApart => Reported(asked[r], responses[r][1], AcceptedReplies(r))

LEMMA AllReportedMeans == AllReported <=> ReportsTheReply /\ RunningIsReported
BY DEF AllReported, Reported, ReportsTheReply, RunningIsReported

LEMMA ReportedOfMore ==
  ASSUME NEW service, NEW resp, NEW msgs, NEW more, msgs \subseteq more,
         Reported(service, resp, msgs)
  PROVE  Reported(service, resp, more)
BY DEF Reported

(* A response that lists nothing and is no success reports nothing.        *)
LEMMA NothingReported ==
  ASSUME NEW service, NEW resp, NEW msgs, resp.services = <<>>,
         service \in {"service_switch", "service_list"} => ~resp.success
  PROVE  Reported(service, resp, msgs)
BY DEF Reported

LEMMA RunningIsRead ==
  ASSUME NEW entry, NEW state, state = ServiceState(entry), state.status = 0
  PROVE  /\ Field(entry, "name", "") = state.name
         /\ "status" \in DOMAIN entry /\ entry["status"] = 0
<1>1. /\ state.name = Field(entry, "name", "")
      /\ state.status = Field(entry, "status", -1)
  BY DEF ServiceState
<1>2. Field(entry, "status", -1) = 0
  BY <1>1
<1>3. -1 # 0
  OBVIOUS
<1>4. "status" \in DOMAIN entry /\ entry["status"] = 0
  BY <1>2, <1>3, Zenon DEF Field
<1> QED
  BY <1>1, <1>4

(* The running services of a list are those its payload says are running.  *)
LEMMA ListReported ==
  ASSUME NEW resp, NEW msgs, NEW msg \in msgs, msg.data \in DOMAIN ListIn,
         resp.services = Listed(ListIn[msg.data])
  PROVE  Reported("service_list", resp, msgs)
<1> DEFINE entries == ListIn[msg.data]
           listed == Listed(entries)
<1>1. /\ Reports(listed, entries)
      /\ \A n \in DOMAIN listed :
           \E i \in Objects(entries) : listed[n] = ServiceState(entries[i])
  BY ListedFacts
<1>2. ASSUME NEW n \in DOMAIN listed, listed[n].status = 0
      PROVE  \E i \in Objects(entries) :
               /\ Field(entries[i], "name", "") = listed[n].name
               /\ "status" \in DOMAIN entries[i] /\ entries[i]["status"] = 0
  <2>1. PICK i \in Objects(entries) : listed[n] = ServiceState(entries[i])
    BY <1>1, <1>2
  <2> HIDE DEF listed, entries
  <2> QED BY <1>2, <2>1, RunningIsRead
<1>3. resp.services = listed
  OBVIOUS
<1> HIDE DEF listed
<1> QED
  BY <1>1, <1>2, <1>3 DEF Reported

-----------------------------------------------------------------------------
(* The inductive invariant.                                                *)

(* One call that had no answer is answered.                                *)
Answers(r, resp) ==
  /\ resp \in Responses
  /\ responses[r] = <<>>
  /\ responses'[r] = <<resp>>
  /\ \A x \in Clients \ {r} : responses'[x] = responses[x]

LEMMA AppendAnswers ==
  ASSUME TypeOK, NEW r \in Clients, NEW resp \in Responses, ~Answered(r),
         responses' = [responses EXCEPT ![r] = Append(@, resp)]
  PROVE  Answers(r, resp)
<1>1. responses[r] = <<>> /\ r \in DOMAIN responses
  BY DEF Answered, TypeOK
<1>2. responses'[r] = Append(responses[r], resp)
  BY <1>1
<1>3. responses'[r] = <<resp>>
  BY <1>1, <1>2
<1> QED
  BY <1>1, <1>3 DEF Answers, TypeOK

LEMMA AnswerFacts ==
  ASSUME NEW r \in Clients, NEW resp, Answers(r, resp)
  PROVE  /\ Answered(r)' /\ ~Answered(r) /\ Len(responses'[r]) = 1
         /\ responses'[r][1] = resp
         /\ \A x \in Clients \ {r} : Answered(x)' = Answered(x)
<1>1. <<resp>> # <<>> /\ Len(<<resp>>) = 1 /\ <<resp>>[1] = resp
  OBVIOUS
<1> QED
  BY <1>1 DEF Answers, Answered

(* An answer that reports what it should keeps what was reported before.   *)
LEMMA AnswerKeepsReports ==
  ASSUME AllReported, UNCHANGED replies, requests \subseteq requests',
         NEW r \in Clients, NEW resp, Answers(r, resp),
         \A x \in Clients \ {r} : asked'[x] = asked[x],
         IdsApart => Reported(asked'[r], resp, AcceptedReplies(r))
  PROVE  AllReported'
<1>1. /\ IdsApart' => IdsApart
      /\ \A x \in Clients : AcceptedReplies(x)' = AcceptedReplies(x)
  BY AcknowledgedStays DEF AcceptedReplies
<1>2. ASSUME NEW x \in Clients \ {r}, Answered(x)', IdsApart
      PROVE  Reported(asked'[x], responses'[x][1], AcceptedReplies(x)')
  <2>1. Answered(x) /\ responses'[x] = responses[x]
    BY <1>2, AnswerFacts DEF Answers
  <2> QED BY <1>1, <1>2, <2>1 DEF AllReported
<1>3. IdsApart => Reported(asked'[r], responses'[r][1], AcceptedReplies(r)')
  BY <1>1, AnswerFacts
<1>4. \A x \in Clients : Answered(x)' /\ IdsApart' =>
        Reported(asked'[x], responses'[x][1], AcceptedReplies(x)')
  BY <1>1, <1>2, <1>3
<1> QED
  BY <1>4 DEF AllReported, Reported, Answered

LEMMA MoreRepliesKeepReports ==
  ASSUME AllReported, replies \subseteq replies', requests \subseteq requests',
         UNCHANGED responses,
         \A r \in Clients : Answered(r) => asked'[r] = asked[r]
  PROVE  AllReported'
<1>1. /\ IdsApart' => IdsApart
      /\ \A r \in Clients : AcceptedReplies(r) \subseteq AcceptedReplies(r)'
  BY AcknowledgedStays DEF AcceptedReplies
<1>2. \A r \in Clients : Answered(r)' /\ IdsApart' =>
        Reported(asked'[r], responses'[r][1], AcceptedReplies(r)')
  <2> SUFFICES ASSUME NEW r \in Clients, Answered(r)', IdsApart
               PROVE  Reported(asked'[r], responses'[r][1], AcceptedReplies(r)')
    BY <1>1
  <2>1. Answered(r) /\ asked'[r] = asked[r] /\ responses'[r] = responses[r]
    BY DEF Answered
  <2>2. Reported(asked[r], responses[r][1], AcceptedReplies(r))
    BY <2>1 DEF AllReported
  <2>3. Reported(asked[r], responses[r][1], AcceptedReplies(r)')
    BY <1>1, <2>2, ReportedOfMore
  <2> QED BY <2>1, <2>3
<1> QED
  BY <1>2 DEF AllReported, Reported, Answered

(* What is tracked of a call, seen from the call.                          *)
Tracked(r) ==
  /\ Len(responses[r]) <= 1
  /\ Answered(r) => asked[r] # None
  /\ asked[r] # None /\ ~Answered(r) =>
       /\ asked[r] # "set_report_freq"
       /\ \/ \E id \in DOMAIN pending : pending[id].callback = r
          \/ \E o \in owed : o.callback = r

LEMMA CallKeepsInv ==
  ASSUME IInv, TypeOK', NEW r \in Clients, NEW service \in Services,
         ServiceCall(r, service)
  PROVE  IInv'
<1>1. /\ owed = {} /\ owed' = {} /\ asked[r] = None /\ asked'[r] = service
      /\ \A x \in Clients \ {r} : asked'[x] = asked[x]
      /\ UNCHANGED <<replies, steady, now>>
      /\ Entered(r, service) \/ Refused(r, service) \/ Published(r, service)
  BY ServiceCallEffect DEF IInv, TypeOK
<1>2. service # None /\ None \notin {"service_switch", "service_list"}
  BY RobotStateAssumption DEF RobotStateServices
<1>3. ~Answered(r) /\ ~Waiting(r)
  BY <1>1, <1>2 DEF IInv, EveryCallTracked, Waiting
<1>4. \A id \in DOMAIN pending :
        /\ pending[id].callback \in Clients \ {r}
        /\ Waiting(pending[id].callback)
        /\ \E req \in requests : req.id = id /\ req.body.for = pending[id].callback
  BY <1>3 DEF IInv, PendingSound, TypeOK, ClientTypeOK
<1>5. \A i, j \in DOMAIN pending : pending[i].callback = pending[j].callback => i = j
  BY DEF IInv, PendingSound
<1>6. AllReported /\ EveryCallTracked /\ IdsIssued
  BY AllReportedMeans DEF IInv
<1>7. OwedSound'
  BY <1>1 DEF OwedSound
<1>8. CASE Entered(r, service)
  <2>1. PICK api_id \in Int : call(Body(r, api_id), r)
    BY <1>8 DEF Entered
  <2> DEFINE new == nextId
             req == [id |-> new, body |-> Body(r, api_id), noreply |-> FALSE]
  <2>2. CallEnters(Body(r, api_id), r)
    BY <2>1, CallIsEntered DEF IInv, TypeOK
  <2>3. requests' = requests \cup {req}
    BY <2>2 DEF CallEnters, publish
  <2>4. req.id = new /\ req.body.for = r
    BY DEF Body
  <2> HIDE DEF req, new
  <2>5. /\ new \notin DOMAIN pending
        /\ DOMAIN pending' = DOMAIN pending \cup {new}
        /\ pending'[new].callback = r
        /\ \A k \in DOMAIN pending : pending'[k] = pending[k]
    BY <2>2 DEF CallEnters, new
  <2>6. responses' = responses /\ service \in {"service_switch", "service_list"}
    BY <1>8 DEF Entered
  <2>7. Waiting(r)' /\ \A x \in Clients \ {r} : Waiting(x)' = Waiting(x)
    BY <1>1, <1>3, <2>6 DEF Waiting, Answered
  <2>8. PendingSound'
    <3>1. \A id \in DOMAIN pending' :
            /\ Waiting(pending[id].callback)'
            /\ \E q \in requests' : q.id = id /\ q.body.for = pending'[id].callback
      BY <1>4, <2>3, <2>4, <2>5, <2>7 DEF Waiting, Answered
    <3>2. \A i, j \in DOMAIN pending' :
            pending'[i].callback = pending'[j].callback => i = j
      BY <1>4, <1>5, <2>4, <2>5
    <3> QED BY <3>1, <3>2 DEF PendingSound, Waiting, Answered
  <2>9. IdsIssued'
    BY <1>1, <1>6, <2>2, PublishKeepsIds DEF CallEnters, IInv, TypeOK
  <2>10. AllReported'
    BY <1>1, <1>3, <1>6, <2>3, <2>6, MoreRepliesKeepReports
  <2>11. EveryCallTracked'
    <3>1. ASSUME NEW x \in Clients \ {r} PROVE Tracked(x)'
      <4>1. Tracked(x)
        BY <1>6 DEF EveryCallTracked, Tracked
      <4> QED BY <1>1, <2>5, <2>6, <4>1 DEF Tracked, Answered
    <3>2. Tracked(r)'
      <4>1. Len(responses[r]) <= 1
        BY <1>6 DEF EveryCallTracked
      <4>2. new \in DOMAIN pending' /\ pending'[new].callback = r
        BY <2>5
      <4>3. service # "set_report_freq"
        BY <2>6
      <4> QED BY <1>1, <1>3, <2>6, <4>1, <4>2, <4>3 DEF Tracked, Answered
    <3> QED BY <3>1, <3>2 DEF EveryCallTracked, Tracked, Answered
  <2> QED BY <1>7, <2>8, <2>9, <2>10, <2>11, AllReportedMeans DEF IInv, AllReported,
             ReportsTheReply, RunningIsReported, Reported
<1>9. ASSUME NEW resp, Answers(r, resp), resp.services = <<>>,
             service \in {"service_switch", "service_list"} => ~resp.success,
             pending' = pending, requests \subseteq requests', IdsIssued'
      PROVE  IInv'
  <2>1. \A x \in Clients \ {r} : Waiting(x)' = Waiting(x)
    BY <1>1, <1>9, AnswerFacts DEF Waiting
  <2>2. PendingSound'
    <3>1. \A id \in DOMAIN pending' :
            /\ Waiting(pending[id].callback)'
            /\ \E q \in requests' : q.id = id /\ q.body.for = pending'[id].callback
      BY <1>4, <1>9, <2>1 DEF Waiting, Answered
    <3> QED BY <1>5, <1>9, <3>1 DEF PendingSound, Waiting, Answered
  <2>3. Reported(asked'[r], resp, AcceptedReplies(r))
    BY <1>1, <1>9, NothingReported
  <2>4. AllReported'
    BY <1>1, <1>6, <1>9, <2>3, AnswerKeepsReports
  <2>5. ASSUME NEW x \in Clients \ {r} PROVE Tracked(x)'
    <3>1. Tracked(x)
      BY <1>6 DEF EveryCallTracked, Tracked
    <3>2. /\ responses'[x] = responses[x] /\ Answered(x)' = Answered(x)
          /\ asked'[x] = asked[x] /\ owed' = owed
      BY <1>1, <1>9, AnswerFacts DEF Answers
    <3> QED BY <1>9, <3>1, <3>2 DEF Tracked
  <2>6. Tracked(r)'
    <3>1. Answered(r)' /\ Len(responses'[r]) = 1
      BY <1>9, AnswerFacts
    <3> QED BY <1>1, <1>2, <3>1 DEF Tracked
  <2>7. EveryCallTracked'
    BY <2>5, <2>6 DEF EveryCallTracked, Tracked, Answered
  <2> QED BY <1>7, <1>9, <2>2, <2>4, <2>7, AllReportedMeans DEF IInv, AllReported,
             ReportsTheReply, RunningIsReported, Reported
<1>10. CASE Refused(r, service)
  <2> DEFINE resp == Response(FALSE, "could not be sent")
  <2>1. resp \in Responses /\ resp.services = <<>> /\ ~resp.success
    <3>1. resp \in Responses
      BY ResponseType DEF Messages
    <3> QED BY <3>1 DEF Response
  <2>2. responses' = [responses EXCEPT ![r] = Append(@, resp)] /\ UNCHANGED apiVars
    BY <1>10 DEF Refused
  <2> HIDE DEF resp
  <2>3. Answers(r, resp)
    BY <1>3, <2>1, <2>2, AppendAnswers DEF IInv
  <2>4. IdsIssued'
    BY <1>1, <1>6, <2>2 DEF IdsIssued, apiVars
  <2> QED BY <1>9, <2>1, <2>2, <2>3, <2>4 DEF apiVars
<1>11. CASE Published(r, service)
  <2> DEFINE resp == Response(TRUE, "published")
  <2>1. resp \in Responses /\ resp.services = <<>>
    <3>1. resp \in Responses
      BY ResponseType DEF Messages
    <3> QED BY <3>1 DEF Response
  <2>2. responses' = [responses EXCEPT ![r] = Append(@, resp)]
        /\ service \notin {"service_switch", "service_list"}
    BY <1>11 DEF Published
  <2> HIDE DEF resp
  <2>3. Answers(r, resp)
    BY <1>3, <2>1, <2>2, AppendAnswers DEF IInv
  <2>4. PICK api_id \in Int : send(Body(r, api_id), TRUE)
    BY <1>11 DEF Published
  <2>5. /\ publish(nextId, Body(r, api_id), TRUE) /\ last_id' = nextId
        /\ pending' = pending /\ requests \subseteq requests'
    BY <2>4 DEF send, publish
  <2>6. IdsIssued'
    BY <1>1, <1>6, <2>5, PublishKeepsIds DEF IInv, TypeOK
  <2> QED BY <1>9, <2>1, <2>2, <2>3, <2>5, <2>6
<1> QED
  BY <1>1, <1>8, <1>10, <1>11

(* The entries S leave the table, and their callbacks are owed.            *)
LEMMA HandsOverKeepsInv ==
  ASSUME IInv, TypeOK', NEW S, HandsOver(S), UNCHANGED bridgeVars
  PROVE  IInv'
<1>1. \A id \in DOMAIN pending :
        /\ Waiting(pending[id].callback)
        /\ \E req \in requests : req.id = id /\ req.body.for = pending[id].callback
  BY DEF IInv, PendingSound
<1>2. \A i, j \in DOMAIN pending : pending[i].callback = pending[j].callback => i = j
  BY DEF IInv, PendingSound
<1>3. /\ S \subseteq DOMAIN pending /\ owed = {}
      /\ DOMAIN pending' = DOMAIN pending \ S
      /\ \A id \in DOMAIN pending' : pending'[id] = pending[id]
      /\ \A o \in owed' : o.id \in S /\ o.callback = pending[o.id].callback
      /\ \A id \in S : \E o \in owed' : o.id = id
      /\ \A o1, o2 \in owed' : o1.id = o2.id => o1 = o2
      /\ UNCHANGED <<requests, replies, asked, responses>>
  BY DEF HandsOver, bridgeVars
<1>4. IdsIssued'
  BY HandlerKeepsIds DEF HandsOver, IInv
<1>5. PendingSound'
  BY <1>1, <1>2, <1>3 DEF PendingSound, Waiting, Answered
<1>6. ASSUME NEW o \in owed', o.result.ok, IdsApart
      PROVE  \E msg \in AcceptedReplies(o.callback) : msg.data = o.result.data
  <2>1. o.id \in DOMAIN pending /\ o.callback = pending[o.id].callback
    BY <1>3
  <2>2. PICK req \in requests : req.id = o.id /\ req.body.for = o.callback
    BY <1>1, <2>1
  <2>3. PICK msg \in replies : /\ msg.id = o.id /\ msg.code = StatusOk
                               /\ msg.data = o.result.data
    BY <1>6 DEF HandsOver
  <2>4. msg.to # Foreign /\ msg.to = req.body
    BY <1>6, <2>2, <2>3, ReplyToItsRequest DEF IInv
  <2> QED BY <2>2, <2>3, <2>4 DEF AcceptedReplies
<1>7. OwedSound'
  <2>1. \A o \in owed' : Waiting(o.callback)'
    BY <1>1, <1>3 DEF Waiting, Answered
  <2>2. \A o \in owed' : \A id \in DOMAIN pending' : pending'[id].callback # o.callback
    BY <1>2, <1>3
  <2>3. \A o1, o2 \in owed' : o1.callback = o2.callback => o1 = o2
    BY <1>2, <1>3
  <2>4. /\ IdsApart' => IdsApart
        /\ \A x \in Clients : AcceptedReplies(x)' = AcceptedReplies(x)
    BY <1>3, AcknowledgedStays DEF AcceptedReplies
  <2>5. \A o \in owed' : o.callback \in Clients
    BY DEF TypeOK, ClientTypeOK
  <2>6. \A o \in owed' : o.result.ok /\ IdsApart' =>
          \E msg \in AcceptedReplies(o.callback)' : msg.data = o.result.data
    BY <1>6, <2>4, <2>5
  <2> QED BY <2>1, <2>2, <2>3, <2>6 DEF OwedSound, Waiting, Answered, AcceptedReplies
<1>8. EveryCallTracked'
  <2>1. ASSUME NEW r \in Clients PROVE Tracked(r)'
    <3>1. Tracked(r)
      BY DEF IInv, EveryCallTracked, Tracked
    <3>2. ASSUME NEW id \in DOMAIN pending, pending[id].callback = r
          PROVE  \/ \E k \in DOMAIN pending' : pending'[k].callback = r
                 \/ \E o \in owed' : o.callback = r
      <4>1. CASE id \in S
        BY <1>3, <3>2, <4>1
      <4>2. CASE id \notin S
        BY <1>3, <3>2, <4>2
      <4> QED BY <4>1, <4>2
    <3> QED BY <1>3, <3>1, <3>2 DEF Tracked, Answered
  <2> QED BY <2>1 DEF EveryCallTracked, Tracked, Answered
<1>9. AllReported'
  <2>1. AllReported
    BY AllReportedMeans DEF IInv
  <2> QED BY <1>3, <2>1, MoreRepliesKeepReports
<1> QED
  BY <1>4, <1>5, <1>7, <1>8, <1>9, AllReportedMeans
     DEF IInv, AllReported, Reported, ReportsTheReply, RunningIsReported

LEMMA CallbackKeepsInv ==
  ASSUME IInv, TypeOK', NEW o \in owed, RunCallback(o)
  PROVE  IInv'
<1> DEFINE r == o.callback
<1>1. /\ r \in Clients /\ Waiting(r)
      /\ \A id \in DOMAIN pending : pending[id].callback # r
      /\ o.result.ok /\ IdsApart => \E msg \in AcceptedReplies(r) : msg.data = o.result.data
      /\ \A p \in owed \ {o} : p.callback # r
  BY DEF IInv, OwedSound, TypeOK, ClientTypeOK
<1>2. PICK resp \in Responses :
        /\ responses' = [responses EXCEPT ![r] = Append(@, resp)]
        /\ resp.success => o.result.ok
        /\ \/ ~resp.success /\ resp.services = <<>>
           \/ /\ resp.success /\ asked[r] = "service_switch"
              /\ o.result.data \in DOMAIN StatusIn
              /\ resp.status = StatusIn[o.result.data]
              /\ resp.services = <<>>
           \/ /\ resp.success /\ asked[r] = "service_list"
              /\ o.result.data \in DOMAIN ListIn
              /\ resp.services = Listed(ListIn[o.result.data])
  BY CallbackResponds DEF IInv
<1>3. /\ owed' = owed \ {o}
      /\ UNCHANGED <<pending, last_id, requests, replies, steady, now, asked>>
  BY DEF RunCallback, apiVars
<1> HIDE DEF r
<1>4. Answers(r, resp)
  BY <1>1, <1>2, AppendAnswers DEF IInv, Waiting
<1>5. IdsApart => Reported(asked[r], resp, AcceptedReplies(r))
  <2> SUFFICES ASSUME IdsApart PROVE Reported(asked[r], resp, AcceptedReplies(r))
    OBVIOUS
  <2>1. CASE ~resp.success /\ resp.services = <<>>
    BY <2>1, NothingReported
  <2>2. CASE /\ resp.success /\ asked[r] = "service_switch"
             /\ o.result.data \in DOMAIN StatusIn
             /\ resp.status = StatusIn[o.result.data]
             /\ resp.services = <<>>
    <3>1. PICK msg \in AcceptedReplies(r) : msg.data = o.result.data
      BY <1>1, <1>2, <2>2
    <3> QED BY <2>2, <3>1 DEF Reported
  <2>3. CASE /\ resp.success /\ asked[r] = "service_list"
             /\ o.result.data \in DOMAIN ListIn
             /\ resp.services = Listed(ListIn[o.result.data])
    <3>1. PICK msg \in AcceptedReplies(r) : msg.data = o.result.data
      BY <1>1, <1>2, <2>3
    <3> QED BY <2>3, <3>1, ListReported
  <2> QED BY <1>2, <2>1, <2>2, <2>3
<1>6. AllReported'
  <2>1. AllReported
    BY AllReportedMeans DEF IInv
  <2> QED BY <1>1, <1>3, <1>4, <1>5, <2>1, AnswerKeepsReports
<1>7. \A x \in Clients \ {r} : responses'[x] = responses[x] /\ Answered(x)' = Answered(x)
  BY <1>1, <1>4, AnswerFacts DEF Answers
<1>8. IdsIssued'
  BY <1>3, HandlerKeepsIds DEF IInv
<1>9. PendingSound'
  <2>1. \A id \in DOMAIN pending :
          /\ pending[id].callback \in Clients \ {r}
          /\ Waiting(pending[id].callback)
    BY <1>1 DEF IInv, PendingSound, TypeOK, ClientTypeOK
  <2>2. \A id \in DOMAIN pending' : Waiting(pending[id].callback)'
    BY <1>3, <1>7, <2>1 DEF Waiting, Answered
  <2> QED BY <1>3, <2>2 DEF IInv, PendingSound, Waiting, Answered
<1>10. OwedSound'
  <2>1. \A p \in owed' : p \in owed /\ p.callback \in Clients \ {r} /\ Waiting(p.callback)
    BY <1>1, <1>3 DEF IInv, OwedSound, TypeOK, ClientTypeOK
  <2>2. \A p \in owed' : Waiting(p.callback)'
    BY <1>3, <1>7, <2>1 DEF Waiting, Answered
  <2>3. /\ IdsApart' => IdsApart
        /\ \A x \in Clients : AcceptedReplies(x)' = AcceptedReplies(x)
    BY <1>3, AcknowledgedStays DEF AcceptedReplies
  <2>4. \A p \in owed' : p.result.ok /\ IdsApart' =>
          \E msg \in AcceptedReplies(p.callback)' : msg.data = p.result.data
    BY <2>1, <2>3 DEF IInv, OwedSound
  <2> QED BY <1>3, <2>1, <2>2, <2>4 DEF IInv, OwedSound, Waiting, Answered, AcceptedReplies
<1>11. EveryCallTracked'
  <2>1. ASSUME NEW x \in Clients \ {r} PROVE Tracked(x)'
    <3>1. Tracked(x)
      BY DEF IInv, EveryCallTracked, Tracked
    <3>2. \A p \in owed : p.callback = x => p \in owed'
      BY <1>3, <2>1 DEF r
    <3> QED BY <1>3, <1>7, <3>1, <3>2 DEF Tracked
  <2>2. Tracked(r)'
    <3>1. Answered(r)' /\ Len(responses'[r]) = 1
      BY <1>1, <1>4, AnswerFacts
    <3>2. asked[r] # None
      BY <1>1, RobotStateAssumption DEF Waiting, RobotStateServices
    <3> QED BY <1>3, <3>1, <3>2 DEF Tracked
  <2> QED BY <1>1, <2>1, <2>2 DEF EveryCallTracked, Tracked, Answered
<1> QED
  BY <1>6, <1>8, <1>9, <1>10, <1>11, AllReportedMeans
     DEF IInv, AllReported, Reported, ReportsTheReply, RunningIsReported

(* The robot's replies only add to what the responses may report.          *)
LEMMA RepliesKeepInv ==
  ASSUME IInv, TypeOK', IdsIssued', replies \subseteq replies',
         UNCHANGED <<pending, owed, requests, bridgeVars>>
  PROVE  IInv'
<1>1. UNCHANGED <<pending, owed, requests>> /\ replies \subseteq replies'
  OBVIOUS
<1>2. /\ IdsApart' => IdsApart
      /\ \A r : AcceptedReplies(r) \subseteq AcceptedReplies(r)'
  BY <1>1, AcknowledgedStays DEF AcceptedReplies
<1>3. PendingSound' /\ EveryCallTracked'
  BY <1>1 DEF IInv, PendingSound, EveryCallTracked, Waiting, Answered, bridgeVars
<1>4. OwedSound'
  <2>1. \A o \in owed' : o.result.ok /\ IdsApart' =>
          \E msg \in AcceptedReplies(o.callback)' : msg.data = o.result.data
    BY <1>1, <1>2 DEF IInv, OwedSound
  <2> QED BY <1>1, <2>1 DEF IInv, OwedSound, Waiting, Answered, bridgeVars, AcceptedReplies
<1>5. AllReported'
  <2>1. AllReported
    BY AllReportedMeans DEF IInv
  <2> QED BY <1>1, <2>1, MoreRepliesKeepReports DEF bridgeVars
<1> QED
  BY <1>3, <1>4, <1>5, AllReportedMeans
     DEF IInv, AllReported, Reported, ReportsTheReply, RunningIsReported

LEMMA InvStep == IInv /\ [Next]_vars => IInv'
<1> SUFFICES ASSUME IInv, [Next]_vars PROVE IInv'
  OBVIOUS
<1>1. TypeOK'
  BY TypeStep DEF IInv
<1>2. ASSUME UNCHANGED vars PROVE IInv'
  <2>1. IdsIssued'
    BY <1>2 DEF IInv, IdsIssued, vars, clientVars
  <2> QED BY <1>1, <1>2, <2>1, RepliesKeepInv DEF vars, clientVars
<1>3. ASSUME NEW r \in Clients, NEW service \in Services, ServiceCall(r, service)
      PROVE  IInv'
  BY <1>1, <1>3, CallKeepsInv
<1>4. ASSUME NEW msg \in replies, responseCallback(msg), UNCHANGED bridgeVars
      PROVE  IInv'
  <2>1. CASE msg.id \in DOMAIN pending
    BY <1>1, <1>4, <2>1, ResponseHandsOver, HandsOverKeepsInv
  <2>2. CASE msg.id \notin DOMAIN pending
    BY <1>2, <1>4, <2>2 DEF responseCallback, vars, clientVars
  <2> QED BY <2>1, <2>2
<1>5. ASSUME sweepTimeouts, UNCHANGED bridgeVars PROVE IInv'
  BY <1>1, <1>5, SweepHandsOver, HandsOverKeepsInv
<1>6. ASSUME NEW o \in owed, RunCallback(o) PROVE IInv'
  BY <1>1, <1>6, CallbackKeepsInv
<1>7. ASSUME Environment, UNCHANGED bridgeVars PROVE IInv'
  <2>1. UNCHANGED <<pending, owed, requests>> /\ replies \subseteq replies'
    BY <1>7, EnvironmentEffect DEF IInv, TypeOK
  <2>2. IdsIssued'
    BY <1>7, EnvironmentKeepsIds, RobotStateAssumption DEF IInv, TypeOK
  <2> QED BY <1>1, <1>7, <2>1, <2>2, RepliesKeepInv
<1> QED
  BY <1>2, <1>3, <1>4, <1>5, <1>6, <1>7 DEF Next

LEMMA InvInit == Init => IInv
<1> SUFFICES ASSUME Init PROVE IInv
  OBVIOUS
<1>1. DOMAIN pending = {} /\ owed = {} /\ requests = {} /\ replies = {}
  BY DEF Init, ClientInit
<1>2. \A r \in Clients : asked[r] = None /\ ~Answered(r) /\ Len(responses[r]) <= 1
  BY DEF Init, Answered
<1>3. IdsIssued /\ PendingSound /\ OwedSound
  BY <1>1 DEF IdsIssued, PendingSound, OwedSound
<1>4. EveryCallTracked /\ ReportsTheReply /\ RunningIsReported
  BY <1>2 DEF EveryCallTracked, ReportsTheReply, RunningIsReported
<1> QED
  BY <1>3, <1>4, TypeInit DEF IInv

-----------------------------------------------------------------------------
(* The safety properties.                                                  *)

(* The invariant that carries the safety properties.                       *)
THEOREM InductiveInvariant == Spec => []IInv
<1>1. IInv /\ [Next]_vars => IInv'
  BY InvStep
<1> QED
  BY <1>1, InvInit, PTL DEF Spec, SafeSpec

(* No call is answered twice, and none is lost sight of.                   *)
THEOREM CallsTracked == Spec => []EveryCallTracked
<1>1. IInv => EveryCallTracked
  BY DEF IInv
<1> QED
  BY <1>1, InductiveInvariant, PTL

(* A success reports what the robot's reply to this call holds.            *)
THEOREM SuccessReportsTheReply == Spec => []ReportsTheReply
<1>1. IInv => ReportsTheReply
  BY DEF IInv
<1> QED
  BY <1>1, InductiveInvariant, PTL

(* No service is listed as running that the robot did not say is.          *)
THEOREM RunningIsWhatTheRobotSaid == Spec => []RunningIsReported
<1>1. IInv => RunningIsReported
  BY DEF IInv
<1> QED
  BY <1>1, InductiveInvariant, PTL

-----------------------------------------------------------------------------
(* Refinement: every step of the bridge is one that ApiCall allows.        *)

(* Only the request of a call that was taken waits for a reply.            *)
RequestsTaken ==
  \A req \in requests : ~req.noreply =>
    LET r == req.body.for
    IN /\ asked[r] \in {"service_switch", "service_list"}
       /\ Answered(r) => responses[r][1].message # "could not be sent"

LEMMA RequestsTakenStep ==
  ASSUME IInv, RequestsTaken, [Next]_vars
  PROVE  RequestsTaken'
<1> DEFINE Taken(r) ==
      /\ asked[r] \in {"service_switch", "service_list"}
      /\ Answered(r) => responses[r][1].message # "could not be sent"
<1>1. \A req \in requests : req.body.for \in Clients /\ (~req.noreply => Taken(req.body.for))
  BY DEF RequestsTaken, IInv, TypeOK, ClientTypeOK, Bodies
<1>2. ASSUME UNCHANGED <<requests, bridgeVars>> PROVE RequestsTaken'
  BY <1>2 DEF RequestsTaken, Answered, bridgeVars
<1>3. ASSUME NEW r \in Clients, NEW service \in Services, ServiceCall(r, service)
      PROVE  RequestsTaken'
  <2>1. /\ asked[r] = None /\ asked'[r] = service
        /\ \A x \in Clients \ {r} : asked'[x] = asked[x]
        /\ Entered(r, service) \/ Refused(r, service) \/ Published(r, service)
    BY <1>3, ServiceCallEffect DEF IInv, TypeOK
  <2>2. ~Answered(r) /\ None \notin {"service_switch", "service_list"}
    BY <2>1, RobotStateAssumption DEF IInv, EveryCallTracked, RobotStateServices
  <2>3. \A req \in requests : ~req.noreply => req.body.for \in Clients \ {r}
    BY <1>1, <2>1, <2>2
  <2>4. \A x \in Clients \ {r} : responses'[x] = responses[x]
    BY <2>1 DEF Entered, Refused, Published, IInv, TypeOK
  <2>5. \A x \in Clients \ {r} : Taken(x) => Taken(x)'
    BY <2>1, <2>4 DEF Answered
  <2>6. ASSUME NEW req \in requests' \ requests, ~req.noreply
        PROVE  req.body.for = r /\ Taken(r)'
    <3>1. CASE Entered(r, service)
      <4>1. PICK api_id \in Int : call(Body(r, api_id), r)
        BY <3>1 DEF Entered
      <4>2. req.body.for = r
        BY <4>1 DEF call, publish, Body
      <4>3. ~Answered(r)' /\ asked'[r] \in {"service_switch", "service_list"}
        BY <2>1, <2>2, <3>1 DEF Entered, Answered
      <4> QED BY <4>2, <4>3
    <3>2. CASE Refused(r, service)
      BY <3>2 DEF Refused, apiVars
    <3>3. CASE Published(r, service)
      <4>1. PICK api_id \in Int : send(Body(r, api_id), TRUE)
        BY <3>3 DEF Published
      <4>2. req.noreply = TRUE
        BY <4>1 DEF send, publish
      <4> QED BY <2>6, <4>2
    <3> QED BY <2>1, <3>1, <3>2, <3>3
  <2>7. \A req \in requests' : ~req.noreply => Taken(req.body.for)'
    <3> SUFFICES ASSUME NEW req \in requests', ~req.noreply PROVE Taken(req.body.for)'
      OBVIOUS
    <3>1. CASE req \in requests
      <4>1. req.body.for \in Clients \ {r} /\ Taken(req.body.for)
        BY <1>1, <2>3, <3>1
      <4> QED BY <2>5, <4>1
    <3>2. CASE req \notin requests
      BY <2>6, <3>2
    <3> QED BY <3>1, <3>2
  <2> QED BY <2>7 DEF RequestsTaken
<1>4. ASSUME NEW o \in owed, RunCallback(o) PROVE RequestsTaken'
  <2>1. PICK resp \in Responses :
          /\ responses' = [responses EXCEPT ![o.callback] = Append(@, resp)]
          /\ resp.message # "could not be sent"
    BY <1>4, CallbackResponds DEF IInv
  <2>2. o.callback \in Clients /\ Waiting(o.callback)
    BY DEF IInv, OwedSound, TypeOK, ClientTypeOK
  <2>3. Answers(o.callback, resp)
    BY <2>1, <2>2, AppendAnswers DEF IInv, Waiting
  <2>4. UNCHANGED <<requests, asked>>
    BY <1>4 DEF RunCallback, apiVars
  <2>5. \A x \in Clients : Taken(x) => Taken(x)'
    <3>1. responses'[o.callback][1] = resp
      BY <2>2, <2>3, AnswerFacts
    <3> QED BY <2>1, <2>2, <2>3, <2>4, <3>1 DEF Answers, Answered
  <2> QED BY <1>1, <2>4, <2>5 DEF RequestsTaken
<1> QED
  BY <1>2, <1>3, <1>4, EnvironmentEffect
     DEF Next, responseCallback, sweepTimeouts, vars, clientVars, bridgeVars, IInv, TypeOK

(* What ApiCall lets one call do.                                          *)
CallMoves(r) ==
  \/ CallState(r)' = CallState(r)
  \/ CallState(r) = "idle" /\ CallState(r)' \in {"refused", "waiting"}
  \/ CallState(r) = "waiting" /\ CallState(r)' = "failed"
  \/ CallState(r) = "waiting" /\ CallState(r)' = "ok" /\ AcceptedReplies(r) # {}

LEMMA ProgressFromMoves ==
  ASSUME IInv, UNCHANGED replies, \A r \in Clients : CallMoves(r)
  PROVE  Abstract!Progress
<1>1. \A r \in Clients : CallState(r)' \in Abstract!States
  <2>1. \A r \in Clients : CallState(r) \in Abstract!States
    BY DEF IInv, EveryCallTracked, CallState, Outcome, Abstract!States
  <2> QED BY <2>1 DEF CallMoves, Abstract!States
<1>2. {r \in Clients : AcceptedReplies(r) # {}}' = {r \in Clients : AcceptedReplies(r) # {}}
  BY DEF AcceptedReplies
<1>3. \A r \in Clients : Abstract!Move(r)
  BY DEF Abstract!Move, CallMoves
<1> QED
  BY <1>1, <1>2, <1>3 DEF Abstract!Progress

LEMMA CallIsProgress ==
  ASSUME IInv, NEW r \in Clients, NEW service \in Services, ServiceCall(r, service)
  PROVE  Abstract!Progress
<1>1. /\ asked[r] = None /\ asked'[r] = service /\ UNCHANGED replies
      /\ \A x \in Clients \ {r} : asked'[x] = asked[x]
      /\ Entered(r, service) \/ Refused(r, service) \/ Published(r, service)
  BY ServiceCallEffect DEF IInv, TypeOK
<1>2. ~Answered(r) /\ None \notin {"service_switch", "service_list"}
  BY <1>1, RobotStateAssumption DEF IInv, EveryCallTracked, RobotStateServices
<1>3. \A x \in Clients \ {r} : responses'[x] = responses[x]
  BY <1>1 DEF Entered, Refused, Published, IInv, TypeOK
<1>4. \A x \in Clients \ {r} : CallState(x)' = CallState(x)
  BY <1>1, <1>3 DEF CallState, Answered
<1>5. CallState(r) = "idle"
  BY <1>1 DEF CallState, IInv, EveryCallTracked
<1>6. CallState(r)' \in {"idle", "waiting", "refused"}
  <2>1. CASE Entered(r, service)
    BY <1>1, <1>2, <2>1 DEF Entered, CallState, Answered
  <2>2. CASE Refused(r, service)
    <3> DEFINE resp == Response(FALSE, "could not be sent")
    <3>1. Outcome(resp) = "refused"
      BY DEF Response, Outcome
    <3>2. resp \in Responses
      BY ResponseType DEF Messages
    <3>3. responses' = [responses EXCEPT ![r] = Append(@, resp)]
      BY <2>2 DEF Refused
    <3> HIDE DEF resp
    <3>4. responses'[r][1] = resp /\ Answered(r)' /\ Len(responses'[r]) = 1
      BY <1>2, <3>2, <3>3, AppendAnswers, AnswerFacts DEF IInv
    <3> QED BY <3>1, <3>4 DEF CallState
  <2>3. CASE Published(r, service)
    <3> DEFINE resp == Response(TRUE, "published")
    <3>1. resp \in Responses
      BY ResponseType DEF Messages
    <3>2. responses' = [responses EXCEPT ![r] = Append(@, resp)]
      BY <2>3 DEF Published
    <3> HIDE DEF resp
    <3>3. Len(responses'[r]) = 1
      BY <1>2, <3>1, <3>2, AppendAnswers, AnswerFacts DEF IInv
    <3>4. asked'[r] = "set_report_freq"
      BY <1>1, <2>3 DEF Published
    <3>5. ~(Len(responses'[r]) > 1)
      BY <3>3
    <3> QED BY <3>4, <3>5 DEF CallState
  <2> QED BY <1>1, <2>1, <2>2, <2>3
<1>7. \A x \in Clients : CallMoves(x)
  BY <1>4, <1>5, <1>6 DEF CallMoves
<1> QED
  BY <1>1, <1>7, ProgressFromMoves

LEMMA CallbackIsProgress ==
  ASSUME IInv, IdsApart, NEW o \in owed, RunCallback(o)
  PROVE  Abstract!Progress
<1> DEFINE r == o.callback
<1>1. PICK resp \in Responses :
        /\ responses' = [responses EXCEPT ![r] = Append(@, resp)]
        /\ resp.message # "could not be sent"
        /\ resp.success => o.result.ok
  BY CallbackResponds DEF IInv
<1>2. r \in Clients /\ Waiting(r) /\ (o.result.ok => AcceptedReplies(r) # {})
  BY DEF IInv, OwedSound, TypeOK, ClientTypeOK
<1>3. UNCHANGED <<asked, replies>>
  BY DEF RunCallback
<1> HIDE DEF r
<1>4. Answers(r, resp)
  BY <1>1, <1>2, AppendAnswers DEF IInv, Waiting
<1>5. /\ ~(Len(responses[r]) > 1)
      /\ Answered(r)' /\ responses'[r][1] = resp /\ Len(responses'[r]) = 1
  BY <1>2, <1>4, AnswerFacts DEF IInv, EveryCallTracked
<1>6. \A x \in Clients \ {r} : CallState(x)' = CallState(x)
  BY <1>3, <1>4 DEF Answers, CallState, Answered
<1>7. asked[r] \notin {None, "set_report_freq"} /\ ~Answered(r)
  BY <1>2, RobotStateAssumption DEF Waiting, RobotStateServices
<1>8. CallState(r) = "waiting" /\ CallState(r)' = Outcome(resp)
  BY <1>3, <1>5, <1>7 DEF CallState
<1>9. Outcome(resp) = "failed" \/ (Outcome(resp) = "ok" /\ AcceptedReplies(r) # {})
  BY <1>1, <1>2 DEF Outcome
<1>10. \A x \in Clients : CallMoves(x)
  BY <1>6, <1>8, <1>9 DEF CallMoves
<1> QED
  BY <1>3, <1>10, ProgressFromMoves

(* A reply of the robot is a call accepted, or nothing ApiCall knows of.   *)
LEMMA EnvironmentAccepts ==
  ASSUME IInv, RequestsTaken, Environment, UNCHANGED bridgeVars
  PROVE  [Abstract!Next]_(Abstract!callVars)
<1> DEFINE accepted == {r \in Clients : AcceptedReplies(r) # {}}
<1>1. [r \in Clients |-> CallState(r)]' = [r \in Clients |-> CallState(r)]
  BY DEF bridgeVars, CallState, Answered
<1>2. ASSUME NEW req \in requests, NEW code \in Codes, NEW data \in Data,
             RobotReplies(req, code, data), accepted' # accepted
      PROVE  \E r \in Clients : Abstract!Accept(r)
  <2> DEFINE msg == [id |-> req.id, to |-> req.body, code |-> code, data |-> data]
             r == req.body.for
  <2>1. replies' = replies \cup {msg} /\ msg.to = req.body /\ ~req.noreply
    BY <1>2 DEF RobotReplies
  <2>2. r \in Clients
    BY DEF IInv, TypeOK, ClientTypeOK, Bodies
  <2>3. \A x \in Clients \ {r} : AcceptedReplies(x)' = AcceptedReplies(x)
    BY <2>1 DEF AcceptedReplies
  <2>4. AcceptedReplies(r) \subseteq AcceptedReplies(r)'
    BY <2>1 DEF AcceptedReplies
  <2> HIDE DEF msg
  <2>5. accepted' = accepted \cup {r}
    BY <1>2, <2>2, <2>3, <2>4
  <2>6. /\ asked[r] \notin {None, "set_report_freq"}
        /\ Answered(r) => responses[r][1].message # "could not be sent"
    BY <2>1, RobotStateAssumption DEF RequestsTaken, RobotStateServices
  <2>7. CallState(r) \in {"waiting", "ok", "failed"}
    <3>1. ~(Len(responses[r]) > 1)
      BY <2>2 DEF IInv, EveryCallTracked
    <3>2. CallState(r) = IF Answered(r) THEN Outcome(responses[r][1]) ELSE "waiting"
      BY <2>6, <3>1, Zenon DEF CallState
    <3> QED BY <2>6, <3>2 DEF Outcome
  <2>8. Abstract!Accept(r)
    BY <1>1, <2>2, <2>5, <2>7 DEF Abstract!Accept
  <2> QED BY <2>2, <2>8
<1>3. ASSUME NEW id \in ForeignIds, NEW code \in Codes, NEW data \in Data,
             ForeignReply(id, code, data)
      PROVE  accepted' = accepted
  <2>1. \A r \in Clients : AcceptedReplies(r)' = AcceptedReplies(r)
    BY <1>3 DEF ForeignReply, AcceptedReplies
  <2> QED BY <2>1
<1>4. ASSUME Elapse \/ ClockSet PROVE accepted' = accepted
  <2>1. UNCHANGED replies
    BY <1>4 DEF Elapse, ClockSet
  <2> QED BY <2>1 DEF AcceptedReplies
<1>5. (\E r \in Clients : Abstract!Accept(r)) \/ accepted' = accepted
  BY <1>2, <1>3, <1>4 DEF Environment
<1> QED
  BY <1>1, <1>5 DEF Abstract!Next, Abstract!callVars

LEMMA ApiCallStep ==
  ASSUME IInv, IdsApart, RequestsTaken, [Next]_vars
  PROVE  [Abstract!Next]_(Abstract!callVars)
<1>1. ASSUME UNCHANGED <<replies, bridgeVars>> PROVE Abstract!Next
  <2>1. \A r \in Clients : CallState(r)' = CallState(r)
    BY <1>1 DEF bridgeVars, CallState, Answered
  <2> QED BY <1>1, <2>1, ProgressFromMoves DEF CallMoves, Abstract!Next
<1>2. ASSUME NEW r \in Clients, NEW service \in Services, ServiceCall(r, service)
      PROVE  Abstract!Next
  BY <1>2, CallIsProgress DEF Abstract!Next
<1>3. ASSUME NEW o \in owed, RunCallback(o) PROVE Abstract!Next
  BY <1>3, CallbackIsProgress DEF Abstract!Next
<1>4. ASSUME Environment, UNCHANGED bridgeVars
      PROVE  [Abstract!Next]_(Abstract!callVars)
  BY <1>4, EnvironmentAccepts
<1> QED
  BY <1>1, <1>2, <1>3, <1>4
     DEF Next, responseCallback, sweepTimeouts, vars, clientVars, bridgeVars

(* The services keep to their clients what the client's header promises    *)
(* the bridge of every call, as long as no other node is replied to under  *)
(* the bridge's ids.                                                       *)
THEOREM ServicesKeepTheirPromise == Spec /\ []IdsApart => ServicesFollowApiCall
<1>1. Init => Abstract!Init
  <2> SUFFICES ASSUME Init PROVE Abstract!Init
    OBVIOUS
  <2>1. \A r \in Clients : CallState(r) = "idle"
    BY DEF Init, CallState
  <2>2. \A r \in Clients : AcceptedReplies(r) = {}
    BY DEF Init, ClientInit, AcceptedReplies
  <2> QED BY <2>1, <2>2 DEF Abstract!Init
<1>2. Init => RequestsTaken
  BY DEF Init, ClientInit, RequestsTaken
<1>3. IInv /\ IdsApart /\ RequestsTaken /\ [Next]_vars
        => RequestsTaken' /\ [Abstract!Next]_(Abstract!callVars)
  BY RequestsTakenStep, ApiCallStep
<1> QED
  BY <1>1, <1>2, <1>3, InductiveInvariant, PTL
     DEF Spec, SafeSpec, ServicesFollowApiCall, Abstract!SafeSpec
=============================================================================
