------------------------- MODULE Go2RobotStateBridge -------------------------
(***************************************************************************)
(* The Robot State API bridge (go2_robot_state_bridge.cpp): three services *)
(* over one UnitreeApiClient.  Two answer when the robot does and report   *)
(* what they read out of its JSON; the third answers at once.              *)
(*                                                                         *)
(* A payload is a name, and the constants say what parsing it finds; the   *)
(* numbers in it are assumed to fit the 32 bits they are read into.        *)
(***************************************************************************)
EXTENDS UnitreeApiClient, Sequences

CONSTANTS
  Clients,      \* the service calls that may be made, one element each
  Services,     \* what a call may be made to
  StatusIn,     \* payload -> the integer status of the object it holds
  ListIn,       \* payload -> the array it holds, a sequence of entries
  NotAnObject,  \* an array entry that is no object
  None          \* a call not made yet

VARIABLES
  asked,      \* the service each call was made to, None before it comes
  responses   \* the responses sent to each call, in order

bridgeVars == <<asked, responses>>
vars == <<clientVars, bridgeVars>>

Init ==
  /\ ClientInit
  /\ asked = [r \in Clients |-> None]
  /\ responses = [r \in Clients |-> <<>>]

RobotStateServices == {"service_switch", "set_report_freq", "service_list"}

RobotStateApiId == [SERVICE_SWITCH |-> 1001, SET_REPORT_FREQ |-> 1002, SERVICE_LIST |-> 1003]

Bodies == [for : Clients, api_id : Int]

Body(r, api_id) == [for |-> r, api_id |-> api_id]

-----------------------------------------------------------------------------
(* Responses.  A field the code does not set is zero or empty.             *)

Response(success, message) ==
  [success |-> success, message |-> message, status |-> 0, services |-> <<>>]

send_response(r, response) ==
  responses' = [responses EXCEPT ![r] = Append(@, response)]

describe(result) ==
  CASE result.ok -> "accepted"
    [] ~result.ok /\ result.status_code < 0 -> "got no reply"
    [] ~result.ok /\ result.status_code >= 0 -> "rejected"

(* An entry is a record of the fields that are there with the right type.  *)
Field(entry, field, default) ==
  IF field \in DOMAIN entry THEN entry[field] ELSE default

ServiceState_ZeroStatus(entry) ==
  [name |-> Field(entry, "name", ""), status |-> Field(entry, "status", 0),
   protect |-> Field(entry, "protect", 0), version |-> Field(entry, "version", "")]

ServiceState(entry) ==
  [name |-> Field(entry, "name", ""), status |-> Field(entry, "status", -1),
   protect |-> Field(entry, "protect", 0), version |-> Field(entry, "version", "")]

Objects(entries) == {i \in DOMAIN entries : entries[i] # NotAnObject}

(* The n-th of a set of indices, in their order.                           *)
Nth(indices, n) ==
  CHOOSE i \in indices : Cardinality({j \in indices : j <= i}) = n

Listed(entries) ==
  [n \in 1 .. Cardinality(Objects(entries)) |->
     ServiceState(entries[Nth(Objects(entries), n)])]

ServiceStates == [name : STRING, status : Int, protect : Int, version : STRING]

(* What parsing finds: a status that is an integer, an array whose entries *)
(* have only fields of the right type.                                     *)
ASSUME RobotStateAssumption ==
  /\ DOMAIN StatusIn \subseteq Data /\ DOMAIN ListIn \subseteq Data
  /\ \A data \in DOMAIN StatusIn : StatusIn[data] \in Int
  /\ \A data \in DOMAIN ListIn :
       LET entries == ListIn[data]
       IN /\ entries \in Seq({entries[i] : i \in DOMAIN entries})
          /\ \A i \in Objects(entries) : ServiceState(entries[i]) \in ServiceStates
  /\ Services \subseteq RobotStateServices /\ None \notin RobotStateServices
  /\ Foreign \notin Bodies

-----------------------------------------------------------------------------
(* Handlers.                                                               *)

Forward_UnsentForgotten(r, api_id) ==
  /\ call(Body(r, api_id), r) \/ (Full /\ UNCHANGED apiVars)
  /\ UNCHANGED responses

Forward(r, api_id) ==
  \/ /\ call(Body(r, api_id), r)
     /\ UNCHANGED responses
  \/ /\ Full
     /\ send_response(r, Response(FALSE, "could not be sent"))
     /\ UNCHANGED apiVars

handleServiceSwitch(r) == Forward(r, RobotStateApiId.SERVICE_SWITCH)

onSwitchResult_Unchecked(r, result) ==
  send_response(r,
    [Response(result.ok, describe(result)) EXCEPT
       !.status = IF result.data \in DOMAIN StatusIn THEN StatusIn[result.data] ELSE 0])

(* The callback of a switch.                                               *)
onSwitchResult(r, result) ==
  \/ /\ ~result.ok
     /\ send_response(r, Response(FALSE, describe(result)))
  \/ /\ result.ok /\ result.data \in DOMAIN StatusIn
     /\ send_response(r, [Response(TRUE, describe(result)) EXCEPT
                            !.status = StatusIn[result.data]])
  \/ /\ result.ok /\ result.data \notin DOMAIN StatusIn
     /\ send_response(r, Response(FALSE, "could not read a status"))

(* noreply: the robot does not answer this one.                            *)
handleSetReportFreq(r) ==
  /\ send(Body(r, RobotStateApiId.SET_REPORT_FREQ), TRUE)
  /\ send_response(r, Response(TRUE, "published"))

handleServiceList(r) == Forward(r, RobotStateApiId.SERVICE_LIST)

(* The callback of a list.                                                 *)
onListResult(r, result) ==
  \/ /\ ~result.ok
     /\ send_response(r, Response(FALSE, describe(result)))
  \/ /\ result.ok /\ result.data \in DOMAIN ListIn
     /\ send_response(r, [Response(TRUE, describe(result)) EXCEPT
                            !.services = Listed(ListIn[result.data])])
  \/ /\ result.ok /\ result.data \notin DOMAIN ListIn
     /\ send_response(r, Response(FALSE, "could not read a service list"))

ServiceCall(r, service) ==
  /\ Idle
  /\ asked[r] = None
  /\ DeadlineInReach
  /\ asked' = [asked EXCEPT ![r] = service]
  /\ \/ service = "service_switch" /\ handleServiceSwitch(r)
     \/ service = "set_report_freq" /\ handleSetReportFreq(r)
     \/ service = "service_list" /\ handleServiceList(r)
  /\ UNCHANGED <<owed, replies, steady, now>>

RunCallback(o) ==
  /\ owed' = owed \ {o}
  /\ \/ asked[o.callback] = "service_switch" /\ onSwitchResult(o.callback, o.result)
     \/ asked[o.callback] = "service_list" /\ onListResult(o.callback, o.result)
  /\ UNCHANGED <<apiVars, replies, steady, now, asked>>

Next ==
  \/ \E r \in Clients, service \in Services : ServiceCall(r, service)
  \/ \E msg \in replies : responseCallback(msg) /\ UNCHANGED bridgeVars
  \/ sweepTimeouts /\ UNCHANGED bridgeVars
  \/ \E o \in owed : RunCallback(o)
  \/ Environment /\ UNCHANGED bridgeVars

(* The executor, as in the other bridge.                                   *)
Fairness ==
  /\ WF_vars(sweepTimeouts /\ UNCHANGED bridgeVars)
  /\ WF_vars(\E o \in owed : RunCallback(o))
  /\ WF_vars(Elapse /\ UNCHANGED bridgeVars)

SafeSpec == Init /\ [][Next]_vars

Spec == SafeSpec /\ Fairness

-----------------------------------------------------------------------------
(* Type correctness.                                                       *)

Messages == {"accepted", "got no reply", "rejected", "published", "could not be sent",
             "could not read a status", "could not read a service list"}

Responses == [success : BOOLEAN, message : Messages, status : Int,
              services : Seq(ServiceStates)]

(* Every variable of the bridge and of its client keeps its type.          *)
TypeOK ==
  /\ ClientTypeOK(Clients, Bodies)
  /\ asked \in [Clients -> Services \cup {None}]
  /\ responses \in [Clients -> Seq(Responses)]

-----------------------------------------------------------------------------
(* Safety.                                                                 *)

Answered(r) == responses[r] # <<>>

(* A call is answered at most once; one that is not answered yet is in the *)
(* client's table or owed its callback, and is never a set_report_freq,    *)
(* which no reply will come for.                                           *)
EveryCallTracked ==
  \A r \in Clients :
    /\ Len(responses[r]) <= 1
    /\ Answered(r) => asked[r] # None
    /\ asked[r] # None /\ ~Answered(r) =>
         /\ asked[r] # "set_report_freq"
         /\ \/ \E id \in DOMAIN pending : pending[id].callback = r
            \/ \E o \in owed : o.callback = r

(* The replies to r's request that report status 0.                        *)
AcceptedReplies(r) ==
  {msg \in replies : msg.to # Foreign /\ msg.to.for = r /\ msg.code = StatusOk}

(* The services are those of the array, in its order, and each has every   *)
(* field that was given for it.                                            *)
Reports(services, entries) ==
  LET objects == Objects(entries)
      Rank(i) == Cardinality({j \in objects : j <= i})
  IN /\ Len(services) = Cardinality(objects)
     /\ \A i \in objects, field \in {"name", "status", "protect", "version"} :
          field \in DOMAIN entries[i] => services[Rank(i)][field] = entries[i][field]

(* What a successful switch or list reports is what the robot's reply to   *)
(* this very call holds: its status, the services it lists.  A reply that  *)
(* cannot be read is no success.  (A reply is known by its id.)            *)
ReportsTheReply ==
  \A r \in Clients :
    Answered(r) /\ responses[r][1].success /\ IdsApart =>
      /\ asked[r] = "service_switch" =>
           \E msg \in AcceptedReplies(r) :
             /\ msg.data \in DOMAIN StatusIn
             /\ responses[r][1].status = StatusIn[msg.data]
      /\ asked[r] = "service_list" =>
           \E msg \in AcceptedReplies(r) :
             /\ msg.data \in DOMAIN ListIn
             /\ Reports(responses[r][1].services, ListIn[msg.data])

(* "0 would read as running": a service is listed as running only if the   *)
(* robot said so of the service of that name.                              *)
RunningIsReported ==
  \A r \in Clients : Answered(r) /\ IdsApart =>
    \A i \in DOMAIN responses[r][1].services :
      LET listed == responses[r][1].services[i]
      IN listed.status = 0 =>
           \E msg \in AcceptedReplies(r) :
             msg.data \in DOMAIN ListIn /\ \E j \in Objects(ListIn[msg.data]) :
               LET entry == ListIn[msg.data][j]
               IN /\ Field(entry, "name", "") = listed.name
                  /\ "status" \in DOMAIN entry /\ entry["status"] = 0

-----------------------------------------------------------------------------
(* The inductive invariant: what makes the safety properties hold.         *)

(* r waits for the robot, or for the callback that will answer it.         *)
Waiting(r) == asked[r] \in {"service_switch", "service_list"} /\ ~Answered(r)

(* The table holds calls that wait, each once, under the id its request    *)
(* was published with.                                                     *)
PendingSound ==
  /\ \A id \in DOMAIN pending :
       /\ Waiting(pending[id].callback)
       /\ \E req \in requests : req.id = id /\ req.body.for = pending[id].callback
  /\ \A i, j \in DOMAIN pending : pending[i].callback = pending[j].callback => i = j

(* A callback owed belongs to a call that waits and has left the table, is *)
(* owed once, and is told ok only with what a reply to that call carried.  *)
OwedSound ==
  /\ \A o \in owed :
       /\ Waiting(o.callback)
       /\ \A id \in DOMAIN pending : pending[id].callback # o.callback
       /\ o.result.ok /\ IdsApart =>
            \E msg \in AcceptedReplies(o.callback) : msg.data = o.result.data
  /\ \A o1, o2 \in owed : o1.callback = o2.callback => o1 = o2

(* The safety properties together with the facts that make them inductive. *)
IInv ==
  /\ TypeOK
  /\ IdsIssued
  /\ PendingSound
  /\ OwedSound
  /\ EveryCallTracked
  /\ ReportsTheReply
  /\ RunningIsReported

-----------------------------------------------------------------------------
(* Liveness and refinement.                                                *)

Outcome(response) ==
  IF response.success THEN "ok"
  ELSE IF response.message = "could not be sent" THEN "refused" ELSE "failed"

(* A call answered a second time would be in a state ApiCall has not.      *)
CallState(r) ==
  IF Len(responses[r]) > 1 THEN "answered twice"
  ELSE IF asked[r] \in {None, "set_report_freq"} THEN "idle"
  ELSE IF Answered(r) THEN Outcome(responses[r][1]) ELSE "waiting"

Abstract == INSTANCE ApiCall WITH
  Calls <- Clients,
  state <- [r \in Clients |-> CallState(r)],
  accepted <- {r \in Clients : AcceptedReplies(r) # {}}

(* The services keep to their clients what UnitreeApiClient promises the   *)
(* bridge (ApiCall): success only if the robot accepted, one answer, and   *)
(* an answer in the end.                                                   *)
ServicesKeepApiCall == Abstract!Spec

(* What of it does not depend on the clock and the executor going on: a    *)
(* call that is answered or refused stays so, without a second answer, and *)
(* none is told ok that the robot did not accept.                          *)
ServicesFollowApiCall == Abstract!SafeSpec

(* Every call is answered, by a robot that may never reply.                *)
EveryCallAnswered == \A r \in Clients : asked[r] # None ~> Answered(r)
=============================================================================
