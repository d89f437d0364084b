-------------------------- MODULE UnitreeApiClient --------------------------
(***************************************************************************)
(* The request/reply correlator both command bridges are built on          *)
(* (unitree_api_client.cpp), and what it lives among: the robot, the DDS   *)
(* topics and the two clocks.                                              *)
(*                                                                         *)
(* This module has no Next of its own.  Its user (a generic caller in      *)
(* ApiClientSystem, a bridge in Go2SportBridge) EXTENDS it, decides when   *)
(* `send` and `call` happen and what a callback does.                      *)
(*                                                                         *)
(* Everything in a node runs on one executor thread.  A handler that runs  *)
(* callbacks first takes them out of the table and then invokes them;      *)
(* `owed` holds the ones it has still to invoke, and while it is not empty *)
(* no other handler of the node can start (Idle).                          *)
(***************************************************************************)
EXTENDS Integers, FiniteSets

CONSTANTS
  MaxPending,   \* g_MAX_PENDING
  Timeout,      \* timeout_, in clock ticks
  Codes,        \* status codes the robot reports
  Data,         \* payloads the robot's replies carry
  Foreign,      \* stands for every other node of the DDS domain
  ForeignIds,   \* ids of replies meant for those nodes
  MaxForeign,   \* bound: how many replies to those nodes a run sees
  Offsets,      \* ROS clock minus steady clock: the values it may take
  MaxSteady     \* bound: the last tick of the modelled clock

StatusOk == 0          \* g_STATUS_OK
StatusTimeout == -1    \* g_STATUS_TIMEOUT
NoData == ""           \* ApiResult::data_ of a call that timed out

ASSUME ClientAssumption ==
  /\ MaxPending \in Nat
  /\ Timeout \in Int
  /\ Codes \subseteq Int
  /\ MaxForeign \in Nat
  /\ Offsets \subseteq Int /\ 0 \in Offsets
  /\ MaxSteady \in Nat

VARIABLES
  pending,    \* pending_: id -> the request awaiting its reply
  last_id,    \* last_id_
  owed,       \* callbacks the running handler has still to invoke
  requests,   \* every message ever published on the request topic
  replies,    \* every message ever published on the response topic
  steady,     \* the steady clock: request ids, wall timers
  now         \* node_->now(), the ROS clock: deadlines

clientVars == <<pending, last_id, owed, requests, replies, steady, now>>
apiVars == <<pending, last_id, requests>>

ClientInit ==
  /\ pending = <<>>
  /\ last_id = 0
  /\ owed = {}
  /\ requests = {}
  /\ replies = {}
  /\ steady = 0
  /\ now = 0

Idle == owed = {}

(* The process dies and another is constructed: the table, last_id_ and    *)
(* what a running handler still had to do are gone, what was published is  *)
(* not.  Starting takes longer than the ids may have run ahead of the      *)
(* clock, which is one nanosecond for each id drawn within a nanosecond.   *)
ClientRestart ==
  /\ steady > last_id
  /\ pending' = <<>>
  /\ last_id' = 0
  /\ owed' = {}
  /\ UNCHANGED <<requests, replies, steady, now>>

-----------------------------------------------------------------------------
(* Calls into the client.                                                  *)

nextId_Down == IF steady > last_id + 1 THEN steady ELSE last_id - 1

nextId_Counter == last_id + 1

nextId_NoBump == IF steady > last_id THEN steady ELSE last_id

nextId == IF steady > last_id + 1 THEN steady ELSE last_id + 1

publish(id, body, noreply) ==
  requests' = requests \cup {[id |-> id, body |-> body, noreply |-> noreply]}

send(body, noreply) ==
  /\ publish(nextId, body, noreply)
  /\ last_id' = nextId
  /\ UNCHANGED pending

Full_OffByOne == Cardinality(DOMAIN pending) > MaxPending

(* `call` returns false, and does nothing else.                            *)
Full == Cardinality(DOMAIN pending) >= MaxPending

(* std::unordered_map::emplace: an entry that is there already stays.      *)
Emplace(table, key, value) ==
  [k \in DOMAIN table \cup {key} |->
     IF k \in DOMAIN table THEN table[k] ELSE value]

Erase_Nothing(table, keys) == table

Erase(table, keys) == [k \in DOMAIN table \ keys |-> table[k]]

(* `call` returns true.                                                    *)
call(body, callback) ==
  /\ ~Full
  /\ pending' = Emplace(pending, nextId,
                  [callback |-> callback, deadline |-> now + Timeout])
  /\ last_id' = nextId
  /\ publish(nextId, body, FALSE)

-----------------------------------------------------------------------------
(* The client's own handlers.                                              *)

ApiResult(ok, code, data) == [ok |-> ok, status_code |-> code, data |-> data]

Replied_AlwaysOk(msg) == ApiResult(TRUE, msg.code, msg.data)

(* What a reply tells the caller, and what the sweep does.                 *)
Replied(msg) == ApiResult(msg.code = StatusOk, msg.code, msg.data)

TimedOut == ApiResult(FALSE, StatusTimeout, NoData)

Owe(id, result) ==
  [id |-> id, callback |-> pending[id].callback, result |-> result]

(* A reply whose id is not in the table (another node's, a duplicate, one  *)
(* that came too late) is ignored.  A message stays in `replies`: DDS may  *)
(* deliver it again, late, in any order, or never.                         *)
responseCallback(msg) ==
  /\ Idle
  /\ \/ /\ msg.id \notin DOMAIN pending
        /\ UNCHANGED <<pending, owed>>
     \/ /\ msg.id \in DOMAIN pending
        /\ pending' = Erase(pending, {msg.id})
        /\ owed' = {Owe(msg.id, Replied(msg))}
  /\ UNCHANGED <<last_id, requests, replies, steady, now>>

Expired_Swapped == {id \in DOMAIN pending : pending[id].deadline > now}

Expired_Strict == {id \in DOMAIN pending : pending[id].deadline < now}

Expired == {id \in DOMAIN pending : pending[id].deadline <= now}

(* With nothing pending, or nothing expired, the sweep changes nothing.    *)
sweepTimeouts ==
  /\ Idle
  /\ pending' = Erase(pending, Expired)
  /\ owed' = {Owe(id, TimedOut) : id \in Expired}
  /\ UNCHANGED <<last_id, requests, replies, steady, now>>

-----------------------------------------------------------------------------
(* The environment.                                                        *)

(* The robot answers a request at most once.  A request that is lost, or   *)
(* that the robot never answers, is one this action never picks.  `to` is  *)
(* no field of the message: it records whose request was answered.         *)
RobotReplies(req, code, data) ==
  /\ ~req.noreply
  /\ \A msg \in replies : ~(msg.id = req.id /\ msg.to = req.body)
  /\ replies' = replies \cup
       {[id |-> req.id, to |-> req.body, code |-> code, data |-> data]}
  /\ UNCHANGED <<pending, last_id, owed, requests, steady, now>>

(* A reply to some other node's request: the topic is shared.  MaxForeign  *)
(* bounds how many the model shows; the proofs do not depend on it.        *)
ForeignReply(id, code, data) ==
  /\ Cardinality({msg \in replies : msg.to = Foreign}) < MaxForeign
  /\ replies' = replies \cup
       {[id |-> id, to |-> Foreign, code |-> code, data |-> data]}
  /\ UNCHANGED <<pending, last_id, owed, requests, steady, now>>

Elapse ==
  /\ steady < MaxSteady
  /\ steady' = steady + 1
  /\ now' = now + 1
  /\ UNCHANGED <<pending, last_id, owed, requests, replies>>

(* The ROS clock is the system time: it may be set, in either direction.   *)
ClockSet ==
  /\ now' \in {steady + offset : offset \in Offsets} \ {now}
  /\ UNCHANGED <<pending, last_id, owed, requests, replies, steady>>

Environment ==
  \/ \E req \in requests, code \in Codes, data \in Data :
       RobotReplies(req, code, data)
  \/ \E id \in ForeignIds, code \in Codes, data \in Data :
       ForeignReply(id, code, data)
  \/ Elapse
  \/ ClockSet

(* Bound: a deadline set now passes before the modelled clock stops,       *)
(* whatever the offset of the ROS clock.                                   *)
DeadlineInReach ==
  \A offset \in Offsets : now + Timeout <= MaxSteady + offset

(* The robot reported status 0 for a request with this body.               *)
Accepted(body) ==
  \E msg \in replies : msg.to = body /\ msg.code = StatusOk

(* No other node was ever replied to under an id of ours.  To start from   *)
(* the clock (nextId) makes that likely; nothing enforces it.              *)
IdsApart ==
  \A msg \in replies, req \in requests : msg.to = Foreign => msg.id # req.id

(* What a reply with status 0 under its request's id is worth.             *)
Acknowledged(body) == IdsApart => Accepted(body)
-----------------------------------------------------------------------------
(* The client's part of what its users state and prove.                    *)

Result == [ok : BOOLEAN, status_code : Codes \cup {StatusOk, StatusTimeout},
           data : Data \cup {NoData}]

(* The types of the client's variables, for its user's callbacks and the   *)
(* bodies its user publishes.                                              *)
ClientTypeOK(Callbacks, Bodies) ==
  /\ DOMAIN pending \subseteq Nat
  /\ pending \in [DOMAIN pending -> [callback : Callbacks, deadline : Int]]
  /\ last_id \in Nat
  /\ owed \subseteq [id : Nat, callback : Callbacks, result : Result]
  /\ requests \subseteq [id : Nat, body : Bodies, noreply : BOOLEAN]
  /\ replies \subseteq [id : Nat \cup ForeignIds, to : Bodies \cup {Foreign},
                        code : Codes, data : Data]
  /\ steady \in 0 .. MaxSteady
  /\ now \in Int /\ now - steady \in Offsets

(* Every id in use is at or below last_id, or was used by an earlier       *)
(* process and is behind the clock, so nextId is new; the robot only ever  *)
(* answers ids it was sent.                                                *)
IdsIssued ==
  /\ \A id \in DOMAIN pending : id <= last_id
  /\ \A req \in requests : req.id <= last_id \/ req.id < steady
  /\ \A r1, r2 \in requests : r1.id = r2.id => r1 = r2
  /\ \A msg \in replies : msg.to # Foreign =>
       \E req \in requests : req.id = msg.id /\ req.body = msg.to
=============================================================================
