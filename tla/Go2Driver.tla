------------------------------ MODULE Go2Driver ------------------------------
(***************************************************************************)
(* The state bridge (go2_driver.cpp): odometry in, TF and odometry out;    *)
(* clouds in, clouds out with their stamps clamped to the TF; motor states *)
(* in, joint states out.                                                   *)
(*                                                                         *)
(* Of clouds only the stamps are kept, and of odometry the stamps and the  *)
(* pose last published; the pose a message carries is picked when it is    *)
(* handled.  Velocities, covariances and point data are left out.  A       *)
(* motor's reading is the motor itself, a leg and a joint.  A quaternion   *)
(* is kept as its length and the turns it makes: one of length zero is no  *)
(* rotation, one of another length than one is not normalized.             *)
(***************************************************************************)
EXTENDS Integers, Sequences

CONSTANTS
  Parameters,  \* the settings of use_msg_stamp, publish_tf and publish_odom
  Start,       \* what the clocks read when the node starts; zero, if not set yet
  Angles,      \* the angles to turn by
  NaN,         \* not a number
  Poses,       \* the poses odometry carries: x, y, z and orientation
  BodyZOffset, \* body_z_offset_
  Steps,       \* how far a clock moves at once; below 0, it is set back
  OdomDepth,   \* depth of the odometry subscription
  CloudDepth,  \* depth of the cloud subscription
  MaxTime,     \* bound: the largest reading of a clock
  MaxOdoms,    \* bound: odometry messages the robot sends
  MaxClouds    \* bound: clouds the robot sends

-----------------------------------------------------------------------------
(* tf2's rotations.                                                        *)

(* No turn at all, if the angle is zero.                                   *)
Turn(axis, angle) == IF angle = 0 THEN <<>> ELSE <<[axis |-> axis, angle |-> angle]>>

(* About the vertical first, then about the axes that turn has moved.      *)
setRPY(roll, pitch, yaw) ==
  [length |-> 1, turns |-> Turn("z", yaw) \o Turn("y", pitch) \o Turn("x", roll)]

RPYs == [roll : Angles, pitch : Angles, yaw : Angles]

Rotations == {setRPY(a.roll, a.pitch, a.yaw).turns : a \in RPYs}

(* The matrix made from a quaternion does not depend on its length, unless *)
(* that is zero.                                                           *)
getRPY(q) ==
  IF q.length = 0 THEN [roll |-> NaN, pitch |-> NaN, yaw |-> NaN]
  ELSE CHOOSE a \in RPYs : setRPY(a.roll, a.pitch, a.yaw).turns = q.turns

-----------------------------------------------------------------------------
PoseType ==
  [x : Int, y : Int, z : Int, orientation : [length : Nat, turns : Rotations]]

ASSUME DriverAssumption ==
  /\ Parameters \subseteq
       [use_msg_stamp : BOOLEAN, publish_tf : BOOLEAN, publish_odom : BOOLEAN]
  /\ Start \in Nat /\ MaxTime \in Nat /\ Start <= MaxTime
  /\ 0 \in Angles
  /\ Poses \subseteq PoseType
  /\ BodyZOffset \in Int
  /\ Steps \subseteq Int
  /\ OdomDepth \in Nat \ {0} /\ CloudDepth \in Nat \ {0}
  /\ MaxOdoms \in Nat /\ MaxClouds \in Nat

VARIABLES
  params,         \* the node's parameters, read once
  robot,          \* the robot's clock, which stamps what it sends
  now,            \* the node's clock
  odoms,          \* stamps of the odometry received and not handled yet
  clouds,         \* stamps of the clouds received and not handled yet
  sent,           \* how many of each the robot has sent
  last_tf_stamp,  \* last_tf_stamp_
  tf,             \* stamps of the transforms broadcast, in order
  transforms,     \* the transforms broadcast last
  odometry,       \* stamps of the odometry published, in order
  odom_pose,      \* <<the pose published last>>; empty before the first
  pointcloud,     \* the clouds published, in order
  joint_states    \* the last joint state published; empty before the first

clocks == <<robot, now>>
received == <<odoms, clouds, sent>>
odomOut == <<last_tf_stamp, tf, transforms, odometry, odom_pose>>
vars == <<params, clocks, received, odomOut, pointcloud, joint_states>>

Init ==
  /\ params \in Parameters
  /\ robot = Start
  /\ now = Start
  /\ odoms = <<>>
  /\ clouds = <<>>
  /\ sent = [odoms |-> 0, clouds |-> 0]
  /\ last_tf_stamp = 0
  /\ tf = <<>>
  /\ transforms = <<>>
  /\ odometry = <<>>
  /\ odom_pose = <<>>
  /\ pointcloud = <<>>
  /\ joint_states = <<>>

(* The parameters as declared, when nothing overrides them.                *)
Declared == [use_msg_stamp |-> TRUE, publish_tf |-> TRUE, publish_odom |-> TRUE]

-----------------------------------------------------------------------------
(* The node's callbacks.                                                   *)

resolveStamp(stamp) == IF params.use_msg_stamp THEN stamp ELSE now

Clamped_OnlyNear(stamp) ==
  IF last_tf_stamp > 0 /\ stamp > last_tf_stamp /\ stamp - last_tf_stamp <= 1
  THEN last_tf_stamp ELSE stamp

(* A cloud must not lead the TF tree; before the first TF it may, and a    *)
(* last TF stamped zero is taken for none.                                 *)
Clamped(stamp) ==
  IF last_tf_stamp > 0 /\ stamp > last_tf_stamp THEN last_tf_stamp ELSE stamp

(* A cloud published is kept with the stamp it would have had unclamped,   *)
(* and with the number of transforms broadcast before it.                  *)
publishLidar ==
  /\ clouds # <<>>
  /\ LET stamp == resolveStamp(Head(clouds))
     IN pointcloud' = Append(pointcloud,
          [stamp |-> Clamped(stamp), resolved |-> stamp, after |-> Len(tf)])
  /\ clouds' = Tail(clouds)
  /\ UNCHANGED <<params, clocks, odoms, sent, odomOut, joint_states>>

makeTransform(parent, child, x, y, z, rotation) ==
  [parent |-> parent, child |-> child, x |-> x, y |-> y, z |-> z, rotation |-> rotation]

Clamping_Unpublished(stamp) == last_tf_stamp' = stamp

(* The clamping follows what was broadcast.                                *)
Clamping(stamp) == last_tf_stamp' = IF params.publish_tf THEN stamp ELSE last_tf_stamp

(* q_yaw and q_rp: the orientation's heading, and the rest of it.          *)
Heading(q) == setRPY(0, 0, getRPY(q).yaw)

Tilt(q) == setRPY(getRPY(q).roll, getRPY(q).pitch, 0)

(* Heading stays on the ground; height, roll and pitch are the body's.     *)
Footprint(pose) ==
  makeTransform("odom", "base_footprint", pose.x, pose.y, 0, Heading(pose.orientation))

Body_WithHeading(pose) ==
  makeTransform("base_footprint", "base_link", 0, 0, pose.z + BodyZOffset, pose.orientation)

Body(pose) ==
  makeTransform("base_footprint", "base_link", 0, 0, pose.z + BodyZOffset,
                Tilt(pose.orientation))

odomCallback ==
  /\ odoms # <<>>
  /\ \E pose \in Poses :
       LET stamp == resolveStamp(Head(odoms))
       IN /\ Clamping(stamp)
          /\ IF params.publish_tf
             THEN /\ tf' = Append(tf, stamp)
                  /\ transforms' = <<Footprint(pose), Body(pose)>>
             ELSE UNCHANGED <<tf, transforms>>
          /\ IF params.publish_odom
             THEN /\ odometry' = Append(odometry, stamp)
                  /\ odom_pose' = <<[pose EXCEPT !.z = @ + BodyZOffset]>>
             ELSE UNCHANGED <<odometry, odom_pose>>
  /\ odoms' = Tail(odoms)
  /\ UNCHANGED <<params, clocks, clouds, sent, pointcloud, joint_states>>

Joints == <<"hip", "thigh", "calf">>

(* A name or a motor for each joint of each leg, three joints a leg.       *)
LegByLeg(legs) ==
  [i \in 1 .. 12 |-> [leg |-> legs[(i + 2) \div 3], joint |-> Joints[((i - 1) % 3) + 1]]]

g_JOINT_NAMES == LegByLeg(<<"FL", "FR", "RL", "RR">>)

g_MOTOR_STATE_INDEX_SameOrder == [i \in 1 .. 12 |-> i - 1]

g_MOTOR_STATE_INDEX == <<3, 4, 5, 0, 1, 2, 9, 10, 11, 6, 7, 8>>

(* The robot's order: motor i is the i-th, counted from zero.              *)
motor_state == [i \in 0 .. 11 |-> LegByLeg(<<"FR", "FL", "RR", "RL">>)[i + 1]]

publishJointStates ==
  /\ joint_states' = [i \in DOMAIN g_JOINT_NAMES |->
       [name |-> g_JOINT_NAMES[i], position |-> motor_state[g_MOTOR_STATE_INDEX[i]]]]
  /\ UNCHANGED <<params, clocks, received, odomOut, pointcloud>>

-----------------------------------------------------------------------------
(* The robot, the middleware and the clocks.  A subscription keeps the     *)
(* last messages; one that is lost is one that is not sent.                *)

Keep_All(queue, stamp, depth) == Append(queue, stamp)

Keep(queue, stamp, depth) ==
  LET all == Append(queue, stamp)
  IN IF Len(all) > depth THEN Tail(all) ELSE all

OdomArrives ==
  /\ sent.odoms < MaxOdoms
  /\ sent' = [sent EXCEPT !.odoms = @ + 1]
  /\ odoms' = Keep(odoms, robot, OdomDepth)
  /\ UNCHANGED <<params, clocks, clouds, odomOut, pointcloud, joint_states>>

CloudArrives ==
  /\ sent.clouds < MaxClouds
  /\ sent' = [sent EXCEPT !.clouds = @ + 1]
  /\ clouds' = Keep(clouds, robot, CloudDepth)
  /\ UNCHANGED <<params, clocks, odoms, odomOut, pointcloud, joint_states>>

Moved(clock) == {clock + d : d \in Steps} \cap (0 .. MaxTime)

RobotClockMoves ==
  /\ robot' \in Moved(robot)
  /\ UNCHANGED <<params, now, received, odomOut, pointcloud, joint_states>>

NodeClockMoves ==
  /\ now' \in Moved(now)
  /\ UNCHANGED <<params, robot, received, odomOut, pointcloud, joint_states>>

Next ==
  \/ publishLidar
  \/ odomCallback
  \/ publishJointStates
  \/ OdomArrives
  \/ CloudArrives
  \/ RobotClockMoves
  \/ NodeClockMoves

Spec == Init /\ [][Next]_vars

-----------------------------------------------------------------------------
(* Properties.                                                             *)

Stamps == Nat

JointsOfLegs == [leg : {"FL", "FR", "RL", "RR"}, joint : {"hip", "thigh", "calf"}]

(* Every variable keeps its type; no queue outgrows its depth.             *)
TypeOK ==
  /\ params \in Parameters
  /\ robot \in 0 .. MaxTime
  /\ now \in 0 .. MaxTime
  /\ odoms \in Seq(Stamps) /\ Len(odoms) <= OdomDepth
  /\ clouds \in Seq(Stamps) /\ Len(clouds) <= CloudDepth
  /\ sent \in [odoms : 0 .. MaxOdoms, clouds : 0 .. MaxClouds]
  /\ last_tf_stamp \in Nat
  /\ tf \in Seq(Stamps)
  /\ transforms \in {<<>>} \cup {<<Footprint(pose), Body(pose)>> : pose \in Poses}
  /\ odometry \in Seq(Stamps)
  /\ odom_pose \in {<<>>} \cup {<<[pose EXCEPT !.z = @ + BodyZOffset]>> : pose \in Poses}
  /\ pointcloud \in Seq([stamp : Stamps, resolved : Stamps, after : Nat])
  /\ joint_states \in Seq([name : JointsOfLegs, position : JointsOfLegs])

(* A cloud was published after a transform that last_tf_stamp_ could tell  *)
(* from none: publishLidar takes a stamp of zero for "no transform yet".   *)
FollowsTf(cloud) == cloud.after > 0 /\ tf[cloud.after] > 0

(* Once TF is broadcast, a cloud never leads it: some transform at or      *)
(* after the cloud's stamp went out before the cloud, however the two      *)
(* streams, their delays and the clocks are mixed (publishLidar), but for  *)
(* clouds handled while the last transform's stamp is zero.                *)
CloudNeverLeadsTf ==
  \A i \in DOMAIN pointcloud :
    LET cloud == pointcloud[i]
    IN FollowsTf(cloud) => \E j \in 1 .. cloud.after : cloud.stamp <= tf[j]

(* A cloud's stamp is moved for TF's sake only: back, to the transform     *)
(* broadcast last, so that a lookup at that stamp is exact.                *)
CloudMovedOnlyToTf ==
  \A i \in DOMAIN pointcloud :
    LET cloud == pointcloud[i]
    IN cloud.stamp # cloud.resolved =>
         /\ cloud.stamp < cloud.resolved
         /\ cloud.after > 0
         /\ cloud.stamp = tf[cloud.after]

(* Unless transforms or clouds themselves went back in time, clouds come   *)
(* out in the order of their stamps once TF is there, though each is       *)
(* clamped to whatever transform happened to be the last.  (A cloud that   *)
(* only transforms stamped zero went before may be ahead of a later one.)  *)
CloudsInOrder ==
  \/ \E i, j \in DOMAIN tf : i < j /\ tf[i] > tf[j]
  \/ \E i, j \in DOMAIN pointcloud : i < j /\ pointcloud[i].resolved > pointcloud[j].resolved
  \/ \A i, j \in DOMAIN pointcloud :
       i < j /\ FollowsTf(pointcloud[i]) => pointcloud[i].stamp <= pointcloud[j].stamp

(* Two transforms, one after the other, put the second's child at a pose.  *)
(* The second shifts along the vertical, which the first turns about, so   *)
(* shifts add up; turns follow each other.                                 *)
Reaches(first, second, pose) ==
  /\ first.child = second.parent
  /\ \A k \in DOMAIN first.rotation.turns : first.rotation.turns[k].axis = "z"
  /\ second.x = 0 /\ second.y = 0
  /\ pose.x = first.x /\ pose.y = first.y /\ pose.z = first.z + second.z
  /\ pose.orientation.length > 0 =>
       pose.orientation.turns = first.rotation.turns \o second.rotation.turns

(* The pose is published twice, split over two transforms and whole as     *)
(* odometry, whose quaternion is the robot's own, of whatever length: with *)
(* both parameters set, they have the same stamps, and a user of either    *)
(* sees the robot in the same place, turned the same way.  (A quaternion   *)
(* of zeros, which is no rotation, is not a number in the transforms.)     *)
TfAgreesWithOdometry ==
  params.publish_tf /\ params.publish_odom =>
    /\ tf = odometry
    /\ tf # <<>> => Reaches(transforms[1], transforms[2], odom_pose[1])

(* The position published under a joint's name is the reading of that      *)
(* joint's motor (publishJointStates' two tables).                         *)
JointsNamedRight ==
  \A i \in DOMAIN joint_states : joint_states[i].name = joint_states[i].position

(* README, use_msg_stamp: false by default, that is, output is stamped     *)
(* with the node clock: while that clock is not set back, no transform is  *)
(* ahead of it.                                                            *)
StampedWithNodeClock == \A j \in DOMAIN tf : tf[j] <= now
=============================================================================
