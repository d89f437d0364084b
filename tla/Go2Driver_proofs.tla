--------------------------- MODULE Go2Driver_proofs --------------------------
(* Proofs about Go2Driver: types, and the soundness of clamped stamps.      *)
EXTENDS Go2Driver, TLAPS

-----------------------------------------------------------------------------
(* Types.                                                                  *)

(* The tables of twelve joints.                                            *)
LEMMA TablesTyped ==
  \A i \in 1 .. 12 :
    /\ g_JOINT_NAMES[i] \in JointsOfLegs
    /\ g_MOTOR_STATE_INDEX[i] \in 0 .. 11
    /\ motor_state[g_MOTOR_STATE_INDEX[i]] \in JointsOfLegs
<1> DEFINE Legs == {"FL", "FR", "RL", "RR"}
<1>1. ASSUME NEW legs, \A k \in 1 .. 4 : legs[k] \in Legs, NEW i \in 1 .. 12
      PROVE  LegByLeg(legs)[i] \in JointsOfLegs
  <2>1. (i + 2) \div 3 \in 1 .. 4 /\ ((i - 1) % 3) + 1 \in 1 .. 3
    OBVIOUS
  <2>2. legs[(i + 2) \div 3] \in Legs
    BY <1>1, <2>1
  <2>3. Joints[((i - 1) % 3) + 1] \in {"hip", "thigh", "calf"}
    BY <2>1 DEF Joints
  <2> QED  BY <2>2, <2>3 DEF LegByLeg, JointsOfLegs
<1>2. \A i \in 1 .. 12 : g_JOINT_NAMES[i] \in JointsOfLegs
  <2> DEFINE urdf == <<"FL", "FR", "RL", "RR">>
  <2>1. \A k \in 1 .. 4 : urdf[k] \in Legs
    OBVIOUS
  <2> HIDE DEF urdf
  <2>2. \A i \in 1 .. 12 : LegByLeg(urdf)[i] \in JointsOfLegs
    BY <1>1, <2>1
  <2> QED  BY <2>2 DEF g_JOINT_NAMES, urdf
<1>3. \A i \in 1 .. 12 : g_MOTOR_STATE_INDEX[i] \in 0 .. 11
  BY DEF g_MOTOR_STATE_INDEX
<1>4. \A i \in 0 .. 11 : motor_state[i] \in JointsOfLegs
  <2> DEFINE robots == <<"FR", "FL", "RR", "RL">>
  <2>1. \A k \in 1 .. 4 : robots[k] \in Legs
    OBVIOUS
  <2> HIDE DEF robots
  <2>2. \A i \in 1 .. 12 : LegByLeg(robots)[i] \in JointsOfLegs
    BY <1>1, <2>1
  <2>3. motor_state = [i \in 0 .. 11 |-> LegByLeg(robots)[i + 1]]
    BY DEF motor_state, robots
  <2>4. \A i \in 0 .. 11 : i + 1 \in 1 .. 12
    OBVIOUS
  <2> QED  BY <2>2, <2>3, <2>4
<1> QED  BY <1>2, <1>3, <1>4

LEMMA TypeInit == Init => TypeOK
BY DriverAssumption DEF Init, TypeOK, DriverAssumption, Stamps

(* A stamp is resolved, and clamped, to a stamp.                           *)
LEMMA StampsTyped ==
  ASSUME TypeOK, NEW stamp \in Stamps
  PROVE  resolveStamp(stamp) \in Stamps /\ Clamped(stamp) \in Stamps
<1>1. now \in 0 .. MaxTime /\ last_tf_stamp \in Nat
  BY Zenon DEF TypeOK
<1>2. MaxTime \in Nat
  BY DriverAssumption DEF DriverAssumption
<1> QED  BY <1>1, <1>2 DEF Stamps, resolveStamp, Clamped

(* A queue keeps stamps, and no more than its depth.                       *)
LEMMA KeepTyped ==
  ASSUME NEW queue \in Seq(Stamps), NEW stamp \in Stamps, NEW depth \in Nat,
         Len(queue) <= depth
  PROVE  Keep(queue, stamp, depth) \in Seq(Stamps) /\ Len(Keep(queue, stamp, depth)) <= depth
<1> DEFINE all == Append(queue, stamp)
<1>1. all \in Seq(Stamps) /\ Len(all) = Len(queue) + 1 /\ Len(queue) \in Nat
  OBVIOUS
<1>2. all # <<>> => Tail(all) \in Seq(Stamps) /\ Len(Tail(all)) = Len(all) - 1
  BY <1>1
<1> HIDE DEF all
<1> QED  BY <1>1, <1>2 DEF Keep, all

(* What is handled leaves the queue.                                       *)
LEMMA TailTyped ==
  ASSUME NEW queue \in Seq(Stamps), queue # <<>>, NEW depth \in Nat, Len(queue) <= depth
  PROVE  /\ Head(queue) \in Stamps
         /\ Tail(queue) \in Seq(Stamps) /\ Len(Tail(queue)) <= depth
<1>1. Len(Tail(queue)) = Len(queue) - 1 /\ Len(queue) \in Nat
  OBVIOUS
<1> QED  BY <1>1

LEMMA TypeStep == TypeOK /\ [Next]_vars => TypeOK'
<1> SUFFICES ASSUME TypeOK, [Next]_vars PROVE TypeOK'
  OBVIOUS
<1> USE DriverAssumption DEF DriverAssumption
<1>1. CASE publishLidar
  <2>a. clouds # <<>> /\ clouds \in Seq(Stamps) /\ Len(clouds) <= CloudDepth
    BY <1>1, Zenon DEF publishLidar, TypeOK
  <2>1. /\ Head(clouds) \in Stamps
        /\ Tail(clouds) \in Seq(Stamps) /\ Len(Tail(clouds)) <= CloudDepth
    BY <2>a, TailTyped
  <2> DEFINE stamp == resolveStamp(Head(clouds))
  <2>2. stamp \in Stamps /\ Clamped(stamp) \in Stamps
    BY <2>1, StampsTyped
  <2>3. Len(tf) \in Nat
    BY DEF TypeOK
  <2>4. pointcloud' \in Seq([stamp : Stamps, resolved : Stamps, after : Nat])
    BY <1>1, <2>2, <2>3 DEF publishLidar, TypeOK
  <2> QED  BY <1>1, <2>1, <2>4 DEF publishLidar, TypeOK, clocks, odomOut
<1>2. CASE odomCallback
  <2>c. odoms # <<>> /\ odoms \in Seq(Stamps) /\ Len(odoms) <= OdomDepth
    BY <1>2, Zenon DEF odomCallback, TypeOK
  <2>1. /\ Head(odoms) \in Stamps
        /\ Tail(odoms) \in Seq(Stamps) /\ Len(Tail(odoms)) <= OdomDepth
    BY <2>c, TailTyped
  <2> DEFINE stamp == resolveStamp(Head(odoms))
  <2>2. stamp \in Stamps
    BY <2>1, StampsTyped
  <2> HIDE DEF stamp
  <2>a. /\ \/ tf' = Append(tf, stamp) /\ last_tf_stamp' = stamp
           \/ tf' = tf /\ last_tf_stamp' = last_tf_stamp
        /\ odometry' = Append(odometry, stamp) \/ UNCHANGED odometry
    BY <1>2 DEF odomCallback, Clamping, stamp
  <2>b. \A seq \in Seq(Stamps) : Append(seq, stamp) \in Seq(Stamps)
    BY <2>2
  <2>3. tf' \in Seq(Stamps) /\ last_tf_stamp' \in Nat /\ odometry' \in Seq(Stamps)
    BY <2>2, <2>a, <2>b DEF TypeOK, Stamps
  <2>4. /\ transforms' \in {<<>>} \cup {<<Footprint(pose), Body(pose)>> : pose \in Poses}
        /\ odom_pose' \in {<<>>} \cup {<<[pose EXCEPT !.z = @ + BodyZOffset]>> : pose \in Poses}
    <3>1. PICK pose \in Poses :
            /\ transforms' = <<Footprint(pose), Body(pose)>> \/ UNCHANGED transforms
            /\ odom_pose' = <<[pose EXCEPT !.z = @ + BodyZOffset]>> \/ UNCHANGED odom_pose
      BY <1>2, Zenon DEF odomCallback
    <3> QED  BY <3>1, Zenon DEF TypeOK
  <2>5. UNCHANGED <<params, clocks, clouds, sent, pointcloud, joint_states>>
    BY <1>2 DEF odomCallback
  <2> QED  BY <2>1, <2>3, <2>4, <2>5, <1>2, Zenon DEF odomCallback, TypeOK, clocks, Footprint, Body, Heading, Tilt, makeTransform, setRPY, getRPY, RPYs, Turn
<1>3. CASE publishJointStates
  <2>1. DOMAIN g_JOINT_NAMES = 1 .. 12
    BY DEF g_JOINT_NAMES, LegByLeg
  <2>2. joint_states' \in Seq([name : JointsOfLegs, position : JointsOfLegs])
    BY <1>3, <2>1, TablesTyped DEF publishJointStates
  <2> QED  BY <1>3, <2>2 DEF publishJointStates, TypeOK, clocks, received, odomOut
<1>4. CASE OdomArrives
  <2>a. odoms \in Seq(Stamps) /\ Len(odoms) <= OdomDepth /\ robot \in 0 .. MaxTime
    BY Zenon DEF TypeOK
  <2>1. odoms \in Seq(Stamps) /\ robot \in Stamps /\ OdomDepth \in Nat
    BY <2>a DEF Stamps
  <2>2. odoms' \in Seq(Stamps) /\ Len(odoms') <= OdomDepth
    BY <1>4, <2>a, <2>1, KeepTyped DEF OdomArrives
  <2>3. sent' \in [odoms : 0 .. MaxOdoms, clouds : 0 .. MaxClouds]
    <3>a. sent.odoms \in 0 .. MaxOdoms
      BY DEF TypeOK
    <3>b. sent.odoms < MaxOdoms
      BY <1>4 DEF OdomArrives
    <3>1. sent.odoms + 1 \in 0 .. MaxOdoms
      BY <3>a, <3>b
    <3> QED  BY <1>4, <3>1 DEF OdomArrives, TypeOK
  <2> QED  BY <1>4, <2>2, <2>3 DEF OdomArrives, TypeOK, clocks, odomOut
<1>5. CASE CloudArrives
  <2>a. clouds \in Seq(Stamps) /\ Len(clouds) <= CloudDepth /\ robot \in 0 .. MaxTime
    BY Zenon DEF TypeOK
  <2>1. clouds \in Seq(Stamps) /\ robot \in Stamps /\ CloudDepth \in Nat
    BY <2>a DEF Stamps
  <2>2. clouds' \in Seq(Stamps) /\ Len(clouds') <= CloudDepth
    BY <1>5, <2>a, <2>1, KeepTyped DEF CloudArrives
  <2>3. sent' \in [odoms : 0 .. MaxOdoms, clouds : 0 .. MaxClouds]
    <3>a. sent.clouds \in 0 .. MaxClouds
      BY DEF TypeOK
    <3>b. sent.clouds < MaxClouds
      BY <1>5 DEF CloudArrives
    <3>1. sent.clouds + 1 \in 0 .. MaxClouds
      BY <3>a, <3>b
    <3> QED  BY <1>5, <3>1 DEF CloudArrives, TypeOK
  <2> QED  BY <1>5, <2>2, <2>3 DEF CloudArrives, TypeOK, clocks, odomOut
<1>6. CASE RobotClockMoves
  BY <1>6 DEF RobotClockMoves, Moved, TypeOK, received, odomOut
<1>7. CASE NodeClockMoves
  BY <1>7 DEF NodeClockMoves, Moved, TypeOK, received, odomOut
<1>8. CASE UNCHANGED vars
  BY <1>8 DEF vars, clocks, received, odomOut, TypeOK
<1> QED  BY <1>1, <1>2, <1>3, <1>4, <1>5, <1>6, <1>7, <1>8 DEF Next

(* Every variable of the driver keeps its type, whatever the parameters,   *)
(* the queues and the clocks.                                              *)
THEOREM DriverTypeCorrect == Spec => []TypeOK
<1> QED  BY TypeInit, TypeStep, PTL DEF Spec

-----------------------------------------------------------------------------
(* Stamps.                                                                 *)

(* What last_tf_stamp_ is: zero before the first transform, and from then  *)
(* on the stamp of the one broadcast last.                                 *)
LastTf ==
  last_tf_stamp = IF tf = <<>> THEN 0 ELSE tf[Len(tf)]

(* A cloud that was published is no younger than the last transform there  *)
(* was then, unless that is stamped zero, and was moved, if at all, back   *)
(* to it.                                                                  *)
CloudSound(cloud) ==
  /\ cloud.after \in 0 .. Len(tf)
  /\ FollowsTf(cloud) => cloud.stamp <= tf[cloud.after]
  /\ cloud.stamp # cloud.resolved =>
       cloud.stamp < cloud.resolved /\ cloud.after > 0 /\ cloud.stamp = tf[cloud.after]

StampsSound == LastTf /\ \A i \in DOMAIN pointcloud : CloudSound(pointcloud[i])

LEMMA StampsInit == Init => StampsSound
BY DEF Init, StampsSound, LastTf

LEMMA StampsStep == TypeOK /\ StampsSound /\ [Next]_vars => StampsSound'
<1> SUFFICES ASSUME TypeOK, StampsSound, [Next]_vars PROVE StampsSound'
  OBVIOUS
<1>1. CASE publishLidar
  <2> DEFINE stamp == resolveStamp(Head(clouds))
             cloud == [stamp |-> Clamped(stamp), resolved |-> stamp, after |-> Len(tf)]
  <2>1. Head(clouds) \in Stamps
    BY <1>1 DEF publishLidar, TypeOK
  <2>2. stamp \in Stamps
    BY <2>1, StampsTyped
  <2>3. CloudSound(cloud)
    BY <2>2 DEF CloudSound, FollowsTf, Clamped, StampsSound, LastTf, TypeOK, Stamps
  <2>4. pointcloud' = Append(pointcloud, cloud) /\ UNCHANGED <<tf, last_tf_stamp>>
    BY <1>1 DEF publishLidar, odomOut
  <2>a. pointcloud \in Seq([stamp : Stamps, resolved : Stamps, after : Nat])
    BY DEF TypeOK
  <2>b. cloud \in [stamp : Stamps, resolved : Stamps, after : Nat]
    BY <2>2, StampsTyped DEF TypeOK
  <2> HIDE DEF cloud
  <2>5. \A i \in DOMAIN pointcloud' :
          pointcloud'[i] = cloud \/ (i \in DOMAIN pointcloud /\ pointcloud'[i] = pointcloud[i])
    BY <2>4, <2>a, <2>b
  <2> QED  BY <2>3, <2>4, <2>5 DEF StampsSound, CloudSound, FollowsTf, LastTf
<1>2. CASE odomCallback
  <2>1. CASE params.publish_tf
    <3> DEFINE stamp == resolveStamp(Head(odoms))
    <3>1. tf' = Append(tf, stamp) /\ last_tf_stamp' = stamp /\ pointcloud' = pointcloud
      BY <1>2, <2>1 DEF odomCallback, Clamping
    <3>a. tf \in Seq(Stamps) /\ stamp \in Stamps
      <4>1. Head(odoms) \in Stamps
        BY <1>2 DEF odomCallback, TypeOK
      <4> QED  BY <4>1, StampsTyped DEF TypeOK
    <3> HIDE DEF stamp
    <3>2. Len(tf') = Len(tf) + 1 /\ tf'[Len(tf')] = stamp /\ tf' # <<>>
      BY <3>1, <3>a
    <3>3. \A j \in 1 .. Len(tf) : tf'[j] = tf[j]
      BY <3>1, <3>a
    <3>4. LastTf'
      BY <3>1, <3>2 DEF LastTf
    <3>5. ASSUME NEW i \in DOMAIN pointcloud PROVE CloudSound(pointcloud[i])'
      <4>1. CloudSound(pointcloud[i]) /\ pointcloud'[i] = pointcloud[i]
        BY <3>1 DEF StampsSound
      <4>2. Len(tf) \in Nat
        BY DEF TypeOK
      <4> QED  BY <3>2, <3>3, <4>1, <4>2 DEF CloudSound, FollowsTf
    <3> QED  BY <3>1, <3>4, <3>5 DEF StampsSound
  <2>2. CASE ~params.publish_tf
    BY <1>2, <2>2 DEF odomCallback, Clamping, StampsSound, CloudSound, FollowsTf, LastTf
  <2> QED  BY <2>1, <2>2
<1>3. CASE UNCHANGED <<tf, last_tf_stamp, pointcloud>>
  BY <1>3 DEF StampsSound, CloudSound, FollowsTf, LastTf
<1>4. publishLidar \/ odomCallback \/ UNCHANGED <<tf, last_tf_stamp, pointcloud>>
  BY DEF Next, vars, odomOut, publishJointStates, OdomArrives, CloudArrives,
         RobotClockMoves, NodeClockMoves
<1> QED  BY <1>1, <1>2, <1>3, <1>4

LEMMA StampsSoundImplies ==
  TypeOK /\ StampsSound => CloudNeverLeadsTf /\ CloudMovedOnlyToTf
<1> SUFFICES ASSUME TypeOK, StampsSound, NEW i \in DOMAIN pointcloud
             PROVE  LET cloud == pointcloud[i]
                    IN /\ FollowsTf(cloud) => \E j \in 1 .. cloud.after : cloud.stamp <= tf[j]
                       /\ cloud.stamp # cloud.resolved =>
                            /\ cloud.stamp < cloud.resolved
                            /\ cloud.after > 0
                            /\ cloud.stamp = tf[cloud.after]
  BY DEF CloudNeverLeadsTf, CloudMovedOnlyToTf
<1>1. CloudSound(pointcloud[i])
  BY DEF StampsSound
<1>2. pointcloud[i].after > 0 => pointcloud[i].after \in 1 .. pointcloud[i].after
  <2>1. pointcloud[i].after \in Nat
    <3>1. tf \in Seq(Stamps) /\ pointcloud[i].after \in 0 .. Len(tf)
      BY <1>1, Zenon DEF CloudSound, TypeOK
    <3> QED  BY <3>1
  <2> QED  BY <2>1
<1> QED  BY <1>1, <1>2 DEF CloudSound, FollowsTf

(* Once TF is broadcast no published cloud leads it, for any mix of the    *)
(* two streams, any queues and any clocks, unset ones included: the only   *)
(* clouds that may are those handled while last_tf_stamp_ is zero.         *)
THEOREM NeverLeads == Spec => []CloudNeverLeadsTf
<1> QED  BY TypeInit, TypeStep, StampsInit, StampsStep, StampsSoundImplies, PTL DEF Spec

(* A cloud's stamp is moved only back to the transform broadcast last.     *)
THEOREM MovedOnlyToTf == Spec => []CloudMovedOnlyToTf
<1> QED  BY TypeInit, TypeStep, StampsInit, StampsStep, StampsSoundImplies, PTL DEF Spec

-----------------------------------------------------------------------------
(* The order of clouds.                                                    *)

(* No cloud was published before fewer transforms than an earlier one.     *)
AfterGrows ==
  /\ \A i \in DOMAIN pointcloud : pointcloud[i].after <= Len(tf)
  /\ \A i, j \in DOMAIN pointcloud : i < j => pointcloud[i].after <= pointcloud[j].after

(* A cloud published, a transform broadcast, or neither.                   *)
LEMMA StampEffect ==
  ASSUME TypeOK, [Next]_vars
  PROVE  /\ tf \in Seq(Stamps)
         /\ pointcloud \in Seq([stamp : Stamps, resolved : Stamps, after : Nat])
         /\ \/ publishLidar
            \/ pointcloud' = pointcloud /\ \E stamp \in Stamps : tf' = Append(tf, stamp)
            \/ UNCHANGED <<tf, pointcloud>>
<1>1. /\ tf \in Seq(Stamps) /\ odoms \in Seq(Stamps)
      /\ pointcloud \in Seq([stamp : Stamps, resolved : Stamps, after : Nat])
  BY Zenon DEF TypeOK
<1>2. CASE odomCallback
  <2>1. resolveStamp(Head(odoms)) \in Stamps
    <3>1. odoms # <<>>
      BY <1>2 DEF odomCallback
    <3> QED  BY <1>1, <3>1, StampsTyped
  <2> QED  BY <1>1, <1>2, <2>1 DEF odomCallback
<1>3. publishLidar \/ odomCallback \/ UNCHANGED <<tf, pointcloud>>
  BY DEF Next, vars, odomOut, publishJointStates, OdomArrives, CloudArrives,
         RobotClockMoves, NodeClockMoves
<1> QED  BY <1>1, <1>2, <1>3

LEMMA AfterStep == TypeOK /\ AfterGrows /\ [Next]_vars => AfterGrows'
<1> SUFFICES ASSUME TypeOK, AfterGrows, [Next]_vars PROVE AfterGrows'
  OBVIOUS
<1> DEFINE Clouds == [stamp : Stamps, resolved : Stamps, after : Nat]
<1>a. tf \in Seq(Stamps) /\ pointcloud \in Seq(Clouds)
  BY StampEffect, Zenon
<1>b. \A i \in DOMAIN pointcloud : pointcloud[i] \in Clouds
  <2> HIDE DEF Clouds
  <2> QED  BY <1>a
<1>1. /\ tf \in Seq(Stamps) /\ pointcloud \in Seq(Clouds) /\ Len(tf) \in Nat
      /\ \A i \in DOMAIN pointcloud : pointcloud[i].after \in Nat
  BY <1>a, <1>b
<1>2. CASE publishLidar
  <2>1. PICK cloud : pointcloud' = Append(pointcloud, cloud) /\ cloud.after = Len(tf)
                     /\ UNCHANGED tf
    BY <1>2 DEF publishLidar, odomOut
  <2>2. /\ DOMAIN pointcloud = 1 .. Len(pointcloud) /\ Len(pointcloud) \in Nat
        /\ DOMAIN pointcloud' = 1 .. Len(pointcloud) + 1
        /\ pointcloud'[Len(pointcloud) + 1] = cloud
        /\ \A i \in DOMAIN pointcloud : pointcloud'[i] = pointcloud[i] /\ pointcloud[i].after \in Nat
    BY <1>1, <2>1
  <2>3. \A i \in DOMAIN pointcloud' : pointcloud'[i].after <= Len(tf)
    BY <1>1, <2>1, <2>2 DEF AfterGrows
  <2>4. ASSUME NEW i \in DOMAIN pointcloud', NEW j \in DOMAIN pointcloud', i < j
        PROVE  pointcloud'[i].after <= pointcloud'[j].after
    BY <2>1, <2>2, <2>3, <2>4 DEF AfterGrows
  <2> QED  BY <2>1, <2>3, <2>4 DEF AfterGrows
<1>3. ASSUME pointcloud' = pointcloud, NEW stamp \in Stamps, tf' = Append(tf, stamp)
      PROVE  AfterGrows'
  <2>2. Len(tf') \in Nat /\ Len(tf) <= Len(tf')
    BY <1>1, <1>3
  <2>3. \A i \in DOMAIN pointcloud : pointcloud[i].after \in Nat
    BY <1>1
  <2>4. \A i \in DOMAIN pointcloud : pointcloud[i].after <= Len(tf')
    BY <1>1, <2>2, <2>3 DEF AfterGrows
  <2> QED  BY <1>3, <2>4 DEF AfterGrows
<1>4. CASE UNCHANGED <<tf, pointcloud>>
  BY <1>4 DEF AfterGrows
<1> QED  BY <1>2, <1>3, <1>4, StampEffect

(* Clamping takes the lesser of the cloud's stamp and the last transform's; *)
(* both only grow.                                                         *)
LEMMA OrderedImplies == TypeOK /\ StampsSound /\ AfterGrows => CloudsInOrder
<1> SUFFICES ASSUME TypeOK, StampsSound, AfterGrows,
                    \A i, j \in DOMAIN tf : i < j => ~(tf[i] > tf[j]),
                    \A i, j \in DOMAIN pointcloud :
                      i < j => ~(pointcloud[i].resolved > pointcloud[j].resolved),
                    NEW i \in DOMAIN pointcloud, NEW j \in DOMAIN pointcloud,
                    i < j, FollowsTf(pointcloud[i])
             PROVE  pointcloud[i].stamp <= pointcloud[j].stamp
  BY DEF CloudsInOrder
<1> DEFINE a == pointcloud[i]
           b == pointcloud[j]
<1>0. /\ tf \in Seq(Stamps)
      /\ pointcloud \in Seq([stamp : Stamps, resolved : Stamps, after : Nat])
  BY Zenon DEF TypeOK
<1>1. /\ a.stamp \in Nat /\ a.resolved \in Nat /\ a.after \in Nat
      /\ b.stamp \in Nat /\ b.resolved \in Nat /\ b.after \in Nat
  <2> DEFINE Clouds == [stamp : Stamps, resolved : Stamps, after : Nat]
  <2>1. pointcloud \in Seq(Clouds)
    BY <1>0
  <2> HIDE DEF Clouds
  <2>2. a \in Clouds /\ b \in Clouds
    BY <2>1
  <2> QED  BY <2>2 DEF Clouds, Stamps
<1>2. \A k \in 1 .. Len(tf) : k \in DOMAIN tf /\ tf[k] \in Nat
  BY <1>0 DEF Stamps
<1>3. Len(tf) \in Nat /\ a.after <= b.after /\ b.after <= Len(tf)
  BY <1>0 DEF AfterGrows
<1>4. a.after > 0 /\ tf[a.after] <= tf[b.after]
  <2>0. a.after > 0
    BY DEF FollowsTf
  <2>1. a.after \in 1 .. Len(tf) /\ b.after \in 1 .. Len(tf)
    BY <1>1, <1>3, <2>0
  <2>2. CASE a.after = b.after
    BY <1>2, <2>1, <2>2
  <2>3. CASE a.after < b.after
    BY <1>2, <2>1, <2>3
  <2> QED  BY <1>1, <1>3, <2>0, <2>2, <2>3
<1>5. /\ a.stamp <= tf[a.after] /\ (a.stamp # a.resolved => a.stamp < a.resolved)
      /\ b.stamp = b.resolved \/ b.stamp = tf[b.after]
  BY DEF StampsSound, CloudSound, FollowsTf
<1>6. a.resolved <= b.resolved
  BY <1>1
<1>7. tf[a.after] \in Nat /\ tf[b.after] \in Nat
  BY <1>1, <1>2, <1>3, <1>4
<1> HIDE DEF a, b
<1> QED  BY <1>1, <1>4, <1>5, <1>6, <1>7 DEF a, b

(* Clamping never turns the order of two clouds round, for any clocks.     *)
THEOREM CloudsOrdered == Spec => []CloudsInOrder
<1>1. Init => AfterGrows
  BY DEF Init, AfterGrows
<1> QED  BY <1>1, TypeInit, TypeStep, StampsInit, StampsStep, AfterStep, OrderedImplies,
            PTL DEF Spec

-----------------------------------------------------------------------------
(* The pose, and the joints.                                               *)

(* When both are published, what was broadcast last and what was published *)
(* last come from the same message.                                        *)
BothFromOne ==
  params.publish_tf /\ params.publish_odom =>
    /\ tf = odometry
    /\ tf # <<>> => \E pose \in Poses :
         /\ transforms = <<Footprint(pose), Body(pose)>>
         /\ odom_pose = <<[pose EXCEPT !.z = @ + BodyZOffset]>>

LEMMA BothStep == TypeOK /\ BothFromOne /\ [Next]_vars => BothFromOne'
<1> SUFFICES ASSUME TypeOK, BothFromOne, [Next]_vars PROVE BothFromOne'
  OBVIOUS
<1> SUFFICES ASSUME params.publish_tf, params.publish_odom
             PROVE  /\ tf' = odometry'
                    /\ \/ tf' = <<>>
                       \/ \E pose \in Poses :
                            /\ transforms' = <<Footprint(pose), Body(pose)>>
                            /\ odom_pose' = <<[pose EXCEPT !.z = @ + BodyZOffset]>>
  <2>1. params' = params
    <3>1. CASE publishLidar \/ odomCallback \/ publishJointStates
      BY <3>1, Zenon DEF publishLidar, odomCallback, publishJointStates
    <3>2. CASE OdomArrives \/ CloudArrives \/ RobotClockMoves \/ NodeClockMoves
      BY <3>2, Zenon DEF OdomArrives, CloudArrives, RobotClockMoves, NodeClockMoves
    <3>3. CASE UNCHANGED vars
      BY <3>3, Zenon DEF vars
    <3> QED  BY <3>1, <3>2, <3>3 DEF Next
  <2>2. BothFromOne <=>
          (params.publish_tf /\ params.publish_odom =>
             /\ tf = odometry
             /\ \/ tf = <<>>
                \/ \E pose \in Poses :
                     /\ transforms = <<Footprint(pose), Body(pose)>>
                     /\ odom_pose = <<[pose EXCEPT !.z = @ + BodyZOffset]>>)
    BY Zenon DEF BothFromOne
  <2> QED  BY <2>1, Zenon DEF BothFromOne
<1>1. CASE odomCallback
  BY <1>1, Zenon DEF odomCallback, BothFromOne
<1>2. CASE UNCHANGED odomOut
  BY <1>2, Zenon DEF odomOut, BothFromOne
<1>3. odomCallback \/ UNCHANGED odomOut
  BY DEF Next, vars, publishLidar, publishJointStates, OdomArrives, CloudArrives,
         RobotClockMoves, NodeClockMoves
<1> QED  BY <1>1, <1>2, <1>3

(* Heading and tilt, one after the other, are the whole rotation.          *)
LEMMA HeadingThenTilt ==
  ASSUME NEW q \in [length : Nat, turns : Rotations], q.length > 0
  PROVE  Heading(q).turns \o Tilt(q).turns = q.turns
<1> DEFINE rpy == getRPY(q)
<1>1. rpy \in RPYs /\ setRPY(rpy.roll, rpy.pitch, rpy.yaw).turns = q.turns
  <2>1. \E a \in RPYs : setRPY(a.roll, a.pitch, a.yaw).turns = q.turns
    BY DEF Rotations
  <2> QED  BY <2>1 DEF getRPY
<1> HIDE DEF rpy
<1> DEFINE yaw == Turn("z", rpy.yaw)
           tilt == Turn("y", rpy.pitch) \o Turn("x", rpy.roll)
           Turns == [axis : {"x", "y", "z"}, angle : Angles]
<1>2. ASSUME NEW axis \in {"x", "y", "z"}, NEW angle \in Angles
      PROVE  Turn(axis, angle) \in Seq(Turns)
  <2> DEFINE turn == [axis |-> axis, angle |-> angle]
  <2>1. turn \in Turns
    BY <1>2
  <2>2. Turn(axis, angle) = <<>> \/ Turn(axis, angle) = <<turn>>
    BY DEF Turn
  <2> HIDE DEF turn, Turns
  <2>3. CASE Turn(axis, angle) = <<>>
    BY <2>3
  <2>4. CASE Turn(axis, angle) = <<turn>>
    BY <2>1, <2>4
  <2> QED  BY <2>2, <2>3, <2>4
<1>3. Turn("z", 0) = <<>> /\ Turn("x", 0) = <<>> /\ Turn("y", 0) = <<>>
  BY DEF Turn
<1>4. yaw \in Seq(Turns) /\ tilt \in Seq(Turns)
      /\ Turn("y", rpy.pitch) \in Seq(Turns) /\ Turn("x", rpy.roll) \in Seq(Turns)
  <2>1. rpy.roll \in Angles /\ rpy.pitch \in Angles /\ rpy.yaw \in Angles
    BY <1>1 DEF RPYs
  <2> HIDE DEF Turns
  <2> QED  BY <1>2, <2>1
<1> HIDE DEF Turns
<1>5. Heading(q).turns = yaw
  <2>1. Heading(q).turns = yaw \o <<>> \o <<>>
    BY <1>3 DEF Heading, setRPY, rpy
  <2> HIDE DEF yaw
  <2> QED  BY <1>4, <2>1
<1>6. Tilt(q).turns = tilt
  <2>1. Tilt(q).turns = <<>> \o Turn("y", rpy.pitch) \o Turn("x", rpy.roll)
    BY <1>3 DEF Tilt, setRPY, rpy
  <2> QED  BY <1>4, <2>1
<1>7. q.turns = yaw \o tilt
  <2>1. q.turns = yaw \o Turn("y", rpy.pitch) \o Turn("x", rpy.roll)
    BY <1>1 DEF setRPY
  <2> HIDE DEF yaw
  <2> QED  BY <1>4, <2>1
<1> QED  BY <1>5, <1>6, <1>7

(* The first transform turns about the vertical only.                      *)
LEMMA HeadingIsUpright ==
  ASSUME NEW q
  PROVE  \A k \in DOMAIN Heading(q).turns : Heading(q).turns[k].axis = "z"
<1>1. Heading(q).turns = Turn("z", getRPY(q).yaw) \o <<>> \o <<>>
  BY DEF Heading, setRPY, Turn
<1> DEFINE angle == getRPY(q).yaw
<1> HIDE DEF angle
<1>2. Turn("z", angle) \o <<>> \o <<>> = Turn("z", angle)
  BY DEF Turn
<1>3. \A k \in DOMAIN Turn("z", angle) : Turn("z", angle)[k].axis = "z"
  BY DEF Turn
<1> QED  BY <1>1, <1>2, <1>3 DEF angle

LEMMA BothImplies == BothFromOne => TfAgreesWithOdometry
<1> SUFFICES ASSUME BothFromOne, params.publish_tf, params.publish_odom, tf # <<>>
             PROVE  Reaches(transforms[1], transforms[2], odom_pose[1])
  BY Zenon DEF TfAgreesWithOdometry, BothFromOne
<1>1. PICK pose \in Poses : /\ transforms = <<Footprint(pose), Body(pose)>>
                            /\ odom_pose = <<[pose EXCEPT !.z = @ + BodyZOffset]>>
  BY DEF BothFromOne
<1>2. transforms[1] = Footprint(pose) /\ transforms[2] = Body(pose)
  BY <1>1
<1>3. pose \in PoseType /\ BodyZOffset \in Int
  BY DriverAssumption DEF DriverAssumption
<1> DEFINE q == pose.orientation
           published == odom_pose[1]
<1>4. /\ q \in [length : Nat, turns : Rotations]
      /\ published.x = pose.x /\ published.y = pose.y /\ published.orientation = q
      /\ published.z = 0 + (pose.z + BodyZOffset)
  BY <1>1, <1>3 DEF PoseType
<1>5. /\ transforms[1].child = transforms[2].parent
      /\ transforms[1].x = pose.x /\ transforms[1].y = pose.y /\ transforms[1].z = 0
      /\ transforms[2].x = 0 /\ transforms[2].y = 0
      /\ transforms[2].z = pose.z + BodyZOffset
      /\ transforms[1].rotation = Heading(q) /\ transforms[2].rotation = Tilt(q)
  BY <1>2 DEF Footprint, Body, makeTransform
<1> HIDE DEF q, published
<1>6. \A k \in DOMAIN Heading(q).turns : Heading(q).turns[k].axis = "z"
  BY HeadingIsUpright
<1>7. q.length > 0 => q.turns = Heading(q).turns \o Tilt(q).turns
  BY <1>4, HeadingThenTilt
<1> QED  BY <1>4, <1>5, <1>6, <1>7 DEF Reaches, published

(* TF and odometry put the robot in the same place, turned the same way.   *)
THEOREM TfIsOdometry == Spec => []TfAgreesWithOdometry
<1>1. Init => BothFromOne
  BY DEF Init, BothFromOne
<1> QED  BY <1>1, TypeInit, TypeStep, BothStep, BothImplies, PTL DEF Spec

LEMMA TablesAgree == \A i \in 1 .. 12 : motor_state[g_MOTOR_STATE_INDEX[i]] = g_JOINT_NAMES[i]
<1> SUFFICES ASSUME NEW i \in 1 .. 12
             PROVE  motor_state[g_MOTOR_STATE_INDEX[i]] = g_JOINT_NAMES[i]
  OBVIOUS
<1> DEFINE k == g_MOTOR_STATE_INDEX[i] + 1
<1>1. k \in 1 .. 12 /\ ((i - 1) % 3) + 1 = ((k - 1) % 3) + 1
  BY DEF g_MOTOR_STATE_INDEX
<1>2. <<"FR", "FL", "RR", "RL">>[(k + 2) \div 3] = <<"FL", "FR", "RL", "RR">>[(i + 2) \div 3]
  BY DEF g_MOTOR_STATE_INDEX
<1>3. motor_state[k - 1] = LegByLeg(<<"FR", "FL", "RR", "RL">>)[k]
  BY <1>1 DEF motor_state
<1>4. k - 1 = g_MOTOR_STATE_INDEX[i]
  BY DEF g_MOTOR_STATE_INDEX
<1> HIDE DEF k
<1> QED  BY <1>1, <1>2, <1>3, <1>4 DEF LegByLeg, g_JOINT_NAMES

LEMMA JointsStep == JointsNamedRight /\ [Next]_vars => JointsNamedRight'
<1> SUFFICES ASSUME JointsNamedRight, [Next]_vars PROVE JointsNamedRight'
  OBVIOUS
<1>1. CASE publishJointStates
  <2>1. DOMAIN g_JOINT_NAMES = 1 .. 12
    BY DEF g_JOINT_NAMES, LegByLeg
  <2> QED  BY <1>1, <2>1, TablesAgree DEF publishJointStates, JointsNamedRight
<1>2. CASE UNCHANGED joint_states
  BY <1>2 DEF JointsNamedRight
<1>3. publishJointStates \/ UNCHANGED joint_states
  BY DEF Next, vars, publishLidar, odomCallback, OdomArrives, CloudArrives,
         RobotClockMoves, NodeClockMoves
<1> QED  BY <1>1, <1>2, <1>3

(* No joint's position is published under another's name.                  *)
THEOREM JointsNamed == Spec => []JointsNamedRight
<1>1. Init => JointsNamedRight
  BY DEF Init, JointsNamedRight
<1> QED  BY <1>1, JointsStep, PTL DEF Spec
=============================================================================
