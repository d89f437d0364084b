---------------------------- MODULE MCGo2Driver -----------------------------
(* Small instances of Go2Driver for TLC.                                   *)
EXTENDS Go2Driver

AllParameters ==
  [use_msg_stamp : BOOLEAN, publish_tf : BOOLEAN, publish_odom : BOOLEAN]

DefaultParameters == {Declared}

Turned(length, roll, pitch, yaw) ==
  [length |-> length, turns |-> setRPY(roll, pitch, yaw).turns]

(* Turned about every axis, by a quaternion that is not a unit; and no     *)
(* rotation.                                                               *)
TwoPoses ==
  {[x |-> 1, y |-> 2, z |-> 3, orientation |-> Turned(2, 1, 2, 3)],
   [x |-> 2, y |-> 1, z |-> 0, orientation |-> Turned(0, 0, 0, 0)]}

OnePose == {[x |-> 1, y |-> 2, z |-> 3, orientation |-> Turned(1, 1, 2, 3)]}

Forward == {1}
BackAndForth == {-2, 1}
=============================================================================
