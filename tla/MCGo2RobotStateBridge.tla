----------------------- MODULE MCGo2RobotStateBridge ------------------------
(* Small instances of Go2RobotStateBridge for TLC.                         *)
EXTENDS Go2RobotStateBridge, TLC

CONSTANTS r1, r2, r3

MCCodes == {0, 5201}

(* Two switch replies, one without a status, a list, and no JSON at all.   *)
MCData == {"running", "stopped", "empty object", "list", "garbage"}

MCStatusIn == [data \in {"running", "stopped"} |-> IF data = "running" THEN 0 ELSE 1]

(* A running service, one whose status is missing, and a stray number.     *)
MCListIn ==
  [data \in {"list"} |->
     <<[name |-> "mcf", status |-> 0, protect |-> 1],
       [name |-> "ota_box"],
       NotAnObject>>]

SmallData == {"running", "list"}
RunningOnly == [data \in {"running"} |-> 0]

NoOffset == {0}
LateOffset == {0, 1}
ClientSymmetry == Permutations(Clients)
=============================================================================
