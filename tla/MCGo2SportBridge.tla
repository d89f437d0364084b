-------------------------- MODULE MCGo2SportBridge --------------------------
(* Small instances of Go2SportBridge for TLC.                              *)
EXTENDS Go2SportBridge, TLC

CONSTANTS r1, r2, r3

MCCodes == {0, -1}
Accepting == {0}
FlagData == {"true", "unreadable"}
AnyData == {"true"}
NoOffset == {0}
LateOffset == {0, 1}
ClientSymmetry == Permutations(Clients)

Mode(name) == [service |-> "mode", mode |-> name]
Service(name) == [service |-> name]
Level(level) == [service |-> "speed_level", level |-> level]

(* A two-step mode against a one-step one and another service.             *)
Contending == {Mode("stand_down_damp"), Mode("damp"), Service("euler")}

(* Every service, with what it takes and what it refuses.                  *)
EveryService ==
  {Mode("stand_down_damp"), Mode("front_flip"), Mode("moonwalk"),
   Level(-1), Level(0), Service("switch_joystick"), Service("euler"),
   Service("pose"), Service("get_auto_recovery")}

(* Those, and every preset.                                                *)
EveryRequest == EveryService \cup {Mode(name) : name \in DOMAIN initPresets}
=============================================================================
