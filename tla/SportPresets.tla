---------------------------- MODULE SportPresets ----------------------------
(***************************************************************************)
(* The mode presets of go2_sport_bridge and the Sport API commands they    *)
(* are made of.                                                            *)
(***************************************************************************)
EXTENDS Integers, Sequences

CONSTANT MsPerTick   \* milliseconds one tick of the modelled clocks stands for

SportApiId == [
  DAMP |-> 1001, BALANCE_STAND |-> 1002, STOP_MOVE |-> 1003, STAND_UP |-> 1004,
  STAND_DOWN |-> 1005, RECOVERY_STAND |-> 1006, EULER |-> 1007, MOVE |-> 1008,
  SIT |-> 1009, RISE_SIT |-> 1010, HELLO |-> 1016, STRETCH |-> 1017,
  CONTENT |-> 1020, DANCE1 |-> 1022, DANCE2 |-> 1023, SCRAPE |-> 1029,
  FRONT_FLIP |-> 1030, FRONT_JUMP |-> 1031, FRONT_POUNCE |-> 1032,
  FINGER_HEART |-> 1036, SPEED_LEVEL |-> 1015, SWITCH_JOYSTICK |-> 1027,
  POSE |-> 1028, STATIC_WALK |-> 1061, TROT_RUN |-> 1062, ECONOMIC_GAIT |-> 1063,
  LEFT_FLIP |-> 2041, BACK_FLIP |-> 2043, HAND_STAND |-> 2044, FREE_WALK |-> 2045,
  FREE_BOUND |-> 2046, FREE_JUMP |-> 2047, FREE_AVOID |-> 2048,
  CLASSIC_WALK |-> 2049, WALK_UPRIGHT |-> 2050, CROSS_STEP |-> 2051,
  AUTO_RECOVERY_SET |-> 2054, AUTO_RECOVERY_GET |-> 2055, SWITCH_AVOID_MODE |-> 2058]

(* A SportCommandStep: the command, and the wait after it in ticks.  Its   *)
(* parameter is a payload no property tells apart.                         *)
step(name, wait_ms_after) ==
  [api_id |-> SportApiId[name], wait_after |-> wait_ms_after \div MsPerTick]

One(name) == <<step(name, 0)>>

initPresets == [
  damp |-> One("DAMP"), balance_stand |-> One("BALANCE_STAND"),
  stop_move |-> One("STOP_MOVE"), stand_down |-> One("STAND_DOWN"),
  recovery_stand |-> One("RECOVERY_STAND"), sit |-> One("SIT"),
  rise_sit |-> One("RISE_SIT"), hello |-> One("HELLO"),
  stretch |-> One("STRETCH"), content |-> One("CONTENT"),
  scrape |-> One("SCRAPE"), dance1 |-> One("DANCE1"), dance2 |-> One("DANCE2"),
  finger_heart |-> One("FINGER_HEART"), static_walk |-> One("STATIC_WALK"),
  trot_run |-> One("TROT_RUN"), economic_gait |-> One("ECONOMIC_GAIT"),
  classic_walk |-> One("CLASSIC_WALK"), walk_upright |-> One("WALK_UPRIGHT"),
  cross_step |-> One("CROSS_STEP"), free_walk |-> One("FREE_WALK"),
  free_bound |-> One("FREE_BOUND"), free_jump |-> One("FREE_JUMP"),
  free_avoid |-> One("FREE_AVOID"),
  switch_avoid_mode |-> One("SWITCH_AVOID_MODE"),
  auto_recovery_set |-> One("AUTO_RECOVERY_SET"),
  front_flip |-> One("FRONT_FLIP"), front_jump |-> One("FRONT_JUMP"),
  front_pounce |-> One("FRONT_POUNCE"), left_flip |-> One("LEFT_FLIP"),
  back_flip |-> One("BACK_FLIP"), hand_stand |-> One("HAND_STAND"),
  stand_down_damp |-> <<step("STAND_DOWN", 2000), step("DAMP", 0)>>]

DefaultBlockedModes == {"front_flip", "back_flip", "left_flip", "hand_stand"}
=============================================================================
