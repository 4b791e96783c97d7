---------------------------- MODULE MCAlarmList ----------------------------
(* AlarmList for TLC.                                                      *)
EXTENDS AlarmList
=============================================================================
