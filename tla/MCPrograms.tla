----------------------------- MODULE MCPrograms -----------------------------
(* Instances of the programs for TLC. *)
EXTENDS Programs

CONSTANTS ga, gb, gn   \* MOTOR_STATUS_V1, another type, and one without notify

MotorOnly == {[program |-> "motor", versions |-> {ga, gb}, left |-> {ga, gn}]}
MotorAndWatch == MotorOnly \cup {[program |-> "watch", versions |-> {ga}, left |-> {gn}]}
=============================================================================
