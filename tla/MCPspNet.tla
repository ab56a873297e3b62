------------------------------ MODULE MCPspNet ------------------------------
(* Network start-up with the code's 10-second loops and the state poll cut *)
(* to a few rounds: every round of the poll only repeats the one before.   *)
EXTENDS PspNet

TypeOK == NetTypeOK
=============================================================================
