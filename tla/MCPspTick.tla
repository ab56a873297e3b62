------------------------------ MODULE MCPspTick -----------------------------
(* The tick thread and the emulator thread, at the priorities main_psp.cpp *)
(* gives them, with the two flags the tick thread raises.                  *)
EXTENDS PspTick

MCThreads == {"tick", "emu"}

\* 0x14, and the default priority 0x20 of the PSP main thread
MCPrio == [t \in MCThreads |-> IF t = "tick" THEN 20 ELSE 32]

\* the order of the IRQ handler's tests
MCIrqOrder == <<"60HZ", "1HZ">>

TypeOK == IrqTypeOK(TickEmuPcs \cup {"done"}) /\ TickTypeOK

\* hzSinceSecond is a ghost counter; bound it for the short runs
HzBound == hzSinceSecond <= 61
=============================================================================
