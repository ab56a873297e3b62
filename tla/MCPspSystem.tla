----------------------------- MODULE MCPspSystem ----------------------------
(* The tick, audio and emulator threads at the priorities main_psp.cpp and *)
(* audio_psp.cpp give them, with one_tick's counters at 1 so that a second *)
(* passes every other tick.                                                *)
EXTENDS PspSystem

MCThreads == {"tick", "filler", "output", "emu"}

\* 0x14, 0x15, 0x16, and the default priority 0x20 of the PSP main thread
MCPrio == [t \in MCThreads |->
              CASE t = "tick" -> 20 [] t = "filler" -> 21
                [] t = "output" -> 22 [] OTHER -> 32]

\* the order of the IRQ handler's tests
MCIrqOrder == <<"60HZ", "1HZ", "AUDIO">>

TypeOK ==
    /\ IrqTypeOK(AudioEmuPcs \cup TickEmuPcs \cup {"done"})
    /\ AudioTypeOK
    /\ TickTypeOK

\* hzSinceSecond is a ghost counter no property of these runs reads
GhostBound == hzSinceSecond <= CounterLimit + 1
=============================================================================
