------------------------------ MODULE PspSystem -----------------------------
(***************************************************************************)
(* The PSP port's threads together: the 60 Hz tick thread (PspTick), the  *)
(* two audio threads (PspAudio) and the emulator (main) thread, sharing    *)
(* the InterruptFlags word (PspIrq) under the PSP's priority scheduler.    *)
(*                                                                         *)
(* main runs AudioInit (in InitAll), starts the tick thread and the 68k;   *)
(* the 68k's IRQ handler services INTFLAG_60HZ, INTFLAG_1HZ and            *)
(* INTFLAG_AUDIO in that order; QuitEmulator cancels the tick thread,      *)
(* waits, and runs ExitAll, whose AudioExit stops the audio threads,       *)
(* before it frees the Mac RAM.                                            *)
(***************************************************************************)
EXTENDS PspAudio, PspTick

SysReady(t) ==
    CASE t = "tick"   -> TickReady
      [] t = "filler" -> FillerReady
      [] t = "output" -> OutputReady
      [] OTHER        -> /\ emu.pc # "done"
                         /\ emu.pc = "quit_delay" => tick \in {"none", "done"}

sysVars == <<irqVars, emu, audioVars, tickVars>>

SysInit ==
    /\ IrqInit
    /\ AudioInit
    /\ TickInit
    /\ emu = [pc |-> "init", idx |-> 0]

(* QuitEmulator after ExitAll: the Mac RAM is freed and the program ends.  *)
SysExitRest ==
    /\ emu.pc = "exit_all"
    /\ emu' = [emu EXCEPT !.pc = "done"]
    /\ UNCHANGED <<irqVars, audioVars, tickVars>>

SysTick   == Runs("tick", SysReady) /\ TickStep /\ UNCHANGED audioVars
SysFiller == Runs("filler", SysReady) /\ FillerStep /\ UNCHANGED tickVars
SysOutput == Runs("output", SysReady) /\ OutputStep /\ UNCHANGED tickVars

SysEmu ==
    /\ Runs("emu", SysReady)
    /\ \/ EmuIrqStep /\ UNCHANGED <<audioVars, tickVars>>
       \/ EmuServicePlain({"60HZ", "1HZ"}) /\ UNCHANGED <<audioVars, tickVars>>
       \/ AudioEmuStep /\ UNCHANGED tickVars
       \/ TickEmuStep /\ UNCHANGED audioVars
       \/ SysExitRest

(* What the 68k program does of its own accord: open or close a sound      *)
(* source, or end.                                                         *)
SysChooses ==
    /\ Runs("emu", SysReady)
    /\ \/ EmuSources /\ UNCHANGED tickVars
       \/ TickQuit /\ UNCHANGED audioVars

SysTimer == TickTimer /\ UNCHANGED audioVars
SysHw == HwBlockDone /\ UNCHANGED tickVars

SysNext ==
    \/ SysTick \/ SysFiller \/ SysOutput \/ SysEmu \/ SysChooses
    \/ SysTimer \/ SysHw
    \/ emu.pc = "done" /\ UNCHANGED sysVars

(* The tick thread runs whenever it is ready: it outranks all.  The audio  *)
(* threads run when the tick thread sleeps, for 16.6 ms of every period,   *)
(* and the emulator thread whenever the others all block: each runs when   *)
(* the scheduler gets to it again and again (strong fairness).  The timer  *)
(* and the audio hardware always fire.                                     *)
SysSpec ==
    /\ SysInit
    /\ [][SysNext]_sysVars
    /\ WF_sysVars(SysTick)
    /\ SF_sysVars(SysFiller)
    /\ SF_sysVars(SysOutput)
    /\ SF_sysVars(SysEmu)
    /\ WF_sysVars(SysTimer)
    /\ WF_sysVars(SysHw)

=============================================================================
