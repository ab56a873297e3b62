------------------------------ MODULE PspTick -------------------------------
(***************************************************************************)
(* The 60 Hz tick thread of the PSP port and the part of QuitEmulator that *)
(* stops it, src/PSP/main_psp.cpp.                                         *)
(*                                                                         *)
(* tick_func (priority 0x14, the highest of the emulator's threads) calls  *)
(* one_tick and sleeps 16625 us, until QuitEmulator sets                   *)
(* tick_thread_cancel.  one_tick counts ticks with "++tick_counter > 60"   *)
(* and on overflow calls one_second, which writes the Mac clock, raises    *)
(* INTFLAG_1HZ and, with its own counter, runs the XPRAM watchdog; then    *)
(* one_tick raises INTFLAG_60HZ.  The sleep is the only place the thread   *)
(* blocks, and a timer wakes it; the relaxed and the timed loop differ     *)
(* only in how long it sleeps, which this model has no clock for.          *)
(*                                                                         *)
(* CounterLimit is the 60 of the two counters' tests.                      *)
(***************************************************************************)
EXTENDS PspIrq

CONSTANT CounterLimit

ASSUME CounterLimit \in Nat \ {0}

VARIABLES
    tick,           \* tick_func's pc
    tickCounter,    \* one_tick's static tick_counter
    secondCounter,  \* one_second's static second_counter
    tickCancel,     \* tick_thread_cancel
    tickActive,     \* tick_thread_active
    hzSinceSecond   \* INTFLAG_60HZ raises since (and with) the last 1HZ raise

tickVars == <<tick, tickCounter, secondCounter, tickCancel, tickActive,
              hzSinceSecond>>

TickPcs == {"none", "loop", "sleep", "done"}
TickEmuPcs == {"init_done", "quit", "quit_delay", "exit"}

TickTypeOK ==
    /\ tick \in TickPcs
    /\ tickCounter \in 0..CounterLimit
    /\ secondCounter \in 0..CounterLimit
    /\ tickCancel \in BOOLEAN /\ tickActive \in BOOLEAN
    /\ hzSinceSecond \in Nat

TickInit ==
    /\ tick = "none"
    /\ tickCounter = 0 /\ secondCounter = 0
    /\ tickCancel = FALSE /\ tickActive = FALSE
    /\ hzSinceSecond = 0

(* "++counter > 60": the counter after the increment, and whether it       *)
(* overflowed (it is then reset to 0).                                     *)
Overflows(c) == c + 1 > CounterLimit

Bumped(c) == IF Overflows(c) THEN 0 ELSE c + 1

TickReady == tick = "loop"

(* SetInterruptFlag as the tick thread runs it: it outranks every other   *)
(* thread, so none runs between its load and its store.                    *)
TickSetFlags(F) ==
    /\ InterruptFlags' = InterruptFlags \cup F
    /\ lost' = lost \ F

(* A mutant: the loop no longer tests tick_thread_cancel.                 *)
TickLoopNoCancel ==
    /\ tick = "loop"
    /\ tickCounter' = Bumped(tickCounter)
    /\ IF Overflows(tickCounter)
          THEN /\ TickSetFlags({"1HZ", "60HZ"})
               /\ secondCounter' = Bumped(secondCounter)
               /\ hzSinceSecond' = 1
          ELSE /\ TickSetFlags({"60HZ"})
               /\ UNCHANGED secondCounter
               /\ hzSinceSecond' = hzSinceSecond + 1
    /\ tick' = "sleep"
    /\ UNCHANGED <<flagReg, emu, tickCancel, tickActive>>

(* while (!tick_thread_cancel) one_tick(), up to the sleep.  one_tick      *)
(* bumps tick_counter; on its overflow one_second writes the Mac clock     *)
(* (WriteMacInt32(0x20c, TimerDateTime())), raises INTFLAG_1HZ and bumps   *)
(* second_counter, whose overflow runs xpram_watchdog (a save of XPRAM     *)
(* when it changed); then one_tick raises INTFLAG_60HZ.  Each raise is     *)
(* SetInterruptFlag and TriggerInterrupt.  (one_tick's test of             *)
(* ROM_VERSION_CLASSIC and HasMacStarted is taken as true.)                *)
TickLoop ==
    /\ tick = "loop"
    /\ \/ /\ tickCancel
          /\ tick' = "done"
          /\ UNCHANGED <<InterruptFlags, lost, tickCounter, secondCounter,
                         hzSinceSecond>>
       \/ /\ ~tickCancel
          /\ tickCounter' = Bumped(tickCounter)
          /\ IF Overflows(tickCounter)
                THEN /\ TickSetFlags({"1HZ", "60HZ"})
                     /\ secondCounter' = Bumped(secondCounter)
                     /\ hzSinceSecond' = 1
                ELSE /\ TickSetFlags({"60HZ"})
                     /\ UNCHANGED secondCounter
                     /\ hzSinceSecond' = hzSinceSecond + 1
          /\ tick' = "sleep"
    /\ UNCHANGED <<flagReg, emu, tickCancel, tickActive>>

TickStep == TickLoop

(* The sleep's timer expires.                                              *)
TickTimer ==
    /\ tick = "sleep"
    /\ tick' = "loop"
    /\ UNCHANGED <<irqVars, emu, tickCounter, secondCounter, tickCancel,
                   tickActive, hzSinceSecond>>

-----------------------------------------------------------------------------
(* The emulator thread: starting the tick thread, and QuitEmulator         *)

(* main, after InitAll: the tick thread is created and started (it runs at *)
(* once, outranking main), then tick_thread_active is set and the 68k      *)
(* started; if it cannot be created, QuitEmulator.                         *)
TickStart ==
    /\ emu.pc = "init_done"
    /\ \/ /\ tick' = "loop" /\ tickActive' = TRUE
          /\ emu' = [emu EXCEPT !.pc = "run"]
       \/ /\ UNCHANGED <<tick, tickActive>>
          /\ emu' = [emu EXCEPT !.pc = "quit"]
    /\ UNCHANGED <<irqVars, tickCounter, secondCounter, tickCancel,
                   hzSinceSecond>>

(* The 68k program ends: Exit680x0, and QuitEmulator goes on.              *)
TickQuit ==
    /\ emu.pc = "run"
    /\ emu' = [emu EXCEPT !.pc = "quit"]
    /\ UNCHANGED <<irqVars, tickVars>>

(* if (tick_thread_active) { tick_thread_cancel = true; ...                *)
QuitCancel ==
    /\ emu.pc = "quit"
    /\ \/ /\ tickActive
          /\ tickCancel' = TRUE
          /\ emu' = [emu EXCEPT !.pc = "quit_delay"]
       \/ /\ ~tickActive
          /\ UNCHANGED tickCancel
          /\ emu' = [emu EXCEPT !.pc = "exit"]
    /\ UNCHANGED <<irqVars, tick, tickCounter, secondCounter, tickActive,
                   hzSinceSecond>>

(* ... sceKernelDelayThread(100*1000); }, then ExitAll.  The 100 ms are    *)
(* six tick periods: the tick thread, waking every 16.6 ms at the highest  *)
(* priority, has seen the cancel flag and ended by then.                   *)
QuitDelay ==
    /\ emu.pc = "quit_delay"
    /\ tick \in {"none", "done"}
    /\ emu' = [emu EXCEPT !.pc = "exit"]
    /\ UNCHANGED <<irqVars, tickVars>>

TickEmuStep == TickStart \/ QuitCancel \/ QuitDelay

-----------------------------------------------------------------------------
(* The tick thread on its own                                              *)

(* The rest of QuitEmulator: ExitAll, the freeing of the Mac RAM, and the  *)
(* end of the program.                                                     *)
TickExitRest ==
    /\ emu.pc = "exit"
    /\ emu' = [emu EXCEPT !.pc = "done"]
    /\ UNCHANGED <<irqVars, tickVars>>

TickSpecReady(t) ==
    IF t = "tick" THEN TickReady
    ELSE emu.pc # "done" /\ (emu.pc = "quit_delay" => tick \in {"none", "done"})

tickSpecVars == <<irqVars, emu, tickVars>>

TickSpecInit ==
    /\ IrqInit
    /\ TickInit
    /\ emu = [pc |-> "init_done", idx |-> 0]

TickRuns == Runs("tick", TickSpecReady) /\ TickStep

TickEmuRuns ==
    /\ Runs("emu", TickSpecReady)
    /\ \/ EmuIrqStep /\ UNCHANGED tickVars
       \/ EmuServicePlain({"60HZ", "1HZ"}) /\ UNCHANGED tickVars
       \/ TickEmuStep
       \/ TickExitRest

TickSpecNext ==
    \/ TickRuns \/ TickEmuRuns \/ TickTimer
    \/ Runs("emu", TickSpecReady) /\ TickQuit
    \/ emu.pc = "done" /\ UNCHANGED tickSpecVars

(* The tick thread is the highest ready thread whenever it is ready, and   *)
(* its timer always expires (weak fairness); the emulator thread runs      *)
(* whenever the tick thread sleeps, which it does again and again (strong  *)
(* fairness).                                                              *)
TickSpec ==
    /\ TickSpecInit
    /\ [][TickSpecNext]_tickSpecVars
    /\ WF_tickSpecVars(TickRuns)
    /\ WF_tickSpecVars(TickTimer)
    /\ SF_tickSpecVars(TickEmuRuns)

-----------------------------------------------------------------------------
(* Properties                                                              *)

(* QuitEmulator gets through: the tick thread sees tick_thread_cancel and  *)
(* ends, so the delay before ExitAll ends and the program exits.           *)
QuitCompletes == emu.pc = "quit" ~> emu.pc = "done"

(* The Mac's 1 Hz interrupt comes once a second of 60 Hz interrupts: one   *)
(* INTFLAG_1HZ raise for every 60 INTFLAG_60HZ raises ("Pseudo Mac 1Hz     *)
(* interrupt", "60Hz thread"): when a 1HZ raise comes, 60 60HZ raises came *)
(* since (and with) the one before.                                        *)
OneSecondPer60Ticks ==
    [][hzSinceSecond' = 1 /\ hzSinceSecond > 1 => hzSinceSecond = 60]_tickSpecVars

=============================================================================
