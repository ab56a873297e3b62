------------------------------- MODULE PspIrq -------------------------------
(***************************************************************************)
(* The interrupt-flag word of the PSP port (src/PSP/main_psp.cpp 741-754)  *)
(* and the emulator thread's side of it.                                   *)
(*                                                                         *)
(* SetInterruptFlag and ClearInterruptFlag are "InterruptFlags |= flag"    *)
(* and "InterruptFlags &= ~flag" on a plain uint32: a load, then a store   *)
(* of the modified word, and the kernel may switch threads between the     *)
(* two.  Each is therefore two steps, the loaded word being kept in        *)
(* flagReg[t] until the store.                                             *)
(*                                                                         *)
(* The emulator thread is the PSP main thread, which runs the 68k.  When   *)
(* the flag word is non-zero it enters the level-1 interrupt handler       *)
(* (EmulOp M68K_EMUL_OP_IRQ, generic emulator code outside this            *)
(* repository), which tests the flags one by one in IrqOrder and, for each *)
(* set flag, clears it and then services it.  The service of a flag is     *)
(* defined by the module of the component that raised it.                  *)
(*                                                                         *)
(* The PSP kernel schedules one thread at a time: the ready thread of      *)
(* highest priority (lowest number) runs, and a thread that becomes ready  *)
(* preempts a running one of lower priority at once.  Runs(t, Ready) is    *)
(* that rule, for the readiness predicate of the composing module.         *)
(***************************************************************************)
EXTENDS Naturals, Sequences, Functions

CONSTANTS
    Threads,    \* the threads of the composing module
    Prio,       \* Prio[t]: the priority t was created with
    IrqOrder    \* the flags, in the order the IRQ handler tests them

ASSUME /\ "emu" \in Threads
       /\ Prio \in [Threads -> Nat]
       /\ IrqOrder \in Seq(STRING) /\ IsInjective(IrqOrder)

VARIABLES
    InterruptFlags,  \* the flag word, as the set of its set bits
    flagReg,         \* flagReg[t]: the word t loaded for its read-modify-write
    lost,            \* history: erased raises of the watched flags
    emu              \* the emulator thread: its pc and the flag it is at

irqVars == <<InterruptFlags, flagReg, lost>>

IrqFlags == Range(IrqOrder)

(* The pcs of the handler; the composing modules add their own.          *)
IrqPcs == {"run", "test", "clear_load", "clear_store", "service"}

IrqTypeOK(EmuPcs) ==
    /\ InterruptFlags \subseteq IrqFlags
    /\ flagReg \in [Threads -> SUBSET IrqFlags]
    /\ lost \subseteq IrqFlags
    /\ emu \in [pc : IrqPcs \cup EmuPcs, idx : 0..Len(IrqOrder) + 1]

(* PSP scheduling: t may run only while no thread of higher priority is    *)
(* ready.                                                                  *)
Runs(t, Ready(_)) == \A u \in Threads : Prio[u] < Prio[t] => ~Ready(u)

(* Set/ClearInterruptFlag, first half: the load of InterruptFlags.         *)
LoadInterruptFlags(t) ==
    /\ flagReg' = [flagReg EXCEPT ![t] = InterruptFlags]
    /\ UNCHANGED lost

(* The flags other than f that a store of word erases: raised by another   *)
(* thread since the load, they are gone without having been serviced.      *)
(* Only INTFLAG_AUDIO, whose raiser then waits for its service, is         *)
(* recorded in lost; a lost 60HZ or 1HZ tick only delays the Mac's clock.  *)
WatchedFlags == {"AUDIO"}

Erased(word, f) == ((InterruptFlags \ word) \ {f}) \cap WatchedFlags

(* SetInterruptFlag, second half: the store of the loaded word | flag.  f  *)
(* is raised afresh.                                                       *)
SetInterruptFlagStore(t, f) ==
    /\ InterruptFlags' = flagReg[t] \cup {f}
    /\ lost' = (lost \ {f}) \cup Erased(flagReg[t], f)

(* ClearInterruptFlag, second half: the store of the loaded word & ~flag.  *)
ClearInterruptFlagStore(t, f) ==
    /\ InterruptFlags' = flagReg[t] \ {f}
    /\ lost' = lost \cup Erased(flagReg[t], f)

IrqInit ==
    /\ InterruptFlags = {}
    /\ flagReg = [t \in Threads |-> {}]
    /\ lost = {}

(* The flag the IRQ handler is at.                                         *)
EmuFlag == IrqOrder[emu.idx]

(* TriggerInterrupt has been called and the flag word is non-zero: the 68k *)
(* takes the level-1 interrupt and the handler starts at the first flag.   *)
EmuIrqEnter ==
    /\ emu.pc = "run"
    /\ InterruptFlags # {}
    /\ emu' = [pc |-> "test", idx |-> 1]
    /\ UNCHANGED irqVars

(* "if (InterruptFlags & flag)": a clear flag is skipped, the end of the   *)
(* list returns to the 68k program, a set flag is cleared.                 *)
EmuIrqTest ==
    /\ emu.pc = "test"
    /\ \/ /\ emu.idx > Len(IrqOrder)
          /\ emu' = [pc |-> "run", idx |-> 0]
          /\ UNCHANGED irqVars
       \/ /\ emu.idx <= Len(IrqOrder)
          /\ EmuFlag \notin InterruptFlags
          /\ emu' = [emu EXCEPT !.idx = @ + 1]
          /\ UNCHANGED irqVars
       \/ /\ emu.idx <= Len(IrqOrder)
          /\ EmuFlag \in InterruptFlags
          /\ emu' = [emu EXCEPT !.pc = "clear_load"]
          /\ UNCHANGED irqVars

(* ClearInterruptFlag(flag) by the handler, in its two halves.             *)
EmuClearLoad ==
    /\ emu.pc = "clear_load"
    /\ LoadInterruptFlags("emu")
    /\ emu' = [emu EXCEPT !.pc = "clear_store"]
    /\ UNCHANGED InterruptFlags

EmuClearStore ==
    /\ emu.pc = "clear_store"
    /\ ClearInterruptFlagStore("emu", EmuFlag)
    /\ emu' = [emu EXCEPT !.pc = "service"]
    /\ UNCHANGED flagReg

(* The service of the flag is done: on to the next flag.                   *)
EmuNextFlag == emu' = [pc |-> "test", idx |-> emu.idx + 1]

(* The service of a flag in F that changes nothing this model holds (the   *)
(* 60Hz and 1Hz services run Mac OS timer, video and disk tasks).          *)
EmuServicePlain(F) ==
    /\ emu.pc = "service"
    /\ EmuFlag \in F
    /\ EmuNextFlag
    /\ UNCHANGED irqVars

(* The handler's steps other than the services.                            *)
EmuIrqStep == EmuIrqEnter \/ EmuIrqTest \/ EmuClearLoad \/ EmuClearStore

=============================================================================
