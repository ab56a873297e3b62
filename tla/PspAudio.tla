------------------------------ MODULE PspAudio ------------------------------
(***************************************************************************)
(* The PSP audio driver, src/PSP/audio_psp.cpp.                            *)
(*                                                                         *)
(* Two threads share the buffers pcmout1 and pcmout2 (1 and 2 here):       *)
(*  - audioOutput (priority 0x16) picks the buffer pcmflip names, flips    *)
(*    pcmflip, signals bufferEmpty and hands the buffer to the hardware in *)
(*    sceAudioOutputBlocking, which returns once the hardware has taken    *)
(*    it, i.e. once the block before it has finished playing;              *)
(*  - fillBuffer (priority 0x15) waits on bufferEmpty, picks the buffer    *)
(*    pcmflip names and, while a Mac sound source is open, raises          *)
(*    INTFLAG_AUDIO and waits on audio_irq_done_sem for the emulator's     *)
(*    AudioInterrupt to fetch the next block, which it then copies in.     *)
(* The emulator (main) thread runs AudioInit, the IRQ handler's AUDIO      *)
(* service AudioInterrupt, and AudioExit.  Both semaphores have maximum 1: *)
(* a signal on a semaphore at its maximum fails and is lost.  A wait on a  *)
(* deleted semaphore, or a wait in progress when it is deleted, returns    *)
(* at once with an error, which the threads do not test.                   *)
(*                                                                         *)
(* Buffer contents are abstracted away: a buffer is its number.            *)
(***************************************************************************)
EXTENDS PspIrq

VARIABLES
    filler,       \* fillBuffer: its pc and its local fillbuf
    output,       \* audioOutput: its pc and its local playbuf
    pcmflip,      \* pcmflip
    bufferEmpty,  \* the count of semaphore bufferEmpty
    irqDone,      \* the count of semaphore audio_irq_done_sem
    deleted,      \* the semaphores sceKernelDeleteSema has deleted
    soundDead,    \* sound_status = 0xDEADBEEF
    numSources,   \* AudioStatus.num_sources # 0
    audioOpen,    \* audio_open
    chReserved,   \* sound_channel holds a reserved channel
    hw            \* the buffer the audio hardware is playing, 0 if none

audioVars == <<filler, output, pcmflip, bufferEmpty, irqDone, deleted,
               soundDead, numSources, audioOpen, chReserved, hw>>

Buffers == {1, 2}

FillerPcs == {"none", "loop", "wait_empty", "select", "set_load",
              "set_store", "wait_irq", "copy", "done"}
OutputPcs == {"none", "loop", "play", "done"}
AudioEmuPcs == {"init", "init_filler", "init_delay", "init_release", "init_done",
                "exit", "delay", "release", "delete_empty", "delete_irq",
                "exit_all"}

AudioTypeOK ==
    /\ filler \in [pc : FillerPcs, buf : Buffers]
    /\ output \in [pc : OutputPcs, buf : Buffers]
    /\ pcmflip \in {0, 1}
    /\ bufferEmpty \in 0..1 /\ irqDone \in 0..1
    /\ deleted \subseteq {"bufferEmpty", "irq"}
    /\ soundDead \in BOOLEAN /\ numSources \in BOOLEAN
    /\ audioOpen \in BOOLEAN /\ chReserved \in BOOLEAN
    /\ hw \in Buffers \cup {0}

(* A mutant: a semaphore created without the maximum of 1.               *)
SignalSemaNoMax(count, name) ==
    IF name \notin deleted THEN count + 1 ELSE count

(* sceKernelSignalSema(s, 1) on a semaphore of maximum 1.                  *)
SignalSema(count, name) ==
    IF name \notin deleted /\ count < 1 THEN count + 1 ELSE count

(* sceKernelWaitSema(s, 1, 0) can return: a unit is there, or s is gone.   *)
CanWait(count, name) == count > 0 \/ name \in deleted

(* Its effect on the count when it returns.                                *)
AfterWait(count, name) == IF name \in deleted THEN count ELSE count - 1

AudioInit ==
    /\ filler = [pc |-> "none", buf |-> 1]
    /\ output = [pc |-> "none", buf |-> 1]
    /\ pcmflip = 0
    /\ bufferEmpty = 0 /\ irqDone = 0 /\ deleted = {}
    /\ soundDead = FALSE /\ numSources = FALSE
    /\ audioOpen = FALSE /\ chReserved = FALSE
    /\ hw = 0

-----------------------------------------------------------------------------
(* fillBuffer                                                              *)

FillerReady ==
    \/ filler.pc \in {"loop", "select", "set_load", "set_store", "copy"}
    \/ filler.pc = "wait_empty" /\ CanWait(bufferEmpty, "bufferEmpty")
    \/ filler.pc = "wait_irq" /\ CanWait(irqDone, "irq")

FillerGoto(pc) == filler' = [filler EXCEPT !.pc = pc]

(* while (sound_status != 0xDEADBEEF), and the exit of the thread.         *)
FillerLoop ==
    /\ filler.pc = "loop"
    /\ FillerGoto(IF soundDead THEN "done" ELSE "wait_empty")
    /\ UNCHANGED <<irqVars, emu, output, pcmflip, bufferEmpty, irqDone,
                   deleted, soundDead, numSources, audioOpen, chReserved, hw>>

FillerWaitEmpty ==
    /\ filler.pc = "wait_empty"
    /\ CanWait(bufferEmpty, "bufferEmpty")
    /\ bufferEmpty' = AfterWait(bufferEmpty, "bufferEmpty")
    /\ FillerGoto("select")
    /\ UNCHANGED <<irqVars, emu, output, pcmflip, irqDone, deleted,
                   soundDead, numSources, audioOpen, chReserved, hw>>

(* fillbuf = pcmflip ? pcmout2 : pcmout1; with no source open the buffer   *)
(* is cleared to silence and the loop goes round.                          *)
FillerSelect ==
    /\ filler.pc = "select"
    /\ filler' = [pc  |-> IF numSources THEN "set_load" ELSE "loop",
                  buf |-> IF pcmflip = 1 THEN 2 ELSE 1]
    /\ UNCHANGED <<irqVars, emu, output, pcmflip, bufferEmpty, irqDone,
                   deleted, soundDead, numSources, audioOpen, chReserved, hw>>

(* SetInterruptFlag(INTFLAG_AUDIO); TriggerInterrupt().                    *)
FillerSetLoad ==
    /\ filler.pc = "set_load"
    /\ LoadInterruptFlags("filler")
    /\ FillerGoto("set_store")
    /\ UNCHANGED <<InterruptFlags, emu, output, pcmflip, bufferEmpty, irqDone,
                   deleted, soundDead, numSources, audioOpen, chReserved, hw>>

FillerSetStore ==
    /\ filler.pc = "set_store"
    /\ SetInterruptFlagStore("filler", "AUDIO")
    /\ FillerGoto("wait_irq")
    /\ UNCHANGED <<flagReg, emu, output, pcmflip, bufferEmpty, irqDone,
                   deleted, soundDead, numSources, audioOpen, chReserved, hw>>

FillerWaitIrq ==
    /\ filler.pc = "wait_irq"
    /\ CanWait(irqDone, "irq")
    /\ irqDone' = AfterWait(irqDone, "irq")
    /\ FillerGoto("copy")
    /\ UNCHANGED <<irqVars, emu, output, pcmflip, bufferEmpty, deleted,
                   soundDead, numSources, audioOpen, chReserved, hw>>

(* Read apple_stream_info and copy the block, or silence, into fillbuf.    *)
FillerCopy ==
    /\ filler.pc = "copy"
    /\ FillerGoto("loop")
    /\ UNCHANGED <<irqVars, emu, output, pcmflip, bufferEmpty, irqDone,
                   deleted, soundDead, numSources, audioOpen, chReserved, hw>>

FillerStep ==
    \/ FillerLoop \/ FillerWaitEmpty \/ FillerSelect \/ FillerSetLoad
    \/ FillerSetStore \/ FillerWaitIrq \/ FillerCopy

-----------------------------------------------------------------------------
(* audioOutput, and the audio hardware                                     *)

OutputReady ==
    \/ output.pc = "loop"
    \/ output.pc = "play" /\ (hw = 0 \/ ~chReserved)

(* A mutant: pcmflip flipped before playbuf is picked.                    *)
OutputLoopFlipFirst ==
    /\ output.pc = "loop"
    /\ \/ /\ soundDead
          /\ output' = [output EXCEPT !.pc = "done"]
          /\ UNCHANGED <<pcmflip, bufferEmpty>>
       \/ /\ ~soundDead
          /\ output' = [pc |-> "play", buf |-> IF pcmflip = 0 THEN 1 ELSE 2]
          /\ pcmflip' = 1 - pcmflip
          /\ bufferEmpty' = SignalSema(bufferEmpty, "bufferEmpty")
    /\ UNCHANGED <<irqVars, emu, filler, irqDone, deleted, soundDead,
                   numSources, audioOpen, chReserved, hw>>

(* while (sound_status != 0xDEADBEEF); playbuf = pcmflip ? pcmout1 :       *)
(* pcmout2; pcmflip ^= 1; sceKernelSignalSema(bufferEmpty, 1).             *)
OutputLoop ==
    /\ output.pc = "loop"
    /\ \/ /\ soundDead
          /\ output' = [output EXCEPT !.pc = "done"]
          /\ UNCHANGED <<pcmflip, bufferEmpty>>
       \/ /\ ~soundDead
          /\ output' = [pc |-> "play", buf |-> IF pcmflip = 1 THEN 1 ELSE 2]
          /\ pcmflip' = 1 - pcmflip
          /\ bufferEmpty' = SignalSema(bufferEmpty, "bufferEmpty")
    /\ UNCHANGED <<irqVars, emu, filler, irqDone, deleted, soundDead,
                   numSources, audioOpen, chReserved, hw>>

(* sceAudioOutputBlocking(sound_channel, sound_volume, playbuf): returns   *)
(* once the hardware takes playbuf, or at once, with an error, when the    *)
(* channel has been released.                                              *)
OutputPlay ==
    /\ output.pc = "play"
    /\ \/ chReserved /\ hw = 0 /\ hw' = output.buf
       \/ ~chReserved /\ UNCHANGED hw
    /\ output' = [output EXCEPT !.pc = "loop"]
    /\ UNCHANGED <<irqVars, emu, filler, pcmflip, bufferEmpty, irqDone,
                   deleted, soundDead, numSources, audioOpen, chReserved>>

OutputStep == OutputLoop \/ OutputPlay

(* The hardware finishes playing a block.  A block lasts 93 ms (4096       *)
(* frames at 44.1 kHz) and the audio threads' work between two blocking    *)
(* calls takes microseconds, so it finishes while both are blocked; the    *)
(* emulator thread, which may be slow to answer, is not constrained.       *)
HwBlockDone ==
    /\ hw # 0
    /\ ~FillerReady /\ ~OutputReady
    /\ hw' = 0
    /\ UNCHANGED <<irqVars, emu, filler, output, pcmflip, bufferEmpty,
                   irqDone, deleted, soundDead, numSources, audioOpen,
                   chReserved>>

-----------------------------------------------------------------------------
(* The emulator thread: AudioInit, AudioInterrupt, AudioExit               *)

EmuGoto(pc) == emu' = [emu EXCEPT !.pc = pc]

(* AudioInit with the "nosound" preference: it returns at once.            *)
AudioInitNoSound ==
    /\ emu.pc = "init"
    /\ EmuGoto("init_done")
    /\ UNCHANGED <<irqVars, audioVars>>

(* The semaphores are created, the channel reserved, sound_status set to   *)
(* 0, and audioOutput created and started; if it cannot be created,        *)
(* AudioInit returns with no audio.                                        *)
AudioInitOutput ==
    /\ emu.pc = "init"
    /\ bufferEmpty' = 1 /\ irqDone' = 0
    /\ chReserved' = TRUE /\ soundDead' = FALSE
    /\ \/ output' = [output EXCEPT !.pc = "loop"] /\ EmuGoto("init_filler")
       \/ UNCHANGED output /\ EmuGoto("init_done")
    /\ UNCHANGED <<irqVars, filler, pcmflip, deleted, numSources, audioOpen,
                   hw>>

(* fillBuffer is created and started and audio_open set; if it cannot be   *)
(* created, sound_status = 0xDEADBEEF stops audioOutput.                   *)
AudioInitFiller ==
    /\ emu.pc = "init_filler"
    /\ \/ /\ filler' = [filler EXCEPT !.pc = "loop"]
          /\ audioOpen' = TRUE
          /\ EmuGoto("init_done")
          /\ UNCHANGED soundDead
       \/ /\ soundDead' = TRUE
          /\ EmuGoto("init_delay")
          /\ UNCHANGED <<filler, audioOpen>>
    /\ UNCHANGED <<irqVars, output, pcmflip, bufferEmpty, irqDone, deleted,
                   numSources, chReserved, hw>>

(* sceKernelDelayThread(100*1000), then sceAudioChRelease.                 *)
AudioInitDelay ==
    /\ emu.pc = "init_delay"
    /\ EmuGoto("init_release")
    /\ UNCHANGED <<irqVars, audioVars>>

AudioInitRelease ==
    /\ emu.pc = "init_release"
    /\ chReserved' = FALSE
    /\ EmuGoto("init_done")
    /\ UNCHANGED <<irqVars, filler, output, pcmflip, bufferEmpty, irqDone,
                   deleted, soundDead, numSources, audioOpen, hw>>

(* The 68k program opens or closes a sound source (num_sources is kept by  *)
(* the generic audio component).                                           *)
EmuSources ==
    /\ emu.pc = "run"
    /\ numSources' = ~numSources
    /\ UNCHANGED <<irqVars, emu, filler, output, pcmflip, bufferEmpty,
                   irqDone, deleted, soundDead, audioOpen, chReserved, hw>>

(* A mutant: AudioInterrupt without its sceKernelSignalSema.              *)
AudioInterruptNoSignal ==
    /\ emu.pc = "service"
    /\ EmuFlag = "AUDIO"
    /\ EmuNextFlag
    /\ UNCHANGED <<irqVars, filler, output, pcmflip, bufferEmpty, irqDone,
                   deleted, soundDead, numSources, audioOpen, chReserved, hw>>

(* The service of INTFLAG_AUDIO: the mixer fills the stream info (or it    *)
(* is zeroed), then sceKernelSignalSema(audio_irq_done_sem, 1).            *)
AudioInterrupt ==
    /\ emu.pc = "service"
    /\ EmuFlag = "AUDIO"
    /\ irqDone' = SignalSema(irqDone, "irq")
    /\ EmuNextFlag
    /\ UNCHANGED <<irqVars, filler, output, pcmflip, bufferEmpty, deleted,
                   soundDead, numSources, audioOpen, chReserved, hw>>

(* AudioExit: if audio_open, sound_status = 0xDEADBEEF and                 *)
(* sceKernelSignalSema(bufferEmpty, 1).                                    *)
AudioExitStop ==
    /\ emu.pc = "exit"
    /\ \/ /\ audioOpen
          /\ soundDead' = TRUE
          /\ bufferEmpty' = SignalSema(bufferEmpty, "bufferEmpty")
          /\ EmuGoto("delay")
       \/ /\ ~audioOpen
          /\ EmuGoto("delete_empty")
          /\ UNCHANGED <<soundDead, bufferEmpty>>
    /\ UNCHANGED <<irqVars, filler, output, pcmflip, irqDone, deleted,
                   numSources, audioOpen, chReserved, hw>>

AudioExitDelay ==
    /\ emu.pc = "delay"
    /\ EmuGoto("release")
    /\ UNCHANGED <<irqVars, audioVars>>

(* A mutant: AudioExit without sceAudioChRelease.                         *)
AudioExitReleaseKeepsChannel ==
    /\ emu.pc = "release"
    /\ audioOpen' = FALSE
    /\ EmuGoto("delete_empty")
    /\ UNCHANGED <<irqVars, filler, output, pcmflip, bufferEmpty, irqDone,
                   deleted, soundDead, numSources, chReserved, hw>>

(* sceAudioChRelease(sound_channel); audio_open = false.                   *)
AudioExitRelease ==
    /\ emu.pc = "release"
    /\ chReserved' = FALSE /\ audioOpen' = FALSE
    /\ EmuGoto("delete_empty")
    /\ UNCHANGED <<irqVars, filler, output, pcmflip, bufferEmpty, irqDone,
                   deleted, soundDead, numSources, hw>>

(* sceKernelDeleteSema(bufferEmpty), then (audio_irq_done_sem).            *)
AudioExitDeleteEmpty ==
    /\ emu.pc = "delete_empty"
    /\ deleted' = deleted \cup {"bufferEmpty"}
    /\ EmuGoto("delete_irq")
    /\ UNCHANGED <<irqVars, filler, output, pcmflip, bufferEmpty, irqDone,
                   soundDead, numSources, audioOpen, chReserved, hw>>

AudioExitDeleteIrq ==
    /\ emu.pc = "delete_irq"
    /\ deleted' = deleted \cup {"irq"}
    /\ EmuGoto("exit_all")
    /\ UNCHANGED <<irqVars, filler, output, pcmflip, bufferEmpty, irqDone,
                   soundDead, numSources, audioOpen, chReserved, hw>>

(* The emulator thread's audio steps that the scheduler owes it.           *)
AudioEmuStep ==
    \/ AudioInitNoSound \/ AudioInitOutput \/ AudioInitFiller
    \/ AudioInitDelay \/ AudioInitRelease \/ AudioInterrupt
    \/ AudioExitStop \/ AudioExitDelay \/ AudioExitRelease
    \/ AudioExitDeleteEmpty \/ AudioExitDeleteIrq

-----------------------------------------------------------------------------
(* The audio driver on its own                                             *)

(* main, after InitAll: Start680x0.                                        *)
AudioStart68k ==
    /\ emu.pc = "init_done"
    /\ EmuGoto("run")
    /\ UNCHANGED <<irqVars, audioVars>>

(* QuitEmulator, as far as audio goes: on to AudioExit (in ExitAll) ...    *)
AudioQuit ==
    /\ emu.pc = "run"
    /\ EmuGoto("exit")
    /\ UNCHANGED <<irqVars, audioVars>>

(* ... and on from it to free the Mac RAM and end the program.             *)
AudioExitRest ==
    /\ emu.pc = "exit_all"
    /\ EmuGoto("done")
    /\ UNCHANGED <<irqVars, audioVars>>

AudioReady(t) ==
    CASE t = "filler" -> FillerReady
      [] t = "output" -> OutputReady
      [] OTHER        -> emu.pc # "done"

audioSpecVars == <<irqVars, emu, audioVars>>

AudioSpecInit ==
    /\ IrqInit
    /\ AudioInit
    /\ emu = [pc |-> "init", idx |-> 0]

FillerRuns == Runs("filler", AudioReady) /\ FillerStep
OutputRuns == Runs("output", AudioReady) /\ OutputStep
EmuRuns ==
    /\ Runs("emu", AudioReady)
    /\ \/ EmuIrqStep /\ UNCHANGED audioVars
       \/ AudioEmuStep
       \/ AudioStart68k
       \/ AudioExitRest

(* What the 68k program does of its own accord.                            *)
EmuChooses == Runs("emu", AudioReady) /\ (EmuSources \/ AudioQuit)

AudioTerminated ==
    /\ emu.pc = "done"
    /\ UNCHANGED audioSpecVars

AudioNext ==
    \/ FillerRuns \/ OutputRuns \/ EmuRuns \/ EmuChooses
    \/ HwBlockDone \/ AudioTerminated

(* The scheduler runs the highest ready thread, so a thread that stays     *)
(* ready and on top runs (weak fairness).  The emulator thread is the      *)
(* lowest: it runs only when the audio threads block, which they do for    *)
(* most of every 93 ms block, so it runs whenever that happens again and   *)
(* again (strong fairness).  The hardware always finishes a block.         *)
AudioSpec ==
    /\ AudioSpecInit
    /\ [][AudioNext]_audioSpecVars
    /\ WF_audioSpecVars(FillerRuns)
    /\ WF_audioSpecVars(OutputRuns)
    /\ SF_audioSpecVars(EmuRuns)
    /\ WF_audioSpecVars(HwBlockDone)

-----------------------------------------------------------------------------
(* Properties                                                              *)

(* Every block request of fillBuffer is answered: once it has raised       *)
(* INTFLAG_AUDIO and waits on audio_irq_done_sem, the emulator's           *)
(* AudioInterrupt (or AudioExit deleting the semaphore) lets it go on.     *)
AudioRequestAnswered == filler.pc = "wait_irq" ~> filler.pc # "wait_irq"

(* With the other threads sharing InterruptFlags, the only way a request   *)
(* of fillBuffer goes unanswered is that its INTFLAG_AUDIO was erased by   *)
(* another thread's unlocked read-modify-write of the word: every wait on  *)
(* audio_irq_done_sem ends, or the raise it waits for has been lost.       *)
AudioAnsweredUnlessLost ==
    filler.pc = "wait_irq" ~> (filler.pc # "wait_irq" \/ "AUDIO" \in lost)

(* When the emulator thread comes out of AudioExit and goes on to free     *)
(* the Mac RAM (QuitEmulator), neither audio thread can run again: both    *)
(* have left their loops (sound_status, the released channel and the       *)
(* deleted semaphores have woken them, and they outrank the emulator).     *)
AudioThreadsGone ==
    /\ filler.pc \in {"none", "done"}
    /\ output.pc \in {"none", "done"}

AudioThreadsGoneAfterExit ==
    [][emu.pc = "exit_all" /\ emu'.pc # "exit_all" => AudioThreadsGone]_audioSpecVars

(* PspAudio implements AudioStream.  pcmflip names the buffer audioOutput *)
(* hands over next; the buffer audioOutput holds in sceAudioOutputBlocking *)
(* is handed over; fillBuffer writes from the moment bufferEmpty lets it   *)
(* through (it then reads pcmflip) until its copy, or the silence, is done. *)
StreamFill ==
    CASE filler.pc = "select" -> IF pcmflip = 1 THEN 2 ELSE 1
      [] filler.pc \in {"set_load", "set_store", "wait_irq", "copy"} -> filler.buf
      [] OTHER -> 0

Stream == INSTANCE AudioStream WITH
    next   <- IF pcmflip = 1 THEN 1 ELSE 2,
    handed <- IF output.pc = "play" THEN output.buf ELSE 0,
    play   <- hw,
    fill   <- StreamFill

(* The two threads keep the double buffer: audioOutput hands the buffers   *)
(* to sceAudioOutputBlocking in turn, and fillBuffer writes only the one   *)
(* audioOutput handed over last, never starting on the buffer the hardware *)
(* is playing (it reads pcmflip after audioOutput flipped it).             *)
AudioStreamRefined == Stream!Spec

=============================================================================
