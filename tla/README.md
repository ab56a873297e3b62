# Model checking the Basilisk II (PSP / Vita) soft FPU and platform layer

This directory holds TLA+ models of the `basiliskii-vita` sources under `src/`. They are checked with TLC.
Two groups of models are here:
- the software 68881/68040 FPU (`src/src/uae_cpu/fpu/fpu_soft.cpp`);
- the PSP platform threads: audio, the 60 Hz tick, the interrupt flags, QuitEmulator, network start-up and the timer conversions (`src/src/PSP/`);
- the PSP input path of VideoInterrupt: button maps, on-screen keyboard, disk menu and IR keyboard (`src/src/PSP/video_psp.cpp`).

## 1. The system and how its parts interact

| Part | Source | State | Operations | Interacts with |
|---|---|---|---|---|
| Extended value | fpu_soft.cpp 130–168, 250–289, 400–458, 915–959 | an 80-bit `fpu_register` (16-bit sign/exponent word, 64-bit significand) | packFloatx80, make/extract_extended, get/set_fpccr, fpp_cond | every handler |
| Register & status model | fpu_soft.cpp 195–385, `fpu/impl.h` (not shipped) | `registers[8]`, `result` (the shadow value the condition codes are read from), FPCR fields, FPSR quotient, current and accrued exception flags, the flag word and rounding mode of the library's `fp_status`, FPIAR | make_fpsr, make_quotient, set_host_control_word, get/set exception status and accrued byte, get/set fpsr/fpcr | execution engine, branch family, FSAVE/FRESTORE |
| Arithmetic library | SoftFloat and libm behind `CHKERR` (not shipped) | `fp_status` flags and rounding mode | floatx80_add … floatx80_scalbn, conversions | raises flags that make_fpsr collects |
| Operand resolver | fpu_soft.cpp 589–907 | CPU registers, memory, PC | get_fp_value, put_fp_value, get_fp_ad | engine (FpuOperand, FpuBranch) |
| Format converters | fpu_soft.cpp 388–583 | none | single, double, extended, packed decimal | resolver |
| Execution engine | fpu_soft.cpp 1246–1949 | all of the above | FMOVE out, control-register moves, FMOVEM, FMOVECR, about 40 arithmetic opcodes, illegal-opcode path | everything |
| Branch family | fpu_soft.cpp 961–1100 | PC, Dn | FDBcc, FScc, FTRAPcc, FBcc | condition codes, exception enables |
| State frames | fpu_soft.cpp 1104–1244 | An, memory | FSAVE, FRESTORE | CPU |
| Init / reset | fpu_soft.cpp 1953–1981 | all FPU state | fpu_init, fpu_reset | engine |
| PSP audio | PSP/audio_psp.cpp | pcmflip, two PCM buffers, semaphores bufferEmpty and audio_irq_done_sem, sound_status | fillBuffer thread, audioOutput thread, AudioExit, the audio interrupt | Mac audio interrupt (main) |
| PSP main / tick | PSP/main_psp.cpp, PSP2/main_psp.cpp | InterruptFlags, tick_counter, second_counter, tick_thread_cancel | tick_func, one_tick, one_second, Set/ClearInterruptFlag, QuitEmulator, power_callback | emulator thread, audio, XPRAM |
| PSP network start-up | PSP/main_psp.cpp 220–348 | psp_net_available, the "udptunnel" preference | psp_net_connect on main, net_thread, connect_to_apctl | the user (WLAN switch, pad), the access point |
| PSP timer | PSP/timer_psp.cpp | none (64-bit microsecond times) | timer_mac2host_time, timer_host2mac_time, timer_cmp_time | Time Manager |
| PSP ether | PSP/ether_psp.cpp | UDP socket, receive thread flag | receive thread, ether_reset/exit | emulator thread |
| PSP input | PSP/video_psp.cpp 1064–1250, 1252–1445, 1483–1692; sys_psp.cpp 327–346 | button_map and its down flags, caps_lock, VideoInterrupt's statics (oldButtons, input_mode, show_menu, qualifiers, frame_cnt), handle_menu's statics, psp_floppy/cdrom_inserted | VideoInterrupt, key_down, key_up, handle_menu, parse_imap, handle_keyboard, SysEject | the user (pad, IR keyboard), the Mac (ADB events, eject) |
| PSP disks | PSP/sys_psp.cpp 49–452, 623–648; video_psp.cpp 1375–1441; main_psp.cpp 159–186; prefs_editor_psp.cpp 716–726 | fh_list handles (name, fd, read_only, is_file/is_floppy/is_cdrom), floppy_fh, cdrom_fh, psp_floppy_inserted, psp_cdrom_inserted, psp_cdrom_locked | Sys_open, Sys_close, SysEject, SysIsDiskInserted, SysPreventRemoval/SysAllowRemoval, the menu's mounts, Sys_drive_stop/restart from power_callback | the Mac disk drivers, the user (menu, power switch) |
| PSP preferences editor | PSP/prefs_editor_psp.cpp, gui_psp.cpp 332–601, reqfile.cpp 309–330 | the psp_* variables, the menu tables, do_gui's frames (menu, csel, menufn), the files of hardfiles/, cdroms/, disks/, roms/ | PrefsEditor (set-up, load, save), do_gui's CROSS/UP/DOWN/CIRCLE cases, PspLevelFn, psp_create_hardfile/floppy, RequestFile | main (runs it first), the preferences file, the drives and the network start-up (read what it saved) |
| UI, video, files | video refresh, menu drawing, danzeff, extfs, xpram | screen, files | rendering and I/O | user |

The FPU runs inside the 68k interpreter's thread, one instruction at a time. Each handler therefore runs to completion before the next instruction starts.

The FPU's hard behaviour is sequential. It comes from the order in which state is handed between steps:
- the flags the library leaves in `fp_status` are collected only by `make_fpsr`;
- some handlers borrow the rounding mode and must give it back;
- the FPSR is rebuilt from several sources when it is read, and split into them when it is written.

The platform layer is where the concurrency is:
- the audio double buffer is shared by two threads;
- InterruptFlags is read-modify-written by the tick, audio and emulator threads;
- shutdown uses fixed delays instead of joins;
- main runs the preferences editor first; what it saves decides whether psp_net_connect runs and which floppy and CD-ROM the drivers open, and psp_floppy_inserted/psp_cdrom_inserted are set by the editor's own save;
- network start-up hands psp_net_available from net_thread to a polling main thread, with the user's switch and buttons read in between;
- the disk handles are shared by the Mac drivers (eject, lock), the disk menu run from VideoInterrupt, and the power callback, which closes every descriptor on suspend and reopens them on resume;
- the input path turns pad changes sampled 60 times a second into Mac key-down and key-up events, and which of its three modes VideoInterrupt is in decides whether a key that went down is ever taken back.

## 2. Modules

### FpuValue (pure operators)

The extended value is scaled to an EW-bit exponent and an SW-bit significand with an explicit integer bit. The real format has EW = 15 and SW = 64.

Every width-dependent constant of the code is written in terms of EW and SW: 0x7fff, 0x8000, 0xFFFF, and the 64 that countLeadingZeros64 returns for 0. `Pack` truncates the high word exactly as `packFloatx80` does, so an exponent below zero wraps into the sign bit.

| Definition | Code |
|---|---|
| `MakeExtended` | make_extended |
| `ExtractExtended` | extract_extended |
| `GetFpccr` | get_fpccr |
| `SetFpccr` | set_fpccr |
| `FppCond` | fpp_cond |

`MCFpuValue` enumerates every `(hw, sig)` memory pattern as its state. It checks the operators against reference relations written independently of the code:
- `RegRelation`: the IEEE relation of a register value to zero;
- `MemRelation`: the relation the 68881 gives a memory operand;
- `CondRef`: the predicate table of the M68000 family manual.

### FpuBranch (the conditional instructions)

Each handler is one operator from its inputs to its outcome:
- the inputs are the opcode and extension words, the shadow result, the CPU registers it touches, the FPCR enables and the accrued flags;
- the outcome is the new PC, the new register values, the byte written to memory, and the exceptions it raised, as a sequence of vectors.

A 32-bit register or long word is a record of two 16-bit words, because TLC's integers are 32-bit signed.

| Definition | Code |
|---|---|
| `GetFpAd` | get_fp_ad (get_disp_ea_020 taken with index register 0) |
| `Fdbcc` | fpuop_dbcc |
| `Fscc` | fpuop_scc |
| `Ftrapcc` | fpuop_trapcc |
| `BccOrder`, `BccVector`, `BccHolds`, `IsSignalling`, `BccException` | the SOFT_EXCEPTIONS block of fpuop_bcc |
| `Fbcc` | fpuop_bcc |

**The build flag and the CPU core.**
- SOFT_EXCEPTIONS is not defined in the repository. It is the constant `SoftExceptions`, TRUE in the runs, because the specification describes the feature as present.
- op_illg and Exception belong to the CPU core, outside the repository. op_illg of these F-line opcodes is recorded as vector 11.

`MCFpuBranch` extends `MCFpuValue`. A state is one shadow-result pattern together with one conditional instruction and its inputs. The references are the M68000 manual's semantics, written over `RegRelation`/`CondRef` rather than over fpp_cond.

### FpuFrame (FSAVE and FRESTORE)

The FPU never stops inside an instruction. So FSAVE always writes an IDLE frame, and FRESTORE transfers no state: it reads the frame's format long and steps the address over the frame. Both handlers are operators, in the style of FpuBranch. Their inputs are the addressing mode and register, the CPU type, An, the PC and the extension word. The outcome holds the longs written or the address read, the new An, the PC and the exceptions.

| Definition | Code |
|---|---|
| `IdleFrame` | the 68040 frame 0x41000000, and the 68881 frame: 0x1f180000, five zero longs, then 0x70000000 |
| `FrameVersion`, `FrameSize`, `KnownSizes`, `FrameSkip` | FRESTORE's tests of `d & 0xff000000` and `d & 0x00ff0000` on both CPU types |
| `Fsave` | fpuop_save |
| `Frestore` | fpuop_restore |

### FpuOperand (the address arithmetic of get_fp_value and put_fp_value)

The arithmetic instructions and FMOVE to memory resolve an <ea> operand through get_fp_value and put_fp_value. FpuOperand models their address arithmetic as operators. The inputs are the mode, the register, the size field, An, the PC after the extension word and the next extension word. The outcome is whether the resolver succeeded, the address, An and the PC. The data conversions are left out: FpuEngine models them by their effect on the FPU state.

| Definition | Code |
|---|---|
| `Sz1`, `Sz2` | the operand-length tables `sz1`/`sz2` (`sz2` keeps A7 word-aligned) |
| `DregSizes` | the data-register cases L, S, W, B of mode 0 |
| `GetFpValue` | get_fp_value: the mode switch (through `GetFpAd` for the modes it shares), the immediate case with its byte `ad++`, and the final size switch that refuses size 7 |
| `PutFpValue` | put_fp_value: the same switch with no alterability check, and no byte adjustment |
| `OperandFailure` | fpuop_arithmetic's `m68k_setpc(m68k_getpc() - 4); op_illg(opcode)` after a failed resolver |

### FpuMemory (FMOVEM to and from memory)

FMOVEM moves the control registers (FPCR, FPSR, FPIAR) or a list of data registers between the FPU and memory. FpuMemory models the memory forms as operators, in the style of FpuOperand. The outcome is the set of longs written, or the registers loaded, together with An and the PC. A data register is stored as the three longs extract_extended gives, scaled as in FpuValue.

| Definition | Code |
|---|---|
| `ExtendedLongs`, `FromLongs`, `HalfSig` | extract_extended and make_extended on the three longs |
| `CtrlSel`, `CtrlLong` | the FPCR/FPSR/FPIAR bits 12-10 and their fixed order; `get_fpcr() & 0xFFFF` |
| `FmovemCtrlToMem`, `FmovemCtrlFromMem` | the control-register FMOVEM to and from memory, with the `incr` adjustments for -(An) |
| `FmovemList`, `FmovemPredec` | the list-mode switch: static or dynamic (`m68k_dreg((extra >> 4) & 3)`), predecrement or postincrement |
| `Selected`, `Slot` | the FP7..FP0 and FP0..FP7 loops: which registers the mask selects, and where each one's 12 bytes lie |
| `FmovemToMem`, `FmovemFromMem` | the data-register FMOVEM to and from memory, with the An write-back |

`MCFpuBranch` also holds the frame, operand and FMOVEM checks. `SourceLegal`, `DestLegal`, `OperandBytes` and `OperandRef` give the manual's legal operands and where they lie. `FrameBytesRef` is the manual's table of frame lengths, and `FrameModeLegal` gives the modes each instruction allows.

### FpuEngine (register and status model with the instruction handlers)

**Variables**

| Variable | Code |
|---|---|
| `registers` | `FPU registers[]` |
| `result` | `FPU result` |
| `fpcr` | the three FPCR fields as stored |
| `quotient` | `FPU fpsr.quotient` |
| `excStatus` | `current_exception_flags` |
| `accrued` | `accrued_exception_flags` |
| `pending` | the flag word of `fp_status` |
| `host` | the rounding mode and precision of `fp_status` |
| `iaddr` | FPIAR |
| `lastOp` | a history variable: the flags raised during the last instruction, and whether that instruction wrote the FPSR wholesale |

**Actions.** One step is one whole instruction, as the interpreter executes it.

| Action | Code |
|---|---|
| `Fmovecr` | FMOVECR |
| `LibOp` | every opcode that is library calls followed by make_fpsr: FINT, FSQRT, the CHKERR transcendentals, FDIV/FADD/FMUL/FSUB, FSGLDIV/FSGLMUL, and the 68040 FS../FD.. group |
| `MoveOp` | FMOVE, FABS, FNEG |
| `Fintrz` | FINTRZ, with the round-to-zero borrow and set_host_control_word restore |
| `FmodFrem` | FMOD/FREM: borrow, quotient sign read from the destination before it is overwritten, make_fpsr, then make_quotient |
| `Fscale` | FSCALE |
| `FGetExpMan` | FGETEXP/FGETMAN, with their zero / infinity / NaN cases |
| `Fsincos` | FSINCOS: cosine first, then sine |
| `Fcmp`, `Ftst` | FCMP, FTST: set_exception_status(0), then make_fpsr |
| `IllegalOp` | the default / op_illg case, after the operand was fetched |
| `FmoveOut` | class 3: put_fp_value, which raises conversion flags and never calls make_fpsr |
| `FmoveFromCtrl`, `FmoveToCtrl`, `FmoveToCtrlImm` | class 4/5 with Dn/An or an immediate; set_fpcr, set_fpsr and the FPIAR written in code order |
| `Reset` | fpu_reset |

**What is abstracted**
- **The library.** A call returns some member of `LibValues` and raises some subset of `LibFlags`. Which value, and which flags, is the only thing left open. What the handler does with them is kept exactly.
- **Source operands.** `Sources` holds an FPU register, or a converted memory or CPU-register operand. The conversion raises `invalid` only for a signalling NaN, as float32/float64_to_floatx80 do. Integer, packed and extended loads are exact.
- **The CPU register file.** It is outside the model, so reading a control register changes no FPU state.
- **The FPSR and FPCR bit layout.** It comes from `fpu/impl.h` and `fpu/types.h`, which are not in the repository. It is modelled from the spec and marked spec_modelled in PROJECT.json.

**floatx80_chs.** set_fpccr calls `floatx80_chs(FPU result);` and drops its value (fpu_soft.cpp:286). The library is not in the repository, but every other call in the file uses the return value (`FPU registers[reg] = floatx80_chs(src)` at 1786, and 1614, 1624), so it returns the negated value and leaves its argument alone. `SetFpccr` therefore never negates: a written N code is lost. operators_manual reports it.

### PspIrq (the interrupt-flag word and the PSP scheduler)

`SetInterruptFlag` and `ClearInterruptFlag` (main_psp.cpp 744–754) are `InterruptFlags |= flag` and `&= ~flag` on a plain `uint32`. The PSP kernel may switch threads between the load and the store. Each is therefore two steps, with the loaded word kept in `flagReg[t]`.

| Definition | Code |
|---|---|
| `InterruptFlags`, `IrqInit` | `uint32 InterruptFlags = 0` |
| `LoadInterruptFlags`, `SetInterruptFlagStore`, `ClearInterruptFlagStore` | the two halves of Set/ClearInterruptFlag |
| `EmuClearLoad`, `EmuClearStore` | ClearInterruptFlag as called by the emulator thread |
| `EmuIrqEnter`, `EmuIrqTest`, `EmuNextFlag`, `EmuServicePlain` | the level-1 interrupt handler (EmulOp M68K_EMUL_OP_IRQ in the generic emulator, not in this repository; spec_modelled) |
| `Runs(t, Ready)` | the PSP kernel: t runs only while no ready thread has a higher priority (a lower number) |

The handler tests flags in `IrqOrder`. For each set flag it clears it, then services it.

`lost` is a history variable, not state of the code. A store that writes back a loaded word erases every flag raised since the load. If one of those flags is INTFLAG_AUDIO (`WatchedFlags`), it is added to `lost`. A fresh raise of the flag takes it out again. `Erased(word, f)` is the set a store adds. `lost` lets a passing run state what the audio stall (below) is caused by, and by nothing else. Only AUDIO is watched: a lost 60HZ or 1HZ raise delays the Mac's clock, but no thread waits for its service, and watching all three flags made the system run half as large again.

### PspAudio (audio_psp.cpp)

**Variables**

| Variable | Code |
|---|---|
| `filler`, `output` | pc and chosen buffer of fillBuffer (priority 0x15) and audioOutput (0x16) |
| `pcmflip` | `pcmflip` |
| `bufferEmpty`, `irqDone` | the semaphores' counts (initial 1 / 0, both maximum 1) |
| `deleted` | the semaphores AudioExit deleted |
| `soundDead` | `sound_status == 0xDEADBEEF` |
| `numSources` | `AudioStatus.num_sources` |
| `audioOpen`, `chReserved` | `audio_open`, the reserved channel |
| `hw` | the buffer the hardware is playing (0: none) |

**Actions.** There is one action per statement that blocks or changes shared state:
- the filler: `FillerLoop`, `FillerWaitEmpty`, `FillerSelect`, `FillerSetLoad`/`FillerSetStore`, `FillerWaitIrq`, `FillerCopy`;
- the output thread: `OutputLoop`, `OutputPlay`;
- the emulator: `AudioInit*` (sound disabled, thread-creation failures and their clean-up), `AudioInterrupt` (service of INTFLAG_AUDIO), and `AudioExit*` (stop, 100 ms delay, channel release, semaphore deletions).

`HwBlockDone` is the hardware taking a buffer, which ends `sceAudioOutputBlocking`.

**Semaphore semantics.** The semantics follow the PSP kernel:
- a signal at the maximum is lost;
- a wait on a deleted semaphore returns at once.

**Timing assumption.** A block is 93 ms, while the threads' own work takes microseconds. The model therefore lets the hardware finish a block only while both audio threads are blocked.

### AudioStream (the abstract double buffer)

AudioStream states what the double buffer promises, with no threads, semaphores or flags. Its variables:
- `next`: the buffer the next hand-over gives;
- `handed`: the buffer handed over and not yet taken;
- `play`: the buffer the hardware is playing;
- `fill`: the buffer the producer is writing.

Its actions:
- `Hand`: a buffer is handed over, and the turn passes to the other buffer;
- `Take`: the idle hardware takes the handed buffer;
- `Drop`: a hand-over fails because the channel is gone;
- `Finish`: the hardware finishes its block;
- `StartWrite`: the producer starts writing the buffer handed over last, which must not be the one playing;
- `EndWrite`: the producer finishes writing.

`PspAudio` instantiates it as `Stream` with this refinement mapping:
- `next` is the buffer pcmflip selects for audioOutput;
- `handed` is audioOutput's buffer while it sits in `sceAudioOutputBlocking`;
- `play` is `hw`;
- `fill` is the filler's buffer from the moment bufferEmpty lets it through until its copy or silence is done.

`AudioStreamRefined == Stream!Spec` is checked as a PROPERTY.

AudioStream lets the hardware take a buffer that is still being filled. The model reaches that case: the emulator is slow to answer INTFLAG_AUDIO, the block ends, and audioOutput hands over the filler's buffer. Whether it happens on the device depends on the 93 ms timing (see the hazard at audio_psp.cpp:116).

### PspTick (main_psp.cpp)

**Variables**

| Variable | Code |
|---|---|
| `tick` | tick_func's pc |
| `tickCounter`, `secondCounter` | the static counters of one_tick and one_second |
| `tickCancel`, `tickActive` | `tick_thread_cancel`, `tick_thread_active` |
| `hzSinceSecond` | a history variable: 60 Hz raises since the last 1 Hz raise |

**Actions**
- `TickLoop` is one pass of the loop: the cancel test, then one_tick with one_second and xpram_watchdog. The tick thread has the highest priority (0x14), so nothing runs between its statements, and the pass is one step.
- `TickTimer` ends the sleep.
- `TickStart` is main starting the thread, or QuitEmulator if it cannot.
- `QuitCancel` and `QuitDelay` are QuitEmulator's cancel and 100 ms delay.

`CounterLimit` is the 60 of the counters' tests.

### PspSystem (composition)

PspSystem composes PspAudio and PspTick over one PspIrq. It has four threads (tick 0x14, filler 0x15, output 0x16, emulator 0x20). The emulator thread runs main:
1. AudioInit (part of InitAll);
2. the tick thread start;
3. the 68k with its interrupt handler;
4. QuitEmulator, with the tick cancel, then ExitAll → AudioExit.

### PspInput (video_psp.cpp, input side)

VideoInterrupt is called by the emulator on every 60 Hz interrupt. It is one action, `VideoInterrupt`, whose parts are operators:
1. The pad sample and the START/SELECT toggles. `Edge(x)` is "`buttons & x` and `pad.Buttons & x`".
2. `frame_cnt`. handle_menu runs only when a refresh is due.
3. The mode's input:
   - `MapLoop`, a left fold of `MapStep` over the rows (`KeyDown`/`KeyUp`);
   - or the on-screen keyboard: the SELECT qualifier, `QualDowns`, `CharEvents`, `QualUps`, and the `XlateDanzeffUs` table transcribed in full;
   - or nothing while the menu is up.
4. `HandleKeyboard`: the scan records waiting in the IR driver.

Each part returns the events it sends. `Apply` folds them into `macDown`, the set of key codes, and mouse buttons as 256 + b, that the Mac holds down. ADBKeyDown, ADBKeyUp, ADBMouseDown and ADBMouseUp are in the generic emulator, not in this repository; the model keeps only which keys they leave down. ADBMouseMoved changes no state the model keeps, so the analog stick and the move rows (bit 0x200) send nothing.

| Definition | Code |
|---|---|
| `KeyDown`, `KeyUp`, `SentKeys`, `Code`, `IsMouse`, `IsMove` | key_down, key_up (1114–1189) |
| `Matches`, `MapStep`, `MapLoop` | the map loop of VideoInterrupt (1567–1582) |
| `XlateDanzeffUs`, `Xlate`, `QualKeys`, `QualDowns`, `QualUps`, `CharEvents`, `OskEvents`, `OskSide` | the OSK branch (1583–1684) |
| `Count`, `Settle`, `MountFloppy`, `ParseImap`, `HandleMenu` | handle_menu (1252–1445) and parse_imap (1086–1111) |
| `ScanStep`, `HandleKeyboard` | handle_keyboard (1191–1250) |
| `SysEject` | SysEject (sys_psp.cpp 327–346) |

Free choices model the environment:
- the user presses and releases pad buttons (`PadPress`, `PadRelease`) and IR keyboard keys (`KbPress`, `KbRelease`, at most `ScanLimit` records waiting);
- danzeff_readInput returns any of `OskKeys`;
- fopen and both opens of an image succeed or fail;
- a read of the IR driver may be torn (its length not a whole number of records) and is then dropped;
- the Mac ejects a mounted disk.

`refresh_okay` is taken as true. It is false only between a power-suspend callback and the resume, when nobody holds the pad. The emergency-quit test at the end of VideoInterrupt calls QuitEmulator, which PspTick models.

### PspDisk (sys_psp.cpp, disk side)

One entry per drive slot (`Slots`) holds what the handle in fh_list holds: `fh` (none, live, or freed by Sys_close), `name`, `fd` (none, ro, rw, or stale: closed by Sys_drive_stop but keeping its number), `readOnly` and `kind` (file, floppy, cdrom). `floppyFh` and `cdromFh` are the globals, `NULL` before a handle exists. `floppyIn` and `cdromIn` are psp_floppy_inserted and psp_cdrom_inserted. A file is a record of its extension, whether it is a placeholder name, whether it exists and whether it is writable.

| Definition | Code |
|---|---|
| `Init` | the prefs editor's inserted flags (prefs_editor_psp.cpp 716–726) |
| `IsFile`, `DeviceKind` | Sys_open's naming rule: `.hfv` or no extension is a hard file, `.dsk` a floppy, anything else a CD-ROM (144–149, 206–212) |
| `OpenFile`, `OpenRetry` | open(2) and the read-only retry (175–184) |
| `SysOpen` | Sys_open (140–232), called for the slots in `OpenOrder` |
| `SysEject` | SysEject (327–346) |
| `SysIsFixedDisk`, `SysIsDiskInserted` | 384–422 |
| `MacLock` | SysPreventRemoval / SysAllowRemoval (429–452) |
| `SysClose` | Sys_close (239–253) |
| `MenuMountFloppy`, `MenuMountCdrom` | handle_menu's mount entries (video_psp.cpp 1375–1441) |
| `PowerSuspend`, `PowerResume` | power_callback (main_psp.cpp 159–186) with Sys_drive_stop and Sys_drive_restart (623–648) |

`MacEject` is the Mac driver's call of SysEject for a removable disk it holds; the driver is not in this repository. The history variable `ejected` holds the handles ejected and not refilled since, and `kept` those open at the last suspend.

### PspNet (main_psp.cpp 220–348)

This module models the network start-up that main runs when "udptunnel" is set.

**Variables**

| Variable | Code |
|---|---|
| `net` | pc and loop counter `i` of net_thread (priority 0x18), including the frame of connect_to_apctl |
| `main` | pc of the main thread (0x20) in psp_net_connect |
| `available` | `psp_net_available` |
| `udptunnel` | the "udptunnel" preference |
| `wlan`, `button` | sceWlanGetSwitchState() = 1, and pad.Buttons ≠ 0 |
| `skipped` | history: a button press ended the WLAN wait |

**Actions**
- The net_thread actions:
  - `NetLoop` is the `while (psp_net_available != 1)` test;
  - `NetWlan` is one round of the WLAN wait;
  - `NetConnect` is sceNetApctlDisconnect and sceNetApctlConnect;
  - `NetPoll` is one round of the state poll;
  - `NetRetry` is one round of the "try again" countdown;
  - `NetWake` ends each of the thread's sleeps. After "Connected!" it also sets psp_net_available = 1.
- The main actions:
  - `MainCreate` creates and starts the thread;
  - `MainPoll` is the poll of psp_net_available and what follows it;
  - `MainWake` ends main's one-second sleep.
- The user actions, `UserButton` and `UserSwitch`, may happen between any two steps.

**Scheduling and fairness.** net_thread outranks main, so main runs only while net_thread sleeps, has not started, or has ended. The fairness is:
- weak fairness for net_thread, because it runs whenever it is ready;
- strong fairness for main, because net_thread sleeps again and again;
- weak fairness for each thread's timer;
- none for the user.

**Bounds.** WaitLimit is the code's 10. PollLimit is 3 instead of 900, because every further round of the poll repeats the one before.

### GuiMenu (gui_psp.h)

The shape of a menu item shared by both ports: `Item` is `struct gui_menu` abstracted to its kind, the variable it edits, its list length, its submenu, file directory or function, its range and whether it is enabled; `Text`, `Divider`, `Sel`, `Tog`, `Sub`, `Fun`, `FileItem` and `IntItem` build the kinds the tables use. `IndexOf` is the editor's search of a list for a saved value. `NULL` is declared here.

### PspPrefs (prefs_editor_psp.cpp: tables, load, save)

The data of the preferences editor. `Defaults` is the psp_* variables with their initial values (64–102). `Menus(env)` is the menu tables of PrefsEditor (260–468) by name, each table (`AboutLevel`, `PspTVLevel`, … `GfxLevel`) an operator of its own, a sequence of items; an item is the `struct gui_menu` of gui_psp.h abstracted to its kind, the variable it edits, its list length, its submenu, file directory or function, its range and whether it is enabled. `Envs` are what the tables depend on: psp_tv_cable, psp_amount_free(), psp_net_error and the number of network configurations getconfname finds. `EditorSetup` is the set-up before the load (483–529), `PrefsLoad` the "set initial values from prefs" block (531–656), `PrefsSave` the "set prefs from final values" block (665–746), both with their checks and clamps as the code has them. `PspLevelFn` re-points PspLevel's third item (471–475). `EntryHasText` is whether do_gui's display of a SELECT item finds a text for the value (gui_psp.cpp 544–547); only the access-point list can lack one.

### VitaPrefs (PSP2/prefs_editor_psp.cpp: tables, load, save)

The same roles as PspPrefs for the Vita port's copy of the editor. Its differences are what the model keeps: no TV output (`vidout` and the TV panes are gone), a three-entry aspect list, seven screen sizes with default 4, the rear-touch, indirect-touch, pointer-speed and analog-deadzone items of PspLevel (297–298), a network menu and a create-volume menu that are all `GUI_DISABLED`, psp_net_error always 0 and getconfname always 0. `PrefsLoad` (494–622) reads relaxed60hz, reartouch and indirecttouch only when true and pointerspeed and analogdeadzone only when non-zero, as the code does; `PrefsSave` is 627–714. No table has a menufn, so `NoMenuFn` is the identity.

### PspGui (do_gui and PrefsEditor)

PspGui is written once for both ports: PSP2/gui_psp.cpp's do_gui (126–397) has PSP's control. The port's data are operator constants, `GuiDefaults`, `GuiMenus`, `GuiEntryHasText`, `MenuFn`, `GuiLoad` and `GuiSave`, bound in a cfg (`GuiMenus <- Menus`) or in `INSTANCE … WITH`. `PspEditor` (EXTENDS PspPrefs, PspGui) and `VitaEditor` (EXTENDS VitaPrefs, PspGui) are the two editors and hold their property `EditorKeepsPrefs`; `MCPrefsReopen` instantiates both and lets the first state choose the platform.

| Variable | Code |
|---|---|
| `env` | the environment of `Envs` |
| `prefs` | the preferences as last saved |
| `g` | the psp_* variables |
| `stack` | the frames of the nested do_gui calls: menu, csel, menufn |
| `files` | the files of hardfiles/, cdroms/, disks/, roms/ |
| `edits`, `exit` | the count of changed values (bounded by `MaxEdits`); whether the editor has saved or quit |

One step is one pass of the innermost do_gui loop: `MoveUp`, `MoveDown` (csel with wrap-around, 484–495); CROSS on an enabled item: `EnterMenu` (the recursive do_gui with the item's menufn), `CreateVolume` (psp_create_hardfile/floppy, 164–252), `Toggle`, `SelectNext`, `SelectPrev`, `ChooseFile` (RequestFile's file or 0), `IntegerStep` (±1, ±10, clamped); `CircleBack` (return to the caller's loop), `CircleSave` (CIRCLE in TopLevel: PrefsEditor's save, 661–746) and `EmergQuit` (emerg_quit). `MenuOf` applies the menufn at the top of every pass, as do_gui does.

### PspReqFile (reqfile.cpp, pure operators)

The file requester behind PspGui's `RequestFile`. `ParseDir` is parse_dir: the entries readdir returns in its order, less the ones it skips ('.' names, entries stat, opendir or fopen refuses), cut at `maxentries`, then sorted by `SortFrom`, the exchange loop that restarts from the front after every swap (`i = -1`), with `OutOfOrder` its test (directories first, then strcasecmp order) and `Swap` the exchange. A name is its place in strcasecmp order. `Down`, `Back` (UP by 1, LEFT by PAGESIZE), `Right` and `WrapToBottom` are FileSelector's page arithmetic on [selection, offset]; `SelectorStep` is one pass of its loop, the button tests taken in the code's order as separate ifs, so buttons held together all apply. CROSS, TRIANGLE and the redraw are not modelled: they read and write thefiles' strings. PSP2/reqfile.cpp is the same code with PAGESIZE 13 and the sceIo directory calls, so these operators stand for it too.

### PspStartup (main_psp.cpp 522–617, composition)

PspStartup EXTENDS PspEditor, with the Gui* constants bound to PspPrefs in MCPspStartup.cfg. main's start as it runs on one thread: the editor (`EditorStep`, `EditorSave`), then `NetStart` when the saved "udptunnel" is set, with PspNet's actions (`NetThread`, `MainThread`, `NetSleepEnds`, `MainSleepEnds`, `NetUser`) through `INSTANCE PspNet`, then `DrivesStart` and PspDisk's actions (`DriveStep`) through `INSTANCE PspDisk`, whose names are the editor's "floppy" and "cdrom" and whose inserted flags are the ones the editor's save sets (716–726). The in-game menu lists disks/ and cdroms/ as the editor left them. At the hand-off (`EditorReturns`) the model forgets what nothing reads again: the psp_* variables (the video code has copies of its own) and the preferences other than udptunnel, udpapoint, floppy and cdrom; `DrivesStart` forgets the WLAN switch and the pad. This keeps the later phases from being explored once per edit.

### PspTimer (timer_psp.cpp)

These are pure operators at scaled widths:
- `MW` stands for int32 and `HW` for uint64, with MW = 12 and HW = 24 in the runs;
- `Unsigned` and `Signed` wrap a value at a width, as the C conversions do.

| Definition | Code |
|---|---|
| `timer_add_time`, `timer_sub_time` | timer_add_time, timer_sub_time |
| `timer_cmp_time` | timer_cmp_time |
| `timer_mac2host_time` | timer_mac2host_time |
| `timer_host2mac_time` | timer_host2mac_time |

`MCPspTimer` enumerates inputs (used by the timer_wrap run and, through `MCPure`, by value_pure) and checks the operators against `MacDuration`, the duration a Mac time value stands for, and against integer order.

## 3. Runs

| Run | Module / cfg | Expect | What it shows |
|---|---|---|---|
| value_pure | MCPure / MCPure.cfg | pass | See below. About 122,000 states, about 75 seconds. |
| engine_status | MCFpuEngine / MCFpuEngine.cfg | pass | See below. About 35,000 states, under 2 minutes. |
| engine_manual | MCFpuEngine / MCFpuEngine_manual.cfg | violation | `InstructionsMatchManual` fails three ways, each on its own instruction. FTST/FCMP of a signalling-NaN single or double operand lose the `invalid` flag, because set_exception_status(0) clears it before make_fpsr. FMOVE out leaves its conversion flags pending, to be charged to the next instruction. FMOVECR #0x01 and every other odd offset loads 0.0, because `extra & 0x7f >= 0x40` parses as `extra & 1`. |
| operators_manual | MCFpuBranch / MCFpuBranch_manual.cfg | violation | `OperatorsMatchManual` fails eleven ways, each on its own inputs. TLC's counterexample: FBcc with BSUN and INEX2 enabled and only `inexact` accrued takes no exception, because the else-if chain looks only at BSUN. Loading `hw = 0, sig = 1` (a positive denormal) gives a negative value, because the normalising shift makes the exponent negative and packFloatx80 wraps it into the sign bit. FTRAPcc reads its condition from the opcode (0x3a–0x3c, never a valid predicate), so it always calls op_illg and then takes trap 7. FScc (An)+ / -(An) writes at An without stepping An. FSAVE accepts (An)+ and the PC-relative modes, and FRESTORE accepts -(An); the code's own comments and the manual rule these out. get_fp_value decodes (d16,An) and the other extension-word modes before it rejects the undefined size 7, so the caller's 4-byte rewind leaves the PC 2 bytes past the opcode. put_fp_value writes to (d16,PC), (d8,PC,Xn) and immediate destinations, which the manual does not allow. A dynamic FMOVEM list is read from `m68k_dreg((extra >> 4) & 3)`, so a list in D4-D7 comes from D0-D3. FMOVEM -(An) followed by FMOVEM (An)+ turns -0 into +0: extract_extended writes any zero as three zero longs. get_fpccr tests the whole low word for NaN, so exponent max with only the integer bit set (an infinity by the manual's data formats, where that bit is don't-care) sets the NAN condition code. Writing back the condition codes read (FMOVE FPSR,Dn; FMOVE Dn,FPSR) loses N, so -0 comes back as +0 and a negative value as positive: set_fpccr drops floatx80_chs's result (286). |
| tick_second | MCPspTick / MCPspTick_second.cfg | violation | `OneSecondPer60Ticks`: with CounterLimit = 60, the 1HZ flag comes after 61 60HZ raises. |
| system_quit | MCPspSystem / MCPspSystem.cfg | pass | All four threads. `TypeOK`. `QuitCompletes`. `AudioThreadsGoneAfterExit`: when AudioExit has deleted the semaphores, both audio threads are gone and the channel is released. `AudioStreamRefined`: the audio threads implement AudioStream, so the buffers go to the hardware in turn and fillBuffer writes only the buffer handed over last, never starting on the one playing. `AudioAnsweredUnlessLost`: every wait on audio_irq_done_sem ends, unless another thread's store erased its AUDIO raise. The flag race below is therefore the only way sound stops. About 350,000 states in about 2.5 minutes. |
| system_audio_stall | MCPspSystem / MCPspSystem_stall.cfg | violation | `AudioRequestAnswered` (see the trace below). |
| net_skip | MCPspNet / MCPspNet_skip.cfg | violation | `ButtonSkipsNetworking`. A button held at "Please enable WLAN or press a button to procede without networking" makes connect_to_apctl return 0. net_thread's countdown then reads the same press and calls connect_to_apctl again. Networking is given up only after 10 seconds with no button down. |
| input_stuck_key | MCPspInput / MCPspInput_stuck.cfg | violation | `ButtonKeysReleased` (see below). |
| startup | MCPspStartup / MCPspStartup.cfg | pass | See below. About 185,000 states, about 1 minute. |
| prefs_reopen | MCPrefsReopen / MCPrefsReopen.cfg | violation | `EditorKeepsPrefs` (see below). |
| timer_wrap | MCPspTimer / MCPspTimer_wrap.cfg | violation | `TimerKeepsTime` has three parts, and each fails on its own inputs. (1) `mactime * 1000` overflows int32, and so does `-mactime` for INT_MIN. (2) Times more than 2^31 µs apart compare with the wrong sign, e.g. a = 1000, b = 4099. (3) A deadline 1 µs in the past becomes a positive millisecond wait, not the 0 the comment promises. TLC reports the first state it meets. |

**The audio stall (system_audio_stall).** ClearInterruptFlag's load and store can be split by any thread of higher priority, against the header comment that the flags "must be handled atomically". The tick thread can lose a 1HZ raise the same way. The composed run shows the worst case, the race stopping sound for good:
1. The emulator is inside ClearInterruptFlag(60HZ) and has loaded {1HZ, 60HZ}.
2. The hardware finishes a block, and audioOutput (0x16) preempts the emulator and signals bufferEmpty.
3. fillBuffer (0x15) sets AUDIO and waits on audio_irq_done_sem.
4. The emulator stores {1HZ}, so AUDIO is gone.
5. Nothing raises AUDIO again. fillBuffer waits forever while the hardware replays old buffers.

**The stuck key (input_stuck_key).** key_up is called only from the map loop. VideoInterrupt skips that loop while the on-screen keyboard or the disk menu is up. TLC's trace, 8 states:
1. RIGHT (F2, key 60) is held; the map loop sends F2 down.
2. In the same sixtieth of a second RIGHT is released and START pressed.
3. VideoInterrupt opens the OSK.
4. START is released. The pad is empty, yet the Mac holds F2.

The everyday form has a button held while START is pressed. With TRIANGLE (Cmd-Q) held, every character typed on the OSK reaches the Mac as a Cmd shortcut. The key is released only when the OSK closes and the loop runs again. If an imap is loaded from the menu in between, parse_imap clears the flags, so the key is never released.

The 1 Hz off-by-one also delays the XPRAM watchdog: its save runs every 61 × 61 ticks rather than every 60 × 60.

**value_pure** runs `MCPure`, whose states are the inputs of three groups of pure operators side by side: the FPU inputs of `MCFpuBranch`, the host times of `MCPspTimer`, and the requester's inputs (`req`). It checks ten properties over every scaled bit pattern, conditional instruction, state frame, operand, FMOVEM list, host time, readdir order and selector position:
- `CondMatchesIeee`: all 64 condition fields give the predicate table's truth value, and -1 above 31.
- `NormalisePreservesValue`: make_extended keeps the value and sign of normal operands.
- `DbccMatchesManual`: FDBcc decrements the low word of Dn through the 0 → 0xffff wrap, keeps the upper word, and stops when the count reaches -1.
- `FbccBranchMatchesManual`: with no exception pending, FBcc branches exactly when the predicate holds, by the sign-extended 16- or 32-bit displacement.
- `FrameRoundTrip`: FSAVE -(An) followed by FRESTORE (An)+ brings An back on the 68040 and on the 68881. FRESTORE (An)+ steps over every frame format the manual lists (NULL, IDLE, UNIMP, BUSY of each CPU) by exactly its length.
- `FmovemRoundTrip`: a context switch saves data registers with FMOVEM -(An) and restores them with FMOVEM (An)+ of the mirrored mask. Every listed register comes back into itself, the other registers are untouched, and An returns to where it started. The same holds for FPCR/FPSR/FPIAR: each is read back from the long it was written to.
- `OperandStepsMatchManual`: for every legal source, get_fp_value reads where the manual puts the operand. (An)+ and -(An) step An by the operand length, and by two for a byte on A7. Immediate data moves the PC over whole words, and a byte sits in the low half of its word.
- `Host2MacKeepsDuration`: timer_host2mac_time is exact in microseconds up to 0x7fffffff and correct to the millisecond above.
- `SortMatchesReference`: for any order readdir returns, parse_dir keeps the first MAXFILES entries it lists, none of the '.' ones, with the directories first and the names ascending. Its mutant, the loop without the restart, leaves three entries unsorted.
- `SelectorKeepsSelectionVisible`: from any selection on the page of a non-empty listing, one pass of FileSelector with any buttons held ends on an entry of the listing on the page ShowFiles draws; RequestFile starts it at entry 0, page 0, so this holds throughout. The empty listing after CROSS into an empty subdirectory is outside it: there UP wraps to selection -1 and the next CROSS reads thefiles[-1].

**The preferences editor (prefs_reopen).** `EditorKeepsPrefs` says that every value the editor holds can be displayed, and that once it has saved, the next start shows what the user left and can display every value in any environment. MCPrefsReopen checks it for both ports: the PSP editor from a session saved with networking on, and the Vita editor from one saved with a slow pointer and a small deadzone. It fails four ways:
1. With psp_net_error set, net_wap_list is never filled, yet the Access point SELECT stays enabled with 11 entries. TLC's trace: DOWN three times, CROSS into the network menu, UP to Access point, CROSS+RIGHT. psp_net_accesspoint becomes 1 and do_gui strcat's a NULL text (gui_psp.cpp:547), a crash. A udpapoint saved when more configurations existed is loaded unchecked (605) and does the same.
2. Turning Relaxed 60 Hz off is saved as false (744), but the load runs only `if (PrefsFindBool("relaxed60hz"))` (655), so the next start shows it on again.
3. The UDP port item's minimum is 5000 (376), but the load resets `<= 5000` to 6066 (601).
4. On the Vita, pointer speed 0.25 and deadzone 5% are entry 0 of their lists and are saved as 0 (PSP2/prefs_editor_psp.cpp 710–712), but the load takes them only when non-zero (618–622), so the next start shows 1.00 and 10% again. TLC's Vita trace moves to the deadzone item, steps it from 1 to 0 and saves. Relaxed 60 Hz has the PSP's bug here too (609).

**startup** runs main's start: the editor in two environments (no TV cable with networking; a component cable with psp_net_error), the network start-up when the saved prefs ask for it, then the drives of the saved prefs with Mac ejects and locks, the menu's mounts, suspend and resume, and Sys_close at exit. It checks `NetConnectReturns` (once the user stops pressing buttons, start-up gets past psp_net_connect to the drivers), `PaneFollowsOutput` (the display pane the user is in is the TV pane exactly when psp_vidout_select says TV, so the aspect edited is the one PrefsSave takes for pspdar) and the drives' properties:
- `TypeOK`, which also says floppy_fh names a floppy handle and cdrom_fh a CD-ROM handle.
- `EjectSticks`: a disk the Mac ejected stays out (SysIsDiskInserted false) until the menu mounts another, across any number of suspends.
- `ModeMatchesReadOnly`: a handle open read-write is never marked read-only, and one opened read-only (by request, by a failed access(W_OK), or by the retry) is marked read-only, so the Mac never writes to a read-only descriptor.
- `ResumeRestoresDrives`: once power is back, every handle open at the suspend and not ejected since is open again, and no descriptor is left closed-but-numbered.
- `MenuMatchesDrives`: while the emulator runs, the menu's inserted flag for each drive equals what SysIsDiskInserted reports for floppy_fh and cdrom_fh.

**engine_status** checks three properties:
- `TypeOK`.
- `HostControlMatchesFpcr`: the library rounding between instructions is the one the FPCR selects, so the borrow in FINTRZ/FMOD/FREM/FSCALE is always returned.
- `FpsrRoundTrip`: every reachable FPSR, saved to a register and written back, keeps its quotient, exception and accrued bytes and its NAN, I and Z codes. The N code does not come back (see operators_manual), so it is left out here.

Every property of a passing run has a mutant in PROJECT.json that TLC must catch. Each mutant is a bug variant defined just before the definition it replaces:
- FppCond with the historical NGE error;
- make_extended without the exponent adjustment;
- make_quotient storing the quotient byte without its shift;
- FINTRZ without the restore;
- the UNFL and INEX accrued bits swapped;
- FDBcc decrementing the whole register (`FdbccWholeRegister`);
- FSAVE -(An) writing its frame one long too low (`FsaveOffByOne`);
- get_fp_value stepping A7 by `sz1`, like any other register (`GetFpValueNoA7`);
- the FMOVEM predecrement loop testing the postincrement bit order (`SelectedMirror`);
- the net_thread countdown ending without psp_net_available = -1 (`NetRetryNoGiveUp`), or testing `i <= 10` (`NetRetryOffByOne`);
- FBcc without the 16-bit sign extension (`FbccNoSignExtend`);
- a semaphore without its maximum of 1 (`SignalSemaNoMax`);
- AudioExit releasing the channel without stopping the threads (`AudioExitReleaseKeepsChannel`);
- AudioInterrupt without its signal (`AudioInterruptNoSignal`);
- audioOutput flipping pcmflip before choosing its buffer (`OutputLoopFlipFirst`);
- tick_func not testing the cancel flag (`TickLoopNoCancel`);
- AudioInterrupt not signalling audio_irq_done_sem (`AudioInterruptNoSignal`), for `AudioAnsweredUnlessLost`;
- timer_host2mac_time's range test off by one (`timer_host2mac_timeOffByOne`);
- Sys_open making every device handle floppy_fh (`SysOpenNoKindTest`);
- SysEject closing the descriptor without setting fd to -1 (`SysEjectNoReset`);
- the read-only retry not setting read_only (`OpenRetryNoMark`);
- Sys_drive_stop setting fd to -1, so Sys_drive_restart reopens nothing (`PowerSuspendReset`);
- the menu setting psp_floppy_inserted before checking the open (`MenuMountFloppyEarly`);
- PspLevelFn leaving PspLevel's table as set up (`PspLevelFnStale`).

### Bounds and why they are enough

| Bound | Value |
|---|---|
| Format | EW = 3, SW = 4: 16 high words × 16 significands |
| Conditional instructions | conditions F, EQ, OGT, NE, T, SGE and one unknown field; Dn low words 0, 1, 0x8000, 0xffff and an upper word; ±8 displacements of both sizes; seven FPCR enable sets × three accrued sets; every FScc addressing mode class; the three FTRAPcc opcodes |
| Data registers | 1 in the engine run |
| `LibValues` | +0, 1.0 and the library's infinity (exponent max, integer bit set). FNEG and FABS produce the negatives. |
| `LibFlags` | `invalid` |
| `DnValues` | 0; 0x70 (round to +inf, single precision); 0x08000208 (N, INEX2, INEX) |
| `QuotLsbs` | {1} |
| `OpCodes` | one opcode of every handler shape, the 68040 FSMOVE, and two unhandled fields |
| `RomOffsets` | 0, 1, 0x0B, 0x0F, 0x32 |

Why these bounds suffice:
- **Format.** Every case the code distinguishes occurs: zero, denormal, normal, unnormal, infinity, NaN, both signs, and a shift count up to SW. The code's tests compare fields only with 0, the maximum and the sign bit, so a wider format adds no new case.
- **Flags.** The flag-handling code treats every flag alike, so one flag exercises every path. The FPSR immediate 0x08000208 brings `inexact` in through set_fpsr.
- **Registers.** Keeping one data register is sound for these properties: none of them relates two data registers. The value runs check the register-value operators over all patterns.

**PSP models**
- **Threads.** Each run has the real threads and priorities. The tick model has the tick thread and the emulator; the system model has all four.
- **Input.** Seven buttons: START, SELECT, the three mapped face buttons, and DOWN and RIGHT, which are both arrow-key rows and menu keys. The rows are those of the built-in button_map for these buttons; two share Cmd. One imap file adds a Caps Lock row, a mouse-move row with a released-button condition, and Return. There are two OSK characters (one shifted), the move-right answer and backspace, two IR keys (`a` and Caps Lock, outside the map codes), one floppy image and no CD-ROM. FrameSkip is 2, so handle_menu misses every other sample. The full state space is too large to enumerate, but the violation needs only eight states.
- **Counters.** CounterLimit is 1 in system_quit, so a 1HZ raise and a watchdog call happen within a few ticks. tick_second uses the real 60 and bounds the history variable at 61 (`HzBound`).
- **Disks.** The floppy and CD-ROM slots, opened in that order from the saved prefs. The floppy is the placeholder or one of disks/: a writable image, a write-protected one, a missing one, or the volume the editor created; the CD-ROM the placeholder or cdroms/'s image, opened read-only as main asks. The menu offers disks/ and cdroms/. This covers every branch: placeholder, open rw, retry ro, failed open, failed mount. Every file follows the naming rule (floppies end in .dsk). A floppy named otherwise would be taken for a CD-ROM; that is a user error the code does not check. Files do not change while the PSP sleeps.
- **Editor.** Two environments: no TV cable, 16 MB free and two network configurations; a component cable and psp_net_error. One initial preferences file (UDP tunnel on, port 5002, a floppy chosen). hardfiles/ holds one file, cdroms/ one, disks/ three (writable, write-protected, missing); creating a volume adds one more to hardfiles/ or disks/. `MaxEdits` = 1: one value changed per session, which with the save and the restart is enough for every finding and for the pane property (change the output, enter the pane). `IntValues` = 4..16 and 5000..5004, the RAM range and the bottom of the port range.
- **Requester.** PAGESIZE 3 instead of 16 and MAXFILES 3 instead of 256; listings of 1 to 7 entries, so shorter than, as long as, and more than two pages; readdir returns up to four entries, of four names, files or directories, or a '.' entry. The page arithmetic is uniform in PAGESIZE, so the cases the code tells apart (wrap at either end, a page turn, a last page shorter than a page, a listing within one page) all occur; the sort needs three kept entries to tell the restarting loop from a single pass and four read to cut at MAXFILES.
- **Start-up.** The drives in the composition are the floppy and the CD-ROM (the slots the editor names); the net loop bounds are PspNet's, WaitLimit 10 and PollLimit 3.
- **Sources.** `numSources` toggles between 0 and 1, so both the silence and the interrupt paths of fillBuffer run.
- **Timer widths.** MW = 12 and HW = 24 keep the real relations: 1000 < 2^11, and 2^24 > 2^11 × 1000. Every case of the C code therefore occurs: the millisecond branch, the int32 overflow, and the 64-bit difference exceeding int32. The host times are a grid of step 997 plus the edge values.

### Fairness

No liveness property is stated for the FPU. Each instruction is a single atomic step, and nothing in the FPU waits. The runs check deadlock: every state can execute another instruction.

The PSP models have liveness properties: `AudioRequestAnswered`, `AudioAnsweredUnlessLost`, `QuitCompletes` and `NetConnectReturns`. In the start-up, main going on after psp_net_connect (`DrivesStart`) has weak fairness: it is main's own next statement. Their fairness comes from the PSP kernel's strict-priority scheduling:
- **The highest-priority thread.** The tick thread gets weak fairness: when it is ready, it runs.
- **Timers and the hardware.** The tick timer and the audio hardware get weak fairness: a sleep ends, and a block ends.
- **Lower-priority threads.** The filler, audioOutput and the emulator get strong fairness. They run only when every thread above them is blocked, which happens again and again because those threads sleep or wait. They are not continuously enabled, so weak fairness would not hold them to account.

The system and the standalone runs end in a state where the emulator is `done` (`sceKernelExitGame`). That state stutters, so deadlock checking stays on.

## 4. Plan for later sittings

1. **Abstract FPU status.** A status specification (sticky accrued byte, condition codes from the last result) that FpuEngine refines, checked as a PROPERTY via `INSTANCE … WITH`.
2. **PspEther.** The UDP receive thread against ether_reset/ether_exit.
3. **Packed decimal converters.** These are pure operators.
4. **Input, passing properties.** The converse of `ButtonKeysReleased`: a held row's keys are all down. The shared Cmd of the default rows breaks it. A checked bound on the menu's `sel`.
5. **Disks, faults.** A file that disappears while the PSP sleeps, so Sys_drive_restart's reopen fails while psp_floppy_inserted stays set.

## 5. What is not modelled and why

- **SoftFloat and libm.** They are external, and their results are left open: values abstracted to `LibValues`, flags to `LibFlags`.
- **Text entry in the editor.** RequestString and GUI_STRING (no menu uses a string item), the drawing of the menus and the requester's CROSS and TRIANGLE (which read thefiles' strings) are left out; in PspGui the requester is its result, and its sort and page arithmetic are PspReqFile.
- **Video refresh, the danzeff keyboard's own cursor, ExtFS, Sys_read/Sys_write and the CD-ROM TOC and audio stubs, XPRAM file I/O.** These are host rendering and file I/O, with no concurrency. No property separates their behaviour beyond what the screen shows. The input side of VideoInterrupt is modelled (PspInput); video_psp_old.cpp and the PSP2 copy of video_psp.cpp are older and ported variants of the same code, and are not modelled separately.
- **The rest of PSP main.** Preference parsing, memory and ROM loading and InitAll's other parts are sequential I/O before any thread starts. HasMacStarted is taken as true in one_tick.
- **Microseconds, TimerDateTime, timer_current_time.** They read the PSP RTC. Only the conversions of their results are modelled.
- **The audio sample data.** The model keeps which buffer is filled and which is played, not the samples. Tearing within a block needs a clock, so the ordering hazard at audio_psp.cpp:116 has no property.
- **Power events after exit.** Sys_close frees each handle but leaves it in fh_list, so a suspend after the drives closed would walk freed memory. The model stops power events once the handles are freed (`Running`), since sceKernelExitGame follows at once.
- **PSP2 main.** The same structure as PSP main; not yet modelled.
