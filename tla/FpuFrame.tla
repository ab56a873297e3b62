------------------------------ MODULE FpuFrame ------------------------------
(***************************************************************************)
(* FSAVE and FRESTORE of the soft FPU, fpu_soft.cpp 1102-1244.  The FPU    *)
(* never stops inside an instruction, so FSAVE always writes an IDLE frame *)
(* and FRESTORE transfers no state: it reads the frame's format long and   *)
(* steps the address over the frame.  Each handler is an operator from the *)
(* opcode's addressing mode, the CPU type (CPUType, 4 for the 68040), the  *)
(* address register of the opcode and the extension word get_fp_ad reads  *)
(* to its outcome: the longs written (FSAVE) or read (FRESTORE), the new   *)
(* value of An, the PC and the exceptions raised.  pc is the PC after the  *)
(* opcode word.                                                            *)
(***************************************************************************)
EXTENDS FpuBranch

(* The IDLE frames FSAVE writes, format long first: the 68040's four-byte  *)
(* one, and the 68881's 28 bytes (version 0x1f, size 0x18, five zero longs *)
(* and the BIU long 0x70000000).                                          *)
IdleFrame(cpu) ==
    IF cpu = 4 THEN <<1090519040>>                              \* 0x41000000
    ELSE <<521666560, 0, 0, 0, 0, 0, 1879048192>>   \* 0x1f180000 ... 0x70000000

(* The version byte and the size byte of a format long.                    *)
FrameVersion(d) == (d \div 16777216) % 256
FrameSize(d)    == (d \div 65536) % 256

(* The sizes FRESTORE recognises: UNIMP 0x30 and BUSY 0x60 on the 68040    *)
(* (IDLE is 0), the 68881/68882 IDLE 0x18/0x38 and BUSY 0xb4/0xd4 on the   *)
(* others.  An unknown size skips nothing.                                 *)
KnownSizes(cpu) == IF cpu = 4 THEN {0, 48, 96} ELSE {24, 56, 180, 212}

FrameSkip(cpu, d) ==
    IF FrameVersion(d) # 0 /\ FrameSize(d) \in KnownSizes(cpu)
    THEN FrameSize(d) ELSE 0

-----------------------------------------------------------------------------
(* fpuop_save.  -(An) writes the frame below An and leaves An at its       *)
(* start; every other mode writes it upwards from the address.  Modes 3    *)
(* and 4 write the final address back to An.                               *)

(* Bug variant: the predecrement frame written one long too low.          *)
FsaveOffByOne(mode, reg, cpu, an, pc, ext) ==
    LET ea    == GetFpAd(mode, reg, an, pc, ext)
        frame == IdleFrame(cpu)
        len   == 4 * Len(frame)
        base  == IF mode = 4 THEN ea.ad - len - 4 ELSE ea.ad
        last  == IF mode = 4 THEN base ELSE base + len
    IN  IF ~ea.ok
        THEN [ok |-> FALSE, pc |-> pc - 2, an |-> an, writes |-> <<>>,
              ev |-> <<Illegal>>]
        ELSE [ok |-> TRUE, pc |-> pc + 2 * ea.words,
              an |-> IF mode \in {3, 4} THEN last ELSE an,
              writes |-> [i \in 1 .. Len(frame) |-> <<base + 4 * (i - 1), frame[i]>>],
              ev |-> <<>>]

Fsave(mode, reg, cpu, an, pc, ext) ==
    LET ea    == GetFpAd(mode, reg, an, pc, ext)
        frame == IdleFrame(cpu)
        len   == 4 * Len(frame)
        base  == IF mode = 4 THEN ea.ad - len ELSE ea.ad
        last  == IF mode = 4 THEN base ELSE base + len
    IN  IF ~ea.ok
        THEN [ok |-> FALSE, pc |-> pc - 2, an |-> an, writes |-> <<>>,
              ev |-> <<Illegal>>]
        ELSE [ok |-> TRUE, pc |-> pc + 2 * ea.words,
              an |-> IF mode \in {3, 4} THEN last ELSE an,
              writes |-> [i \in 1 .. Len(frame) |-> <<base + 4 * (i - 1), frame[i]>>],
              ev |-> <<>>]

(* fpuop_restore.  (An)+ and the control modes read the format long at the *)
(* address and step over it and the frame; -(An) reads the long below the  *)
(* address and steps down.  mem maps addresses to longs.                   *)
Frestore(mode, reg, cpu, an, pc, ext, mem) ==
    LET ea   == GetFpAd(mode, reg, an, pc, ext)
        at   == IF mode = 4 THEN ea.ad - 4 ELSE ea.ad
        d    == mem[at]
        last == IF mode = 4 THEN at - FrameSkip(cpu, d)
                            ELSE at + 4 + FrameSkip(cpu, d)
    IN  IF ~ea.ok
        THEN [ok |-> FALSE, pc |-> pc - 2, an |-> an, read |-> 0,
              ev |-> <<Illegal>>]
        ELSE [ok |-> TRUE, pc |-> pc + 2 * ea.words,
              an |-> IF mode \in {3, 4} THEN last ELSE an,
              read |-> at, ev |-> <<>>]

=============================================================================
