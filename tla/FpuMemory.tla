----------------------------- MODULE FpuMemory -----------------------------
(***************************************************************************)
(* FMOVEM between the FPU and memory (fpuop_arithmetic, fpu_soft.cpp       *)
(* 1338-1557): the control registers FPCR, FPSR and FPIAR (extension word  *)
(* classes 4 and 5) and the data registers FP0-FP7 (classes 6 and 7).  As  *)
(* in FpuOperand each form is an operator from the opcode's mode and       *)
(* register, the extension word, the CPU registers it reads, An, the PC    *)
(* after the extension word and the next extension word to its outcome:   *)
(* the longs written (a set of <<address, long>>) or the registers loaded, *)
(* An and the PC.                                                          *)
(*                                                                         *)
(* A data register is written as the three longs extract_extended gives,   *)
(* scaled like FpuValue: wrd1 is the high word, wrd2 and wrd3 the upper    *)
(* and lower halves of the significand.                                    *)
(***************************************************************************)
EXTENDS FpuOperand, FiniteSets

HalfSig == 2^(SW \div 2)

ExtendedLongs(v) ==
    LET w == ExtractExtended(v) IN <<w[1], w[2] \div HalfSig, w[2] % HalfSig>>

FromLongs(l1, l2, l3) == MakeExtended(l1, l2 * HalfSig + l3)

Bit(x, b) == (x \div 2^b) % 2 = 1

-----------------------------------------------------------------------------
(* Control registers.  Bits 12, 11, 10 select FPCR, FPSR, FPIAR, moved in  *)
(* that order at ascending addresses.  ctrl is [fpcr, fpsr, fpiar]; only   *)
(* the low word of FPCR is stored.                                         *)

CtrlSel(extra) ==
    SelectSeq(<<"fpcr", "fpsr", "fpiar">>,
              LAMBDA c : Bit(extra, CASE c = "fpcr" -> 12 [] c = "fpsr" -> 11
                                          [] c = "fpiar" -> 10))

CtrlLong(ctrl, c) == IF c = "fpcr" THEN ctrl.fpcr % 65536 ELSE ctrl[c]

(* FMOVEM FPcr -> <ea>: -(An) writes the block below An and leaves An at   *)
(* its start, (An)+ leaves An after it; a failing address rewinds the PC.  *)
FmovemCtrlToMem(mode, reg, extra, an, pc, ext, ctrl) ==
    LET ea   == GetFpAd(mode, reg, an, pc, ext)
        sel  == CtrlSel(extra)
        incr == IF mode = 4 THEN 4 * Len(sel) ELSE 0
        base == ea.ad - incr
    IN  IF ~ea.ok THEN [ok |-> FALSE, pc |-> pc - 4, an |-> an, writes |-> {}]
        ELSE [ok |-> TRUE, pc |-> pc + 2 * ea.words,
              an |-> CASE mode = 3 -> base + 4 * Len(sel)
                       [] mode = 4 -> base + 4 * Len(sel) - incr
                       [] OTHER    -> an,
              writes |-> {<<base + 4 * (i - 1), CtrlLong(ctrl, sel[i])>> :
                              i \in 1 .. Len(sel)}]

(* FMOVEM <ea> -> FPcr: the same block is read; reads maps each register   *)
(* to the address it is loaded from (set_fpcr / set_fpsr of that long).    *)
FmovemCtrlFromMem(mode, reg, extra, an, pc, ext) ==
    LET ea   == GetFpAd(mode, reg, an, pc, ext)
        sel  == CtrlSel(extra)
        incr == IF mode = 4 THEN 4 * Len(sel) ELSE 0
        base == ea.ad - incr
    IN  IF ~ea.ok THEN [ok |-> FALSE, pc |-> pc - 4, an |-> an, reads |-> <<>>]
        ELSE [ok |-> TRUE, pc |-> pc + 2 * ea.words,
              an |-> CASE mode = 3 -> base + 4 * Len(sel)
                       [] mode = 4 -> base + 4 * Len(sel) - incr
                       [] OTHER    -> an,
              reads |-> [c \in {sel[i] : i \in 1 .. Len(sel)} |->
                            base + 4 * (CHOOSE i \in 1 .. Len(sel) : sel[i] = c) - 4]]

-----------------------------------------------------------------------------
(* Data registers.  Bits 12-11 of the extension word: 0 static and 1       *)
(* dynamic predecrement, 2 static and 3 dynamic postincrement.  A dynamic  *)
(* list is the low byte of the data register (extra >> 4) & 3.  The       *)
(* predecrement loop runs FP7 .. FP0 testing bits 7 .. 0; the             *)
(* postincrement loop runs FP0 .. FP7 testing the same bits, so there bit *)
(* 7 is FP0.  Each register takes 12 bytes: predecrement places FPr below *)
(* the registers above it, postincrement above the registers below it.    *)

FmovemList(extra, dregs) ==
    IF Bit(extra, 11) THEN dregs[(extra \div 16) % 4] % 256 ELSE extra % 256

FmovemPredec(extra) == ~Bit(extra, 12)

(* Bug variant: the predecrement loop tests the postincrement bit order.   *)
SelectedMirror(list, pred) == {r \in 0 .. 7 : Bit(list, 7 - r)}

Selected(list, pred) == {r \in 0 .. 7 : Bit(list, IF pred THEN r ELSE 7 - r)}

Slot(S, r, pred) ==
    IF pred THEN -12 * Cardinality({q \in S : q >= r})
    ELSE 12 * Cardinality({q \in S : q < r})

(* FMOVEM FPn list -> <ea> (class 7): the registers' longs, and An moved   *)
(* to the block's far end for (An)+ and -(An) whatever the list mode.      *)
FmovemToMem(mode, reg, extra, dregs, an, pc, ext, fp) ==
    LET ea   == GetFpAd(mode, reg, an, pc, ext)
        pred == FmovemPredec(extra)
        S    == Selected(FmovemList(extra, dregs), pred)
        end  == ea.ad + (IF pred THEN -12 ELSE 12) * Cardinality(S)
    IN  IF ~ea.ok THEN [ok |-> FALSE, pc |-> pc - 4, an |-> an, writes |-> {}]
        ELSE [ok |-> TRUE, pc |-> pc + 2 * ea.words,
              an |-> IF mode \in {3, 4} THEN end ELSE an,
              writes |-> {<<ea.ad + Slot(S, r, pred) + 4 * (i - 1),
                            ExtendedLongs(fp[r])[i]>> : r \in S, i \in 1 .. 3}]

(* FMOVEM <ea> -> FPn list (class 6): each selected register is            *)
(* make_extended of its three longs; a predecrement list, "not reached"    *)
(* by the code's comment, reads downwards all the same.  mem maps          *)
(* addresses to longs.                                                     *)
FmovemFromMem(mode, reg, extra, dregs, an, pc, ext, fp, mem) ==
    LET ea   == GetFpAd(mode, reg, an, pc, ext)
        pred == FmovemPredec(extra)
        S    == Selected(FmovemList(extra, dregs), pred)
        end  == ea.ad + (IF pred THEN -12 ELSE 12) * Cardinality(S)
        At(r) == ea.ad + Slot(S, r, pred)
    IN  IF ~ea.ok THEN [ok |-> FALSE, pc |-> pc - 4, an |-> an, fp |-> fp]
        ELSE [ok |-> TRUE, pc |-> pc + 2 * ea.words,
              an |-> IF mode \in {3, 4} THEN end ELSE an,
              fp |-> [r \in 0 .. 7 |->
                        IF r \in S THEN FromLongs(mem[At(r)], mem[At(r) + 4],
                                                  mem[At(r) + 8])
                        ELSE fp[r]]]

=============================================================================
