----------------------------- MODULE FpuOperand -----------------------------
(***************************************************************************)
(* The operand resolvers of the soft FPU, get_fp_value and put_fp_value    *)
(* (fpu_soft.cpp 589-856), that the arithmetic instructions and FMOVE to   *)
(* memory use when bit 14 of the extension word selects an <ea> operand.  *)
(* Each is an operator from the opcode's mode and register, the size field *)
(* of the extension word (bits 10-12), An, the PC after the extension word *)
(* and the next extension word to the state the resolver leaves: whether  *)
(* it succeeded, the address it reads or writes, An and the PC.  The data  *)
(* conversions are the value operators' business and are left out.  On    *)
(* failure the caller, fpuop_arithmetic, sets the PC back by 4 and calls   *)
(* op_illg.                                                                *)
(***************************************************************************)
EXTENDS FpuFrame

(* Operand lengths by size: L, S, X, P, W, D, B and the undefined 7.  sz2  *)
(* keeps A7 word-aligned for a byte.                                       *)
Sz1 == <<4, 4, 12, 12, 2, 8, 1, 0>>
Sz2 == <<4, 4, 12, 12, 2, 8, 2, 0>>

(* The sizes a data register holds: L, S, W and B.                         *)
DregSizes == {0, 1, 4, 6}

(* Bug variant: (An)+ and -(An) step A7 by sz1, like any other register.   *)
GetFpValueNoA7(mode, reg, size, an, pc, ext) ==
    LET step == Sz1[size + 1]
        ea   == GetFpAd(mode, reg, an, pc, ext)
        data == size \in 0 .. 6
    IN  CASE mode = 0 -> [ok |-> size \in DregSizes, ad |-> 0, an |-> an, pc |-> pc]
          [] mode = 7 /\ reg = 4 ->
               [ok |-> data, ad |-> IF size = 6 THEN pc + 1 ELSE pc,
                an |-> an, pc |-> pc + Sz2[size + 1]]
          [] ~ea.ok -> [ok |-> FALSE, ad |-> 0, an |-> an, pc |-> pc]
          [] OTHER ->
               [ok |-> data, ad |-> IF mode = 4 THEN an - step ELSE ea.ad,
                an |-> CASE mode = 3 -> an + step
                         [] mode = 4 -> an - step
                         [] OTHER    -> an,
                pc |-> pc + 2 * ea.words]

(* get_fp_value.  A data register gives L, S, W or B; An direct, mode 7    *)
(* beyond immediate, and the undefined size 7 fail.  The address modes     *)
(* are decoded before the size is looked at, so a failing size 7 has       *)
(* already stepped An (by 0) and consumed the extension words.  Immediate  *)
(* data lies at the PC, which moves over it; a byte is the low byte of its *)
(* word.                                                                   *)
GetFpValue(mode, reg, size, an, pc, ext) ==
    LET step == IF reg = 7 THEN Sz2[size + 1] ELSE Sz1[size + 1]
        ea   == GetFpAd(mode, reg, an, pc, ext)
        data == size \in 0 .. 6
    IN  CASE mode = 0 -> [ok |-> size \in DregSizes, ad |-> 0, an |-> an, pc |-> pc]
          [] mode = 7 /\ reg = 4 ->
               [ok |-> data, ad |-> IF size = 6 THEN pc + 1 ELSE pc,
                an |-> an, pc |-> pc + Sz2[size + 1]]
          [] ~ea.ok -> [ok |-> FALSE, ad |-> 0, an |-> an, pc |-> pc]
          [] OTHER ->
               [ok |-> data, ad |-> IF mode = 4 THEN an - step ELSE ea.ad,
                an |-> CASE mode = 3 -> an + step
                         [] mode = 4 -> an - step
                         [] OTHER    -> an,
                pc |-> pc + 2 * ea.words]

(* put_fp_value decodes the destination by the same switch, with no        *)
(* check that it is alterable: immediate data and the PC-relative modes    *)
(* are written to.  An immediate byte is written at the PC itself.         *)
PutFpValue(mode, reg, size, an, pc, ext) ==
    LET g == GetFpValue(mode, reg, size, an, pc, ext)
    IN  IF mode = 7 /\ reg = 4 THEN [g EXCEPT !.ad = pc] ELSE g

(* fpuop_arithmetic's answer to a failed resolver: the PC is set back by 4 *)
(* to what it takes for the opcode, and the instruction is illegal.        *)
OperandFailure(out) == [pc |-> out.pc - 4, an |-> out.an, ev |-> <<Illegal>>]

=============================================================================
