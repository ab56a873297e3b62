------------------------------ MODULE FpuEngine ------------------------------
(***************************************************************************)
(* The register and status model of the soft FPU and the instruction      *)
(* handlers of fpuop_arithmetic that change it (fpu_soft.cpp): FMOVECR,    *)
(* the general arithmetic group, FMOVE FPn,<ea>, FMOVE between the control *)
(* registers and a CPU register or an immediate, and fpu_init/fpu_reset.   *)
(*                                                                         *)
(* The arithmetic library (SoftFloat and the host libm behind CHKERR) is   *)
(* a black box: a call returns some value of LibValues and raises some     *)
(* subset of LibFlags into the flag word of fp_status ("pending" here).    *)
(* What the handlers do with those flags, with the shadow result, with the *)
(* rounding mode of fp_status and with the FPSR fields is kept exactly.    *)
(* One step is one whole instruction, since the interpreter runs each FPU  *)
(* instruction to completion before the next one.                          *)
(***************************************************************************)
EXTENDS FpuValue, FiniteSetsExt

CONSTANTS
    FpRegs,     \* FPU data register numbers modelled (0..7 in the code)
    LibValues,  \* results the arithmetic library can return
    LibFlags,   \* softfloat exception flags the library can raise
    Integral,   \* fpu_init(integral_68040): the 68040 FS../FD.. group
    DnValues,   \* 32-bit values a CPU register or an immediate may hold
    QuotLsbs,   \* low 7 bits of |quotient| that FMOD/FREM can produce
    OpCodes,    \* opcode fields (extra & 0x7f) the arithmetic class may carry
    RomOffsets  \* FMOVECR offsets (extra & 0x7f) tried

AllFlags == {"invalid", "divbyzero", "overflow", "underflow", "inexact"}

ASSUME /\ FpRegs \subseteq 0 .. 7 /\ FpRegs # {}
       /\ LibValues \subseteq Values /\ LibFlags \subseteq AllFlags
       /\ Integral \in BOOLEAN /\ DnValues \subseteq Nat
       /\ \A x \in DnValues : x \div 65536 < 65536     \* 32-bit words
       /\ QuotLsbs \subseteq 0 .. 127
       /\ OpCodes \subseteq 0 .. 127 /\ RomOffsets \subseteq 0 .. 127

VARIABLES
    registers,  \* FPU registers[]
    result,     \* FPU result: the value the condition codes are read from
    fpcr,       \* FPU fpcr: [mode, prec, enable] fields as stored
    quotient,   \* FPU fpsr.quotient, in its FPSR bit position
    excStatus,  \* current_exception_flags (softfloat flag names)
    accrued,    \* accrued_exception_flags
    pending,    \* the flag word of fp_status: raised and not yet collected
    host,       \* rounding mode and precision loaded into fp_status
    iaddr,      \* FPU instruction_address
    lastOp      \* history: flags the library raised during the last
                \* instruction, and whether it wrote the FPSR wholesale

vars == <<registers, result, fpcr, quotient, excStatus, accrued, pending,
          host, iaddr, lastOp>>

-----------------------------------------------------------------------------
(* FPSR / FPCR layout and the conversions of fpu_soft.cpp and fpu/impl.h.  *)

Field(x, lo, w) == ((x \div 2^lo) % 2^w) * 2^lo     \* x & mask
HasBit(x, b)    == (x \div b) % 2 = 1                \* x & b, b = 2^k

ExcBit  == [invalid |-> 8192, divbyzero |-> 1024, overflow |-> 4096,
            underflow |-> 2048, inexact |-> 512]     \* FPSR_EXCEPTION_*
AccrBit == [invalid |-> 128, divbyzero |-> 16, overflow |-> 64,
            underflow |-> 32, inexact |-> 8]         \* FPSR_ACCR_*
CcBit   == [N |-> 134217728, Z |-> 67108864, I |-> 33554432,
            NAN |-> 16777216]                        \* FPSR_CCB_*
QuotientSign == 8388608                              \* FPSR_QUOTIENT_SIGN

GetExceptionStatus(fs)  == MapThenSumSet(LAMBDA f : ExcBit[f], fs)
SetExceptionStatus(x)   == {f \in AllFlags : HasBit(x, ExcBit[f])}
GetAccruedException(fs) == MapThenSumSet(LAMBDA f : AccrBit[f], fs)

(* Bug variant: the UNFL and INEX accrued bits decoded from each other.    *)
SetAccruedExceptionSwapped(x) ==
    {f \in AllFlags :
        HasBit(x, CASE f = "underflow" -> AccrBit.inexact
                    [] f = "inexact"   -> AccrBit.underflow
                    [] OTHER           -> AccrBit[f])}

SetAccruedException(x)  == {f \in AllFlags : HasBit(x, AccrBit[f])}

CcBits(cc) == MapThenSumSet(LAMBDA b : CcBit[b], cc)
CcOf(x)    == {b \in {"N", "Z", "I", "NAN"} : HasBit(x, CcBit[b])}

GetFpsr == CcBits(GetFpccr(result)) + quotient
           + GetExceptionStatus(excStatus) + GetAccruedException(accrued)

(* set_fpsr: every field of the written value, and the fp_status flags     *)
(* cleared by set_exception_status / set_accrued_exception.                *)
FpsrFields(x) ==
    [result    |-> SetFpccr(CcOf(x)),
     excStatus |-> SetExceptionStatus(Field(x, 8, 8)),
     accrued   |-> SetAccruedException(Field(x, 0, 8)),
     quotient  |-> Field(x, 16, 8)]

(* set_fpcr: the three FPCR fields of the written long word.               *)
FpcrOf(x) == [mode |-> Field(x, 4, 2), prec |-> Field(x, 6, 2),
              enable |-> Field(x, 8, 8)]
GetFpcr == fpcr.enable + fpcr.prec + fpcr.mode

(* set_host_control_word: fp_status rounding from the FPCR fields.         *)
HostControl(c) ==
    [round |-> CASE c.mode = 0  -> "nearest_even"
                 [] c.mode = 16 -> "to_zero"
                 [] c.mode = 32 -> "down"
                 [] c.mode = 48 -> "up",
     prec  |-> CASE c.prec = 64  -> 32
                 [] c.prec = 128 -> 64
                 [] OTHER        -> 80]

(* Bug variant: the quotient byte stored without its shift into bits      *)
(* 16..23.                                                                 *)
MakeQuotientNoShift(sign, lsb) == sign + lsb

(* make_quotient: the sign and the low seven bits of |quotient| into the   *)
(* quotient byte of the FPSR.                                              *)
MakeQuotient(sign, lsb) == sign + lsb * 2^16

(* make_fpsr(r) with fl the flags now in fp_status: the result becomes the *)
(* source of the condition codes, fl the exception status, fl is or-ed     *)
(* into the accrued byte and fp_status is cleared.                         *)
MakeFpsr(r, fl) ==
    /\ result' = r /\ excStatus' = fl /\ accrued' = accrued \cup fl
    /\ pending' = {}

-----------------------------------------------------------------------------
(* Values the handlers compute themselves.                                 *)

Bias == 2^(EW - 1) - 1                    \* FP_EXTENDED_EXP_BIAS
Abs(v) == [v EXCEPT !.high = @ % SignBit]  \* floatx80_abs

Log2(m) == CHOOSE k \in 0 .. SW - 1 : 2^k <= m /\ m < 2^(k + 1)

(* int32_to_floatx80 for the small integers FGETEXP produces.              *)
IntToX(n) ==
    IF n = 0 THEN Zero
    ELSE LET m == IF n < 0 THEN -n ELSE n
         IN  Pack(IF n < 0 THEN 1 ELSE 0, Bias + Log2(m), m * 2^(SW - 1 - Log2(m)))

(* The constant ROM: slots 0, 0x0B-0x0E and 0x30-0x3F hold a constant      *)
(* (every one a positive normal number, abstracted to one such value),     *)
(* the other slots hold 0.0.                                               *)
RomSlots == {0, 11, 12, 13, 14} \cup 48 .. 63
Rom(i) == IF i \in RomSlots THEN Pack(0, Bias + 1, IntBit) ELSE Zero

(* get_fp_value: an FPU register (no side effect) or an operand converted  *)
(* from memory or a CPU register.  Integer, packed and extended loads are  *)
(* exact; float32/float64_to_floatx80 raise invalid for a signalling NaN   *)
(* (whose quiet form is some NaN the library returns).                     *)
Sources == {[v |-> registers[r], fl |-> {}] : r \in FpRegs}
           \cup {[v |-> x, fl |-> {}] : x \in LibValues}
           \cup {[v |-> x, fl |-> {"invalid"}] : x \in {y \in LibValues : IsNaN(y)}}

(* Opcode fields (extra & 0x7f) of the handled arithmetic operations.      *)
LibOps6888x == {1, 2, 4, 6, 8, 9, 10, 12, 13, 14, 15, 16, 17, 18, 20, 21,
                22, 25, 28, 29, 32, 34, 35, 36, 39, 40}
IntegralOps == {64, 65, 68, 69, 88, 90, 92, 94, 96, 98, 99, 100, 102, 103,
                104, 108}
OtherOps    == {0, 3, 24, 26, 30, 31, 33, 37, 38, 56, 58} \cup 48 .. 55
HandledOps  == LibOps6888x \cup OtherOps \cup (IF Integral THEN IntegralOps ELSE {})
LibOps      == LibOps6888x \cup (IF Integral THEN IntegralOps ELSE {})

-----------------------------------------------------------------------------
(* Initial state: fpu_init.  set_fpcr(0) loads round-to-nearest/extended   *)
(* into fp_status, set_fpsr(0) clears every field and the fp_status flags, *)
(* result = 1.0 and every data register holds the default NaN.             *)

InitFpu ==
    /\ registers = [r \in FpRegs |-> DefaultNaN]
    /\ result = One
    /\ fpcr = FpcrOf(0)
    /\ host = HostControl(FpcrOf(0))
    /\ quotient = 0 /\ excStatus = {} /\ accrued = {} /\ pending = {}
    /\ iaddr = 0

Init ==
    /\ InitFpu
    /\ lastOp = [raised |-> {}, explicit |-> TRUE]

(* The step records which flags the library raised and whether the FPSR    *)
(* was written wholesale; the flag-accounting properties read it.          *)
Did(fl, expl) == lastOp' = [raised |-> fl, explicit |-> expl]

-----------------------------------------------------------------------------
(* Class 0/2, (extra & 0xfc00) == 0x5c00: FMOVECR #off,FPn.  The test      *)
(* "extra & 0x7f >= 0x40" parses as extra & (0x7f >= 0x40) = extra & 1, so *)
(* the zero branch is taken for every odd offset, and the ROM slot is      *)
(* read with extra & 0x3f otherwise.                                       *)
Fmovecr(reg, off) ==
    LET v == IF off % 2 = 1 THEN Zero ELSE Rom(off % 64)
    IN  /\ registers' = [registers EXCEPT ![reg] = v]
        /\ MakeFpsr(v, pending)
        /\ Did({}, FALSE)
        /\ UNCHANGED <<fpcr, quotient, host, iaddr>>

(* Every operation whose result is one library call (or a chain of them)   *)
(* followed by make_fpsr: FINT, FSQRT, the CHKERR transcendentals, FDIV,   *)
(* FADD, FMUL, FSGLDIV, FSGLMUL, FSUB and, on a 68040, the FS../FD..       *)
(* group.  The source conversion of get_fp_value and the operation both    *)
(* raise into fp_status before make_fpsr collects it.                      *)
LibOp(op, reg, s) ==
    /\ op \in LibOps
    /\ \E r \in LibValues, f \in SUBSET LibFlags :
          /\ registers' = [registers EXCEPT ![reg] = r]
          /\ MakeFpsr(r, pending \cup s.fl \cup f)
          /\ Did(s.fl \cup f, FALSE)
    /\ UNCHANGED <<fpcr, quotient, host, iaddr>>

(* FMOVE, FABS and FNEG: the source, its sign cleared or flipped.          *)
MoveOp(op, reg, s) ==
    LET v == CASE op = 0  -> s.v
               [] op = 24 -> Abs(s.v)
               [] op = 26 -> Chs(s.v)
    IN  /\ registers' = [registers EXCEPT ![reg] = v]
        /\ MakeFpsr(v, pending \cup s.fl)
        /\ Did(s.fl, FALSE)
        /\ UNCHANGED <<fpcr, quotient, host, iaddr>>

(* Bug variant: FINTRZ without set_host_control_word after the rounding.   *)
FintrzNoRestore(reg, s) ==
    \E r \in LibValues, f \in SUBSET LibFlags :
       /\ registers' = [registers EXCEPT ![reg] = r]
       /\ MakeFpsr(r, pending \cup s.fl \cup f)
       /\ Did(s.fl \cup f, FALSE)
       /\ host' = [host EXCEPT !.round = "to_zero"]
       /\ UNCHANGED <<fpcr, quotient, iaddr>>

(* FINTRZ: round to integer with the rounding mode of fp_status forced to  *)
(* round-to-zero, then set_host_control_word restores it from the FPCR.    *)
Fintrz(reg, s) ==
    \E r \in LibValues, f \in SUBSET LibFlags :
       /\ registers' = [registers EXCEPT ![reg] = r]
       /\ MakeFpsr(r, pending \cup s.fl \cup f)
       /\ Did(s.fl \cup f, FALSE)
       /\ host' = HostControl(fpcr)
       /\ UNCHANGED <<fpcr, quotient, iaddr>>

(* FMOD (0x21, quotient rounded to zero) and FREM (0x25, to nearest).      *)
(* The quotient sign is taken from the destination before it is           *)
(* overwritten; make_fpsr runs before make_quotient, whose own conversion  *)
(* flags are then cleared from fp_status.                                  *)
FmodFrem(op, reg, s) ==
    \E r \in LibValues, f \in SUBSET LibFlags, lsb \in QuotLsbs :
       LET sign == IF SignOf(registers[reg].high) # SignOf(s.v.high)
                   THEN QuotientSign ELSE 0
       IN  /\ registers' = [registers EXCEPT ![reg] = r]
           /\ MakeFpsr(r, pending \cup s.fl \cup f)
           /\ quotient' = MakeQuotient(sign, lsb)
           /\ Did(s.fl \cup f, FALSE)
           /\ host' = HostControl(fpcr)
           /\ UNCHANGED <<fpcr, iaddr>>

(* FSCALE: the scale factor is converted with round-to-zero, the mode is   *)
(* restored, and floatx80_scalbn scales the destination.                   *)
Fscale(reg, s) ==
    \E r \in LibValues, f \in SUBSET LibFlags :
       /\ registers' = [registers EXCEPT ![reg] = r]
       /\ MakeFpsr(r, pending \cup s.fl \cup f)
       /\ Did(s.fl \cup f, FALSE)
       /\ host' = HostControl(fpcr)
       /\ UNCHANGED <<fpcr, quotient, iaddr>>

(* FGETEXP (0x1e) and FGETMAN (0x1f): zero stays zero, an infinity gives   *)
(* the default NaN and raises invalid, a NaN gives the default NaN, and    *)
(* any other operand its unbiased exponent as an integer, or its           *)
(* significand with the exponent set to the bias.                          *)
FGetExpMan(op, reg, s) ==
    LET x  == s.v
        v  == CASE IsZero(x) -> x
                [] IsInf(x)  -> DefaultNaN
                [] IsNaN(x)  -> DefaultNaN
                [] OTHER     -> IF op = 30 THEN IntToX(ExpOf(x.high) - Bias)
                                ELSE Pack(SignOf(x.high), Bias, x.low)
        fl == IF IsInf(x) THEN {"invalid"} ELSE {}
    IN  /\ registers' = [registers EXCEPT ![reg] = v]
        /\ MakeFpsr(v, pending \cup s.fl \cup fl)
        /\ Did(s.fl \cup fl, FALSE)
        /\ UNCHANGED <<fpcr, quotient, host, iaddr>>

(* FSINCOS: cosine into FP(extra & 7) first, then sine into FPn, so the    *)
(* sine wins when both name the same register; the FPSR follows the sine. *)
Fsincos(reg, creg, s) ==
    \E rc, rs \in LibValues, f \in SUBSET LibFlags :
       /\ registers' = [registers EXCEPT ![creg] = rc, ![reg] = rs]
       /\ MakeFpsr(rs, pending \cup s.fl \cup f)
       /\ Did(s.fl \cup f, FALSE)
       /\ UNCHANGED <<fpcr, quotient, host, iaddr>>

(* FCMP: set_exception_status(0) empties fp_status, then make_fpsr of the  *)
(* difference; the destination register is not written.                   *)
Fcmp(reg, s) ==
    \E r \in LibValues, f \in SUBSET LibFlags :
       /\ MakeFpsr(r, f)
       /\ Did(s.fl \cup f, FALSE)
       /\ UNCHANGED <<registers, fpcr, quotient, host, iaddr>>

(* FTST: set_exception_status(0), then make_fpsr of the source itself.    *)
Ftst(s) ==
    /\ MakeFpsr(s.v, {})
    /\ Did(s.fl, FALSE)
    /\ UNCHANGED <<registers, fpcr, quotient, host, iaddr>>

(* An unhandled opcode field: the source has already been fetched (and     *)
(* its conversion flags raised) when the default case calls op_illg.       *)
IllegalOp(op, s) ==
    /\ op \in 0 .. 127 \ HandledOps
    /\ pending' = pending \cup s.fl
    /\ Did(s.fl, FALSE)
    /\ UNCHANGED <<registers, result, fpcr, quotient, excStatus, accrued,
                   host, iaddr>>

(* Class 3: FMOVE FPn,<ea>.  put_fp_value converts to the destination      *)
(* format (raising flags for the integer and single/double formats, none   *)
(* for extended) and never calls make_fpsr.                                *)
FmoveOut(reg) ==
    \E f \in SUBSET LibFlags :
       /\ pending' = pending \cup f
       /\ Did(f, FALSE)
       /\ UNCHANGED <<registers, result, fpcr, quotient, excStatus, accrued,
                      host, iaddr>>

-----------------------------------------------------------------------------
(* Class 4/5 with a data or address register or an immediate: FMOVE(M) of *)
(* the control registers selected by extra bits 12 (FPCR), 11 (FPSR) and  *)
(* 10 (FPIAR).  Reads go in that order to the same register, so the last  *)
(* selected wins; writes take the same value (Dn/An) or one long word each *)
(* (immediate).                                                            *)
CtrlRegs == {"fpcr", "fpsr", "iaddr"}
CtrlSels == SUBSET CtrlRegs \ {{}}

(* The CPU register file is outside the model: a read of the control      *)
(* registers (get_fpcr & 0xFFFF, get_fpsr, the FPIAR) changes no FPU state. *)
FmoveFromCtrl(sel) ==
    /\ Did({}, FALSE)
    /\ UNCHANGED <<registers, result, fpcr, quotient, excStatus, accrued,
                   pending, host, iaddr>>

(* set_fpcr / set_fpsr / FPU instruction_address = x, in that order.       *)
WriteCtrl(sel, xc, xs, xi) ==
    LET g == FpsrFields(xs)
    IN  /\ fpcr' = IF "fpcr" \in sel THEN FpcrOf(xc) ELSE fpcr
        /\ host' = IF "fpcr" \in sel THEN HostControl(FpcrOf(xc)) ELSE host
        /\ IF "fpsr" \in sel
           THEN /\ result' = g.result /\ quotient' = g.quotient
                /\ excStatus' = g.excStatus /\ accrued' = g.accrued
                /\ pending' = {}
           ELSE UNCHANGED <<result, quotient, excStatus, accrued, pending>>
        /\ iaddr' = IF "iaddr" \in sel THEN xi ELSE iaddr
        /\ Did({}, "fpsr" \in sel)
        /\ UNCHANGED registers

FmoveToCtrl(sel) == \E x \in DnValues : WriteCtrl(sel, x, x, x)

FmoveToCtrlImm(sel) ==
    LET Imm(r) == IF r \in sel THEN DnValues ELSE {0}   \* words not fetched
    IN  \E xc \in Imm("fpcr"), xs \in Imm("fpsr"), xi \in Imm("iaddr") :
           WriteCtrl(sel, xc, xs, xi)

(* fpu_reset: fpu_exit, then fpu_init with the same is_integral.           *)
Reset ==
    /\ registers' = [r \in FpRegs |-> DefaultNaN]
    /\ result' = One
    /\ fpcr' = FpcrOf(0)
    /\ host' = HostControl(FpcrOf(0))
    /\ quotient' = 0 /\ excStatus' = {} /\ accrued' = {} /\ pending' = {}
    /\ iaddr' = 0
    /\ Did({}, TRUE)

-----------------------------------------------------------------------------
(* The class 0/2 dispatch on extra & 0x7f once the source is fetched.     *)
ArithStep ==
    \E op \in OpCodes, reg \in FpRegs, s \in Sources :
       \/ LibOp(op, reg, s)
       \/ op \in {0, 24, 26} /\ MoveOp(op, reg, s)
       \/ op = 3 /\ Fintrz(reg, s)
       \/ op \in {33, 37} /\ FmodFrem(op, reg, s)
       \/ op = 38 /\ Fscale(reg, s)
       \/ op \in {30, 31} /\ FGetExpMan(op, reg, s)
       \/ op \in 48 .. 55 /\ \E creg \in FpRegs : Fsincos(reg, creg, s)
       \/ op = 56 /\ Fcmp(reg, s)
       \/ op = 58 /\ Ftst(s)
       \/ IllegalOp(op, s)

Next ==
    \/ \E reg \in FpRegs, off \in RomOffsets : Fmovecr(reg, off)
    \/ ArithStep
    \/ \E reg \in FpRegs : FmoveOut(reg)
    \/ \E sel \in CtrlSels : FmoveToCtrl(sel) \/ FmoveToCtrlImm(sel)
                              \/ FmoveFromCtrl(sel)
    \/ Reset

Spec == Init /\ [][Next]_vars
=============================================================================
