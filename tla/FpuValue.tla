------------------------------ MODULE FpuValue ------------------------------
(***************************************************************************)
(* The extended-precision register value of the soft FPU                   *)
(* (src/src/uae_cpu/fpu/fpu_soft.cpp) and the pure operations on it:       *)
(* packFloatx80, make_extended / extract_extended (the memory <-> register *)
(* conversion used by FMOVE.X and FMOVEM), get_fpccr / set_fpccr (the      *)
(* condition-code nibble derived from the shadow result) and fpp_cond (the *)
(* 32 FPU condition predicates).                                           *)
(*                                                                         *)
(* The 80-bit format is kept with its layout and scaled down: a "high"     *)
(* word of EW+1 bits (sign bit, then an EW-bit biased exponent) and a      *)
(* "low" significand of SW bits with an explicit integer bit.  The real    *)
(* unit has EW = 15 and SW = 64.  Every constant of the code that depends  *)
(* on the width (0x7fff, 0x8000, 0xFFFF, 64 = countLeadingZeros64(0)) is   *)
(* written in terms of EW and SW.  The memory form of an extended operand  *)
(* is the pair <<hw, sig>>: hw is the upper half of the first long word    *)
(* (wrd1 >> 16), sig is wrd2:wrd3.                                         *)
(***************************************************************************)
EXTENDS Integers

CONSTANTS
    EW,     \* width of the exponent field (15 in the real format)
    SW      \* width of the significand (64 in the real format)

ASSUME EW \in 2..15 /\ SW \in 2..64

HighMod == 2^(EW + 1)         \* the 16-bit "high" word
SignBit == 2^EW               \* 0x8000
ExpMax  == 2^EW - 1           \* 0x7fff
SigMod  == 2^SW               \* 2^64
IntBit  == 2^(SW - 1)         \* the explicit integer bit of the significand

HighWords == 0 .. HighMod - 1
SigWords  == 0 .. SigMod - 1
Values    == [high : HighWords, low : SigWords]

SignOf(hw) == hw \div SignBit
ExpOf(hw)  == hw % SignBit

(* packFloatx80: high = (zSign << 15) + zExp, truncated to 16 bits; an     *)
(* exponent below zero wraps into the sign bit.                            *)
Pack(zSign, zExp, zSig) ==
    [high |-> (zSign * SignBit + zExp) % HighMod, low |-> zSig]

Zero       == Pack(0, 0, 0)
DefaultNaN == [high |-> HighMod - 1, low |-> SigMod - 1]   \* 0xFFFF / all ones

(* countLeadingZeros64, which returns the full width for 0.                *)
Clz(sig) ==
    IF sig = 0 THEN SW
    ELSE CHOOSE k \in 0 .. SW - 1 : sig * 2^k \in IntBit .. SigMod - 1

(* Bug variant kept for validating the properties: the normalising shift   *)
(* without the matching exponent adjustment (zExp -= shiftCount dropped).  *)
MakeExtendedNoExpAdjust(hw, sig) ==
    CASE ExpOf(hw) = 0 /\ sig = 0      -> Zero
      [] ExpOf(hw) = ExpMax /\ sig # 0 -> DefaultNaN
      [] OTHER -> Pack(SignOf(hw), ExpOf(hw), (sig * 2^Clz(sig)) % SigMod)

(* make_extended: memory form -> register, normalising the significand.    *)
MakeExtended(hw, sig) ==
    CASE ExpOf(hw) = 0 /\ sig = 0      -> Zero
      [] ExpOf(hw) = ExpMax /\ sig # 0 -> DefaultNaN
      [] OTHER ->
           LET k == Clz(sig)
           IN  Pack(SignOf(hw), ExpOf(hw) - k, (sig * 2^k) % SigMod)

(* extract_extended: register -> memory form; a zero is written all-zero.  *)
ExtractExtended(v) ==
    IF ExpOf(v.high) = 0 /\ v.low = 0 THEN <<0, 0>> ELSE <<v.high, v.low>>

(* get_fpccr: the condition-code bits as read from the shadow result.      *)
IsNaN(v)  == ExpOf(v.high) = ExpMax /\ v.low # 0
IsZero(v) == ExpOf(v.high) = 0 /\ v.low = 0
IsInf(v)  == ExpOf(v.high) = ExpMax /\ v.low = 0
IsNeg(v)  == SignOf(v.high) = 1

GetFpccr(v) ==
    IF IsNaN(v) THEN {"NAN"}
    ELSE    (IF IsZero(v) THEN {"Z"} ELSE IF IsInf(v) THEN {"I"} ELSE {})
         \cup (IF IsNeg(v) THEN {"N"} ELSE {})

(* set_fpccr: the shadow result synthesised from written condition bits:   *)
(* default NaN, else +0 / +inf / 1.0.  With N set the code calls            *)
(* floatx80_chs(FPU result) and drops what it returns (fpu_soft.cpp:286);   *)
(* floatx80_chs returns the negated value, as its other calls (1614, 1624,  *)
(* 1786) use it, so the result stays non-negative.                         *)
One == Pack(0, 2^(EW - 1) - 1, IntBit)    \* int32_to_floatx80(1)

Chs(v) == [v EXCEPT !.high = (@ + SignBit) % HighMod]   \* floatx80_chs

SetFpccr(cc) ==
    IF "NAN" \in cc THEN DefaultNaN
    ELSE IF "Z" \in cc THEN Zero
    ELSE IF "I" \in cc THEN Pack(0, ExpMax, 0)
    ELSE One

(* Bug variant: the "Not Greater Than or Equal" error the source history   *)
(* records (ULT/NGE true for -0).                                          *)
FppCondNgeBug(c, v) ==
    LET NaN == IsNaN(v)
        Z   == IsZero(v) /\ ~NaN
        N   == IsNeg(v) /\ ~NaN
        b   == c % 16
    IN  IF c > 31 THEN -1
        ELSE IF CASE b = 0  -> FALSE
                  [] b = 1  -> Z
                  [] b = 2  -> ~(NaN \/ Z \/ N)
                  [] b = 3  -> Z \/ ~(NaN \/ N)
                  [] b = 4  -> N /\ ~(NaN \/ Z)
                  [] b = 5  -> Z \/ (N /\ ~NaN)
                  [] b = 6  -> ~(NaN \/ Z)
                  [] b = 7  -> ~NaN
                  [] b = 8  -> NaN
                  [] b = 9  -> NaN \/ Z
                  [] b = 10 -> NaN \/ ~(N \/ Z)
                  [] b = 11 -> NaN \/ Z \/ ~N
                  [] b = 12 -> NaN \/ N
                  [] b = 13 -> NaN \/ Z \/ N
                  [] b = 14 -> ~Z
                  [] b = 15 -> TRUE
             THEN 1 ELSE 0

(* fpp_cond: the 32 predicates over N, Z and NaN of the shadow result;     *)
(* -1 for a condition field the code does not recognise.  Cases 0x10-0x1f  *)
(* of the code repeat 0x00-0x0f expression for expression, hence c % 16.   *)
FppCond(c, v) ==
    LET NaN == IsNaN(v)
        Z   == IsZero(v) /\ ~NaN
        N   == IsNeg(v) /\ ~NaN
        b   == c % 16
    IN  IF c > 31 THEN -1
        ELSE IF CASE b = 0  -> FALSE
                  [] b = 1  -> Z
                  [] b = 2  -> ~(NaN \/ Z \/ N)
                  [] b = 3  -> Z \/ ~(NaN \/ N)
                  [] b = 4  -> N /\ ~(NaN \/ Z)
                  [] b = 5  -> Z \/ (N /\ ~NaN)
                  [] b = 6  -> ~(NaN \/ Z)
                  [] b = 7  -> ~NaN
                  [] b = 8  -> NaN
                  [] b = 9  -> NaN \/ Z
                  [] b = 10 -> NaN \/ ~(N \/ Z)
                  [] b = 11 -> NaN \/ Z \/ ~N
                  [] b = 12 -> NaN \/ (N /\ ~Z)
                  [] b = 13 -> NaN \/ Z \/ N
                  [] b = 14 -> ~Z
                  [] b = 15 -> TRUE
             THEN 1 ELSE 0
=============================================================================
