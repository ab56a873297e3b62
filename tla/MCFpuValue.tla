----------------------------- MODULE MCFpuValue -----------------------------
(***************************************************************************)
(* Exhaustive check of the pure value operations of FpuValue: the state is *)
(* one memory/register bit pattern <<hw, sig>>, every pattern of the       *)
(* scaled format is an initial state, and Load moves to any other one.     *)
(* The properties compare the code's operators with reference definitions *)
(* taken from the MC68881 operand semantics.                               *)
(***************************************************************************)
EXTENDS FpuValue

VARIABLES hw, sig

vars == <<hw, sig>>

Init == hw \in HighWords /\ sig \in SigWords

(* A new operand pattern arrives (FMOVE.X <ea>, FMOVEM restore, ...).      *)
Load == \E h \in HighWords, s \in SigWords : hw' = h /\ sig' = s

Next == Load

Spec == Init /\ [][Next]_vars

V == [high |-> hw, low |-> sig]


-----------------------------------------------------------------------------
(* Reference semantics.                                                    *)

(* How a register value compares with zero: unordered, equal, less,        *)
(* greater (what FCMP/FTST leave in the shadow result).                    *)
RegRelation(v) ==
    IF IsNaN(v) THEN "UN" ELSE IF IsZero(v) THEN "EQ"
    ELSE IF IsNeg(v) THEN "LT" ELSE "GT"

(* The MC68881 predicates as the sets of relations that make them true;    *)
(* conditions 16..31 are the signalling twins of 0..15.                    *)
CondRef == <<
    {}, {"EQ"}, {"GT"}, {"GT", "EQ"}, {"LT"}, {"LT", "EQ"}, {"GT", "LT"},
    {"GT", "LT", "EQ"}, {"UN"}, {"UN", "EQ"}, {"UN", "GT"},
    {"UN", "GT", "EQ"}, {"UN", "LT"}, {"UN", "LT", "EQ"},
    {"UN", "LT", "GT"}, {"UN", "LT", "GT", "EQ"} >>

(* How an extended operand in memory compares with zero, per the 68881     *)
(* data formats: exponent all ones is a NaN when the fraction (the bits    *)
(* below the explicit integer bit) is non-zero and an infinity otherwise;  *)
(* any other pattern with a zero significand is a zero; denormals keep     *)
(* their sign.                                                             *)
MemRelation(h, s) ==
    IF ExpOf(h) = ExpMax /\ s % IntBit # 0 THEN "UN"
    ELSE IF ExpOf(h) # ExpMax /\ s = 0 THEN "EQ"
    ELSE IF SignOf(h) = 1 THEN "LT" ELSE "GT"

-----------------------------------------------------------------------------
(* Properties.                                                             *)

(* fpp_cond returns, for every one of the 64 condition fields and every    *)
(* shadow result, exactly the MC68881 predicate of the result's relation   *)
(* to zero, and -1 for the fields 32..63 that FBcc/FScc/FDBcc/FTRAPcc must *)
(* turn into an illegal instruction.                                       *)
CondMatchesIeee ==
    \A c \in 0 .. 63 :
        FppCond(c, V) = IF c > 31 THEN -1
                        ELSE IF RegRelation(V) \in CondRef[(c % 16) + 1]
                             THEN 1 ELSE 0

(* make_extended's normalisation of a finite non-zero operand whose        *)
(* exponent leaves room for the shift keeps its sign and numeric value     *)
(* and yields a significand with the integer bit set.                      *)
NormalisePreservesValue ==
    (ExpOf(hw) # ExpMax /\ sig # 0 /\ ExpOf(hw) >= Clz(sig)) =>
        LET r == MakeExtended(hw, sig)
        IN  /\ SignOf(r.high) = SignOf(hw)
            /\ r.low >= IntBit
            /\ r.low * 2^ExpOf(r.high) = sig * 2^ExpOf(hw)
=============================================================================
