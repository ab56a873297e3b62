----------------------------- MODULE MCFpuEngine -----------------------------
(***************************************************************************)
(* Model-checking instance of FpuEngine: the 80-bit format scaled to a     *)
(* 3-bit exponent and a 4-bit significand, two data registers, and a       *)
(* library that can return +0, 1.0, -1.0 or its infinity and raise        *)
(* invalid and inexact.                                                    *)
(***************************************************************************)
EXTENDS FpuEngine

MCLibValues == {Zero, One, Pack(0, ExpMax, IntBit)}
MCLibFlags  == {"invalid"}
\* 0, round-to-plus-infinity with single precision (0x70), and
\* N + INEX2 + INEX as an FPSR image (0x08000208)
MCDnValues  == {0, 112, 134218248}
MCQuotLsbs  == {1}
\* FMOVE, FINTRZ, FADD, FABS, FNEG, FGETEXP, FGETMAN, FMOD, FREM, FSCALE,
\* FSINCOS, FCMP, FTST, FSMOVE (68040), and two unhandled fields
MCOpCodes   == {0, 3, 34, 24, 26, 30, 31, 33, 37, 38, 48, 56, 58, 64, 57, 127}
\* a ROM constant (0x00), its odd neighbour, pi/10^0 slots, and 0x0f = 0.0
MCRomOffsets == {0, 1, 11, 15, 50}

Flags == SUBSET AllFlags

(* Every variable holds a value of its kind.                               *)
TypeOK ==
    /\ registers \in [FpRegs -> Values] /\ result \in Values
    /\ fpcr \in [mode : {0, 16, 32, 48}, prec : {0, 64, 128, 192},
                 enable : {k * 256 : k \in 0 .. 255}]
    /\ quotient \in {b * 2^16 : b \in 0 .. 255}
    /\ excStatus \in Flags /\ accrued \in Flags /\ pending \in Flags
    /\ host = HostControl(fpcr) \/ host.round = "to_zero"
    /\ iaddr \in DnValues \cup {0}
    /\ lastOp \in [raised : Flags, explicit : BOOLEAN]

(* The rounding mode and precision the library uses are the ones the FPCR *)
(* selects between instructions: FINTRZ, FMOD, FREM and FSCALE borrow      *)
(* fp_status for round-to-zero or to-nearest and must give it back.        *)
HostControlMatchesFpcr == host = HostControl(fpcr)

(* Saving the FPSR in a CPU register and writing it back (FMOVE FPSR,Dn;   *)
(* FMOVE Dn,FPSR, as a context switch does) keeps the quotient byte, the   *)
(* exception and accrued bytes and the NAN, I and Z codes: each field      *)
(* set_fpsr takes apart lands where get_fpsr reads it.  The N code is the  *)
(* one that does not come back (set_fpccr drops floatx80_chs's value, see  *)
(* FpuValue); operators_manual reports that, so it is put back here.       *)
FpsrRoundTrip ==
    LET x == GetFpsr
        g == FpsrFields(x)
    IN  CcBits(GetFpccr(g.result) \cup (GetFpccr(result) \cap {"N"})) + g.quotient
        + GetExceptionStatus(g.excStatus) + GetAccruedException(g.accrued) = x

(* Every instruction leaves the FPU as the manual and the FPSR             *)
(* description say: every exception flag the library raises during an      *)
(* instruction reaches the accrued byte by the end of it (make_fpsr "pulls *)
(* the arithmetic library's just-raised exception flags into ... the       *)
(* accrued-exception byte"), and FMOVECR #off loads the ROM constant at    *)
(* every offset 0x00-0x3f.                                                 *)
InstructionsMatchManual ==
    [][/\ ~lastOp'.explicit => lastOp'.raised \subseteq accrued'
       /\ \A reg \in FpRegs, off \in 0 .. 63 :
             Fmovecr(reg, off) => registers'[reg] = Rom(off)]_vars
=============================================================================
