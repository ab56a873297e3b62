------------------------------ MODULE FpuBranch ------------------------------
(***************************************************************************)
(* The conditional instructions of the soft FPU (fpu_soft.cpp 857-1100):   *)
(* FDBcc, FScc, FTRAPcc and FBcc, with the effective-address decoder       *)
(* get_fp_ad that FScc uses.  Each handler is one operator from its inputs *)
(* (the opcode and extension words, the shadow result the predicate is     *)
(* read from, the CPU registers it touches, the FPCR enables and the       *)
(* accrued flags) to its outcome: the new PC, the new register values, the *)
(* byte written to memory and the sequence of exceptions it raises.        *)
(*                                                                         *)
(* op_illg and Exception belong to the CPU core, not in this repository:   *)
(* an exception is recorded by its vector, op_illg on these F-line opcodes *)
(* as vector 11.  get_disp_ea_020 (the indexed modes) is also CPU code; it *)
(* is taken with its index register 0.                                     *)
(***************************************************************************)
EXTENDS FpuValue, Sequences

CONSTANT SoftExceptions   \* whether the build defines SOFT_EXCEPTIONS

ASSUME SoftExceptions \in BOOLEAN

Illegal == 11                      \* op_illg of an F-line opcode

(* A 32-bit register or extension long word is the record [hi, lo] of its *)
(* two 16-bit words.                                                       *)
Word(x)      == x % 65536
SignExt16(x) == IF Word(x) >= 32768 THEN Word(x) - 65536 ELSE Word(x)
SignExt32(x) == SignExt16(x.hi) * 65536 + x.lo

-----------------------------------------------------------------------------
(* get_fp_ad: the address of a control or alterable mode.  Data and        *)
(* address register direct, and mode 7 beyond the PC-indexed form, have    *)
(* none; (An)+ and -(An) give An itself.  words is the number of extension *)
(* words next_iword/next_ilong consumed.                                   *)
Ea020(base, ext) == base + SignExt16(ext % 256)

GetFpAd(mode, reg, an, pc, ext) ==
    CASE mode \in {0, 1}           -> [ok |-> FALSE, ad |-> 0, words |-> 0]
      [] mode \in {2, 3, 4}        -> [ok |-> TRUE, ad |-> an, words |-> 0]
      [] mode = 5                  -> [ok |-> TRUE, ad |-> an + SignExt16(ext),
                                       words |-> 1]
      [] mode = 6                  -> [ok |-> TRUE, ad |-> Ea020(an, ext),
                                       words |-> 1]
      [] mode = 7 /\ reg = 0       -> [ok |-> TRUE, ad |-> SignExt16(ext),
                                       words |-> 1]
      [] mode = 7 /\ reg = 1       -> [ok |-> TRUE, ad |-> ext, words |-> 2]
      [] mode = 7 /\ reg = 2       -> [ok |-> TRUE, ad |-> pc + SignExt16(ext),
                                       words |-> 1]
      [] mode = 7 /\ reg = 3       -> [ok |-> TRUE, ad |-> Ea020(pc, ext),
                                       words |-> 1]
      [] OTHER                     -> [ok |-> FALSE, ad |-> 0, words |-> 0]

-----------------------------------------------------------------------------
(* fpuop_dbcc: pc is the PC after the condition word, disp the word read   *)
(* next.  An unknown condition rewinds to the opcode and is illegal; a     *)
(* false one decrements the low word of Dn and branches unless it is now   *)
(* 0xffff.                                                                 *)

(* Bug variant: the whole 32-bit register decremented.                     *)
FdbccWholeRegister(extra, v, pc, disp, d) ==
    LET cc == FppCond(extra % 64, v)
        nd == [hi |-> IF d.lo = 0 THEN Word(d.hi - 1) ELSE d.hi,
               lo |-> Word(d.lo - 1)]
    IN  CASE cc = -1 -> [pc |-> pc - 4, d |-> d, ev |-> <<Illegal>>]
          [] cc = 0  -> [pc |-> IF nd.lo # 65535 THEN pc + SignExt16(disp)
                                                 ELSE pc + 2,
                         d |-> nd, ev |-> <<>>]
          [] OTHER   -> [pc |-> pc + 2, d |-> d, ev |-> <<>>]

Fdbcc(extra, v, pc, disp, d) ==
    LET cc == FppCond(extra % 64, v)
        nd == [d EXCEPT !.lo = Word(@ - 1)]
    IN  CASE cc = -1 -> [pc |-> pc - 4, d |-> d, ev |-> <<Illegal>>]
          [] cc = 0  -> [pc |-> IF nd.lo # 65535 THEN pc + SignExt16(disp)
                                                 ELSE pc + 2,
                         d |-> nd, ev |-> <<>>]
          [] OTHER   -> [pc |-> pc + 2, d |-> d, ev |-> <<>>]

(* fpuop_scc: the byte 0xff or 0x00 into the low byte of Dn, or through   *)
(* get_fp_ad to memory; an unknown condition or a mode without an address *)
(* rewinds to the opcode and is illegal.  an is the An of the opcode's     *)
(* register field, which the handler never writes back.                    *)
Fscc(opcode, extra, v, pc, d, an, ext) ==
    LET cc   == FppCond(extra % 64, v)
        mode == (opcode \div 8) % 8
        reg  == opcode % 8
        ea   == GetFpAd(mode, reg, an, pc, ext)
        byte == IF cc = 1 THEN 255 ELSE 0
        fail == [pc |-> pc - 4, d |-> d, an |-> an, mem |-> <<>>,
                 ev |-> <<Illegal>>]
    IN  CASE cc = -1     -> fail
          [] mode = 0    -> [pc |-> pc, d |-> [d EXCEPT !.lo = (@ \div 256) * 256 + byte],
                             an |-> an, mem |-> <<>>, ev |-> <<>>]
          [] ~ea.ok      -> fail
          [] OTHER       -> [pc |-> pc + 2 * ea.words, d |-> d, an |-> an,
                             mem |-> <<ea.ad, byte>>, ev |-> <<>>]

(* fpuop_trapcc: the condition is taken from the low six bits of the       *)
(* opcode.  An unknown one rewinds and calls op_illg, and then, -1 being   *)
(* true, the trap is taken as well.                                        *)
Ftrapcc(opcode, v) ==
    LET cc == FppCond(opcode % 64, v)
    IN  (IF cc = -1 THEN <<Illegal>> ELSE <<>>) \o (IF cc # 0 THEN <<7>> ELSE <<>>)

-----------------------------------------------------------------------------
(* fpuop_bcc.  With SOFT_EXCEPTIONS, if any exception is enabled and any   *)
(* accrued flag set, the enables are tested in the order BSUN, INEX2, DZ,  *)
(* UNFL, OPERR, OVFL, SNAN by an else-if chain: the first enabled one      *)
(* decides, and its pre-instruction exception is taken when its own        *)
(* condition holds.  Otherwise the predicate decides the branch; bit 6 of  *)
(* the opcode selects a 32-bit displacement, else the low word is          *)
(* sign-extended.  pc is the address of the displacement: a taken branch  *)
(* goes to pc + displacement, an exception or an illegal condition sets    *)
(* the PC back to pc, and otherwise the PC is left after the displacement. *)
BccOrder == <<"BSUN", "INEX2", "DZ", "UNFL", "OPERR", "OVFL", "SNAN">>
BccVector == [BSUN |-> 48, INEX2 |-> 49, DZ |-> 50, UNFL |-> 51,
              OPERR |-> 52, OVFL |-> 53, SNAN |-> 54]

(* The signalling-NaN test of the SNAN case: exponent all ones, a non-zero *)
(* significand and the bit below the integer bit clear.                    *)
IsSignalling(v) ==
    ExpOf(v.high) = ExpMax /\ v.low # 0 /\ (v.low \div 2^(SW - 2)) % 2 = 0

BccHolds(e, accrued, v) ==
    CASE e \in {"BSUN", "OPERR"} -> "invalid" \in accrued
      [] e = "INEX2"             -> "inexact" \in accrued
      [] e = "DZ"                -> "divbyzero" \in accrued
      [] e = "UNFL"              -> "underflow" \in accrued
      [] e = "OVFL"              -> "overflow" \in accrued
      [] e = "SNAN"              -> IsSignalling(v)

BccException(enable, accrued, v) ==
    LET chain == SelectSeq(BccOrder, LAMBDA e : e \in enable)
    IN  IF SoftExceptions /\ enable # {} /\ accrued # {} /\ chain # <<>>
                          /\ BccHolds(Head(chain), accrued, v)
        THEN <<BccVector[Head(chain)]>>
        ELSE <<>>

(* Bug variant: the 16-bit displacement used without sign extension.       *)
FbccNoSignExtend(opcode, pc, extra, v, enable, accrued) ==
    LET cc == FppCond(opcode % 64, v)
        ex == BccException(enable, accrued, v)
        disp == IF (opcode \div 64) % 2 = 0 THEN extra.lo ELSE SignExt32(extra)
    IN  CASE ex # <<>> -> [taken |-> FALSE, target |-> pc, ev |-> ex]
          [] cc = -1   -> [taken |-> FALSE, target |-> pc, ev |-> <<Illegal>>]
          [] cc = 1    -> [taken |-> TRUE, target |-> pc + disp, ev |-> <<>>]
          [] OTHER     -> [taken |-> FALSE, target |-> pc, ev |-> <<>>]

Fbcc(opcode, pc, extra, v, enable, accrued) ==
    LET cc == FppCond(opcode % 64, v)
        ex == BccException(enable, accrued, v)
        disp == IF (opcode \div 64) % 2 = 0 THEN SignExt16(extra.lo)
                                           ELSE SignExt32(extra)
    IN  CASE ex # <<>> -> [taken |-> FALSE, target |-> pc, ev |-> ex]
          [] cc = -1   -> [taken |-> FALSE, target |-> pc, ev |-> <<Illegal>>]
          [] cc = 1    -> [taken |-> TRUE, target |-> pc + disp, ev |-> <<>>]
          [] OTHER     -> [taken |-> FALSE, target |-> pc, ev |-> <<>>]

=============================================================================
