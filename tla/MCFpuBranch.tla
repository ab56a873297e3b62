----------------------------- MODULE MCFpuBranch -----------------------------
(***************************************************************************)
(* The condition and branch support of the soft FPU: the value operators  *)
(* of MCFpuValue together with the conditional instructions of FpuBranch.  *)
(* A state is one shadow-result pattern <<hw, sig>> and one conditional    *)
(* instruction with its inputs; every combination is an initial state.     *)
(* The outcomes are compared with the M68000 family manual and the FPU     *)
(* exception rules of the specification, written over RegRelation and      *)
(* CondRef rather than over fpp_cond.                                      *)
(***************************************************************************)
EXTENDS MCFpuValue, FpuMemory

VARIABLE instr

PC == 1000                                   \* where the handler finds the PC

CondFields == {0, 1, 2, 14, 15, 19, 40}      \* F, EQ, OGT, NE, T, SGE, unknown

EnableSets == {{}, {"BSUN"}, {"INEX2"}, {"BSUN", "INEX2"}, {"OPERR"},
               {"SNAN"}, {"INEX1"}}
AccruedSets == {{}, {"inexact"}, {"invalid"}}

(* <<mode, reg>> of the opcode's effective-address field.                  *)
EaFields == {<<0, 0>>, <<1, 0>>, <<2, 0>>, <<3, 0>>, <<3, 7>>, <<4, 0>>,
             <<4, 7>>, <<5, 0>>, <<6, 0>>, <<7, 0>>, <<7, 1>>, <<7, 2>>,
             <<7, 3>>, <<7, 4>>}

(* Format longs of the state frames: NULL, the 68040's IDLE, UNIMP and     *)
(* BUSY, and the 68881 IDLE, 68882 IDLE, 68881 BUSY and 68882 BUSY.        *)
FrameHeaders == {0, 1090519040, 1093664768, 1096810496,
                 521666560, 523763712, 531890176, 533987328}

Instrs ==
    [kind : {"dbcc"}, extra : CondFields,
     d : {[hi |-> 0, lo |-> x] : x \in {0, 1, 32768, 65535}}
         \cup {[hi |-> 4660, lo |-> 0]},
     disp : {8, 65528}]
    \cup [kind : {"bcc"}, cond : CondFields, long : BOOLEAN,
          extra : {[hi |-> 0, lo |-> 8], [hi |-> 65535, lo |-> 65528]},
          enable : {{}}, accrued : {{}}]
    \cup [kind : {"bcc"}, cond : {15}, long : {FALSE},
          extra : {[hi |-> 0, lo |-> 8]},
          enable : EnableSets, accrued : AccruedSets]
    \cup [kind : {"scc"}, extra : {0, 15, 40}, ea : EaFields]
    \cup [kind : {"trapcc"}, mode : {2, 3, 4}, cond : {0, 1, 15}]
    \cup [kind : {"frame"}, cpu : {2, 4}, header : FrameHeaders]
    \cup [kind : {"save", "restore"}, ea : EaFields]
    \cup [kind : {"operand"}, dir : {"get", "put"}, ea : EaFields, size : 0 .. 7]
    \cup [kind : {"fmovem"}, list : {1, 3, 36, 129, 196, 255}]
    \cup [kind : {"fctrl"}, sel : 1 .. 7]
    \cup [kind : {"fdyn"}, dn : 0 .. 7]

BranchInit == Init /\ instr \in Instrs
BranchNext == Load /\ UNCHANGED instr
BranchSpec == BranchInit /\ [][BranchNext]_<<hw, sig, instr>>

-----------------------------------------------------------------------------
(* The manual's semantics                                                  *)

Pred(c) == RegRelation(V) \in CondRef[(c % 16) + 1]

BccOpcode(i) == 62080 + (IF i.long THEN 64 ELSE 0) + i.cond   \* 0xF280 | ...

(* FDBcc: unless the condition is true, Dn.W - 1 -> Dn.W, and the branch   *)
(* is taken unless the count is now -1; the upper word is Dn's own.        *)
DbccRef(i) ==
    LET count == SignExt16(i.d.lo) - 1
    IN  CASE i.extra > 31    -> [pc |-> PC - 4, d |-> i.d, ev |-> <<Illegal>>]
          [] Pred(i.extra)   -> [pc |-> PC + 2, d |-> i.d, ev |-> <<>>]
          [] OTHER           ->
               [pc |-> IF count = -1 THEN PC + 2 ELSE PC + SignExt16(i.disp),
                d |-> [hi |-> i.d.hi, lo |-> Word(count)], ev |-> <<>>]

(* FBcc with no exception pending: the branch is taken exactly when the    *)
(* predicate holds, by the signed 16- or 32-bit displacement.              *)
BranchRef(i) ==
    LET disp == IF i.long THEN SignExt32(i.extra) ELSE SignExt16(i.extra.lo)
    IN  CASE i.cond > 31 -> [taken |-> FALSE, target |-> PC, ev |-> <<Illegal>>]
          [] Pred(i.cond) -> [taken |-> TRUE, target |-> PC + disp, ev |-> <<>>]
          [] OTHER        -> [taken |-> FALSE, target |-> PC, ev |-> <<>>]

(* The pre-instruction exception of FBcc by the specification: the first, *)
(* in the order BSUN > INEX2 > DZ > UNFL > OPERR > OVFL > SNAN, whose      *)
(* enable bit is set and whose accrued exception is set.                   *)
BccExceptionRef(i) ==
    LET fired == SelectSeq(BccOrder,
                     LAMBDA e : e \in i.enable /\ BccHolds(e, i.accrued, V))
    IN  IF fired = <<>> THEN <<>> ELSE <<BccVector[Head(fired)]>>

(* FScc <ea>: the byte goes to a data-alterable destination; (An)+ and     *)
(* -(An) step An by one (two for A7), -(An) before the write.              *)
SccEaRef(i) ==
    LET mode == i.ea[1]
        step == IF i.ea[2] = 7 THEN 2 ELSE 1
    IN  CASE mode = 3 -> [ok |-> TRUE, ad |-> 500, an |-> 500 + step]
          [] mode = 4 -> [ok |-> TRUE, ad |-> 500 - step, an |-> 500 - step]
          [] mode = 7 /\ i.ea[2] \in {2, 3, 4} -> [ok |-> FALSE]
          [] mode \in {1} -> [ok |-> FALSE]
          [] OTHER -> LET a == GetFpAd(mode, i.ea[2], 500, PC, 6)
                      IN  [ok |-> a.ok, ad |-> a.ad, an |-> 500]

(* The length of a state frame, its format long included, by the frame    *)
(* format tables of the manual; a format the CPU does not produce has none. *)
FrameBytesRef(cpu, h) ==
    CASE h = 0                      -> 4
      [] cpu = 4 /\ h = 1090519040  -> 4
      [] cpu = 4 /\ h = 1093664768  -> 52
      [] cpu = 4 /\ h = 1096810496  -> 100
      [] cpu # 4 /\ h = 521666560   -> 28
      [] cpu # 4 /\ h = 523763712   -> 60
      [] cpu # 4 /\ h = 531890176   -> 184
      [] cpu # 4 /\ h = 533987328   -> 216
      [] OTHER                      -> 0

Addrs == 400 .. 600

(* Memory holding the longs written, and 0 elsewhere.                      *)
MemOf(writes) ==
    [a \in Addrs |-> IF \E i \in DOMAIN writes : writes[i][1] = a
                     THEN writes[CHOOSE i \in DOMAIN writes : writes[i][1] = a][2]
                     ELSE 0]

(* Memory holding a set of <<address, long>> writes, and 0 elsewhere.      *)
MemOfSet(w) ==
    [a \in Addrs |-> IF \E p \in w : p[1] = a THEN (CHOOSE p \in w : p[1] = a)[2]
                     ELSE 0]

(* FMOVEM's register-list masks by the manual: for -(An) bit r is FPr, for *)
(* the other modes bit 7 - r is FPr, so the same registers moved by one    *)
(* form and by the other have mirrored masks.                              *)
MirrorRef(l) == CHOOSE m \in 0 .. 255 : \A b \in 0 .. 7 : Bit(m, 7 - b) = Bit(l, b)

(* Distinct normal values for FP0 .. FP7, and a register file of zeros.    *)
RegsRef  == [r \in 0 .. 7 |-> Pack(r % 2, 1 + r \div 2, IntBit + r)]
ZeroFile == [r \in 0 .. 7 |-> Zero]
Dregs0   == [d \in 0 .. 7 |-> 0]

(* The modes the manual allows: FSAVE takes the control alterable modes    *)
(* and -(An), FRESTORE the control modes and (An)+.                        *)
FrameModeLegal(kind, ea) ==
    \/ ea[1] \in {2, 5, 6}
    \/ ea[1] = 7 /\ ea[2] \in {0, 1}
    \/ kind = "save" /\ ea[1] = 4
    \/ kind = "restore" /\ ea[1] = 3
    \/ kind = "restore" /\ ea[1] = 7 /\ ea[2] \in {2, 3}

(* The operand of a general FPU instruction by the manual.  A source is   *)
(* any data mode (not An direct) of a defined size, a data register only   *)
(* for L, S, W and B; a destination must also be alterable, so not         *)
(* immediate or PC-relative.                                               *)
SourceLegal(i) ==
    /\ i.size \in 0 .. 6
    /\ i.ea[1] # 1
    /\ i.ea[1] = 0 => i.size \in {0, 1, 4, 6}
DestLegal(i) == SourceLegal(i) /\ ~(i.ea[1] = 7 /\ i.ea[2] \in {2, 3, 4})

(* The operand's length in bytes (Long 4, Single 4, eXtended 12, Packed    *)
(* 12, Word 2, Double 8, Byte 1).  (An)+ and -(An) step An by it, except   *)
(* that A7 stays word-aligned; immediate data takes whole extension words  *)
(* after the PC, a byte in the low-order byte of its word.                 *)
OperandBytes(size) == CASE size \in {0, 1} -> 4 [] size \in {2, 3} -> 12
                          [] size = 4 -> 2 [] size = 5 -> 8 [] size = 6 -> 1
OperandRef(i) ==
    LET len  == OperandBytes(i.size)
        step == IF i.ea[2] = 7 /\ len = 1 THEN 2 ELSE len
    IN  CASE i.ea[1] = 3 -> [ad |-> 500, an |-> 500 + step, pc |-> PC]
          [] i.ea[1] = 4 -> [ad |-> 500 - step, an |-> 500 - step, pc |-> PC]
          [] i.ea[1] = 7 /\ i.ea[2] = 4 ->
               [ad |-> IF len = 1 THEN PC + 1 ELSE PC, an |-> 500,
                pc |-> PC + (IF len = 1 THEN 2 ELSE len)]
          [] OTHER -> [ad |-> GetFpAd(i.ea[1], i.ea[2], 500, PC, 6).ad, an |-> 500,
                       pc |-> PC + 2 * GetFpAd(i.ea[1], i.ea[2], 500, PC, 6).words]

-----------------------------------------------------------------------------
(* Properties                                                              *)

(* FDBcc counts the low word of Dn down and leaves its upper word alone,   *)
(* ending the loop when the count passes 0 to -1 (fpuop_dbcc's masks at    *)
(* the 0 -> 0xffff wrap).                                                  *)
DbccMatchesManual ==
    instr.kind = "dbcc" =>
        Fdbcc(instr.extra, V, PC, instr.disp, instr.d) = DbccRef(instr)

(* FBcc, when no exception is pending, branches exactly when the predicate *)
(* of the shadow result holds, by the sign-extended displacement of the    *)
(* size bit 6 selects (fpuop_bcc's cast of a 16-bit displacement).         *)
FbccBranchMatchesManual ==
    instr.kind = "bcc" /\ instr.enable = {} =>
        Fbcc(BccOpcode(instr), PC, instr.extra, V, {}, {}) = BranchRef(instr)

(* A context switch saves the FPU with FSAVE -(An) and restores it with    *)
(* FRESTORE (An)+: An comes back to where it was (the specification: "FSAVE *)
(* immediately followed by FRESTORE ... must leave the address register at *)
(* its original value"), on both CPU types.  And FRESTORE (An)+ steps over *)
(* every frame the manual lists by exactly its length.                      *)
FrameRoundTrip ==
    instr.kind = "frame" =>
        /\ LET s == Fsave(4, 0, instr.cpu, 500, PC, 0)
               r == Frestore(3, 0, instr.cpu, s.an, PC, 0, MemOf(s.writes))
           IN  r.an = 500
        /\ FrameBytesRef(instr.cpu, instr.header) # 0 =>
              Frestore(3, 0, instr.cpu, 500, PC, 0,
                       [a \in Addrs |-> IF a = 500 THEN instr.header ELSE 0]).an
                = 500 + FrameBytesRef(instr.cpu, instr.header)

(* get_fp_value reads a legal source operand where the manual puts it:    *)
(* (An)+ and -(An) step An by the operand's length, two for a byte on A7,  *)
(* and immediate data moves the PC over whole words (the sz1/sz2 tables    *)
(* and the "ad++" of an immediate byte).                                   *)
OperandStepsMatchManual ==
    instr.kind = "operand" /\ instr.dir = "get" /\ SourceLegal(instr)
    /\ instr.ea[1] # 0 =>
        LET out == GetFpValue(instr.ea[1], instr.ea[2], instr.size, 500, PC, 6)
        IN  /\ out.ok
            /\ [ad |-> out.ad, an |-> out.an, pc |-> out.pc] = OperandRef(instr)

(* A context switch saves the FPU registers with FMOVEM -(An) and restores *)
(* them with FMOVEM (An)+ of the mirrored mask: every register of the list *)
(* comes back into its own register, the others are untouched and An ends *)
(* where it started (the predecrement and postincrement loops and their   *)
(* 12-byte slots).  Likewise FMOVEM of FPCR/FPSR/FPIAR to -(An) and back   *)
(* from (An)+ reads each control register from the long it was written to *)
(* and brings An back (the two "ad -= incr" of the store).                 *)
FmovemRoundTrip ==
    /\ instr.kind = "fmovem" =>
          LET s == FmovemToMem(4, 0, instr.list, Dregs0, 500, PC, 0, RegsRef)
              r == FmovemFromMem(3, 0, 4096 + MirrorRef(instr.list), Dregs0,
                                 s.an, PC, 0, ZeroFile, MemOfSet(s.writes))
          IN  /\ r.an = 500
              /\ \A q \in 0 .. 7 :
                    r.fp[q] = IF Bit(instr.list, q) THEN RegsRef[q] ELSE Zero
    /\ instr.kind = "fctrl" =>
          LET ctrl == [fpcr |-> 1, fpsr |-> 2, fpiar |-> 3]
              s == FmovemCtrlToMem(4, 0, instr.sel * 1024, 500, PC, 0, ctrl)
              r == FmovemCtrlFromMem(3, 0, instr.sel * 1024, s.an, PC, 0)
          IN  /\ r.an = 500
              /\ \A c \in DOMAIN r.reads :
                    MemOfSet(s.writes)[r.reads[c]] = CtrlLong(ctrl, c)

(* The data formats of the manual for an extended value: a NAN has the    *)
(* maximum exponent and a nonzero fraction, an infinity the maximum        *)
(* exponent and a zero fraction; the explicit integer bit is a "don't      *)
(* care" for both.                                                         *)
FormatClass(v) ==
    CASE ExpOf(v.high) = ExpMax /\ v.low % IntBit # 0 -> {"NAN"}
      [] ExpOf(v.high) = ExpMax                      -> {"I"}
      [] OTHER                                       -> {}

(* The value operators and the conditional instructions do what the       *)
(* manual and the exception rules of the specification say.  An extended   *)
(* operand loaded from memory (FMOVE.X <ea>,FPn and FMOVEM <ea>,<list> go  *)
(* through make_extended) compares with zero as the memory operand does.   *)
(* FBcc takes the highest-priority enabled pre-instruction exception whose *)
(* flag has accrued.  FTRAPcc traps exactly when its condition holds and   *)
(* raises nothing else.  FScc writes only a data-alterable destination and *)
(* steps An for (An)+ and -(An).  FSAVE and FRESTORE take only their own  *)
(* modes ("FSAVE has no post-increment", "FRESTORE has no pre-decrement")   *)
(* and are illegal in any other.  The operand resolvers accept exactly the *)
(* legal sources and destinations, and when they refuse one the PC goes   *)
(* back to the opcode with An as it was, so op_illg reports the faulting   *)
(* instruction.  A dynamic FMOVEM list is taken from the data register     *)
(* bits 6-4 name, and FMOVEM keeps the sign of a zero register.  The      *)
(* condition codes get_fpccr reads from a register value tell NAN and     *)
(* infinity apart by the fraction, as the manual's data formats do.        *)
(* Writing the condition codes back (FMOVE Dn,FPSR after FMOVE FPSR,Dn, as *)
(* a context switch does) restores them, the N bit included, so every FBcc *)
(* after it branches as before.                                            *)
OperatorsMatchManual ==
    /\ instr.kind \in {"save", "restore"} =>
          LET out == IF instr.kind = "save"
                     THEN Fsave(instr.ea[1], instr.ea[2], 2, 500, PC, 6)
                     ELSE Frestore(instr.ea[1], instr.ea[2], 2, 500, PC, 6,
                                   [a \in Addrs |-> 0])
          IN  out.ok = FrameModeLegal(instr.kind, instr.ea)
    /\ RegRelation(MakeExtended(hw, sig)) = MemRelation(hw, sig)
    /\ GetFpccr(V) \cap {"NAN", "I"} = FormatClass(V)
    /\ GetFpccr(SetFpccr(GetFpccr(V))) = GetFpccr(V)
    /\ instr.kind = "bcc" =>
          Fbcc(BccOpcode(instr), PC, instr.extra, V, instr.enable,
               instr.accrued).ev
            = IF BccExceptionRef(instr) # <<>> THEN BccExceptionRef(instr)
              ELSE BranchRef(instr).ev
    /\ instr.kind = "trapcc" =>
          Ftrapcc(62072 + instr.mode, V) = IF Pred(instr.cond) THEN <<7>> ELSE <<>>
    /\ instr.kind = "scc" /\ instr.extra < 32 =>
          LET opcode == 62016 + instr.ea[1] * 8 + instr.ea[2]     \* 0xF240
              out == Fscc(opcode, instr.extra, V, PC, [hi |-> 0, lo |-> 0], 500, 6)
              ref == SccEaRef(instr)
          IN  instr.ea[1] # 0 =>
                /\ (out.ev = <<>>) = ref.ok
                /\ ref.ok => out.mem[1] = ref.ad /\ out.an = ref.an
    /\ instr.kind = "fdyn" =>
          LET dregs == [d \in 0 .. 7 |-> IF d = instr.dn THEN 196 ELSE 0]
          IN  FmovemToMem(4, 0, 2048 + 16 * instr.dn, dregs, 500, PC, 0, RegsRef).writes
                = FmovemToMem(4, 0, 196, Dregs0, 500, PC, 0, RegsRef).writes
    /\ instr.kind = "fmovem" /\ IsZero(V) =>
          LET fp == [RegsRef EXCEPT ![0] = V]
              s  == FmovemToMem(4, 0, 1, Dregs0, 500, PC, 0, fp)
              r  == FmovemFromMem(3, 0, 4096 + 128, Dregs0, s.an, PC, 0, ZeroFile,
                                  MemOfSet(s.writes))
          IN  SignOf(r.fp[0].high) = SignOf(V.high)
    /\ instr.kind = "operand" =>
          LET out == IF instr.dir = "get"
                     THEN GetFpValue(instr.ea[1], instr.ea[2], instr.size, 500, PC, 6)
                     ELSE PutFpValue(instr.ea[1], instr.ea[2], instr.size, 500, PC, 6)
          IN  /\ out.ok = IF instr.dir = "get" THEN SourceLegal(instr)
                                              ELSE DestLegal(instr)
              /\ ~out.ok => OperandFailure(out).pc = PC - 4
                            /\ OperandFailure(out).an = 500
=============================================================================
