------------------------------ MODULE PspTimer ------------------------------
(***************************************************************************)
(* The time conversions of src/PSP/timer_psp.cpp.  A host time            *)
(* (tm_time_t) is an unsigned count of microseconds of HW bits (uint64);  *)
(* a Mac time value is a signed integer of MW bits (int32): a positive     *)
(* value counts milliseconds, a negative one microseconds.  The widths are *)
(* constants so that TLC can enumerate them; every operation wraps at its  *)
(* width the way the C arithmetic does.                                    *)
(***************************************************************************)
EXTENDS Integers

CONSTANTS
    MW,   \* the width of int32
    HW    \* the width of tm_time_t (uint64)

ASSUME MW \in Nat /\ HW \in Nat /\ 1 < MW /\ MW < HW

(* An integer stored in an unsigned, and in a signed, variable of w bits.  *)
Unsigned(x, w) == x % (2 ^ w)
Signed(x, w) ==
    IF Unsigned(x, w) >= 2 ^ (w - 1) THEN Unsigned(x, w) - 2 ^ w
                                    ELSE Unsigned(x, w)

MacTimes == -(2 ^ (MW - 1)) .. (2 ^ (MW - 1) - 1)

(* 0x7fffffff                                                              *)
MacMax == 2 ^ (MW - 1) - 1

(* timer_add_time and timer_sub_time: "res = a + b", "res = a - b" of two  *)
(* uint64.                                                                 *)
timer_add_time(a, b) == Unsigned(a + b, HW)
timer_sub_time(a, b) == Unsigned(a - b, HW)

(* timer_cmp_time: "return a - b" of two uint64 as an int.                 *)
timer_cmp_time(a, b) == Signed(Unsigned(a - b, HW), MW)

(* timer_mac2host_time: mactime * 1000 or -mactime, computed in int32 and  *)
(* stored in the uint64 res.                                               *)
timer_mac2host_time(mactime) ==
    IF mactime > 0 THEN Unsigned(Signed(mactime * 1000, MW), HW)
                   ELSE Unsigned(Signed(-mactime, MW), HW)

(* A mutant: the microsecond range ends one below 0x7fffffff.              *)
timer_host2mac_timeOffByOne(hosttime) ==
    IF hosttime >= MacMax THEN Signed(hosttime \div 1000, MW)
                          ELSE Signed(-hosttime, MW)

(* timer_host2mac_time: the "hosttime < 0" test of the unsigned hosttime   *)
(* never holds; up to 0x7fffffff the value goes back as negative           *)
(* microseconds, above it as milliseconds, converted to int32.             *)
timer_host2mac_time(hosttime) ==
    IF hosttime > MacMax THEN Signed(hosttime \div 1000, MW)
                         ELSE Signed(-hosttime, MW)

-----------------------------------------------------------------------------
(* Reference definitions                                                   *)

(* The duration, in microseconds, a Mac time value stands for.             *)
MacDuration(mactime) == IF mactime > 0 THEN mactime * 1000 ELSE -mactime

Sign(x) == IF x > 0 THEN 1 ELSE IF x < 0 THEN -1 ELSE 0

=============================================================================
