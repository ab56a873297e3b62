----------------------------- MODULE MCPspTimer -----------------------------
(* The conversions of timer_psp.cpp at int32 scaled to 12 bits and uint64  *)
(* to 24: a millisecond value still fits where its microseconds do not     *)
(* (2^11 > 1000), and a host time still outgrows the millisecond range     *)
(* (2^24 > 2^11 * 1000), as with 32 and 64 bits.  Each state is one input: *)
(* a Mac time value, a host time, or a pair of host times to compare.      *)
EXTENDS PspTimer

VARIABLE input

\* Host times: a grid over the range whose milliseconds fit in int32, and
\* the values at the edges of the microsecond and millisecond ranges.
HostTimes ==
    {k * 997 : k \in 0 .. ((MacMax + 1) * 1000) \div 997}
    \cup {0, 1, 999, 1000, 1001, MacMax - 1, MacMax, MacMax + 1,
          MacMax * 1000, (MacMax + 1) * 1000 - 1}

\* Pairs to compare: times a few ms apart, and times a whole int32 apart.
CmpTimes == {0, 1, 1000, MacMax, MacMax + 1, 2 * MacMax + 5}

Inputs ==
    [kind : {"mac"}, m : MacTimes]
    \cup [kind : {"host"}, h : HostTimes]
    \cup [kind : {"cmp", "sub"}, a : CmpTimes, b : CmpTimes]

Init == input \in Inputs
Next == input' \in Inputs
Spec == Init /\ [][Next]_input

(* The time operations keep the time their comments describe: a Mac time  *)
(* value converts to the duration it stands for (">0: milliseconds, <0:    *)
(* microseconds"), timer_cmp_time orders two times ("<0: a < b, =0: a = b, *)
(* >0: a > b"), and a time left until a deadline, timer_sub_time(deadline, *)
(* now), goes back to the Mac as 0 once the deadline has passed ("A        *)
(* negative input value for hosttime results in a zero return value").     *)
TimerKeepsTime ==
    /\ input.kind = "mac" => timer_mac2host_time(input.m) = MacDuration(input.m)
    /\ input.kind = "cmp" =>
          Sign(timer_cmp_time(input.a, input.b)) = Sign(input.a - input.b)
    /\ input.kind = "sub" /\ input.a < input.b =>
          timer_host2mac_time(timer_sub_time(input.a, input.b)) = 0
=============================================================================
