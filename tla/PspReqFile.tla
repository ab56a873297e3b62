----------------------------- MODULE PspReqFile -----------------------------
(* The file requester of the PSP port (reqfile.cpp): the listing parse_dir *)
(* leaves in thefiles, and the page arithmetic of FileSelector.  RequestFile *)
(* as do_gui sees it, a file of the directory or none, is PspGui's          *)
(* RequestFile; this module is the code behind it that PspGui abstracts.    *)
(*                                                                         *)
(* A directory entry is [name, flags, listed]: name stands for the name's  *)
(* place in strcasecmp order, flags is 1 for a directory, and listed is    *)
(* FALSE for what parse_dir skips (names starting with '.', and entries    *)
(* stat, opendir or fopen refuses).                                        *)
EXTENDS Integers, Sequences

CONSTANT PAGESIZE   \* 16 in the code

\* The test of parse_dir's sort loop: entry a must come after entry b
\* (directories first, then names in strcasecmp order).
OutOfOrder(a, b) ==
    \/ a.flags = 0 /\ b.flags # 0
    \/ a.flags # 0 /\ b.flags # 0 /\ a.name > b.name
    \/ a.flags = 0 /\ b.flags = 0 /\ a.name > b.name

\* The three strcpy pairs that exchange thefiles[i] and thefiles[i+1].
Swap(s, i) == [s EXCEPT ![i] = s[i + 1], ![i + 1] = s[i]]

\* The sort loop without its restart: after a swap it goes on at i + 1.
RECURSIVE SortFromOnePass(_, _)
SortFromOnePass(s, i) ==
    IF i >= Len(s) THEN s
    ELSE IF OutOfOrder(s[i], s[i + 1]) THEN SortFromOnePass(Swap(s, i), i + 1)
    ELSE SortFromOnePass(s, i + 1)

\* The sort loop: neighbours are compared from the front, and after a swap
\* the scan starts again from the front (i = -1 before the loop's i++).
RECURSIVE SortFrom(_, _)
SortFrom(s, i) ==
    IF i >= Len(s) THEN s
    ELSE IF OutOfOrder(s[i], s[i + 1]) THEN SortFrom(Swap(s, i), 1)
    ELSE SortFrom(s, i + 1)

\* parse_dir(path, thefiles, maxentries) on a directory that readdir
\* returns in the order read: the listed entries are kept until maxentries
\* of them are, then sorted.
ParseDir(read, maxentries) ==
    LET kept == SelectSeq(read, LAMBDA e : e.listed)
        n    == IF Len(kept) < maxentries THEN Len(kept) ELSE maxentries
    IN  SortFrom(SubSeq(kept, 1, n), 1)

-----------------------------------------------------------------------------
(* FileSelector keeps the selected entry and the first entry of the page   *)
(* shown, so = [selection, offset], over a listing of n = maxfiles entries. *)

\* The wrap with the page start one too low (no + 1).
WrapToBottomShort(n) ==
    [selection |-> n - 1, offset |-> IF n > PAGESIZE THEN n - 1 - PAGESIZE ELSE 0]

\* UP or LEFT past the top: the last entry, on a page that ends with it.
WrapToBottom(n) ==
    [selection |-> n - 1, offset |-> IF n > PAGESIZE THEN n - 1 - PAGESIZE + 1 ELSE 0]

\* UP or LEFT: step back by d, wrap to the bottom below 0, and go back a
\* page (not before 0) when the selection left the page.
Back(so, n, d) ==
    LET s == so.selection - d
        w == IF s < 0 THEN WrapToBottom(n) ELSE [so EXCEPT !.selection = s]
    IN  IF w.selection < w.offset
        THEN [w EXCEPT !.offset = IF @ - PAGESIZE < 0 THEN 0 ELSE @ - PAGESIZE]
        ELSE w

\* DOWN: step forward, wrap to the top at n, next page at the page's end.
Down(so, n) ==
    LET s == so.selection + 1
        w == IF s = n THEN [selection |-> 0, offset |-> 0]
             ELSE [so EXCEPT !.selection = s]
    IN  IF w.selection - w.offset = PAGESIZE
        THEN [w EXCEPT !.offset = @ + PAGESIZE] ELSE w

\* RIGHT: a page forward, wrapping to the top when past the end.
Right(so, n) ==
    LET s == so.selection + PAGESIZE
        w == IF s >= n THEN [selection |-> 0, offset |-> 0]
             ELSE [so EXCEPT !.selection = s]
    IN  IF w.selection - w.offset >= PAGESIZE
        THEN [w EXCEPT !.offset = @ + PAGESIZE] ELSE w

\* One pass of FileSelector's loop for the buttons p pressed together: the
\* tests are separate ifs, taken in the code's order.
SelectorStep(so, n, p) ==
    LET s1 == IF "down"  \in p THEN Down(so, n) ELSE so
        s2 == IF "up"    \in p THEN Back(s1, n, 1) ELSE s1
        s3 == IF "right" \in p THEN Right(s2, n) ELSE s2
    IN  IF "left" \in p THEN Back(s3, n, PAGESIZE) ELSE s3

\* The entry selected is one of the listing and on the page ShowFiles draws.
Visible(so, n) ==
    /\ 0 <= so.offset
    /\ so.offset <= so.selection /\ so.selection < so.offset + PAGESIZE
    /\ so.selection < n
=============================================================================
