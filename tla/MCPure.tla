-------------------------------- MODULE MCPure --------------------------------
(* The pure operators of the project checked against their reference       *)
(* definitions in one run.  Its states are the inputs: the FPU operands    *)
(* and instructions of MCFpuBranch (hosttime = NoHost), and the host times *)
(* of MCPspTimer for the time conversion of timer_psp.cpp (the FPU         *)
(* variables then hold one fixed input).  The two input sets are visited   *)
(* side by side, not as a product; so are the inputs of the file          *)
(* requester's sort and page arithmetic (reqfile.cpp).                     *)
EXTENDS MCFpuBranch

VARIABLE hosttime, req

Timer == INSTANCE MCPspTimer WITH MW <- 12, HW <- 24, input <- instr

NoHost == -1

\* PAGESIZE is 3 instead of 16 and MAXFILES 3 instead of 256, so that
\* listings shorter than, as long as and longer than a page (n up to 7,
\* two pages and more) and a directory with more entries than MAXFILES are
\* all among the inputs.
ReqPageSize == 3
ReqMaxFiles == 3
ReqMaxN == 7

ReqFile == INSTANCE PspReqFile WITH PAGESIZE <- ReqPageSize

\* An entry readdir returns: one of four names, a file or a directory, or a
\* '.' entry parse_dir skips.
ReqEntries == [name : 1 .. 4, flags : {0, 1}, listed : {TRUE}]
                \cup {[name |-> 0, flags |-> 1, listed |-> FALSE]}
ReqReads ==
    {r \in UNION {[1 .. k -> ReqEntries] : k \in 0 .. 4} :
        \A i, j \in DOMAIN r : i # j /\ r[i].listed => r[i].name # r[j].name}
ReqPages ==
    {so \in [selection : 0 .. ReqMaxN - 1, offset : 0 .. ReqMaxN - 1] :
        so.offset <= so.selection /\ so.selection < so.offset + ReqPageSize}
ReqInputs ==
    [kind : {"sort"}, read : ReqReads]
      \cup UNION {{[kind |-> "page", n |-> n, so |-> so, p |-> p] :
                    so \in {x \in ReqPages : x.selection < n},
                    p \in SUBSET {"down", "up", "right", "left"}} : n \in 1 .. ReqMaxN}
NoReq == [kind |-> "none"]
\* The requester's inputs are all initial states; a step goes to one of them.
ReqFirst == [kind |-> "sort", read |-> <<>>]

FpuInputs == <<hw, sig, instr>>

PureInit ==
    \/ BranchInit /\ hosttime = NoHost /\ req = NoReq
    \/ /\ hosttime \in Timer!HostTimes /\ req = NoReq
       /\ hw = 0 /\ sig = 0 /\ instr = CHOOSE i \in Instrs : TRUE
    \/ /\ req \in ReqInputs /\ hosttime = NoHost
       /\ hw = 0 /\ sig = 0 /\ instr = CHOOSE i \in Instrs : TRUE

PureNext ==
    \/ hosttime = NoHost /\ req = NoReq /\ BranchNext /\ UNCHANGED <<hosttime, req>>
    \/ hosttime # NoHost /\ hosttime' \in Timer!HostTimes /\ UNCHANGED <<FpuInputs, req>>
    \/ req # NoReq /\ req' = ReqFirst /\ UNCHANGED <<FpuInputs, hosttime>>

PureSpec == PureInit /\ [][PureNext]_<<FpuInputs, hosttime, req>>

(* timer_host2mac_time keeps the duration: "As long as the microseconds    *)
(* value fits in 32 bit, it must not be converted to milliseconds!" -- up  *)
(* to 0x7fffffff microseconds the Mac value is exact, above that it is     *)
(* the duration truncated to the millisecond.                              *)
Host2MacKeepsDuration ==
    hosttime # NoHost =>
        LET r == Timer!timer_host2mac_time(hosttime) IN
        IF hosttime <= Timer!MacMax THEN Timer!MacDuration(r) = hosttime /\ r <= 0
        ELSE r > 0 /\ hosttime - Timer!MacDuration(r) \in 0 .. 999
(* parse_dir leaves the first MAXFILES entries readdir returned that it    *)
(* lists, no '.' entry, with the directories first and the names in        *)
(* ascending order: the restarting exchange loop sorts whatever order      *)
(* readdir gives.                                                          *)
SortMatchesReference ==
    req.kind = "sort" =>
        LET kept == SelectSeq(req.read, LAMBDA e : e.listed)
            t    == ReqFile!ParseDir(req.read, ReqMaxFiles)
        IN  /\ Len(t) = IF Len(kept) < ReqMaxFiles THEN Len(kept) ELSE ReqMaxFiles
            /\ {t[i] : i \in 1 .. Len(t)} = {kept[i] : i \in 1 .. Len(t)}
            /\ \A i, j \in 1 .. Len(t) : i < j =>
                   \/ t[i].flags > t[j].flags
                   \/ t[i].flags = t[j].flags /\ t[i].name < t[j].name

(* FileSelector keeps the selected entry on the page ShowFiles draws: from *)
(* any selection on the page of a non-empty listing, one pass of the loop  *)
(* with any buttons held together (DOWN, UP, RIGHT, LEFT in that order,    *)
(* including the wraps at both ends and the page turns) ends on an entry   *)
(* of the listing on the page.  RequestFile starts it at entry 0, page 0.  *)
SelectorKeepsSelectionVisible ==
    req.kind = "page" =>
        ReqFile!Visible(ReqFile!SelectorStep(req.so, req.n, req.p), req.n)
=============================================================================
