----------------------------- MODULE MCPspStartup -----------------------------
(* The start of the port with two environments: no TV cable and networking *)
(* up with two access points configured, or a D-sub cable and the network  *)
(* modules failing to load.  The preferences read at start are what an     *)
(* earlier session saved: a UDP tunnel on port 5002 and a floppy chosen.   *)
(* disks/ holds that floppy, a read-only one and an entry that no longer  *)
(* opens (the in-game menu reads the directory once), cdroms/ an image,   *)
(* hardfiles/ one file; creating a volume adds a second file.  One session *)
(* changes one value, which reaches every kind of item; the ports and RAM  *)
(* sizes one step from the saved ones are reachable.                       *)
EXTENDS PspStartup

CONSTANTS H1, H2, C1, D1, D2, D3, D4

FileRec(e, p, x, w) == [ext |-> e, placeholder |-> p, exists |-> x, writable |-> w]

MCFileInfo ==
    [n \in {PlaceholderFloppy, PlaceholderCd, H1, H2, C1, D1, D2, D3, D4} |->
        CASE n = PlaceholderFloppy -> FileRec("dsk", TRUE, FALSE, FALSE)
          [] n = PlaceholderCd     -> FileRec("other", TRUE, FALSE, FALSE)
          [] n \in {H1, H2}        -> FileRec("hfv", FALSE, TRUE, TRUE)
          [] n = C1                -> FileRec("other", FALSE, TRUE, FALSE)
          [] n \in {D1, D2}        -> FileRec("dsk", FALSE, TRUE, TRUE)
          [] n = D3                -> FileRec("dsk", FALSE, TRUE, FALSE)
          [] n = D4                -> FileRec("dsk", FALSE, FALSE, FALSE)]

MCEnvSet ==
    {[cable |-> 0, free |-> 16, netError |-> FALSE, configs |-> 2],
     [cable |-> 2, free |-> 16, netError |-> TRUE, configs |-> 0]}

MCInitPrefs ==
    {PrefsSave([Defaults EXCEPT !.psp_udp_enable = 1, !.psp_udp_port = 5002,
                                !.psp_floppyfile = D1])}

MCInitFiles ==
    [d \in Dirs |-> CASE d = "hardfiles" -> {H1} [] d = "cdroms" -> {C1}
                      [] d = "disks" -> {D1, D3, D4} [] d = "roms" -> {}]

MCNewFile == [d \in {"hardfiles", "disks"} |-> IF d = "hardfiles" THEN H2 ELSE D2]

MCIntValues == 4 .. 16 \cup 5000 .. 5004

MCSlots == {"floppy", "cdrom"}
MCOpenOrder == <<"floppy", "cdrom">>
\* the Sony driver opens read-write when it can, the CD-ROM driver read-only
MCReadOnlyArg == [s \in MCSlots |-> s = "cdrom"]

TypeOK == StartupTypeOK
=============================================================================
