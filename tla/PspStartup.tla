----------------------------- MODULE PspStartup -----------------------------
(***************************************************************************)
(* The start of the PSP port, main in src/PSP/main_psp.cpp 522-553, with   *)
(* the Mac drivers after it: the preferences editor (PspGui), then, when   *)
(* the saved "udptunnel" is set, psp_net_connect with net_thread (PspNet), *)
(* then the drivers opening the floppy and CD-ROM entries the editor wrote *)
(* and the life of those drives (PspDisk).                                 *)
(*                                                                         *)
(* The phases follow each other on the main thread; net_thread outranks  *)
(* main and has ended, or never started, when psp_net_connect returns.    *)
(* The editor's file names become the records PspDisk abstracts a file    *)
(* to through FileInfo; the in-game menu lists disks/ and cdroms/ as the  *)
(* editor left them.  The hard-file entries are not opened here: PspDisk  *)
(* gives them a fixed slot, and the editor may write none or four.        *)
(***************************************************************************)
EXTENDS PspEditor

CONSTANTS
    WaitLimit, PollLimit,            \* PspNet's loop bounds
    Slots, OpenOrder, FloppySlot, CdromSlot, ReadOnlyArg,   \* PspDisk's slots
    FileInfo                         \* what PspDisk sees of each file name

VARIABLES
    stage,                           \* "editor", "net" or "drives"
    net, main, available, udptunnel, wlan, button, skipped,
    fh, name, fd, readOnly, kind, floppyFh, cdromFh, floppyIn, cdromIn,
    cdromLocked, opened, power, ejected, kept

Net == INSTANCE PspNet

Disk == INSTANCE PspDisk WITH PrefChoices <- [s \in Slots |-> {}],
                              MenuFloppies <- {}, MenuCdroms <- {}

netVars == <<net, main, available, udptunnel, wlan, button, skipped>>
diskVars == <<fh, name, fd, readOnly, kind, floppyFh, cdromFh, floppyIn, cdromIn,
              cdromLocked, opened, power, ejected, kept>>
vars == <<guiVars, netVars, diskVars, stage>>

\* The name a drive's Sys_open gets: the "floppy" or "cdrom" entry.
DriveNames(p) == [s \in Slots |-> IF s = FloppySlot THEN FileInfo[p.floppy]
                                                    ELSE FileInfo[p.cdrom]]

StartupTypeOK ==
    /\ GuiTypeOK /\ Net!NetTypeOK /\ Disk!DiskTypeOK
    /\ stage \in {"editor", "net", "drives"}

Init ==
    /\ GuiInit
    /\ stage = "editor"
    /\ net = [pc |-> "none", i |-> 0] /\ main = "create" /\ available = 0
    /\ udptunnel = prefs.udptunnel /\ wlan = FALSE /\ button = FALSE
    /\ skipped = FALSE
    /\ fh = [s \in Slots |-> "none"] /\ name = DriveNames(prefs)
    /\ fd = [s \in Slots |-> "none"] /\ readOnly = [s \in Slots |-> FALSE]
    /\ kind = [s \in Slots |-> "file"]
    /\ floppyFh = NULL /\ cdromFh = NULL
    /\ floppyIn = FALSE /\ cdromIn = FALSE /\ cdromLocked = FALSE
    /\ opened = 0 /\ power = "on" /\ ejected = {} /\ kept = {}

-----------------------------------------------------------------------------
(* A step of do_gui; the editor's own variables only.                      *)
EditorStep ==
    /\ stage = "editor"
    /\ \/ MoveUp \/ MoveDown \/ EnterMenu \/ CreateVolume \/ Toggle
       \/ SelectNext \/ SelectPrev \/ ChooseFile \/ IntegerStep
       \/ CircleBack \/ EmergQuit
    /\ UNCHANGED <<netVars, diskVars, stage>>

(* CIRCLE in TopLevel: PrefsEditor saves, and the same code sets           *)
(* psp_cdrom_inserted and psp_floppy_inserted to the chosen files.         *)
EditorSave ==
    /\ stage = "editor"
    /\ CircleSave
    /\ udptunnel' = prefs'.udptunnel
    /\ floppyIn' = (g.psp_floppyfile # NULL)
    /\ cdromIn' = (g.psp_cdromfile # NULL)
    /\ name' = DriveNames(prefs')
    /\ UNCHANGED <<net, main, available, wlan, button, skipped, fh, fd,
                   readOnly, kind, floppyFh, cdromFh, cdromLocked, opened,
                   power, ejected, kept, stage>>

(* Once PrefsEditor has returned, nothing reads the psp_* variables again *)
(* (the video code has copies of its own), and of the preferences the     *)
(* code modelled here reads only "udptunnel", "udpapoint", "floppy" and    *)
(* "cdrom".  The hand-off keeps those and gives the rest one value, so    *)
(* that the later phases are not explored once for each edit.             *)
EditorReturns ==
    /\ stage = "editor" /\ exit = "saved"
    /\ g' = Defaults
    /\ prefs' = [f \in DOMAIN prefs |->
                    IF f \in {"udptunnel", "udpapoint", "floppy", "cdrom"}
                    THEN prefs[f] ELSE PrefsSave(Defaults)[f]]
    /\ edits' = 0
    /\ UNCHANGED <<env, stack, files, exit>>

(* PrefsEditor has returned: if (PrefsFindBool("udptunnel"))               *)
(* psp_net_connect().  The user holds the switch and buttons as they are. *)
NetStart ==
    /\ EditorReturns /\ udptunnel
    /\ stage' = "net"
    /\ wlan' \in BOOLEAN /\ button' \in BOOLEAN
    /\ UNCHANGED <<net, main, available, udptunnel, skipped, diskVars>>

InNet(A) == stage = "net" /\ A /\ UNCHANGED <<guiVars, diskVars, stage>>

NetThread == InNet(Net!NetRuns)
MainThread == InNet(Net!MainRuns)
NetSleepEnds == InNet(Net!NetTimer)
MainSleepEnds == InNet(Net!MainTimer)
NetUser == InNet(Net!UserButton \/ Net!UserSwitch)

(* main goes on to the ROM, the emulator and the drivers: without          *)
(* networking at once, else once psp_net_connect has returned.  Nothing   *)
(* reads the WLAN switch or the pad for networking after this, and the    *)
(* model forgets them (and the history of a skipped wait), so that the    *)
(* drives are not explored once for each of their last values.            *)
DrivesStart ==
    /\ \/ EditorReturns /\ ~udptunnel
       \/ stage = "net" /\ main = "done" /\ UNCHANGED guiVars
    /\ stage' = "drives"
    /\ wlan' = FALSE /\ button' = FALSE /\ skipped' = FALSE
    /\ UNCHANGED <<net, main, available, udptunnel, diskVars>>

(* The drivers and the in-game menu, whose lists are disks/ and cdroms/.   *)
DriveStep ==
    /\ stage = "drives"
    /\ \/ Disk!SysOpen
       \/ \E s \in Slots : Disk!MacEject(s) \/ Disk!SysClose(s)
       \/ \E s \in Slots, b \in BOOLEAN : Disk!MacLock(s, b)
       \/ \E f \in files["disks"] : Disk!MenuMountFloppy(FileInfo[f])
       \/ \E f \in files["cdroms"] : Disk!MenuMountCdrom(FileInfo[f])
       \/ Disk!PowerSuspend
       \/ Disk!PowerResume
    /\ UNCHANGED <<guiVars, netVars, stage>>

Next ==
    \/ EditorStep \/ EditorSave \/ NetStart
    \/ NetThread \/ MainThread \/ NetSleepEnds \/ MainSleepEnds \/ NetUser
    \/ DrivesStart \/ DriveStep

(* The fairness of PspNet for the two threads, and main's going on after   *)
(* psp_net_connect, which is its own code.  The user is free.              *)
Spec ==
    /\ Init /\ [][Next]_vars
    /\ WF_vars(NetThread) /\ SF_vars(MainThread)
    /\ WF_vars(NetSleepEnds) /\ WF_vars(MainSleepEnds)
    /\ WF_vars(DrivesStart)

-----------------------------------------------------------------------------
(* Properties                                                              *)

(* The start-up gets past psp_net_connect once the user stops pressing     *)
(* buttons: when the saved preferences ask for the UDP tunnel, net_thread  *)
(* ends its waits and retries, main sees psp_net_available and the drivers *)
(* are reached.                                                            *)
NetConnectReturns == (<>[]~button) => (stage = "net" ~> stage = "drives")

(* The display pane the user edits is the one PrefsEditor will save the   *)
(* aspect from: PspLevelFn re-points PspLevel's third item on every pass, *)
(* so a pane entered after psp_vidout_select changed is the new output's, *)
(* and pspdar is taken from psp_tv_aspect exactly when the TV pane is open.*)
PaneFollowsOutput ==
    \A i \in 1 .. Len(stack) :
        stack[i].menu \in {"PspTVLevel", "PspLCDLevel"} =>
            ((stack[i].menu = "PspTVLevel") = (g.psp_vidout_select # 0))

(* PspDisk's properties of the drives, here with the names and the        *)
(* inserted flags the editor hands over and the menu lists it leaves.      *)
(* An ejected disk stays out until the menu mounts one.                    *)
EjectSticks == Disk!EjectSticks

(* SysIsReadOnly tells the truth about every open descriptor.              *)
ModeMatchesReadOnly == Disk!ModeMatchesReadOnly

(* After a resume every disk open at the suspend is open again.            *)
ResumeRestoresDrives == Disk!ResumeRestoresDrives

(* psp_floppy_inserted and psp_cdrom_inserted, which PrefsEditor sets from *)
(* the chosen files, agree with what the drivers' handles hold.            *)
MenuMatchesDrives == Disk!MenuMatchesDrives
=============================================================================
