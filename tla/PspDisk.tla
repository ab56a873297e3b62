------------------------------- MODULE PspDisk -------------------------------
(***************************************************************************)
(* The disk handles of the PSP port, src/PSP/sys_psp.cpp, and the three    *)
(* other places that change them: the in-game menu's floppy and CD-ROM     *)
(* mount (video_psp.cpp, handle_menu), the power callback that closes and  *)
(* reopens every image around a suspend (main_psp.cpp, power_callback),    *)
(* and the prefs editor that says which media start inserted               *)
(* (prefs_editor_psp.cpp).                                                 *)
(*                                                                         *)
(* Each prefs entry the Mac drivers open gets one file_handle; a handle    *)
(* is never unlinked from fh_list, and Sys_close frees it in place.  A     *)
(* file name is abstracted to what the code looks at: the class of its     *)
(* extension (strrchr(name, '.')), whether it is a placeholder, and        *)
(* whether open(2) can open it for reading and for writing.  fd is -1      *)
(* ("none"), a descriptor open read-only or read-write, or "stale": a      *)
(* number >= 0 whose descriptor Sys_drive_stop has closed.                 *)
(*                                                                         *)
(* The Mac side (the Sony, disk and CD-ROM drivers, not in this            *)
(* repository) is the environment: it opens the entries in its init order, *)
(* ejects removable disks it holds, locks the CD and closes every handle  *)
(* at exit.                                                                *)
(***************************************************************************)
EXTENDS Naturals, Sequences

CONSTANTS
    Slots,        \* the prefs entries the drivers open ("floppy", "disk", "cdrom")
    OpenOrder,    \* the order the drivers call Sys_open on them
    FloppySlot,   \* the "floppy" entry
    CdromSlot,    \* the "cdrom" entry
    PrefChoices,  \* [Slots -> SUBSET Files]: what the prefs editor may have written
    ReadOnlyArg,  \* [Slots -> BOOLEAN]: the read_only argument of Sys_open
    MenuFloppies, \* the files the menu lists under disks/
    MenuCdroms,   \* the files the menu lists under cdroms/
    NULL

Exts == {"hfv", "dsk", "other", "none"}

Files == [ext : Exts, placeholder : BOOLEAN, exists : BOOLEAN, writable : BOOLEAN]

ASSUME /\ OpenOrder \in Seq(Slots)
       /\ {FloppySlot, CdromSlot} \subseteq Slots /\ NULL \notin Slots
       /\ \A s \in Slots : PrefChoices[s] \subseteq Files
       /\ \A s \in Slots : \A f \in PrefChoices[s] :
             f.placeholder => f.ext \in {"dsk", "other"} /\ ~f.exists
       /\ MenuFloppies \cup MenuCdroms \subseteq Files

VARIABLES
    fh,           \* [Slots -> {"none", "live", "freed"}]: the slot's file_handle
    name,         \* [Slots -> Files]: fh->name (before Sys_open, the prefs entry)
    fd,           \* [Slots -> {"none", "ro", "rw", "stale"}]: fh->fd
    readOnly,     \* [Slots -> BOOLEAN]: fh->read_only
    kind,         \* [Slots -> {"file", "floppy", "cdrom"}]: is_file / is_floppy / is_cdrom
    floppyFh,     \* floppy_fh
    cdromFh,      \* cdrom_fh
    floppyIn,     \* psp_floppy_inserted # NULL
    cdromIn,      \* psp_cdrom_inserted # NULL
    cdromLocked,  \* psp_cdrom_locked
    opened,       \* how many entries of OpenOrder the drivers have opened
    power,        \* "on", or "suspended" between Sys_drive_stop and Sys_drive_restart
    ejected,      \* history: handles the Mac ejected and no mount has refilled
    kept          \* history: handles open at the last suspend and not ejected since

handleVars == <<fh, name, fd, readOnly, kind>>
vars == <<handleVars, floppyFh, cdromFh, floppyIn, cdromIn, cdromLocked,
          opened, power, ejected, kept>>

Open == {"ro", "rw"}

-----------------------------------------------------------------------------
(* open(2): O_RDONLY needs the file, O_RDWR also write permission.         *)
OpenFile(f, ro) ==
    IF f.exists /\ (ro \/ f.writable) THEN IF ro THEN "ro" ELSE "rw" ELSE "none"

(* Bug variant: the retry does not mark the handle read-only.             *)
OpenRetryNoMark(f, ro) ==
    IF OpenFile(f, ro) # "none" \/ ro THEN [fd |-> OpenFile(f, ro), ro |-> ro]
    ELSE [fd |-> OpenFile(f, TRUE), ro |-> ro]

(* Open read-write, and when that fails try read-only and mark the handle  *)
(* read-only (Sys_open and the menu's floppy mount).                       *)
OpenRetry(f, ro) ==
    IF OpenFile(f, ro) # "none" \/ ro THEN [fd |-> OpenFile(f, ro), ro |-> ro]
    ELSE [fd |-> OpenFile(f, TRUE), ro |-> TRUE]

(* is_file: the extension is ".hfv" or there is none; otherwise ".dsk" is  *)
(* a floppy and anything else is taken for a CD-ROM.                       *)
IsFile(f) == f.ext \in {"hfv", "none"}

DeviceKind(f) == IF f.ext = "dsk" THEN "floppy" ELSE "cdrom"

SysIsFixedDisk(s) == kind[s] = "file"

SysIsDiskInserted(s) ==
    fh[s] = "live" /\ (kind[s] = "file" \/ fd[s] # "none")

Running == \A s \in Slots : fh[s] # "freed"

-----------------------------------------------------------------------------
(* The prefs editor leaves psp_floppy_inserted and psp_cdrom_inserted set  *)
(* to the chosen file, NULL when it wrote a placeholder.                   *)
Init ==
    /\ name \in {n \in [Slots -> UNION {PrefChoices[s] : s \in Slots}] :
                   \A s \in Slots : n[s] \in PrefChoices[s]}
    /\ fh = [s \in Slots |-> "none"]
    /\ fd = [s \in Slots |-> "none"]
    /\ readOnly = [s \in Slots |-> FALSE]
    /\ kind = [s \in Slots |-> "file"]
    /\ floppyFh = NULL /\ cdromFh = NULL
    /\ floppyIn = ~name[FloppySlot].placeholder
    /\ cdromIn = ~name[CdromSlot].placeholder
    /\ cdromLocked = FALSE
    /\ opened = 0 /\ power = "on" /\ ejected = {} /\ kept = {}

(* Bug variant: every device handle becomes floppy_fh.                    *)
SysOpenNoKindTest ==
    /\ opened < Len(OpenOrder)
    /\ LET s == OpenOrder[opened + 1]
           f == name[s]
           o == IF f.placeholder THEN [fd |-> "none", ro |-> ReadOnlyArg[s]]
                ELSE OpenRetry(f, ReadOnlyArg[s] \/ ~(f.exists /\ f.writable))
           k == IF ~f.placeholder /\ IsFile(f) THEN "file" ELSE DeviceKind(f)
       IN  IF f.placeholder \/ o.fd # "none"
           THEN /\ fh' = [fh EXCEPT ![s] = "live"]
                /\ fd' = [fd EXCEPT ![s] = o.fd]
                /\ readOnly' = [readOnly EXCEPT ![s] = o.ro]
                /\ kind' = [kind EXCEPT ![s] = k]
                /\ floppyFh' = IF k # "file" THEN s ELSE floppyFh
                /\ cdromFh' = IF k = "cdrom" THEN s ELSE cdromFh
           ELSE UNCHANGED <<fh, fd, readOnly, kind, floppyFh, cdromFh>>
    /\ opened' = opened + 1
    /\ UNCHANGED <<name, floppyIn, cdromIn, cdromLocked, power, ejected, kept>>

(* Sys_open of the next entry.  A placeholder gets a handle with no        *)
(* descriptor.  A file is opened read-write unless read_only is asked for  *)
(* or access(W_OK) fails, then read-only; if no open succeeds there is no  *)
(* handle.  A new floppy or CD-ROM handle becomes floppy_fh or cdrom_fh.   *)
SysOpen ==
    /\ opened < Len(OpenOrder)
    /\ LET s == OpenOrder[opened + 1]
           f == name[s]
           o == IF f.placeholder THEN [fd |-> "none", ro |-> ReadOnlyArg[s]]
                ELSE OpenRetry(f, ReadOnlyArg[s] \/ ~(f.exists /\ f.writable))
           k == IF ~f.placeholder /\ IsFile(f) THEN "file" ELSE DeviceKind(f)
       IN  IF f.placeholder \/ o.fd # "none"
           THEN /\ fh' = [fh EXCEPT ![s] = "live"]
                /\ fd' = [fd EXCEPT ![s] = o.fd]
                /\ readOnly' = [readOnly EXCEPT ![s] = o.ro]
                /\ kind' = [kind EXCEPT ![s] = k]
                /\ floppyFh' = IF k = "floppy" THEN s ELSE floppyFh
                /\ cdromFh' = IF k = "cdrom" THEN s ELSE cdromFh
           ELSE UNCHANGED <<fh, fd, readOnly, kind, floppyFh, cdromFh>>
    /\ opened' = opened + 1
    /\ UNCHANGED <<name, floppyIn, cdromIn, cdromLocked, power, ejected, kept>>

(* Bug variant: the descriptor is closed but fh->fd keeps its number.      *)
SysEjectNoReset(s) ==
    LET t == IF kind[s] = "floppy" THEN floppyFh ELSE cdromFh
    IN  /\ fd' = [fd EXCEPT ![t] = IF @ = "none" THEN "none" ELSE "stale"]
        /\ floppyIn' = (floppyIn /\ kind[s] # "floppy")
        /\ cdromIn' = (cdromIn /\ kind[s] # "cdrom")

(* SysEject acts on floppy_fh or cdrom_fh, whichever the kind of the       *)
(* handle names, not on the handle it is given.                            *)
SysEject(s) ==
    LET t == IF kind[s] = "floppy" THEN floppyFh ELSE cdromFh
    IN  /\ fd' = [fd EXCEPT ![t] = "none"]
        /\ floppyIn' = (floppyIn /\ kind[s] # "floppy")
        /\ cdromIn' = (cdromIn /\ kind[s] # "cdrom")

(* The Mac ejects a removable disk it holds.                               *)
MacEject(s) ==
    /\ Running /\ opened = Len(OpenOrder)
    /\ ~SysIsFixedDisk(s) /\ SysIsDiskInserted(s) /\ s \notin ejected
    /\ SysEject(s)
    /\ ejected' = ejected \cup {s}
    /\ kept' = kept \ {s}
    /\ UNCHANGED <<fh, name, readOnly, kind, floppyFh, cdromFh, cdromLocked,
                   opened, power>>

(* SysPreventRemoval / SysAllowRemoval: only a CD-ROM handle sets the lock. *)
MacLock(s, b) ==
    /\ Running /\ fh[s] = "live"
    /\ cdromLocked' = IF kind[s] = "cdrom" THEN b ELSE cdromLocked
    /\ UNCHANGED <<handleVars, floppyFh, cdromFh, floppyIn, cdromIn, opened,
                   power, ejected, kept>>

(* Sys_close at exit: the descriptor is closed and the handle freed, but   *)
(* it stays in fh_list and in floppy_fh / cdrom_fh.                        *)
SysClose(s) ==
    /\ opened = Len(OpenOrder) /\ fh[s] = "live"
    /\ fh' = [fh EXCEPT ![s] = "freed"]
    /\ fd' = [fd EXCEPT ![s] = "none"]
    /\ UNCHANGED <<name, readOnly, kind, floppyFh, cdromFh, floppyIn, cdromIn,
                   cdromLocked, opened, power, ejected, kept>>

-----------------------------------------------------------------------------
(* Bug variant: psp_floppy_inserted is set before the open is checked.    *)
MenuMountFloppyEarly(f) ==
    /\ Running /\ ~floppyIn /\ floppyFh # NULL
    /\ LET t == floppyFh
           o == OpenRetry(f, readOnly[t])
       IN  /\ name' = [name EXCEPT ![t] = f]
           /\ fd' = [fd EXCEPT ![t] = o.fd]
           /\ readOnly' = [readOnly EXCEPT ![t] = o.ro]
           /\ floppyIn' = TRUE
           /\ ejected' = IF o.fd # "none" THEN ejected \ {t} ELSE ejected
    /\ UNCHANGED <<fh, kind, floppyFh, cdromFh, cdromIn, cdromLocked, opened,
                   power, kept>>

(* The menu mounts a floppy when psp_floppy_inserted is NULL: floppy_fh    *)
(* takes the new name and is opened in its old read_only mode, retrying    *)
(* read-only; on success the floppy is marked inserted and MountVolume     *)
(* tells the Mac.                                                          *)
MenuMountFloppy(f) ==
    /\ Running /\ ~floppyIn /\ floppyFh # NULL
    /\ LET t == floppyFh
           o == OpenRetry(f, readOnly[t])
       IN  /\ name' = [name EXCEPT ![t] = f]
           /\ fd' = [fd EXCEPT ![t] = o.fd]
           /\ readOnly' = [readOnly EXCEPT ![t] = o.ro]
           /\ floppyIn' = (o.fd # "none")
           /\ ejected' = IF o.fd # "none" THEN ejected \ {t} ELSE ejected
    /\ UNCHANGED <<fh, kind, floppyFh, cdromFh, cdromIn, cdromLocked, opened,
                   power, kept>>

(* The CD-ROM is always opened read-only, and marked so only on success.   *)
MenuMountCdrom(f) ==
    /\ Running /\ ~cdromIn /\ cdromFh # NULL
    /\ LET t == cdromFh
           d == OpenFile(f, TRUE)
       IN  /\ name' = [name EXCEPT ![t] = f]
           /\ fd' = [fd EXCEPT ![t] = d]
           /\ readOnly' = IF d # "none" THEN [readOnly EXCEPT ![t] = TRUE]
                          ELSE readOnly
           /\ cdromIn' = (d # "none")
           /\ ejected' = IF d # "none" THEN ejected \ {t} ELSE ejected
    /\ UNCHANGED <<fh, kind, floppyFh, cdromFh, floppyIn, cdromLocked, opened,
                   power, kept>>

-----------------------------------------------------------------------------
(* Bug variant: Sys_drive_stop sets fh->fd to -1 after closing it.        *)
PowerSuspendReset ==
    /\ Running
    /\ fd' = [s \in Slots |-> IF fd[s] \in Open THEN "none" ELSE fd[s]]
    /\ kept' = IF power = "on" THEN {s \in Slots : fd[s] \in Open} ELSE kept
    /\ power' = "suspended"
    /\ UNCHANGED <<fh, name, readOnly, kind, floppyFh, cdromFh, floppyIn,
                   cdromIn, cdromLocked, opened, ejected>>

(* power_callback on POWER_SWITCH or SUSPENDING: Sys_drive_stop closes     *)
(* every descriptor >= 0 in fh_list and leaves fh->fd as it was, so that  *)
(* the restart knows what to reopen.  A second notification closes them   *)
(* again.                                                                  *)
PowerSuspend ==
    /\ Running
    /\ fd' = [s \in Slots |-> IF fd[s] \in Open THEN "stale" ELSE fd[s]]
    /\ kept' = IF power = "on" THEN {s \in Slots : fd[s] \in Open} ELSE kept
    /\ power' = "suspended"
    /\ UNCHANGED <<fh, name, readOnly, kind, floppyFh, cdromFh, floppyIn,
                   cdromIn, cdromLocked, opened, ejected>>

(* power_callback on RESUME_COMPLETE: Sys_drive_restart reopens every      *)
(* handle whose fd is >= 0 by its name, in its read_only mode.             *)
PowerResume ==
    /\ Running /\ power = "suspended"
    /\ fd' = [s \in Slots |-> IF fd[s] # "none" THEN OpenFile(name[s], readOnly[s])
                              ELSE "none"]
    /\ power' = "on"
    /\ UNCHANGED <<fh, name, readOnly, kind, floppyFh, cdromFh, floppyIn,
                   cdromIn, cdromLocked, opened, ejected, kept>>

Next ==
    \/ SysOpen
    \/ \E s \in Slots : MacEject(s) \/ SysClose(s)
    \/ \E s \in Slots, b \in BOOLEAN : MacLock(s, b)
    \/ \E f \in MenuFloppies : MenuMountFloppy(f)
    \/ \E f \in MenuCdroms : MenuMountCdrom(f)
    \/ PowerSuspend
    \/ PowerResume

Spec == Init /\ [][Next]_vars

-----------------------------------------------------------------------------
DiskTypeOK ==
    /\ fh \in [Slots -> {"none", "live", "freed"}]
    /\ name \in [Slots -> Files]
    /\ fd \in [Slots -> {"none", "stale"} \cup Open]
    /\ readOnly \in [Slots -> BOOLEAN]
    /\ kind \in [Slots -> {"file", "floppy", "cdrom"}]
    /\ {floppyFh, cdromFh} \subseteq Slots \cup {NULL}
    /\ floppyFh # NULL => kind[floppyFh] = "floppy"
    /\ cdromFh # NULL => kind[cdromFh] = "cdrom"
    /\ {floppyIn, cdromIn, cdromLocked} \subseteq BOOLEAN
    /\ opened \in 0 .. Len(OpenOrder) /\ power \in {"on", "suspended"}
    /\ ejected \subseteq Slots /\ kept \subseteq Slots

(* An ejected disk stays out: after the Mac ejects a removable disk,       *)
(* SysIsDiskInserted reports no disk in that drive until the menu mounts   *)
(* one, whatever suspends and resumes come between.  The drivers poll it,  *)
(* and a drive that still reports a disk gets the ejected one back.        *)
EjectSticks == \A s \in ejected : ~SysIsDiskInserted(s)

(* SysIsReadOnly tells the truth: a descriptor opened read-write belongs   *)
(* to a handle not marked read-only, and a read-only one to a handle      *)
(* marked so, through Sys_open's retry, the menu's mounts and the reopen   *)
(* after a resume.  Otherwise the Mac writes to a disk whose writes fail.  *)
ModeMatchesReadOnly ==
    \A s \in Slots : fh[s] = "live" =>
        /\ fd[s] = "rw" => ~readOnly[s]
        /\ fd[s] = "ro" => readOnly[s]

(* Suspend and resume are invisible to the Mac: once the power is back on, *)
(* every disk that was open at the suspend, and not ejected since, is open *)
(* again, and no handle keeps a descriptor Sys_drive_stop closed.          *)
ResumeRestoresDrives ==
    power = "on" =>
        /\ \A s \in kept : fh[s] = "live" => fd[s] \in Open
        /\ \A s \in Slots : fd[s] # "stale"

(* The menu's flags agree with the drives: psp_floppy_inserted (and       *)
(* psp_cdrom_inserted) is set exactly when floppy_fh (cdrom_fh) holds a    *)
(* disk, so the menu offers a mount exactly when the drive is empty.       *)
MenuMatchesDrives ==
    Running /\ opened = Len(OpenOrder) =>
        /\ floppyFh # NULL => (floppyIn <=> SysIsDiskInserted(floppyFh))
        /\ cdromFh # NULL => (cdromIn <=> SysIsDiskInserted(cdromFh))

=============================================================================
