---------------------------- MODULE MCPrefsReopen ----------------------------
(* The preferences editors of both ports, one session each, started from   *)
(* what an earlier session of the same port saved.  PSP: no TV cable with  *)
(* networking up and two access points, or a D-sub cable with the network *)
(* modules failing; the saved file has the UDP tunnel on port 5002 and a  *)
(* floppy.  Vita: 16 MB free, no configurations (getconfname finds none on *)
(* this port); the saved file has pointer speed 0.50 and deadzone 10%.    *)
(* Both see the same directories; one session changes one value.          *)
EXTENDS Naturals

CONSTANTS NULL, PlaceholderCd, PlaceholderFloppy, ExtfsDir, ExtfsPath,
          H1, H2, C1, D1, D2, D3

VARIABLES platform, env, prefs, g, stack, files, edits, exit

PspP == INSTANCE PspPrefs
VitaP == INSTANCE VitaPrefs

MCInitFiles ==
    [d \in {"hardfiles", "cdroms", "disks", "roms"} |->
        CASE d = "hardfiles" -> {H1} [] d = "cdroms" -> {C1}
          [] d = "disks" -> {D1, D3} [] d = "roms" -> {}]

MCNewFile == [d \in {"hardfiles", "disks"} |-> IF d = "hardfiles" THEN H2 ELSE D2]

MCIntValues == 4 .. 16 \cup 5000 .. 5004

PspEnvSet ==
    {[cable |-> 0, free |-> 16, netError |-> FALSE, configs |-> 2],
     [cable |-> 2, free |-> 16, netError |-> TRUE, configs |-> 0]}

PspInitPrefs ==
    {PspP!PrefsSave([PspP!Defaults EXCEPT !.psp_udp_enable = 1,
                        !.psp_udp_port = 5002, !.psp_floppyfile = D1])}

VitaEnvSet == {[free |-> 16, netError |-> FALSE, configs |-> 0]}

VitaInitPrefs ==
    {VitaP!PrefsSave([VitaP!Defaults EXCEPT !.psp_pointer_speed = 1,
                         !.psp_analog_deadzone = 1, !.psp_floppyfile = D1])}

Psp == INSTANCE PspEditor WITH EnvSet <- PspEnvSet, InitPrefs <- PspInitPrefs,
           InitFiles <- MCInitFiles, NewFile <- MCNewFile,
           IntValues <- MCIntValues, MaxEdits <- 1,
           GuiDefaults <- PspP!Defaults, GuiMenus <- PspP!Menus,
           GuiEntryHasText <- PspP!EntryHasText, MenuFn <- PspP!PspLevelFn,
           GuiLoad <- PspP!PrefsLoad, GuiSave <- PspP!PrefsSave

Vita == INSTANCE VitaEditor WITH EnvSet <- VitaEnvSet, InitPrefs <- VitaInitPrefs,
            InitFiles <- MCInitFiles, NewFile <- MCNewFile,
            IntValues <- MCIntValues, MaxEdits <- 1,
            GuiDefaults <- VitaP!Defaults, GuiMenus <- VitaP!Menus,
            GuiEntryHasText <- VitaP!EntryHasText, MenuFn <- VitaP!NoMenuFn,
            GuiLoad <- VitaP!PrefsLoad, GuiSave <- VitaP!PrefsSave

vars == <<platform, env, prefs, g, stack, files, edits, exit>>

Init == \/ platform = "psp" /\ Psp!GuiInit
        \/ platform = "vita" /\ Vita!GuiInit

Next == /\ IF platform = "psp" THEN Psp!GuiNext ELSE Vita!GuiNext
        /\ UNCHANGED platform

Spec == Init /\ [][Next]_vars

(* The editor of either port keeps the user's choices (PspEditor's and    *)
(* VitaEditor's EditorKeepsPrefs): what it holds it can display, and what *)
(* it saved reads back at the next start as the user left it.             *)
EditorKeepsPrefs ==
    IF platform = "psp" THEN Psp!EditorKeepsPrefs ELSE Vita!EditorKeepsPrefs
=============================================================================
