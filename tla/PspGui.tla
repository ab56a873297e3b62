------------------------------- MODULE PspGui -------------------------------
(***************************************************************************)
(* The PSP preferences editor at work: PrefsEditor (prefs_editor_psp.cpp) *)
(* sets up the menus, reads the preferences into the psp_* variables and   *)
(* runs do_gui (gui_psp.cpp) on TopLevel; when the user backs out of it,   *)
(* it writes the variables back and saves the file.                        *)
(*                                                                         *)
(* do_gui runs one loop per menu, and a MENU item calls do_gui again for   *)
(* its submenu; the frames of these calls are the stack, innermost last,   *)
(* each with its menu, its csel and the menufn it was given.  One step is  *)
(* one pass of the innermost loop with the buttons the user holds: UP or  *)
(* DOWN moves csel, CROSS acts on the enabled item under it, CIRCLE leaves *)
(* the loop.  The waits for a button's release are folded into the step.   *)
(* The HOME button's exit callback sets emerg_quit, which the loop obeys  *)
(* by calling QuitEmulator.                                                *)
(*                                                                         *)
(* The file requester returns a file of the item's directory or nothing   *)
(* (cancel, or an empty directory).  A created volume is a new file of    *)
(* hardfiles/ or disks/ under the name the user typed; an aborted or      *)
(* failed creation changes nothing.                                        *)
(*                                                                         *)
(* The PSP2 port runs the same do_gui (src/PSP2/gui_psp.cpp) over tables  *)
(* of its own, so the platform's tables, set-up, load and save are the     *)
(* parameters, the Gui* constants: PspPrefs's or VitaPrefs's.             *)
(***************************************************************************)
EXTENDS Integers, Sequences, Bitwise, Functions, GuiMenu

CONSTANTS
    GuiDefaults,       \* the static initialisers of the psp_* variables
    GuiMenus(_),       \* the menu tables in an environment
    GuiEntryHasText(_, _, _),  \* whether a SELECT item's entry has a text
    MenuFn(_, _),      \* the menufn a frame with a hook runs on its table
    GuiLoad(_, _),     \* PrefsEditor's "set initial values from prefs"
    GuiSave(_),        \* PrefsEditor's "set prefs from final values"
    EnvSet,      \* the environments the editor may start in
    InitPrefs,   \* the preferences PrefsInit may have read
    InitFiles,   \* [Dirs -> SUBSET names]: the files of each directory
    NewFile,     \* [CreateDirs -> name]: what the user types when creating
    IntValues,   \* the values an INTEGER item may be stepped to
    MaxEdits     \* how many values one session of the editor changes

Dirs == {"hardfiles", "cdroms", "disks", "roms"}

\* The directory each volume-creating FUNCTION writes to.
CreateDir == [psp_create_hardfile |-> "hardfiles", psp_create_floppy |-> "disks"]

VARIABLES
    env,     \* psp_tv_cable, psp_amount_free(), psp_net_error, configurations
    prefs,   \* the preferences, as last saved
    g,       \* the psp_* variables
    stack,   \* the frames of do_gui: [menu, csel, hook]
    files,   \* the files of each directory
    edits,   \* how many values the session has changed
    exit     \* "none" while the editor runs, then "saved" or "quit"

guiVars == <<env, prefs, g, stack, files, edits, exit>>

Frame(m, h) == [menu |-> m, csel |-> 0, hook |-> h]

Editing == stack # <<>>

Top == stack[Len(stack)]

(* The menu a frame shows: its menufn runs at the top of every pass.       *)
MenuOf(f) ==
    IF f.hook # "none" THEN MenuFn(GuiMenus(env)[f.menu], g)
                       ELSE GuiMenus(env)[f.menu]

Cur == MenuOf(Top)[Top.csel + 1]

(* RequestFile: the selected file, or 0 when the directory is empty or    *)
(* the user backs out.                                                     *)
RequestFile(d) == files[d] \cup {NULL}

GuiTypeOK ==
    /\ env \in EnvSet
    /\ g \in [DOMAIN GuiDefaults -> Int \cup UNION {files[d] : d \in Dirs} \cup {NULL}]
    /\ stack \in Seq([menu : DOMAIN GuiMenus(env), csel : Nat,
                      hook : {"none", "PspLevelFn"}])
    /\ \A i \in 1 .. Len(stack) : stack[i].csel < Len(GuiMenus(env)[stack[i].menu])
    /\ files \in [Dirs -> SUBSET (UNION {InitFiles[d] : d \in Dirs} \cup Range(NewFile))]
    /\ edits \in 0 .. MaxEdits
    /\ exit \in {"none", "saved", "quit"}

(* PrefsEditor: the set-up and "set initial values from prefs", then      *)
(* do_gui(TopLevel, NULL, ...).                                            *)
GuiInit ==
    /\ env \in EnvSet
    /\ prefs \in InitPrefs
    /\ g = GuiLoad(prefs, env)
    /\ stack = <<Frame("TopLevel", "none")>>
    /\ files = InitFiles
    /\ edits = 0
    /\ exit = "none"

-----------------------------------------------------------------------------
(* UP or DOWN without CROSS: csel moves through the items with wrap-around, *)
(* onto dividers and disabled items too.                                   *)
MoveUp ==
    /\ Editing
    /\ stack' = [stack EXCEPT ![Len(stack)].csel =
                    IF @ = 0 THEN Len(MenuOf(Top)) - 1 ELSE @ - 1]
    /\ UNCHANGED <<env, prefs, g, files, edits, exit>>

MoveDown ==
    /\ Editing
    /\ stack' = [stack EXCEPT ![Len(stack)].csel =
                    IF @ = Len(MenuOf(Top)) - 1 THEN 0 ELSE @ + 1]
    /\ UNCHANGED <<env, prefs, g, files, edits, exit>>

(* CROSS on an enabled item of the given kind.                             *)
Crossing(k) == Editing /\ Cur.kind = k /\ Cur.en

(* A step of the session that changes a psp_* variable.                   *)
Edit(v, x) ==
    /\ edits < MaxEdits
    /\ edits' = edits + 1
    /\ g' = [g EXCEPT ![v] = x]
    /\ UNCHANGED <<env, prefs, stack, files, exit>>

(* GUI_MENU: do_gui on the submenu, with the item's menufn.               *)
EnterMenu ==
    /\ Crossing("menu")
    /\ stack' = Append(stack, Frame(Cur.sub, Cur.hook))
    /\ UNCHANGED <<env, prefs, g, files, edits, exit>>

(* GUI_FUNCTION: psp_create_hardfile or psp_create_floppy; RequestString  *)
(* gives the name and the file is created (O_CREAT | O_TRUNC).            *)
CreateVolume ==
    /\ Crossing("function")
    /\ LET d == CreateDir[Cur.sub]
       IN  files' = [files EXCEPT ![d] = @ \cup {NewFile[d]}]
    /\ UNCHANGED <<env, prefs, g, stack, edits, exit>>

(* GUI_TOGGLE: the variable field1 points to is XORed with 1.            *)
Toggle ==
    /\ Crossing("toggle")
    /\ Edit(Cur.var, g[Cur.var] ^^ 1)

(* GUI_SELECT with RIGHT or DOWN: k = (k == j - 1) ? 0 : k + 1, where j is *)
(* gui_list_len of the item's list.                                        *)
SelectNext ==
    /\ Crossing("select")
    /\ Edit(Cur.var, IF g[Cur.var] = Cur.len - 1 THEN 0 ELSE g[Cur.var] + 1)

(* GUI_SELECT with LEFT or UP: k = (k == 0) ? j - 1 : k - 1.               *)
SelectPrev ==
    /\ Crossing("select")
    /\ Edit(Cur.var, IF g[Cur.var] = 0 THEN Cur.len - 1 ELSE g[Cur.var] - 1)

(* GUI_FILE: the old name is freed and field1 = req ? strdup(req) : 0.     *)
ChooseFile ==
    /\ Crossing("file")
    /\ \E req \in RequestFile(Cur.sub) : Edit(Cur.var, req)

(* GUI_INTEGER: RIGHT +1, LEFT -1, DOWN +10, UP -10; a step up is cut to   *)
(* the range's max, a step down to its min.                                *)
Stepped(x, d, lo, hi) ==
    IF d > 0 THEN IF x + d > hi THEN hi ELSE x + d
             ELSE IF x + d < lo THEN lo ELSE x + d

IntegerStep ==
    /\ Crossing("integer")
    /\ \E d \in {1, -1, 10, -10} :
          LET x == Stepped(g[Cur.var], d, Cur.lo, Cur.hi)
          IN  x \in IntValues /\ Edit(Cur.var, x)

(* CIRCLE in a submenu: its do_gui returns to the caller's loop.           *)
CircleBack ==
    /\ Len(stack) > 1
    /\ stack' = SubSeq(stack, 1, Len(stack) - 1)
    /\ UNCHANGED <<env, prefs, g, files, edits, exit>>

(* CIRCLE in TopLevel: do_gui returns to PrefsEditor, which sets the      *)
(* preferences from the variables and calls SavePrefs.                     *)
CircleSave ==
    /\ Len(stack) = 1
    /\ stack' = <<>>
    /\ prefs' = GuiSave(g)
    /\ exit' = "saved"
    /\ UNCHANGED <<env, g, files, edits>>

(* emerg_quit: QuitEmulator ends the program; nothing is saved.            *)
EmergQuit ==
    /\ Editing
    /\ stack' = <<>>
    /\ exit' = "quit"
    /\ UNCHANGED <<env, prefs, g, files, edits>>

GuiNext ==
    \/ MoveUp \/ MoveDown
    \/ EnterMenu \/ CreateVolume \/ Toggle \/ SelectNext \/ SelectPrev
    \/ ChooseFile \/ IntegerStep
    \/ CircleBack \/ CircleSave \/ EmergQuit

GuiSpec == GuiInit /\ [][GuiNext]_guiVars

-----------------------------------------------------------------------------
(* Whether every SELECT item of every menu has a text for its variable's   *)
(* value: the entry do_gui's display strcat's into the item's line.        *)
ShowsEntries(x, e) ==
    \A m \in DOMAIN GuiMenus(e) : \A it \in Range(GuiMenus(e)[m]) :
        it.kind = "select" => GuiEntryHasText(it, x[it.var], e)
=============================================================================
