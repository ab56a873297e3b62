------------------------------ MODULE VitaEditor ------------------------------
(***************************************************************************)
(* The PS Vita preferences editor: the same do_gui (src/PSP2/gui_psp.cpp, *)
(* whose control is PSP's line for line) over the tables, set-up, load    *)
(* and save of src/PSP2/prefs_editor_psp.cpp (VitaPrefs); no table of it  *)
(* has a menufn.                                                           *)
(***************************************************************************)
EXTENDS VitaPrefs, PspGui

\* PspGui's Gui* constants are bound to VitaPrefs's definitions of the same
\* names (GuiMenus to Menus, GuiLoad to PrefsLoad, ...) where this module
\* is instantiated or checked.

(* The preferences editor keeps the user's choices: every value it holds  *)
(* it can display (do_gui strcat's the text of a SELECT item's current     *)
(* entry into the item's line), and once it has saved, the next start in   *)
(* the same environment shows what the user left, and a start in any      *)
(* environment can display every value it reads.                          *)
EditorKeepsPrefs ==
    /\ Editing => ShowsEntries(g, env)
    /\ exit = "saved" =>
          /\ Shown(PrefsLoad(prefs, env)) = Shown(g)
          /\ \A e \in EnvSet : ShowsEntries(PrefsLoad(prefs, e), e)
=============================================================================
