------------------------------ MODULE PspEditor ------------------------------
(***************************************************************************)
(* The PSP preferences editor: do_gui (PspGui) over the tables, set-up,   *)
(* load and save of src/PSP/prefs_editor_psp.cpp (PspPrefs), with          *)
(* PspLevelFn as the menufn of the PSP pane (MenuFn).                       *)
(***************************************************************************)
EXTENDS PspPrefs, PspGui

\* PspGui's Gui* constants are bound to PspPrefs's definitions of the same
\* names (GuiMenus to Menus, GuiLoad to PrefsLoad, ...) where this module
\* is instantiated or checked.

(* The preferences editor keeps the user's choices: every value it holds  *)
(* it can display (do_gui strcat's the text of a SELECT item's current     *)
(* entry into the item's line), and once it has saved, the next start in   *)
(* the same environment shows what the user left, and a start in any      *)
(* environment can display every value it reads.                          *)
EditorKeepsPrefs ==
    /\ Editing => ShowsEntries(g, env)
    /\ exit = "saved" =>
          /\ Shown(PrefsLoad(prefs, env)) = Shown(g)
          /\ \A e \in EnvSet : ShowsEntries(PrefsLoad(prefs, e), e)
=============================================================================
