------------------------------- MODULE GuiMenu -------------------------------
(***************************************************************************)
(* The menu items of do_gui, struct gui_menu in src/PSP/gui_psp.h (the    *)
(* PSP2 port has the same header).  An item keeps what do_gui reads of it: *)
(* its kind (the GUI_* flag), the variable it edits, the length of its     *)
(* list, its submenu and the menufn passed with it (a FILE item's          *)
(* directory, a FUNCTION item's function), its integer range and its       *)
(* enable flag.                                                            *)
(***************************************************************************)
EXTENDS Integers

CONSTANT NULL    \* a NULL char *

Item(k, v, n, s, lo, hi, en) ==
    [kind |-> k, var |-> v, len |-> n, sub |-> s, hook |-> "none",
     lo |-> lo, hi |-> hi, en |-> en]
Text        == Item("text", "none", 0, "none", 0, 0, FALSE)
Divider     == Item("divider", "none", 0, "none", 0, 0, FALSE)
Sel(v, n, en) == Item("select", v, n, "none", 0, 0, en)
Tog(v, en)  == Item("toggle", v, 0, "none", 0, 0, en)
Sub(m, en)  == Item("menu", "none", 0, m, 0, 0, en)
Fun(f)      == Item("function", "none", 0, f, 0, 0, TRUE)
FileItem(v, d) == Item("file", v, 0, d, 0, 0, TRUE)
IntItem(v, lo, hi, en) == Item("integer", v, 0, "none", lo, hi, en)

\* The position, from 0, of x in the table s, or dflt when it is not there:
\* the if/else chains and switches that turn a saved value into an index.
IndexOf(s, x, dflt) == IF \E i \in DOMAIN s : s[i] = x
                       THEN (CHOOSE i \in DOMAIN s : s[i] = x) - 1 ELSE dflt
=============================================================================
