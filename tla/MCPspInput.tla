----------------------------- MODULE MCPspInput -----------------------------
(* VideoInterrupt's input with seven of the pad's buttons: the rows of the *)
(* built-in button_map for them, one imap file, one floppy image, two      *)
(* on-screen keyboard characters and two IR keyboard keys.                 *)
EXTENDS PspInput

MCButtons == {"START", "SELECT", "TRIANGLE", "CIRCLE", "CROSS", "DOWN", "RIGHT"}

Row(p, r, k) == [pressed |-> p, released |-> r, keys |-> k]

\* button_map's rows for RIGHT (F2), DOWN (F3), TRIANGLE (Cmd-Q),
\* CIRCLE (Cmd-W) and CROSS (mouse button 0)
MCButtonMap ==
    << Row({"RIGHT"}, {}, <<60, 255, 255, 255>>),
       Row({"DOWN"}, {}, <<61, 255, 255, 255>>),
       Row({"TRIANGLE"}, {}, <<55, 12, 255, 255>>),
       Row({"CIRCLE"}, {}, <<55, 13, 255, 255>>),
       Row({"CROSS"}, {}, <<256, 255, 255, 255>>) >>

\* an imap file: TRIANGLE is Caps Lock, CIRCLE alone moves the mouse
\* (0x2A8: right 2, no vertical move), CROSS is Return
MCImaps ==
    << << Row({"TRIANGLE"}, {}, <<57, 255, 255, 255>>),
          Row({"CIRCLE"}, {"TRIANGLE"}, <<680, 255, 255, 255>>),
          Row({"CROSS"}, {}, <<36, 255, 255, 255>>) >> >>

\* no input, move right, backspace, 'A' (shift-a), 'q'
MCOskKeys == {0, 2, 8, 65, 113}

\* 'a' and Caps Lock on the IR keyboard
MCKbKeys == {0, 57}

TypeOK == InputTypeOK
=============================================================================
