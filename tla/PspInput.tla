------------------------------ MODULE PspInput ------------------------------
(***************************************************************************)
(* The input side of the PSP port's VideoInterrupt (src/PSP/video_psp.cpp *)
(* 1483-1692), called by the emulator 60 times a second: it samples the    *)
(* pad, toggles the on-screen keyboard (START) and the disk menu (SELECT), *)
(* and then, in the mode it is in, turns held buttons into Mac key and     *)
(* mouse-button events through the button maps (key_down, key_up), types  *)
(* the on-screen keyboard's character, or drives handle_menu; last, it     *)
(* reads the IR keyboard (handle_keyboard).                                 *)
(*                                                                         *)
(* The Mac's side is macDown: the key codes, and the mouse buttons as      *)
(* 256 + b, that ADBKeyDown/ADBMouseDown have announced and no             *)
(* ADBKeyUp/ADBMouseUp has taken back.  The user is the environment: a     *)
(* pad button or an IR keyboard key goes down or up between two calls.     *)
(* danzeff_readInput's answer is a free choice among OskKeys, the results  *)
(* of fopen and open are free choices, and the Mac may eject a disk.       *)
(* The video refresh and the messages on screen are left out;              *)
(* refresh_okay, false only while the PSP is suspended, is taken as true.  *)
(***************************************************************************)
EXTENDS Integers, SequencesExt

CONSTANTS
    Buttons,        \* the pad buttons the user presses
    ButtonMap,      \* the built-in button_map table, without its 0 row
    Imaps,          \* Imaps[s]: the table parse_imap reads from imap file s
    NumFloppies,    \* what parse_dir finds in disks/
    NumCdroms,      \* what parse_dir finds in cdroms/
    FrameSkip,      \* the "frameskip" preference
    DanzeffLoaded,  \* danzeff_isinitialized()
    IrKeyboard,     \* psp_irkeyb_init == PSP_IRKBD_RESULT_OK
    OskKeys,        \* the characters danzeff_readInput may return
    KbKeys,         \* the Mac codes of the IR keyboard keys the user presses
    ScanLimit       \* bound on the scan records waiting to be read

(* A row of button_map: the buttons that must be held ([0]) and released   *)
(* ([1]), and the four key fields [2]-[5].                                 *)
MapRows == [pressed : SUBSET Buttons, released : SUBSET Buttons,
            keys : [1 .. 4 -> 0 .. 1023]]

ASSUME /\ ButtonMap \in Seq(MapRows)
       /\ Imaps \in Seq(Seq(MapRows))
       /\ \A t \in {ButtonMap} \cup Range(Imaps) :
             \A i \in DOMAIN t : t[i].pressed # {}
       /\ {NumFloppies, NumCdroms} \subseteq Nat
       /\ FrameSkip \in Nat \ {0}
       /\ {DanzeffLoaded, IrKeyboard} \subseteq BOOLEAN
       /\ OskKeys \subseteq 0 .. 127 /\ KbKeys \subseteq 0 .. 127
       /\ ScanLimit \in Nat \ {0}

NumImaps == Len(Imaps)

VARIABLES
    pad,          \* the buttons the user holds
    oldButtons,   \* VideoInterrupt's oldButtons: the last sample
    inputMode,    \* input_mode: the on-screen keyboard is up
    showMenu,     \* show_menu: the disk menu is up
    qualifiers,   \* the OSK's qualifier: none, CMD, OPT, CTRL, CMD+OPT
    showOnRight,  \* show_on_right: where the OSK is drawn
    frameCnt,     \* frame_cnt: frames left until the next refresh
    maps,         \* button_map's rows
    down,         \* down[i]: button_map[i][6], key down sent for row i
    capsLock,     \* caps_lock
    macDown,      \* the keys and mouse buttons the Mac holds down
    menu,         \* handle_menu's statics: oldButtons, sel, max, idx
    floppyIn,     \* psp_floppy_inserted # NULL
    cdromIn,      \* psp_cdrom_inserted # NULL
    floppyRO,     \* floppy_fh->read_only
    kbHeld,       \* the IR keyboard keys the user holds
    scans         \* the scan records the keyboard driver has not given out

padVars   == <<oldButtons, inputMode, showMenu, qualifiers, showOnRight,
               frameCnt>>
mapVars   == <<maps, down, capsLock, macDown>>
mediaVars == <<menu, floppyIn, cdromIn, floppyRO>>
vars == <<pad, padVars, mapVars, mediaVars, kbHeld, scans>>

NoKey    == 255
CapsKey  == 57

(* Bits 0x100 and 0x200 of a key field: a mouse button, a mouse move.      *)
IsMouse(k) == (k \div 256) % 2 = 1
IsMove(k)  == (k \div 512) % 2 = 1

(* The Mac code an event on key field k is about.                          *)
Code(k) == IF IsMouse(k) THEN 256 + (k % 8) ELSE k

(* An event announced to the Mac: a key or mouse button going down or up. *)
Down(c) == [down |-> TRUE, code |-> c]
Up(c)   == [down |-> FALSE, code |-> c]

(* What the Mac holds after a sequence of events.                          *)
Apply(S, evs) ==
    FoldLeft(LAMBDA T, e : IF e.down THEN T \cup {e.code} ELSE T \ {e.code},
             S, evs)

(* The fields key_down and key_up send, [2] always and [3]-[5] when a      *)
(* mouse button or not 0xFF, in key_down's order.                          *)
SentKeys(row) ==
    <<row.keys[1]>> \o SelectSeq(<<row.keys[2], row.keys[3], row.keys[4]>>,
                                 LAMBDA k : IsMouse(k) \/ k # NoKey)

-----------------------------------------------------------------------------
(* The button maps.  acc is what the loop has built: the flags, caps_lock  *)
(* and the events sent so far.                                             *)

(* button_map[i][0] all held and button_map[i][1] all released.            *)
Matches(row, b) == row.pressed \subseteq b /\ row.released \cap b = {}

DownEvents(row) == [j \in 1 .. Len(SentKeys(row)) |-> Down(Code(SentKeys(row)[j]))]

UpEvents(row) == Reverse([j \in 1 .. Len(SentKeys(row)) |-> Up(Code(SentKeys(row)[j]))])

(* key_down(i): a mouse move is sent on every call and sets no flag; a     *)
(* row already down sends nothing; a Caps Lock row toggles caps_lock and   *)
(* sends its new state; any other row sends its fields down.               *)
KeyDown(acc, i) ==
    LET row == maps[i] IN
    CASE IsMove(row.keys[1]) -> acc
      [] acc.down[i]         -> acc
      [] row.keys[1] = CapsKey ->
            [acc EXCEPT !.down[i] = TRUE, !.caps = ~acc.caps,
                        !.ev = Append(@, IF acc.caps THEN Up(CapsKey)
                                         ELSE Down(CapsKey))]
      [] OTHER -> [acc EXCEPT !.down[i] = TRUE, !.ev = @ \o DownEvents(row)]

(* key_up(i): the flag is cleared; a Caps Lock row sends nothing, any      *)
(* other row its fields up in the reverse order.                           *)
KeyUp(acc, i) ==
    LET row == maps[i] IN
    CASE ~acc.down[i]          -> acc
      [] row.keys[1] = CapsKey -> [acc EXCEPT !.down[i] = FALSE]
      [] OTHER -> [acc EXCEPT !.down[i] = FALSE, !.ev = @ \o UpEvents(row)]

(* The loop over button_map: a matching row goes down, a row whose flag is *)
(* set and that no longer matches goes up.                                 *)
MapStep(b, acc, i) ==
    IF Matches(maps[i], b) THEN KeyDown(acc, i)
    ELSE IF acc.down[i] THEN KeyUp(acc, i) ELSE acc

MapLoop(b) ==
    FoldLeft(LAMBDA acc, i : MapStep(b, acc, i),
             [down |-> down, caps |-> capsLock, ev |-> <<>>],
             [i \in 1 .. Len(maps) |-> i])

-----------------------------------------------------------------------------
(* The on-screen keyboard.                                                 *)

XlateDanzeffUs ==
    << 0, 0, 0, 0, 0, 0, 0, 0,  51, 0, 36, 0, 0, 0, 0, 0,
       0, 0, 0, 0, 0, 0, 0, 0,  0, 0, 0, 53, 0, 0, 0, 0,
       49, 146, 167, 148, 149, 151, 154, 39,  153, 157, 156, 152, 43, 27, 47, 44,
       29, 18, 19, 20, 21, 23, 22, 26,  28, 25, 169, 41, 171, 24, 175, 172,
       147, 128, 139, 136, 130, 142, 131, 133,  132, 162, 166, 168, 165, 174, 173, 159,
       163, 140, 143, 129, 145, 160, 137, 141,  135, 144, 134, 33, 42, 30, 150, 155,
       50, 0, 11, 8, 2, 14, 3, 5,  4, 34, 38, 40, 37, 46, 45, 31,
       35, 12, 15, 1, 17, 32, 9, 13,  7, 16, 6, 161, 170, 158, 178, 117 >>

Xlate(key) == XlateDanzeffUs[key + 1]

(* The keys of the qualifiers CMD (55), OPT (58), CTRL (54) and CMD+OPT,   *)
(* pressed before the character and released after it.                    *)
QualKeys == << <<>>, <<55>>, <<58>>, <<54>>, <<55, 58>> >>

QualDowns(q) == [j \in 1 .. Len(QualKeys[q + 1]) |-> Down(QualKeys[q + 1][j])]

QualUps(q) == [j \in 1 .. Len(QualKeys[q + 1]) |-> Up(QualKeys[q + 1][j])]

(* The character: 0-4 are no input, the two moves, select and start;       *)
(* backspace and enter are typed; a table entry of 128 + k is k typed     *)
(* with shift (56).                                                        *)
CharEvents(key) ==
    CASE key \in 0 .. 4 -> <<>>
      [] key = 8  -> <<Down(51), Up(51)>>
      [] key = 10 -> <<Down(36), Up(36)>>
      [] Xlate(key) < 128 -> <<Down(Xlate(key)), Up(Xlate(key))>>
      [] OTHER -> <<Down(56), Down(Xlate(key) % 128), Up(Xlate(key) % 128), Up(56)>>

OskEvents(q, key) == QualDowns(q) \o CharEvents(key) \o QualUps(q)

OskSide(key) ==
    CASE key = 1 -> FALSE
      [] key = 2 -> TRUE
      [] OTHER   -> showOnRight

-----------------------------------------------------------------------------
(* The disk menu.  idx is 0 for the imaps, 1 for the floppies, 2 for the   *)
(* CD-ROMs; max is the length of the list shown, sel the entry on it.      *)

Count(idx) == CASE idx = 0 -> NumImaps [] idx = 1 -> NumFloppies
                [] OTHER   -> NumCdroms

(* The "while (max == 0)" loops: from idx, step through the lists (by 1,   *)
(* or by 2 for the step back) to the first that is not empty.              *)
RECURSIVE Settle(_, _)
Settle(idx, step) ==
    IF Count(idx) > 0 THEN idx ELSE Settle((idx + step) % 3, step)

(* FileDiskLayout and MountVolume on success; fd = -1 on failure.  The     *)
(* floppy is opened read-write unless read_only is set, and a failed       *)
(* read-write open sets read_only for good and tries read-only.            *)
MountFloppy(rwOk, roOk) ==
    LET retry == ~floppyRO /\ ~rwOk
    IN  [in |-> rwOk \/ (retry /\ roOk), ro |-> floppyRO \/ retry]

(* parse_imap: button_map is cleared, every flag with it, and filled with  *)
(* the rows of the file.                                                   *)
ParseImap(s) == [maps |-> Imaps[s + 1], down |-> [i \in 1 .. Len(Imaps[s + 1]) |-> FALSE]]

(* handle_menu(pad): nothing when all three lists are empty; otherwise     *)
(* LEFT and RIGHT (on a change) move to the previous or next non-empty     *)
(* list at its top, UP and DOWN move sel with wrap-around, and CROSS loads *)
(* the input map (parse_imap clears every row's flag), or mounts the       *)
(* floppy or CD-ROM image when none is inserted.  fileOk, openOk and      *)
(* reopenOk are the outcomes of fopen and of the first and second open.   *)
HandleMenu(b, fileOk, openOk, reopenOk) ==
    LET idx0 == IF menu.max = 0 THEN Settle(menu.idx, 1) ELSE menu.idx
        max0 == IF menu.max = 0 THEN Count(idx0) ELSE menu.max
        chg  == (b \ menu.old) \cup (menu.old \ b)
        Edge(x) == x \in chg /\ x \in b
        lr   == chg \cap {"LEFT", "RIGHT"} # {}
        idx1 == CASE lr /\ "LEFT" \in b  -> Settle((idx0 + 2) % 3, 2)
                  [] lr /\ "RIGHT" \in b -> Settle((idx0 + 1) % 3, 1)
                  [] OTHER -> idx0
        moved == lr /\ b \cap {"LEFT", "RIGHT"} # {}
        max1 == IF moved THEN Count(idx1) ELSE max0
        sel1 == IF moved THEN 0 ELSE menu.sel
        sel2 == IF Edge("UP") THEN IF sel1 > 0 THEN sel1 - 1 ELSE max1 - 1
                ELSE sel1
        sel3 == IF Edge("DOWN") THEN IF sel2 < max1 - 1 THEN sel2 + 1 ELSE 0
                ELSE sel2
        cross == Edge("CROSS")
        load  == cross /\ idx1 = 0 /\ fileOk
        fl    == MountFloppy(openOk, reopenOk)
        doFl  == cross /\ idx1 = 1 /\ ~floppyIn
        doCd  == cross /\ idx1 = 2 /\ ~cdromIn
    IN  IF NumImaps = 0 /\ NumFloppies = 0 /\ NumCdroms = 0
        THEN [menu |-> menu, maps |-> maps, down |-> down, floppyIn |-> floppyIn,
              cdromIn |-> cdromIn, floppyRO |-> floppyRO]
        ELSE [menu |-> [old |-> b, sel |-> sel3, max |-> max1, idx |-> idx1],
              maps |-> IF load THEN ParseImap(sel3).maps ELSE maps,
              down |-> IF load THEN ParseImap(sel3).down ELSE down,
              floppyIn |-> IF doFl THEN fl.in ELSE floppyIn,
              floppyRO |-> IF doFl THEN fl.ro ELSE floppyRO,
              cdromIn  |-> IF doCd THEN openOk ELSE cdromIn]

-----------------------------------------------------------------------------
(* The IR keyboard: each scan record is a key going down or up, already   *)
(* turned into its Mac code by mac_key.  Caps Lock toggles caps_lock on    *)
(* its press and is ignored on its release.                                *)
ScanStep(acc, r) ==
    CASE r.pressed /\ r.code = CapsKey ->
            [acc EXCEPT !.caps = ~acc.caps,
                        !.ev = Append(@, IF acc.caps THEN Up(CapsKey)
                                         ELSE Down(CapsKey))]
      [] r.pressed        -> [acc EXCEPT !.ev = Append(@, Down(r.code))]
      [] r.code = CapsKey -> acc
      [] OTHER            -> [acc EXCEPT !.ev = Append(@, Up(r.code))]

(* handle_keyboard: the driver hands over every waiting record; a read     *)
(* whose length is not a whole number of records (torn) is dropped.        *)
HandleKeyboard(caps, torn) ==
    IF ~IrKeyboard \/ torn THEN [caps |-> caps, ev |-> <<>>]
    ELSE FoldLeft(LAMBDA acc, r : ScanStep(acc, r),
                  [caps |-> caps, ev |-> <<>>], scans)

-----------------------------------------------------------------------------
(* The initial state: button_map as compiled in, every static at its       *)
(* initialiser, no disk inserted by the preferences and floppy_fh opened   *)
(* read-write.                                                             *)
Init ==
    /\ pad = {} /\ oldButtons = {}
    /\ inputMode = FALSE /\ showMenu = FALSE /\ qualifiers = 0
    /\ showOnRight = TRUE /\ frameCnt = 0
    /\ maps = ButtonMap /\ down = [i \in 1 .. Len(ButtonMap) |-> FALSE]
    /\ capsLock = FALSE /\ macDown = {}
    /\ menu = [old |-> {}, sel |-> 0, max |-> 0, idx |-> 0]
    /\ floppyIn = FALSE /\ cdromIn = FALSE /\ floppyRO = FALSE
    /\ kbHeld = {} /\ scans = <<>>

(* VideoInterrupt.  The sample's changes toggle input_mode on a START      *)
(* press (forced off without danzeff) and show_menu on a SELECT press      *)
(* (forced off in input mode, where qualifiers survive; out of it they are *)
(* cleared).  A refresh is due when --frame_cnt < 0, and only then is      *)
(* handle_menu called.  Then the maps run when neither OSK nor menu is up, *)
(* or the OSK turns a SELECT press into the next qualifier and types the   *)
(* character danzeff_readInput returns, wrapped in the qualifier's keys;   *)
(* last the IR keyboard is read.                                           *)
VideoInterrupt ==
    \E key \in OskKeys, torn, fileOk, openOk, reopenOk \in BOOLEAN :
    LET b    == pad
        chg  == (b \ oldButtons) \cup (oldButtons \ b)
        Edge(x) == x \in chg /\ x \in b
        im   == DanzeffLoaded /\ (IF Edge("START") THEN ~inputMode ELSE inputMode)
        sm   == ~im /\ (IF Edge("SELECT") THEN ~showMenu ELSE showMenu)
        q0   == IF im THEN qualifiers ELSE 0
        fc   == frameCnt - 1
        mn   == IF fc < 0 /\ sm THEN HandleMenu(b, fileOk, openOk, reopenOk)
                ELSE [menu |-> menu, maps |-> maps, down |-> down,
                      floppyIn |-> floppyIn, cdromIn |-> cdromIn,
                      floppyRO |-> floppyRO]
        q1   == IF im /\ Edge("SELECT") THEN (q0 + 1) % 5 ELSE q0
        pd   == CASE ~im /\ ~sm -> MapLoop(b)
                  [] im -> [down |-> mn.down, caps |-> capsLock,
                            ev |-> OskEvents(q1, key)]
                  [] OTHER -> [down |-> mn.down, caps |-> capsLock, ev |-> <<>>]
        kb   == HandleKeyboard(pd.caps, torn)
    IN  /\ torn => IrKeyboard /\ scans # <<>>
        /\ fileOk \/ openOk \/ reopenOk => fc < 0 /\ sm
        /\ oldButtons' = b
        /\ inputMode' = im
        /\ showMenu' = sm
        /\ qualifiers' = q1
        /\ showOnRight' = IF im THEN OskSide(key) ELSE showOnRight
        /\ frameCnt' = IF fc < 0 THEN FrameSkip - 1 ELSE fc
        /\ menu' = mn.menu /\ maps' = mn.maps /\ down' = pd.down
        /\ floppyIn' = mn.floppyIn /\ cdromIn' = mn.cdromIn
        /\ floppyRO' = mn.floppyRO
        /\ capsLock' = kb.caps
        /\ macDown' = Apply(macDown, pd.ev \o kb.ev)
        /\ scans' = IF IrKeyboard THEN <<>> ELSE scans
        /\ UNCHANGED <<pad, kbHeld>>

(* The user presses or releases a pad button.                              *)
PadPress(x) ==
    /\ x \notin pad
    /\ pad' = pad \cup {x}
    /\ UNCHANGED <<padVars, mapVars, mediaVars, kbHeld, scans>>

PadRelease(x) ==
    /\ x \in pad
    /\ pad' = pad \ {x}
    /\ UNCHANGED <<padVars, mapVars, mediaVars, kbHeld, scans>>

(* The user presses or releases a key of the IR keyboard, and the driver   *)
(* queues its scan record.                                                 *)
KbPress(k) ==
    /\ IrKeyboard /\ k \notin kbHeld /\ Len(scans) < ScanLimit
    /\ kbHeld' = kbHeld \cup {k}
    /\ scans' = Append(scans, [pressed |-> TRUE, code |-> k])
    /\ UNCHANGED <<pad, padVars, mapVars, mediaVars>>

KbRelease(k) ==
    /\ k \in kbHeld /\ Len(scans) < ScanLimit
    /\ kbHeld' = kbHeld \ {k}
    /\ scans' = Append(scans, [pressed |-> FALSE, code |-> k])
    /\ UNCHANGED <<pad, padVars, mapVars, mediaVars>>

(* SysEject (src/PSP/sys_psp.cpp 327-346), when the Mac ejects the disk:   *)
(* the image is closed and its inserted name cleared.                      *)
SysEject(isFloppy) ==
    /\ IF isFloppy THEN floppyIn /\ floppyIn' = FALSE /\ UNCHANGED cdromIn
       ELSE cdromIn /\ cdromIn' = FALSE /\ UNCHANGED floppyIn
    /\ UNCHANGED <<pad, padVars, mapVars, menu, floppyRO, kbHeld, scans>>

Next ==
    \/ VideoInterrupt
    \/ \E x \in Buttons : PadPress(x) \/ PadRelease(x)
    \/ \E k \in KbKeys : KbPress(k) \/ KbRelease(k)
    \/ \E f \in BOOLEAN : SysEject(f)

Spec == Init /\ [][Next]_vars

-----------------------------------------------------------------------------
(* The Mac codes the button maps send: the ones a key that stays held      *)
(* would keep down.                                                        *)
MapCodes ==
    LET rows == Range(ButtonMap) \cup UNION {Range(t) : t \in Range(Imaps)}
    IN  UNION {{Code(k) : k \in Range(SentKeys(r))} :
                   r \in {r \in rows : ~IsMove(r.keys[1])}} \ {CapsKey}

InputTypeOK ==
    /\ pad \subseteq Buttons /\ oldButtons \subseteq Buttons
    /\ {inputMode, showMenu, showOnRight, capsLock} \subseteq BOOLEAN
    /\ qualifiers \in 0 .. 4 /\ frameCnt \in 0 .. FrameSkip - 1
    /\ maps \in {ButtonMap} \cup Range(Imaps)
    /\ down \in [1 .. Len(maps) -> BOOLEAN]
    /\ macDown \subseteq 0 .. 263
    /\ menu \in [old : SUBSET Buttons, sel : Nat, max : Nat, idx : 0 .. 2]
    /\ {floppyIn, cdromIn, floppyRO} \subseteq BOOLEAN
    /\ kbHeld \subseteq KbKeys
    /\ scans \in Seq([pressed : BOOLEAN, code : KbKeys])

(* A Mac key or mouse button that a button map pressed is released once    *)
(* its buttons are: when the last sample of the pad has no button held,    *)
(* the Mac holds none of the maps' keys down (Caps Lock aside), whatever   *)
(* mode VideoInterrupt is in -- the keys of the IR keyboard aside, too.    *)
ButtonKeysReleased ==
    oldButtons = {} => (macDown \cap MapCodes) \ KbKeys = {}

=============================================================================
