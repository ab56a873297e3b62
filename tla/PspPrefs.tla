------------------------------ MODULE PspPrefs ------------------------------
(***************************************************************************)
(* The PSP preferences editor's data, src/PSP/prefs_editor_psp.cpp: the    *)
(* psp_* variables the menus edit, the menu tables, PrefsEditor's set-up,  *)
(* its reading of the preferences into the variables (PrefsLoad) and its   *)
(* writing of them back (PrefsSave).                                       *)
(*                                                                         *)
(* A preferences file is a record of the items the editor reads and        *)
(* writes; a missing string item is NULL, a missing number 0 and a missing *)
(* flag FALSE, as PrefsFindString, PrefsFindInt32 and PrefsFindBool        *)
(* return them.  The "screen" string is the record of the three numbers    *)
(* sscanf reads from it.  File names are model values.                     *)
(*                                                                         *)
(* The environment is what main and the firmware decide before the editor  *)
(* runs: psp_tv_cable, the free memory in MB (psp_amount_free), whether    *)
(* the network modules loaded (psp_net_error) and how many network         *)
(* configurations exist from number 1 on (getconfname).                    *)
(***************************************************************************)
EXTENDS Integers, Sequences, GuiMenu

CONSTANTS
    PlaceholderCd,      \* "placeholder.bin"
    PlaceholderFloppy,  \* "placeholder.dsk"
    ExtfsDir            \* "files/"

Envs == [cable : -1 .. 2, free : Nat, netError : BOOLEAN, configs : 0 .. 10]

MB == 1024 * 1024

\* The static initialisers of the psp_* variables.
Defaults ==
    [psp_screen_mode |-> 1, psp_screen_depth |-> 1, psp_screen_rate |-> 0,
     psp_sound_enable |-> 1, psp_ram_size |-> 12, psp_model_id |-> 1,
     psp_mac_cpu |-> 4, psp_rom_file |-> NULL, psp_seriala_select |-> 0,
     psp_serialb_select |-> 0, psp_udp_enable |-> 0,
     psp_udp_port |-> 6066, psp_net_accesspoint |-> 0, psp_boot_select |-> 0,
     psp_extfs_enable |-> 0, psp_hardfile0 |-> NULL, psp_hardfile1 |-> NULL,
     psp_hardfile2 |-> NULL, psp_hardfile3 |-> NULL, psp_cdromfile |-> NULL,
     psp_floppyfile |-> NULL, psp_file_size |-> 0, psp_cpu_speed |-> 0,
     psp_vidout_select |-> 0, psp_lcd_aspect |-> 0, psp_mon_aspect |-> 0,
     psp_tv_aspect |-> 0, psp_tv_overscan |-> 0, psp_tv_laced |-> 0,
     psp_60hz_timing |-> 1]

\* scrnmodes: gfx_screen_list's sizes and gfx_depth_list's depths.
ScreenSizes == <<<<512, 384>>, <<640, 360>>, <<640, 480>>, <<768, 432>>,
                 <<768, 576>>>>
Depths == <<4, 8, 15, 24>>

Placeholder(n) == n \in {PlaceholderCd, PlaceholderFloppy}

-----------------------------------------------------------------------------
(* The menu tables, with the items of GuiMenu.                             *)

\* net_wap_list after the set-up: "none" and one entry per configuration
\* found, or, when networking failed, the ten entries with no text.
ApListLen(env) == IF env.netError THEN 11 ELSE env.configs + 1

\* AboutLevel[] with the lengths of the gui_lists its items show.
AboutLevel ==
    <<Text, Text, Divider, Text, Text, Text, Divider, Text, Text,
      Text, Text>>

\* PspTVLevel[] with the lengths of the gui_lists its items show.
PspTVLevel(env) ==
    <<Sel("psp_mon_aspect", 2, TRUE),
      Tog("psp_tv_laced", env.cable # 1),
      Sel("psp_tv_aspect", 2, TRUE), Tog("psp_tv_overscan", TRUE)>>

\* PspLCDLevel[] with the lengths of the gui_lists its items show.
PspLCDLevel ==
    <<Sel("psp_lcd_aspect", 2, TRUE)>>

\* PspLevel[] with the lengths of the gui_lists its items show.
PspLevel(env) ==
    <<Sel("psp_cpu_speed", 6, TRUE),
      Sel("psp_vidout_select", 2, env.cable > 0),
      Sub("PspLCDLevel", TRUE), Tog("psp_60hz_timing", TRUE)>>

\* CreateVolLevel[] with the lengths of the gui_lists its items show.
CreateVolLevel ==
    <<Sel("psp_file_size", 11, TRUE),
      Fun("psp_create_hardfile"), Fun("psp_create_floppy")>>

\* VolLevel[] with the lengths of the gui_lists its items show.
VolLevel ==
    <<Sel("psp_boot_select", 2, TRUE), Tog("psp_extfs_enable", TRUE),
      Sub("CreateVolLevel", TRUE), Divider, Text,
      FileItem("psp_hardfile0", "hardfiles"), FileItem("psp_hardfile1", "hardfiles"),
      FileItem("psp_hardfile2", "hardfiles"), FileItem("psp_hardfile3", "hardfiles"),
      FileItem("psp_cdromfile", "cdroms"), FileItem("psp_floppyfile", "disks")>>

\* NetLevel[] with the lengths of the gui_lists its items show.
NetLevel(env) ==
    <<Sel("psp_seriala_select", 3, FALSE),
      Sel("psp_serialb_select", 3, FALSE),
      Tog("psp_udp_enable", ~env.netError),
      IntItem("psp_udp_port", 5000, 65535, TRUE),
      Sel("psp_net_accesspoint", ApListLen(env), TRUE)>>

\* MemLevel[] with the lengths of the gui_lists its items show.
MemLevel(env) ==
    <<IntItem("psp_ram_size", 4, env.free, TRUE),
      Sel("psp_model_id", 2, TRUE), Sel("psp_mac_cpu", 5, TRUE),
      Divider, FileItem("psp_rom_file", "roms")>>

\* GfxLevel[] with the lengths of the gui_lists its items show.
GfxLevel ==
    <<Sel("psp_screen_mode", 5, TRUE), Sel("psp_screen_depth", 4, TRUE),
      Sel("psp_screen_rate", 8, TRUE), Divider,
      Tog("psp_sound_enable", TRUE)>>

\* PrefsEditor's set-up disables the UDP tunnel toggle when networking
\* failed, the video-out choice without a TV cable, and the interlace
\* toggle with a component cable; TopLevel[5] gets PspLevelFn.
\* All tables by name; TopLevel is the menu PrefsEditor passes to do_gui.
Menus(env) ==
  [AboutLevel |-> AboutLevel,
   PspTVLevel |-> PspTVLevel(env),
   PspLCDLevel |-> PspLCDLevel,
   PspLevel |-> PspLevel(env),
   CreateVolLevel |-> CreateVolLevel,
   VolLevel |-> VolLevel,
   NetLevel |-> NetLevel(env),
   MemLevel |-> MemLevel(env),
   GfxLevel |-> GfxLevel,
   TopLevel |-> <<Text, Sub("GfxLevel", TRUE), Sub("MemLevel", TRUE), Sub("NetLevel", TRUE),
                Sub("VolLevel", TRUE), [Sub("PspLevel", TRUE) EXCEPT !.hook = "PspLevelFn"],
                Sub("AboutLevel", TRUE)>>]

\* Whether entry k of the list a SELECT item shows has a text: every entry
\* of the fixed lists does, and of net_wap_list "none" and the entries the
\* set-up filled in.
EntryHasText(it, k, env) ==
    IF it.var = "psp_net_accesspoint"
    THEN k = 0 \/ (~env.netError /\ k \in 1 .. env.configs)
    ELSE k \in 0 .. it.len - 1

\* A menufn that leaves the table as set up (field1 stays PspLCDLevel).
PspLevelFnStale(menu, g) == menu

\* PspLevelFn, run on every pass of PspLevel's loop: its third item leads
\* to the TV or the LCD pane as psp_vidout_select says.
PspLevelFn(menu, g) ==
    [menu EXCEPT ![3].sub = IF g.psp_vidout_select # 0 THEN "PspTVLevel"
                                                       ELSE "PspLCDLevel"]

-----------------------------------------------------------------------------
(* PrefsEditor's set-up of the variables: no TV cable forces LCD and       *)
(* progressive output, a component cable interlaced output.                *)
EditorSetup(env) ==
    LET g == IF env.cable <= 0
             THEN [Defaults EXCEPT !.psp_vidout_select = 0, !.psp_tv_laced = 0]
             ELSE Defaults
    IN  IF env.cable = 1 THEN [g EXCEPT !.psp_tv_laced = 1] ELSE g

Clamp4(c) == IF c > 4 THEN 4 ELSE c

(* "set initial values from prefs".                                        *)
PrefsLoad(p, env) ==
  LET g    == EditorSetup(env)
      ram  == p.ramsize \div MB
      rate == p.frameskip - 1
      cpu  == IF (p.cpu - 2) * 2 < 0 THEN 4 ELSE (p.cpu - 2) * 2
      vid  == IF env.cable > 0 THEN IF p.psptv THEN 1 ELSE 0
              ELSE g.psp_vidout_select
      Str(n, dflt) == IF n # NULL THEN n ELSE dflt
      Disk(i) == IF i <= Len(p.disk) THEN p.disk[i] ELSE NULL
      Named(n) == IF n # NULL /\ ~Placeholder(n) THEN n ELSE NULL
  IN [g EXCEPT
      !.psp_screen_mode  = IF p.screen = NULL THEN @
                           ELSE IndexOf(ScreenSizes, <<p.screen[1], p.screen[2]>>, @),
      !.psp_screen_depth = IF p.screen = NULL THEN @
                           ELSE IndexOf(Depths, p.screen[3], @),
      !.psp_screen_rate  = IF rate < 0 \/ rate > 7 THEN 0 ELSE rate,
      !.psp_sound_enable = IF p.nosound THEN 0 ELSE 1,
      !.psp_ram_size     = IF ram <= 2 \/ ram > env.free THEN 8 ELSE ram,
      !.psp_model_id     = CASE p.modelid = 5 -> 0 [] p.modelid = 14 -> 1
                                [] OTHER -> @,
      !.psp_mac_cpu      = Clamp4(IF p.fpu THEN cpu + 1 ELSE cpu),
      !.psp_rom_file     = Str(p.rom, @),
      !.psp_udp_enable   = IF p.udptunnel THEN 1 ELSE 0,
      !.psp_udp_port     = IF p.udpport <= 5000 \/ p.udpport > 65535 THEN 6066
                           ELSE p.udpport,
      !.psp_net_accesspoint = p.udpapoint,
      !.psp_boot_select  = p.bootdriver,
      !.psp_hardfile0 = Str(Disk(1), @), !.psp_hardfile1 = Str(Disk(2), @),
      !.psp_hardfile2 = Str(Disk(3), @), !.psp_hardfile3 = Str(Disk(4), @),
      !.psp_cdromfile    = Str(Named(p.cdrom), @),
      !.psp_floppyfile   = Str(Named(p.floppy), @),
      !.psp_extfs_enable = IF p.extfs # NULL THEN 1 ELSE @,
      !.psp_cpu_speed    = p.pspspeed,
      !.psp_vidout_select = vid,
      !.psp_lcd_aspect   = IF vid = 0 THEN p.pspdar ELSE @,
      !.psp_mon_aspect   = IF vid = 0 THEN @ ELSE p.pspmar,
      !.psp_tv_aspect    = IF vid = 0 THEN @ ELSE p.pspdar,
      !.psp_tv_overscan  = IF vid = 0 THEN @ ELSE IF p.psposcan THEN 1 ELSE 0,
      !.psp_tv_laced     = CASE vid # 0 /\ env.cable = 1 -> 1
                             [] vid # 0 /\ env.cable = 2 -> IF p.psplaced THEN 1 ELSE 0
                             [] OTHER -> @,
      !.psp_60hz_timing  = IF p.relaxed60hz THEN 1 ELSE @]

(* "set prefs from final values", then SavePrefs.                          *)
PrefsSave(g) ==
  LET size == ScreenSizes[g.psp_screen_mode + 1]
      Or(n, dflt) == IF n # NULL THEN n ELSE dflt
  IN [screen    |-> <<size[1], size[2], Depths[g.psp_screen_depth + 1]>>,
      frameskip |-> g.psp_screen_rate + 1,
      nosound   |-> g.psp_sound_enable = 0,
      ramsize   |-> g.psp_ram_size * MB,
      modelid   |-> IF g.psp_model_id # 0 THEN 14 ELSE 5,
      cpu       |-> g.psp_mac_cpu \div 2 + 2,
      fpu       |-> g.psp_mac_cpu = 1 \/ g.psp_mac_cpu >= 3,
      rom       |-> g.psp_rom_file,
      udptunnel |-> g.psp_udp_enable = 1,
      udpport   |-> g.psp_udp_port,
      udpapoint |-> g.psp_net_accesspoint,
      bootdriver |-> g.psp_boot_select,
      disk      |-> SelectSeq(<<g.psp_hardfile0, g.psp_hardfile1, g.psp_hardfile2,
                                g.psp_hardfile3>>, LAMBDA n : n # NULL),
      cdrom     |-> Or(g.psp_cdromfile, PlaceholderCd),
      floppy    |-> Or(g.psp_floppyfile, PlaceholderFloppy),
      extfs     |-> IF g.psp_extfs_enable # 0 THEN ExtfsDir ELSE NULL,
      pspspeed  |-> g.psp_cpu_speed,
      psptv     |-> g.psp_vidout_select = 1,
      pspdar    |-> IF g.psp_vidout_select # 0 THEN g.psp_tv_aspect
                    ELSE g.psp_lcd_aspect,
      psposcan  |-> g.psp_tv_overscan # 0,
      pspmar    |-> g.psp_mon_aspect,
      psplaced  |-> g.psp_tv_laced # 0,
      relaxed60hz |-> g.psp_60hz_timing # 0]

(* What the editor shows of the variables: the hard files as the list of  *)
(* those set, the pane PspLevel's third item leads to and not the other,  *)
(* and not the size of the next volume, which is no preference.            *)
Shown(x) ==
    LET hidden == {"psp_file_size", "psp_hardfile0", "psp_hardfile1",
                   "psp_hardfile2", "psp_hardfile3"} \cup
                  IF x.psp_vidout_select # 0 THEN {"psp_lcd_aspect"}
                  ELSE {"psp_mon_aspect", "psp_tv_aspect", "psp_tv_overscan",
                        "psp_tv_laced"}
    IN  <<[f \in DOMAIN x \ hidden |-> x[f]],
          SelectSeq(<<x.psp_hardfile0, x.psp_hardfile1, x.psp_hardfile2,
                      x.psp_hardfile3>>, LAMBDA n : n # NULL)>>
=============================================================================
