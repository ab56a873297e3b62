------------------------------ MODULE VitaPrefs ------------------------------
(***************************************************************************)
(* The PS Vita port's preferences editor data, src/PSP2/prefs_editor_psp   *)
(* .cpp: the psp_* variables, the menu tables, the set-up, the load and    *)
(* the save.  The file is a copy of the PSP editor without the TV output   *)
(* and with touch and analog settings, a "Fit" aspect and two more screen  *)
(* sizes; the network pane is disabled.  Preferences files are records as *)
(* in PspPrefs.  The environment is the free memory in MB, psp_net_error  *)
(* (never set by PSP2 main) and the configurations getconfname finds      *)
(* (it returns 0 for every number on this port).                          *)
(***************************************************************************)
EXTENDS Integers, Sequences, GuiMenu

CONSTANTS
    PlaceholderCd,      \* "placeholder.bin"
    PlaceholderFloppy,  \* "placeholder.dsk"
    ExtfsPath           \* psp_home followed by "files"

Envs == [free : Nat, netError : BOOLEAN, configs : 0 .. 10]

MB == 1024 * 1024

\* The static initialisers of the psp_* variables.
Defaults ==
    [psp_screen_mode |-> 4, psp_screen_depth |-> 1, psp_screen_rate |-> 0,
     psp_sound_enable |-> 1, psp_ram_size |-> 12, psp_model_id |-> 1,
     psp_mac_cpu |-> 4, psp_rom_file |-> NULL, psp_seriala_select |-> 0,
     psp_serialb_select |-> 0, psp_udp_enable |-> 0,
     psp_udp_port |-> 6066, psp_net_accesspoint |-> 0, psp_boot_select |-> 0,
     psp_extfs_enable |-> 0, psp_hardfile0 |-> NULL, psp_hardfile1 |-> NULL,
     psp_hardfile2 |-> NULL, psp_hardfile3 |-> NULL, psp_cdromfile |-> NULL,
     psp_floppyfile |-> NULL, psp_file_size |-> 0, psp_cpu_speed |-> 0,
     psp_lcd_aspect |-> 0, psp_60hz_timing |-> 1, psp_rear_touch_enable |-> 0,
     psp_indirect_touch_enable |-> 0, psp_pointer_speed |-> 3,
     psp_analog_deadzone |-> 2]

\* scrnmodes: gfx_screen_list's sizes and gfx_depth_list's depths.
ScreenSizes == <<<<512, 384>>, <<640, 360>>, <<640, 400>>, <<640, 480>>,
                 <<726, 544>>, <<768, 432>>, <<768, 576>>>>
Depths == <<4, 8, 15, 24>>

Placeholder(n) == n \in {PlaceholderCd, PlaceholderFloppy}

\* net_wap_list after the set-up, as on the PSP.
ApListLen(env) == IF env.netError THEN 11 ELSE env.configs + 1

-----------------------------------------------------------------------------
(* The menu tables.  The set-up sets the RAM range from the free memory   *)
(* and disables the UDP tunnel toggle when networking failed; the tables   *)
(* themselves disable the network pane and volume creation.                *)
\* AboutLevel[] with the lengths of the gui_lists its items show.
AboutLevel ==
    <<Text, Text, Divider, Text, Text, Text, Divider, Text, Text,
      Text>>

\* PspLevel[] with the lengths of the gui_lists its items show.
PspLevel ==
    <<Sel("psp_cpu_speed", 8, TRUE), Sel("psp_lcd_aspect", 3, TRUE),
      Tog("psp_60hz_timing", TRUE), Tog("psp_rear_touch_enable", TRUE),
      Tog("psp_indirect_touch_enable", TRUE),
      Sel("psp_pointer_speed", 8, TRUE),
      Sel("psp_analog_deadzone", 6, TRUE)>>

\* CreateVolLevel[] with the lengths of the gui_lists its items show.
CreateVolLevel ==
    <<Sel("psp_file_size", 11, TRUE),
      Fun("psp_create_hardfile"), Fun("psp_create_floppy")>>

\* VolLevel[] with the lengths of the gui_lists its items show.
VolLevel ==
    <<Sel("psp_boot_select", 2, TRUE), Tog("psp_extfs_enable", TRUE),
      Sub("CreateVolLevel", FALSE), Divider, Text,
      FileItem("psp_hardfile0", "hardfiles"), FileItem("psp_hardfile1", "hardfiles"),
      FileItem("psp_hardfile2", "hardfiles"), FileItem("psp_hardfile3", "hardfiles"),
      FileItem("psp_cdromfile", "cdroms"), FileItem("psp_floppyfile", "disks")>>

\* NetLevel[] with the lengths of the gui_lists its items show.
NetLevel(env) ==
    <<Sel("psp_seriala_select", 3, FALSE),
      Sel("psp_serialb_select", 3, FALSE),
      Tog("psp_udp_enable", FALSE),
      IntItem("psp_udp_port", 5000, 65535, FALSE),
      Sel("psp_net_accesspoint", ApListLen(env), FALSE)>>

\* MemLevel[] with the lengths of the gui_lists its items show.
MemLevel(env) ==
    <<IntItem("psp_ram_size", 4, env.free, TRUE),
      Sel("psp_model_id", 2, TRUE), Sel("psp_mac_cpu", 5, TRUE),
      Divider, FileItem("psp_rom_file", "roms")>>

\* GfxLevel[] with the lengths of the gui_lists its items show.
GfxLevel ==
    <<Sel("psp_screen_mode", 7, TRUE), Sel("psp_screen_depth", 4, TRUE),
      Sel("psp_screen_rate", 8, TRUE), Divider,
      Tog("psp_sound_enable", TRUE)>>

\* All tables by name; TopLevel is the menu PrefsEditor passes to do_gui.
Menus(env) ==
  [AboutLevel |-> AboutLevel,
   PspLevel |-> PspLevel,
   CreateVolLevel |-> CreateVolLevel,
   VolLevel |-> VolLevel,
   NetLevel |-> NetLevel(env),
   MemLevel |-> MemLevel(env),
   GfxLevel |-> GfxLevel,
   TopLevel |-> <<Text, Sub("GfxLevel", TRUE), Sub("MemLevel", TRUE),
                Sub("NetLevel", FALSE), Sub("VolLevel", TRUE),
                Sub("PspLevel", TRUE), Sub("AboutLevel", TRUE)>>]

\* Whether entry k of a SELECT item's list has a text, as on the PSP.
EntryHasText(it, k, env) ==
    IF it.var = "psp_net_accesspoint"
    THEN k = 0 \/ (~env.netError /\ k \in 1 .. env.configs)
    ELSE k \in 0 .. it.len - 1

\* No table of this port has a menufn.
NoMenuFn(menu, g) == menu

-----------------------------------------------------------------------------
(* "set initial values from prefs".  The four settings this port adds are *)
(* read only when the file's value is true or non-zero.                    *)
PrefsLoad(p, env) ==
  LET ram  == p.ramsize \div MB
      rate == p.frameskip - 1
      cpu0 == (p.cpu - 2) * 2
      cpu1 == IF cpu0 < 0 THEN 4 ELSE cpu0
      cpu2 == IF p.fpu THEN cpu1 + 1 ELSE cpu1
      Str(n, dflt) == IF n # NULL THEN n ELSE dflt
      Disk(i) == IF i <= Len(p.disk) THEN p.disk[i] ELSE NULL
      Named(n) == IF n # NULL /\ ~Placeholder(n) THEN n ELSE NULL
  IN [Defaults EXCEPT
      !.psp_screen_mode  = IF p.screen = NULL THEN @
                           ELSE IndexOf(ScreenSizes, <<p.screen[1], p.screen[2]>>, @),
      !.psp_screen_depth = IF p.screen = NULL THEN @
                           ELSE IndexOf(Depths, p.screen[3], @),
      !.psp_screen_rate  = IF rate < 0 \/ rate > 7 THEN 0 ELSE rate,
      !.psp_sound_enable = IF p.nosound THEN 0 ELSE 1,
      !.psp_ram_size     = IF ram <= 2 \/ ram > env.free THEN 8 ELSE ram,
      !.psp_model_id     = CASE p.modelid = 5 -> 0 [] p.modelid = 14 -> 1
                                [] OTHER -> @,
      !.psp_mac_cpu      = IF cpu2 > 4 THEN 4 ELSE cpu2,
      !.psp_rom_file     = Str(p.rom, @),
      !.psp_udp_enable   = IF p.udptunnel THEN 1 ELSE 0,
      !.psp_udp_port     = IF p.udpport <= 5000 \/ p.udpport > 65535 THEN 6066
                           ELSE p.udpport,
      !.psp_net_accesspoint = p.udpapoint,
      !.psp_boot_select  = p.bootdriver,
      !.psp_hardfile0 = Str(Disk(1), @), !.psp_hardfile1 = Str(Disk(2), @),
      !.psp_hardfile2 = Str(Disk(3), @), !.psp_hardfile3 = Str(Disk(4), @),
      !.psp_cdromfile    = Str(Named(p.cdrom), @),
      !.psp_floppyfile   = Str(Named(p.floppy), @),
      !.psp_extfs_enable = IF p.extfs # NULL THEN 1 ELSE @,
      !.psp_cpu_speed    = p.pspspeed,
      !.psp_lcd_aspect   = p.pspdar,
      !.psp_60hz_timing  = IF p.relaxed60hz THEN 1 ELSE @,
      !.psp_rear_touch_enable = IF p.reartouch THEN 1 ELSE @,
      !.psp_indirect_touch_enable = IF p.indirecttouch THEN 1 ELSE @,
      !.psp_pointer_speed = IF p.pointerspeed # 0 THEN p.pointerspeed ELSE @,
      !.psp_analog_deadzone = IF p.analogdeadzone # 0 THEN p.analogdeadzone
                              ELSE @]

(* "set prefs from final values", then SavePrefs.                          *)
PrefsSave(g) ==
  LET size == ScreenSizes[g.psp_screen_mode + 1]
      Or(n, dflt) == IF n # NULL THEN n ELSE dflt
  IN [screen    |-> <<size[1], size[2], Depths[g.psp_screen_depth + 1]>>,
      frameskip |-> g.psp_screen_rate + 1,
      nosound   |-> g.psp_sound_enable = 0,
      ramsize   |-> g.psp_ram_size * MB,
      modelid   |-> IF g.psp_model_id # 0 THEN 14 ELSE 5,
      cpu       |-> g.psp_mac_cpu \div 2 + 2,
      fpu       |-> g.psp_mac_cpu = 1 \/ g.psp_mac_cpu >= 3,
      rom       |-> g.psp_rom_file,
      udptunnel |-> g.psp_udp_enable = 1,
      udpport   |-> g.psp_udp_port,
      udpapoint |-> g.psp_net_accesspoint,
      bootdriver |-> g.psp_boot_select,
      disk      |-> SelectSeq(<<g.psp_hardfile0, g.psp_hardfile1, g.psp_hardfile2,
                                g.psp_hardfile3>>, LAMBDA n : n # NULL),
      cdrom     |-> Or(g.psp_cdromfile, PlaceholderCd),
      floppy    |-> Or(g.psp_floppyfile, PlaceholderFloppy),
      extfs     |-> IF g.psp_extfs_enable # 0 THEN ExtfsPath ELSE NULL,
      pspspeed  |-> g.psp_cpu_speed,
      pspdar    |-> g.psp_lcd_aspect,
      relaxed60hz |-> g.psp_60hz_timing # 0,
      reartouch |-> g.psp_rear_touch_enable # 0,
      indirecttouch |-> g.psp_indirect_touch_enable # 0,
      pointerspeed |-> g.psp_pointer_speed,
      analogdeadzone |-> g.psp_analog_deadzone]

(* What the editor shows of the variables: the hard files as the list of  *)
(* those set, and not the size of the next volume, which is no preference. *)
Shown(x) ==
    LET hidden == {"psp_file_size", "psp_hardfile0", "psp_hardfile1",
                   "psp_hardfile2", "psp_hardfile3"}
    IN  <<[f \in DOMAIN x \ hidden |-> x[f]],
          SelectSeq(<<x.psp_hardfile0, x.psp_hardfile1, x.psp_hardfile2,
                      x.psp_hardfile3>>, LAMBDA n : n # NULL)>>
=============================================================================
