--------------------------- MODULE MCCoreOptions ---------------------------
(* Instances of CoreOptions: a release build, a few system directories.     *)
EXTENDS CoreOptions

ToDecimal == [n \in Numbers |-> ToString(n)]

ReleaseBuild == AllFeatures \ {"debug"}

Firmware(path, type, stamps) ==
  [path |-> path, regular |-> TRUE, size |-> "firmware", backup |-> FALSE,
   readable |-> TRUE, footer |-> "none", type |-> type, blank |-> TRUE, mac |-> TRUE,
   stamps |-> stamps]
Nand(path, footer) ==
  [Firmware(path, "DSi", {1}) EXCEPT !.size = "nand", !.footer = footer]

Empty == <<>>
TwoConsoles ==
  <<Firmware("old.bin", "DS", {1, 2}), Firmware("dsi.bin", "DSi", {3}),
    [Firmware("copy.bin", "DS", {9}) EXCEPT !.backup = TRUE], Nand("nand.bin", "unused"),
    Nand("broken.bin", "none"), [Firmware("sega.bin", "DS", {9}) EXCEPT !.blank = FALSE]>>
ManyImages ==
  <<Nand("nand2.bin", "end"), Firmware("old.bin", "DS", {1, 2}),
    Firmware("lite.bin", "DSLite", {2, 1}), Firmware("ique.bin", "iQueDS", {5}),
    Firmware("dsi.bin", "DSi", {3})>>
TooManyImages ==
  ManyImages \o <<Firmware("a.bin", "DS", {4}), Firmware("b.bin", "DS", {4})>>

MCContents ==
  [empty |-> Empty, two |-> TwoConsoles, many |-> ManyImages, full |-> TooManyImages]
MCSwitchKeys ==
  {"mic_input", "render_mode", "console_mode", "dsi_sdcard", "homebrew_sdcard",
   "show_cursor", "number_of_screen_layouts", "screen_layout1", "start_time_mode",
   "firmware_dsi_path"}
MCPathKeys == {"firmware_dsi_path", "dsi_nand_path", "console_mode"}
============================================================================
