--------------------------- MODULE MCConsoleSetup ---------------------------
(***************************************************************************)
(* Instances of ConsoleSetup for TLC: what is loaded, what is configured   *)
(* and which files there are.                                              *)
(***************************************************************************)
EXTENDS ConsoleSetup

Content(rom, gba, gbaSave) == [rom |-> rom, gba |-> gba, gbaSave |-> gbaSave]

\* Every kind of DS content; a GBA game with a save file that is loaded, ignored
\* or cannot be read, and a GBA game that is none.
AllContents ==
  {Content(rom, "none", "none") : rom \in {"none", "decrypted", "encrypted", "invalid", "dsiware"}}
  \cup {Content("homebrew", "game", save) : save \in {"plain", "compressed", "unreadable"}}
  \cup {Content("homebrew", "invalid", "none")}

\* A DS's and a DSi's settings, with an image of the other type, one that is
\* gone by now, and none.
ForDS ==
  {[consoleType |-> "DS", sysfileMode |-> mode, bootMode |-> boot, slot2 |-> "RumblePak",
    firmware |-> firmware, dsiFirmware |-> "dsi.bin", nand |-> "nand1"] :
     mode \in {"Native", "BuiltIn"}, boot \in {"Native", "Direct"},
     firmware \in {"ds.bin", "dsi.bin", "gone"}}
ForDSi ==
  {[consoleType |-> "DSi", sysfileMode |-> "Native", bootMode |-> "Direct", slot2 |-> "RumblePak",
    firmware |-> "ds.bin", dsiFirmware |-> images[1], nand |-> images[2]] :
     images \in {"dsi.bin"} \X {"nand1", "nand2", "gone", "/notfound"}
               \cup {"ds.bin", "gone", "/notfound"} \X {"nand1"}}
AllSettings == ForDS \cup ForDSi

Images == [image \in {"ds.bin", "dsi.bin"} |->
             [type |-> IF image = "ds.bin" THEN "DS" ELSE "DSi", wifi |-> 1]]

\* Some of the BIOS images missing.
FewBios ==
  {[place \in Place |-> IF place = "subdir" THEN {"Arm7"} ELSE {}],
   [place \in Place |-> IF place = "subdir" THEN {} ELSE {"Arm7", "Arm9"}]}

NandWith(title, mounts, fits) ==
  [title |-> title, save |-> 1, mounts |-> mounts, regionFits |-> fits]

\* A full system directory, with Wi-Fi settings of an earlier session.
FullDisk ==
  [bios |-> [place \in Place |-> IF place = "subdir" THEN {"Arm7", "Arm9i"}
                                 ELSE {"Arm9", "Arm7i"}],
   firmware |-> Images, wfc |-> [short |-> FALSE, wifi |-> 2],
   tmd |-> "good", online |-> FALSE, save |-> 2,
   nand |-> [n \in {"nand1", "nand2"} |-> NandWith("absent", TRUE, TRUE)]]

\* What may differ from it.  A title the player installed has the newest save.
SomeDisks ==
  {FullDisk}
  \cup {[FullDisk EXCEPT !.bios = bios] : bios \in FewBios}
  \cup {[FullDisk EXCEPT !.wfc = wfc] : wfc \in {None, [short |-> TRUE, wifi |-> 1]}}
  \cup {[FullDisk EXCEPT !.tmd = tmd, !.online = online, !.save = 0] :
          <<tmd, online>> \in {<<"none", FALSE>>, <<"bad", FALSE>>, <<"bad", TRUE>>}}
  \cup {[FullDisk EXCEPT !.save = 0, !.nand["nand1"].title = "own"]}
  \cup {[FullDisk EXCEPT !.nand["nand2"] = NandWith("absent", mounts, ~mounts)] :
          mounts \in BOOLEAN}

\* The same without saved Wi-Fi settings, or with whole ones.
WifiDisks == {FullDisk, [FullDisk EXCEPT !.wfc = None]}
=============================================================================
