------------------------- MODULE ConsoleSetupProofs -------------------------
(***************************************************************************)
(* Theorems about ConsoleSetup, for any files, contents and settings: a    *)
(* console that starts has its system files, and what a game saved is      *)
(* where the next console looks for it.                                    *)
(*                                                                         *)
(* The first follows from the checks of CreateConsole, once it is shown    *)
(* that no error means that none of them failed (NoError).  The others     *)
(* are about files that outlive a console: SaveHeld says on which image or *)
(* in which file the newest save of a DSiWare game is, WifiHeld where the  *)
(* newest settings of the built-in firmware are.                           *)
(***************************************************************************)
EXTENDS ConsoleSetup, TLAPS, FiniteSetTheorems

-----------------------------------------------------------------------------
(* The inductive invariant *)

FirmwareOf(d) ==
  [image : DOMAIN d.firmware \cup {"generated"}, type : {"DS", "DSi"}, wifi : Nat]

IsConsole(k, d) ==
  /\ k \in [type : {"DS", "DSi"}, bios : {"native", "builtin"}, firmware : FirmwareOf(d),
            cart : {k.cart}, slot2 : {k.slot2}, nand : {k.nand}, boot : {k.boot}]
  /\ k.type = "DSi" => k.nand \in DOMAIN d.nand

Files(d) == IsDisk(d) /\ "generated" \notin DOMAIN d.firmware

Shape ==
  /\ Files(disk) /\ writes \in Nat
  /\ played \in [wfc : Nat, firmware : {played.firmware}, nands : SUBSET DOMAIN disk.nand,
                 exported : BOOLEAN, save : Nat]
  /\ phase \in {"running", "screen", "shutdown", "failed"} => content \in Contents
  /\ IF phase = "running" THEN IsConsole(console, disk) ELSE console = None

\* SystemFilesFit, of a console, its content and the files.
Fits(k, c, d) ==
  /\ c.rom = "none" /\ k.type = "DS" => k.bios = "native" /\ IsBootable(k.firmware)
  /\ k.bios = "builtin" => k.type = "DS" /\ k.boot = "cart"
  /\ k.cart = "encrypted" /\ k.type = "DS" => k.bios = "native"
  /\ k.bios = "native" =>
       /\ ~IsGenerated(k.firmware)
       /\ \A bios \in IF k.type = "DSi" THEN Bios ELSE {"Arm7", "Arm9"} : LoadBios(d, bios)
  /\ k.type = "DSi" => k.firmware.type = "DSi" /\ d.nand[k.nand].mounts
  /\ c.rom = "dsiware" =>
       /\ k.type = "DSi" /\ k.cart = "none"
       /\ d.nand[k.nand].regionFits /\ d.nand[k.nand].title # "absent"

ConsoleFits == phase = "running" => Fits(console, content, disk)

\* The game is only where it was played, and as long as that is one image its newest
\* save is there, or exported if the game is not.
Newest(d, p) ==
  /\ \A n \in DOMAIN d.nand : d.nand[n].title # "absent" => n \in p.nands
  /\ p.exported /\ p.nands = {} => d.save = p.save
  /\ \A n \in DOMAIN d.nand :
       p.exported /\ p.nands = {n} =>
         p.save = IF d.nand[n].title # "absent" THEN d.nand[n].save ELSE d.save
SaveHeld ==
  /\ Newest(disk, played)
  /\ phase = "running" /\ content.rom = "dsiware" => console.nand \in played.nands

\* The settings of the built-in firmware are in a console that has it, else in the file.
WifiHeld ==
  played.wfc = IF phase = "running" /\ IsGenerated(console.firmware)
               THEN console.firmware.wifi ELSE StoredWifi(disk)

IInv == Shape /\ ConsoleFits /\ SaveHeld /\ WifiHeld

-----------------------------------------------------------------------------
(* The checks of CreateConsole *)

LEMMA FirstOfFew ==
  \A n \in 1..6 : \A F \in SUBSET (1..n) : F # {} => \E i \in F : \A j \in F : i <= j
<1> SUFFICES ASSUME NEW n \in 1..6, NEW F \in SUBSET (1..n), F # {}
             PROVE  \E i \in F : \A j \in F : i <= j
  OBVIOUS
<1>1. \A j \in F : j \in {1, 2, 3, 4, 5, 6} /\ j \in Nat
  OBVIOUS
<1>2. CASE 1 \in F
  BY <1>1, <1>2
<1>3. CASE 1 \notin F /\ 2 \in F
  BY <1>1, <1>3
<1>4. CASE 1 \notin F /\ 2 \notin F /\ 3 \in F
  BY <1>1, <1>4
<1>5. CASE 1 \notin F /\ 2 \notin F /\ 3 \notin F /\ 4 \in F
  BY <1>1, <1>5
<1>6. CASE 1 \notin F /\ 2 \notin F /\ 3 \notin F /\ 4 \notin F /\ 5 \in F
  BY <1>1, <1>6
<1>7. CASE 1 \notin F /\ 2 \notin F /\ 3 \notin F /\ 4 \notin F /\ 5 \notin F /\ 6 \in F
  BY <1>1, <1>7
<1> QED
  BY <1>1, <1>2, <1>3, <1>4, <1>5, <1>6, <1>7

\* No error means that no check failed.
LEMMA NoError ==
  \A checks : \A n \in 1..6 :
    /\ DOMAIN checks = 1..n
    /\ \A i \in 1..n : checks[i][1] => checks[i][2] # None
    /\ FirstError(checks) = None
    => \A i \in 1..n : ~checks[i][1]
<1> SUFFICES ASSUME NEW checks, NEW n \in 1..6, DOMAIN checks = 1..n,
                    \A i \in 1..n : checks[i][1] => checks[i][2] # None,
                    FirstError(checks) = None, NEW k \in 1..n, checks[k][1]
             PROVE  FALSE
  OBVIOUS
<1> DEFINE failing == {i \in DOMAIN checks : checks[i][1]}
           first == CHOOSE i \in failing : \A j \in failing : i <= j
<1>1. failing \in SUBSET (1..n) /\ failing # {}
  OBVIOUS
<1>2. FirstError(checks) = checks[first][2]
  BY <1>1 DEF FirstError
<1> HIDE DEF failing
<1>3. \E i \in failing : \A j \in failing : i <= j
  BY <1>1, FirstOfFew
<1>4. first \in failing
  BY <1>3
<1> HIDE DEF first
<1> QED
  BY <1>2, <1>4 DEF failing

LEMMA ErrorsAre == \A e \in ErrorType : e # None
BY NoneAssumption

\* What GetNdsArgs may rely on.
LEMMA NdsChecks ==
  ASSUME NEW s \in Settings, NEW c \in Contents, NEW d, NdsError(s, c, d) = None
  PROVE  /\ c.rom = "none" => IsBootable(NdsFirmware(s, d)) /\ NativeBios(s, d)
         /\ c.rom = "encrypted" => NativeBios(s, d)
<1> DEFINE checks == <<
    <<c.rom = "none" /\ ~IsBootable(NdsFirmware(s, d)), "nds_firmware_not_bootable">>,
    <<c.rom = "none" /\ ~NativeBios(s, d), "nds_sysfiles_incomplete">>,
    <<LoadNdsCart(c) # None, LoadNdsCart(c)>>,
    <<c.rom = "encrypted" /\ ~NativeBios(s, d), "encrypted_rom">>,
    <<c.gba # "none" /\ LoadGbaCart(c) # None, LoadGbaCart(c)>> >>
<1>1. DOMAIN checks = 1..5 /\ 5 \in 1..6
  OBVIOUS
<1>2. /\ checks[1][1] <=> c.rom = "none" /\ ~IsBootable(NdsFirmware(s, d))
      /\ checks[1][2] = "nds_firmware_not_bootable"
      /\ checks[2][1] <=> c.rom = "none" /\ ~NativeBios(s, d)
      /\ checks[2][2] = "nds_sysfiles_incomplete"
      /\ checks[3][1] <=> LoadNdsCart(c) # None
      /\ checks[3][2] = LoadNdsCart(c)
      /\ checks[4][1] <=> c.rom = "encrypted" /\ ~NativeBios(s, d)
      /\ checks[4][2] = "encrypted_rom"
      /\ checks[5][1] <=> c.gba # "none" /\ LoadGbaCart(c) # None
      /\ checks[5][2] = LoadGbaCart(c)
  OBVIOUS
<1>3. FirstError(checks) = None
  BY DEF NdsError
<1> HIDE DEF checks
<1>4. \A i \in 1..5 : checks[i][1] => checks[i][2] # None
  <2>1. \A i \in 1..5 : i = 1 \/ i = 2 \/ i = 3 \/ i = 4 \/ i = 5
    OBVIOUS
  <2>2. /\ "nds_firmware_not_bootable" # None /\ "nds_sysfiles_incomplete" # None
        /\ "encrypted_rom" # None
    BY ErrorsAre DEF ErrorType, ConfigErrors
  <2> QED
    BY <1>2, <2>1, <2>2
<1>5. \A i \in 1..5 : ~checks[i][1]
  BY <1>1, <1>3, <1>4, NoError
<1> QED
  BY <1>2, <1>5

\* What GetDSiArgs may rely on.
LEMMA DsiChecks ==
  ASSUME NEW s \in Settings, NEW c \in Contents, NEW d, DsiError(s, c, d) = None
  PROVE  /\ \A bios \in Bios : LoadBios(d, bios)
         /\ LoadFirmware(d, s.dsiFirmware) # None
         /\ LoadFirmware(d, s.dsiFirmware).type = "DSi"
         /\ s.nand \in DOMAIN d.nand
<1> DEFINE firmware == LoadFirmware(d, s.dsiFirmware)
           missing == \E bios \in Bios : ~LoadBios(d, bios)
           checks == <<
             <<s.nand = "/notfound", "dsi_no_nand_found">>,
             <<s.dsiFirmware = "/notfound", "dsi_no_firmware_found">>,
             <<\E bios \in Bios : ~LoadBios(d, bios), "dsi_missing_bios">>,
             <<firmware = None, "firmware_missing">>,
             <<firmware # None /\ firmware.type # "DSi", "wrong_firmware_type">>,
             <<s.nand \notin DOMAIN d.nand, "dsi_nand_missing">> >>
<1>1. DOMAIN checks = 1..6 /\ 6 \in 1..6
  OBVIOUS
<1>2. FirstError(checks) = None
  BY DEF DsiError
<1>3. /\ checks[1][1] <=> s.nand = "/notfound"
      /\ checks[1][2] = "dsi_no_nand_found"
      /\ checks[2][1] <=> s.dsiFirmware = "/notfound"
      /\ checks[2][2] = "dsi_no_firmware_found"
      /\ checks[3][1] <=> missing
      /\ checks[3][2] = "dsi_missing_bios"
      /\ checks[4][1] <=> firmware = None
      /\ checks[4][2] = "firmware_missing"
      /\ checks[5][1] <=> firmware # None /\ firmware.type # "DSi"
      /\ checks[5][2] = "wrong_firmware_type"
      /\ checks[6][1] <=> s.nand \notin DOMAIN d.nand
      /\ checks[6][2] = "dsi_nand_missing"
  OBVIOUS
<1> HIDE DEF checks, firmware, missing
<1>4. \A i \in 1..6 : checks[i][1] => checks[i][2] # None
  <2>1. \A i \in 1..6 : i = 1 \/ i = 2 \/ i = 3 \/ i = 4 \/ i = 5 \/ i = 6
    OBVIOUS
  <2>2. /\ "dsi_no_nand_found" # None /\ "dsi_no_firmware_found" # None
        /\ "dsi_missing_bios" # None /\ "firmware_missing" # None
        /\ "wrong_firmware_type" # None /\ "dsi_nand_missing" # None
    BY ErrorsAre DEF ErrorType, ConfigErrors
  <2> QED
    BY <1>3, <2>1, <2>2
<1>5. \A i \in 1..6 : ~checks[i][1]
  BY <1>1, <1>2, <1>4, NoError
<1>6. ~missing /\ firmware # None /\ firmware.type = "DSi" /\ s.nand \in DOMAIN d.nand
  BY <1>3, <1>5
<1> QED
  BY <1>6 DEF missing, firmware

LEMMA DsiNandChecks ==
  ASSUME NEW s \in Settings, NEW c \in Contents, NEW d, DsiNandError(s, c, d) = None
  PROVE  /\ d.nand[s.nand].mounts
         /\ c.rom = "dsiware" => d.nand[s.nand].regionFits
<1> DEFINE nand == d.nand[s.nand]
           checks == <<
             <<LoadNdsCart(c) # None, LoadNdsCart(c)>>,
             <<~nand.mounts, "dsi_nand_corrupted">>,
             <<c.rom = "dsiware" /\ ~nand.regionFits, "dsi_region_mismatch">>,
             <<Installs(s, c, d) /\ ~HasTmd(d), "missing_metadata">> >>
<1>1. DOMAIN checks = 1..4 /\ 4 \in 1..6
  OBVIOUS
<1>2. FirstError(checks) = None
  BY DEF DsiNandError
<1>3. /\ checks[1][1] <=> LoadNdsCart(c) # None
      /\ checks[1][2] = LoadNdsCart(c)
      /\ checks[2][1] <=> ~nand.mounts
      /\ checks[2][2] = "dsi_nand_corrupted"
      /\ checks[3][1] <=> c.rom = "dsiware" /\ ~nand.regionFits
      /\ checks[3][2] = "dsi_region_mismatch"
      /\ checks[4][1] <=> Installs(s, c, d) /\ ~HasTmd(d)
      /\ checks[4][2] = "missing_metadata"
  OBVIOUS
<1> HIDE DEF checks
<1>4. \A i \in 1..4 : checks[i][1] => checks[i][2] # None
  <2>1. \A i \in 1..4 : i = 1 \/ i = 2 \/ i = 3 \/ i = 4
    OBVIOUS
  <2>2. "dsi_nand_corrupted" # None /\ "dsi_region_mismatch" # None /\ "missing_metadata" # None
    BY ErrorsAre DEF ErrorType, ConfigErrors
  <2> QED
    BY <1>3, <2>1, <2>2
<1>5. \A i \in 1..4 : ~checks[i][1]
  BY <1>1, <1>2, <1>4, NoError
<1> QED
  BY <1>3, <1>5

-----------------------------------------------------------------------------
(* A console and its files *)

LEMMA DiskParts ==
  ASSUME NEW d, IsDisk(d)
  PROVE  /\ d.bios \in [Place -> SUBSET Bios]
         /\ d.firmware \in [DOMAIN d.firmware -> FirmwareImage]
         /\ d.nand \in [DOMAIN d.nand -> NandImage]
         /\ d.wfc \in WifiFile \cup {None} /\ d.save \in Nat
         /\ StoredWifi(d) \in Nat
BY DEF IsDisk, StoredWifi, WifiFile, Default

\* Firmware from an image is not taken for the built-in one.
LEMMA LoadedFirmware ==
  ASSUME NEW d, Files(d), NEW path, LoadFirmware(d, path) # None
  PROVE  /\ path \in DOMAIN d.firmware
         /\ LoadFirmware(d, path) \in FirmwareOf(d)
         /\ LoadFirmware(d, path).image = path
         /\ ~IsGenerated(LoadFirmware(d, path))
<1>1. path \in DOMAIN d.firmware
  BY DEF LoadFirmware
<1>2. d.firmware[path] \in FirmwareImage
  BY <1>1, DiskParts DEF Files
<1> QED
  BY <1>1, <1>2 DEF LoadFirmware, FirmwareOf, FirmwareImage, Files, IsGenerated

LEMMA NdsFirmwareIs ==
  ASSUME NEW d, Files(d), NEW s
  PROVE  /\ NdsFirmware(s, d) \in FirmwareOf(d)
         /\ IsGenerated(NdsFirmware(s, d)) => NdsFirmware(s, d).wifi = Default
<1>1. GeneratedFirmware \in FirmwareOf(d) /\ GeneratedFirmware.wifi = Default
  BY DEF GeneratedFirmware, FirmwareOf, Default
<1>2. CASE s.sysfileMode = "Native" /\ LoadFirmware(d, s.firmware) # None
  BY <1>2, LoadedFirmware DEF NdsFirmware
<1>3. CASE ~(s.sysfileMode = "Native" /\ LoadFirmware(d, s.firmware) # None)
  BY <1>1, <1>3 DEF NdsFirmware
<1> QED
  BY <1>2, <1>3

\* CustomizeFirmware changes the Wi-Fi settings only, to those of the file.
LEMMA Customized ==
  ASSUME NEW d, Files(d), NEW firmware \in FirmwareOf(d)
  PROVE  LET f == CustomizeFirmware(firmware, d)
         IN /\ f \in FirmwareOf(d)
            /\ f.image = firmware.image /\ f.type = firmware.type
            /\ f.wifi = IF d.wfc = None THEN firmware.wifi ELSE StoredWifi(d)
BY DiskParts DEF CustomizeFirmware, FirmwareOf, Files

\* A console that can be made has what it needs.
LEMMA MadeFits ==
  ASSUME NEW s \in Settings, NEW c \in Contents, NEW d, Files(d),
         CreateError(s, c, d) = None, NEW k, k = Started(s, c, d)
  PROVE  /\ IsConsole(k, d)
         /\ IsGenerated(k.firmware) => k.firmware.wifi = StoredWifi(d)
         /\ c.rom = "none" /\ k.type = "DS" => k.bios = "native" /\ IsBootable(k.firmware)
         /\ k.bios = "builtin" => k.type = "DS" /\ k.boot = "cart"
         /\ k.cart = "encrypted" /\ k.type = "DS" => k.bios = "native"
         /\ k.bios = "native" =>
              /\ ~IsGenerated(k.firmware)
              /\ \A bios \in IF k.type = "DSi" THEN Bios ELSE {"Arm7", "Arm9"} : LoadBios(d, bios)
         /\ k.type = "DSi" => k.firmware.type = "DSi" /\ d.nand[k.nand].mounts
         /\ c.rom = "dsiware" =>
              k.type = "DSi" /\ k.cart = "none" /\ k.nand = s.nand /\ d.nand[k.nand].regionFits
<1> DEFINE made == CreateConsole(s, c, d)
<1>1. /\ k.type = made.type /\ k.bios = made.bios /\ k.firmware = made.firmware
      /\ k.cart = made.cart /\ k.nand = made.nand /\ k.boot = StartConsole(made, s, c)
      /\ k = [type |-> k.type, bios |-> k.bios, firmware |-> k.firmware, cart |-> k.cart,
              slot2 |-> k.slot2, nand |-> k.nand, boot |-> k.boot]
  BY DEF Started
<1>2. s.consoleType \in {"DS", "DSi"} /\ TypeFor(s, c) \in {"DS", "DSi"}
  BY SetupAssumption DEF TypeFor
<1>3. StoredWifi(d) \in Nat /\ (d.wfc = None => StoredWifi(d) = Default)
  BY DiskParts DEF Files, StoredWifi
<1>4. CASE TypeFor(s, c) = "DS"
  <2> DEFINE f == CustomizeFirmware(NdsFirmware(s, d), d)
  <2>1. c.rom # "dsiware"
    BY <1>4 DEF TypeFor
  <2>2. NdsError(s, c, d) = None
    BY <1>4 DEF CreateError
  <2>3. /\ k.type = "DS" /\ k.bios = IF NativeBios(s, d) THEN "native" ELSE "builtin"
        /\ k.firmware = f /\ k.cart = c.rom
    BY <1>1, <1>4 DEF CreateConsole, GetNdsArgs
  <2>4. /\ f \in FirmwareOf(d) /\ f.image = NdsFirmware(s, d).image
        /\ f.type = NdsFirmware(s, d).type
        /\ f.wifi = IF d.wfc = None THEN NdsFirmware(s, d).wifi ELSE StoredWifi(d)
    BY NdsFirmwareIs, Customized
  <2>5. /\ IsGenerated(f) <=> IsGenerated(NdsFirmware(s, d))
        /\ IsGenerated(f) => f.wifi = StoredWifi(d)
    BY <1>3, <2>4, NdsFirmwareIs DEF IsGenerated
  <2>6. /\ c.rom = "none" => IsBootable(NdsFirmware(s, d)) /\ NativeBios(s, d)
        /\ c.rom = "encrypted" => NativeBios(s, d)
    BY <2>2, NdsChecks
  <2>7. NativeBios(s, d) => ~IsGenerated(NdsFirmware(s, d)) /\ LoadBios(d, "Arm7") /\ LoadBios(d, "Arm9")
    BY DEF NativeBios
  <2>8. c.rom = "none" => IsBootable(f)
    BY <2>4, <2>5, <2>6 DEF IsBootable
  <2> HIDE DEF f
  <2>9. ~NativeBios(s, d) => k.boot = "cart"
    <3>1. ~NativeBios(s, d) => c.rom # "none" /\ made.type = "DS" /\ made.bios = "builtin"
      BY <1>1, <2>3, <2>6
    <3> QED
      BY <1>1, <2>1, <3>1 DEF StartConsole, NeedsDirectBoot
  <2>10. IsConsole(k, d)
    BY <1>1, <2>3, <2>4 DEF IsConsole
  <2> QED
    BY <2>1, <2>3, <2>5, <2>6, <2>7, <2>8, <2>9, <2>10
<1>5. CASE TypeFor(s, c) = "DSi"
  <2> DEFINE f == CustomizeFirmware(LoadFirmware(d, s.dsiFirmware), d)
  <2>1. DsiError(s, c, d) = None /\ DsiNandError(s, c, d) = None
    BY <1>5 DEF CreateError
  <2>2. /\ k.type = "DSi" /\ k.bios = "native" /\ k.firmware = f /\ k.nand = s.nand
        /\ k.cart = IF c.rom = "dsiware" THEN "none" ELSE c.rom
    BY <1>1, <1>5 DEF CreateConsole, GetDSiArgs
  <2>3. /\ \A bios \in Bios : LoadBios(d, bios)
        /\ LoadFirmware(d, s.dsiFirmware) # None
        /\ LoadFirmware(d, s.dsiFirmware).type = "DSi"
        /\ s.nand \in DOMAIN d.nand
    BY <2>1, DsiChecks
  <2>4. d.nand[s.nand].mounts /\ (c.rom = "dsiware" => d.nand[s.nand].regionFits)
    BY <2>1, DsiNandChecks
  <2>5. f \in FirmwareOf(d) /\ ~IsGenerated(f) /\ f.type = "DSi"
    BY <2>3, LoadedFirmware, Customized DEF IsGenerated
  <2> HIDE DEF f
  <2>6. IsConsole(k, d)
    BY <1>1, <2>2, <2>3, <2>5 DEF IsConsole
  <2> QED
    BY <2>2, <2>3, <2>4, <2>5, <2>6
<1> QED
  BY <1>2, <1>4, <1>5

\* What making a console does to the files.
LEMMA DiskAfterIs ==
  ASSUME NEW s \in Settings, NEW c \in Contents, NEW d, Files(d), NEW e,
         e = DiskAfterCreate(s, c, d), c.rom = "dsiware" => s.nand \in DOMAIN d.nand
  PROVE  /\ Files(e) /\ e.bios = d.bios /\ e.firmware = d.firmware /\ e.wfc = d.wfc
         /\ e.save = d.save /\ DOMAIN e.nand = DOMAIN d.nand
         /\ c.rom # "dsiware" => e.nand = d.nand
         /\ c.rom = "dsiware" => e.nand = [d.nand EXCEPT ![s.nand] = Installed(@, d)]
<1>1. CASE c.rom # "dsiware"
  BY <1>1 DEF DiskAfterCreate
<1>2. CASE c.rom = "dsiware"
  <2> DEFINE n == [d.nand EXCEPT ![s.nand] = Installed(@, d)]
             tmd == IF d.nand[s.nand].title = "absent" THEN "good" ELSE d.tmd
  <2>1. s.nand \in DOMAIN d.nand
    BY <1>2
  <2>2. d.nand[s.nand] \in NandImage /\ d.save \in Nat /\ d.nand \in [DOMAIN d.nand -> NandImage]
    BY <2>1, DiskParts DEF Files
  <2>3. Installed(d.nand[s.nand], d) \in NandImage
    BY <2>2 DEF Installed, NandImage
  <2>4. n \in [DOMAIN d.nand -> NandImage] /\ DOMAIN n = DOMAIN d.nand
    BY <2>1, <2>2, <2>3
  <2>5. d.tmd \in {"none", "bad", "good"}
    BY DEF Files, IsDisk
  <2>6. e = [d EXCEPT !.nand = n, !.tmd = tmd]
    BY <1>2, <2>1, <2>2 DEF DiskAfterCreate, InstallDsiware, Files, IsDisk
  <2> HIDE DEF n
  <2>7. /\ e.bios = d.bios /\ e.firmware = d.firmware /\ e.wfc = d.wfc /\ e.save = d.save
        /\ e.nand = n /\ e.tmd = tmd /\ e.online = d.online
        /\ e = [bios |-> e.bios, firmware |-> e.firmware, nand |-> e.nand, wfc |-> e.wfc,
                tmd |-> e.tmd, online |-> e.online, save |-> e.save]
    BY <2>6 DEF Files, IsDisk
  <2>8. IsDisk(e)
    BY <2>4, <2>5, <2>7 DEF Files, IsDisk
  <2> QED
    BY <1>2, <2>4, <2>7, <2>8 DEF Files, n
<1> QED
  BY <1>1, <1>2

\* What a flush of the firmware does to the files.
LEMMA FlushIs ==
  ASSUME NEW d, Files(d), NEW k, IsConsole(k, d), NEW e, e = FlushFirmware(d, k)
  PROVE  /\ Files(e) /\ e.bios = d.bios /\ e.nand = d.nand /\ e.save = d.save
         /\ DOMAIN e.firmware = DOMAIN d.firmware
         /\ StoredWifi(e) = IF IsGenerated(k.firmware) THEN k.firmware.wifi ELSE StoredWifi(d)
<1>1. k.firmware.wifi \in Nat /\ k.firmware.image \in DOMAIN d.firmware \cup {"generated"}
  BY DEF IsConsole, FirmwareOf
<1>2. CASE IsGenerated(k.firmware)
  <2> DEFINE w == [short |-> FALSE, wifi |-> k.firmware.wifi]
  <2>1. w \in WifiFile /\ w # None /\ ~w.short /\ w.wifi = k.firmware.wifi
    <3>1. w \in WifiFile /\ ~w.short /\ w.wifi = k.firmware.wifi
      BY <1>1 DEF WifiFile
    <3> HIDE DEF w
    <3> QED
      BY <3>1, NoneAssumption
  <2>2. e = [d EXCEPT !.wfc = w]
    BY <1>2 DEF FlushFirmware
  <2> HIDE DEF w
  <2>3. /\ e.bios = d.bios /\ e.firmware = d.firmware /\ e.wfc = w /\ e.save = d.save
        /\ e.nand = d.nand /\ e.tmd = d.tmd /\ e.online = d.online
        /\ e = [bios |-> e.bios, firmware |-> e.firmware, nand |-> e.nand, wfc |-> e.wfc,
                tmd |-> e.tmd, online |-> e.online, save |-> e.save]
    BY <2>2 DEF Files, IsDisk
  <2>4. IsDisk(e)
    BY <2>1, <2>3 DEF Files, IsDisk
  <2>5. StoredWifi(e) = k.firmware.wifi
    BY <2>1, <2>3 DEF StoredWifi
  <2> QED
    BY <1>2, <2>3, <2>4, <2>5 DEF Files
<1>3. CASE ~IsGenerated(k.firmware)
  <2> DEFINE i == k.firmware.image
             f == [d.firmware EXCEPT ![i].wifi = k.firmware.wifi]
  <2>1. i \in DOMAIN d.firmware
    BY <1>1, <1>3 DEF IsGenerated
  <2>2. d.firmware \in [DOMAIN d.firmware -> FirmwareImage] /\ d.firmware[i] \in FirmwareImage
    BY <2>1, DiskParts DEF Files
  <2>3. [d.firmware[i] EXCEPT !.wifi = k.firmware.wifi] \in FirmwareImage
    BY <1>1, <2>2 DEF FirmwareImage
  <2>4. f \in [DOMAIN d.firmware -> FirmwareImage] /\ DOMAIN f = DOMAIN d.firmware
    BY <2>1, <2>2, <2>3
  <2>5. e = [d EXCEPT !.firmware = f]
    BY <1>3, <2>1, <2>2 DEF FlushFirmware, Files, IsDisk
  <2> HIDE DEF f
  <2>6. /\ e.bios = d.bios /\ e.firmware = f /\ e.wfc = d.wfc /\ e.save = d.save
        /\ e.nand = d.nand /\ e.tmd = d.tmd /\ e.online = d.online
        /\ e = [bios |-> e.bios, firmware |-> e.firmware, nand |-> e.nand, wfc |-> e.wfc,
                tmd |-> e.tmd, online |-> e.online, save |-> e.save]
    BY <2>5 DEF Files, IsDisk
  <2>7. IsDisk(e)
    BY <2>4, <2>6 DEF Files, IsDisk
  <2> QED
    BY <1>3, <2>4, <2>6, <2>7 DEF Files, StoredWifi
<1> QED
  BY <1>2, <1>3

\* A flush of the firmware does not take from a console what it needs.
LEMMA FitsStill ==
  ASSUME NEW k, NEW c, NEW d, NEW e, e.bios = d.bios, e.nand = d.nand, Fits(k, c, d)
  PROVE  Fits(k, c, e)
BY DEF Fits, LoadBios

LEMMA ConsoleStill ==
  ASSUME NEW k, NEW d, NEW e, DOMAIN e.nand = DOMAIN d.nand,
         DOMAIN e.firmware = DOMAIN d.firmware, IsConsole(k, d)
  PROVE  IsConsole(k, e)
BY DEF IsConsole, FirmwareOf

-----------------------------------------------------------------------------
(* The calls *)

LEMMA InitHolds == Init => IInv
<1> SUFFICES ASSUME Init PROVE IInv
  OBVIOUS
<1> DEFINE owners == {n \in DOMAIN disk.nand : disk.nand[n].title # "absent"}
           save == IF owners = {} THEN disk.save ELSE disk.nand[CHOOSE n \in owners : TRUE].save
<1>1. Files(disk) /\ phase = "out" /\ console = None /\ writes = 2
  BY DisksAssumption DEF Init, Files
<1>2. played = [wfc |-> StoredWifi(disk), firmware |-> disk.firmware, nands |-> owners,
                exported |-> TRUE, save |-> save]
  BY DEF Init
<1>3. StoredWifi(disk) \in Nat /\ disk.save \in Nat /\ \A n \in DOMAIN disk.nand : disk.nand[n].save \in Nat
  BY <1>1, DiskParts DEF Files, NandImage
<1>4. \A n : owners = {n} => (CHOOSE m \in owners : TRUE) = n
  OBVIOUS
<1>5. owners # {} => (CHOOSE m \in owners : TRUE) \in owners
  OBVIOUS
<1>6. save \in Nat
  BY <1>3, <1>5
<1>7. owners \in SUBSET DOMAIN disk.nand
  OBVIOUS
<1>8. \A n \in DOMAIN disk.nand : owners = {n} =>
        disk.nand[n].title # "absent" /\ save = disk.nand[n].save
  BY <1>4
<1>9. \A n \in DOMAIN disk.nand : disk.nand[n].title # "absent" => n \in owners
  OBVIOUS
<1>10. owners = {} => save = disk.save
  OBVIOUS
<1> HIDE DEF owners, save
<1>11. Shape
  BY <1>1, <1>2, <1>3, <1>6, <1>7 DEF Shape
<1>12. SaveHeld
  BY <1>1, <1>2, <1>8, <1>9, <1>10 DEF SaveHeld, Newest
<1> QED
  BY <1>1, <1>2, <1>11, <1>12 DEF IInv, ConsoleFits, WifiHeld

\* A console is made: with d, the files after a flush of the one before.
LEMMA StartsStep ==
  ASSUME IInv, NEW s \in Settings, NEW d, Files(d), d.nand = disk.nand, d.save = disk.save,
         StoredWifi(d) = played.wfc, content' \in Contents, Starts(s, d), writes' = writes
  PROVE  IInv'
<1> DEFINE c == content'
           k == Started(s, c, d)
           e == DiskAfterCreate(s, c, d)
           nands == IF c.rom = "dsiware" THEN played.nands \cup {k.nand} ELSE played.nands
<1>1. /\ CreateError(s, c, d) = None /\ phase' = "running" /\ console' = k /\ disk' = e
      /\ c \in Contents
  BY DEF Starts
<1>2. /\ played \in [wfc : Nat, firmware : {played.firmware}, nands : SUBSET DOMAIN disk.nand,
                     exported : BOOLEAN, save : Nat]
      /\ Newest(disk, played) /\ writes \in Nat
  BY DEF IInv, Shape, SaveHeld
<1>3. /\ played'.wfc = played.wfc /\ played'.nands = nands /\ played'.save = played.save
      /\ played'.exported = played.exported
      /\ played' = [wfc |-> played'.wfc, firmware |-> played'.firmware, nands |-> played'.nands,
                    exported |-> played'.exported, save |-> played'.save]
  BY <1>1, <1>2 DEF Starts, PlayedOn
<1> HIDE DEF k
<1>4. /\ IsConsole(k, d)
      /\ IsGenerated(k.firmware) => k.firmware.wifi = StoredWifi(d)
      /\ c.rom = "none" /\ k.type = "DS" => k.bios = "native" /\ IsBootable(k.firmware)
      /\ k.bios = "builtin" => k.type = "DS" /\ k.boot = "cart"
      /\ k.cart = "encrypted" /\ k.type = "DS" => k.bios = "native"
      /\ k.bios = "native" =>
           /\ ~IsGenerated(k.firmware)
           /\ \A bios \in IF k.type = "DSi" THEN Bios ELSE {"Arm7", "Arm9"} : LoadBios(d, bios)
      /\ k.type = "DSi" => k.firmware.type = "DSi" /\ d.nand[k.nand].mounts
      /\ c.rom = "dsiware" =>
           k.type = "DSi" /\ k.cart = "none" /\ k.nand = s.nand /\ d.nand[k.nand].regionFits
  <2> HIDE DEF c
  <2> QED
    BY <1>1, MadeFits DEF k
<1>5. c.rom = "dsiware" => k.nand \in DOMAIN d.nand /\ k.nand = s.nand
  BY <1>4 DEF IsConsole
<1>6. /\ Files(e) /\ e.bios = d.bios /\ e.firmware = d.firmware /\ e.wfc = d.wfc
      /\ e.save = d.save /\ DOMAIN e.nand = DOMAIN d.nand
      /\ c.rom # "dsiware" => e.nand = d.nand
      /\ c.rom = "dsiware" => e.nand = [d.nand EXCEPT ![k.nand] = Installed(@, d)]
  <2> HIDE DEF c, e
  <2>1. c \in Contents /\ e = DiskAfterCreate(s, c, d)
    BY <1>1 DEF e
  <2>2. c.rom = "dsiware" => s.nand \in DOMAIN d.nand
    BY <1>5
  <2>3. /\ Files(e) /\ e.bios = d.bios /\ e.firmware = d.firmware /\ e.wfc = d.wfc
        /\ e.save = d.save /\ DOMAIN e.nand = DOMAIN d.nand
        /\ c.rom # "dsiware" => e.nand = d.nand
        /\ c.rom = "dsiware" => e.nand = [d.nand EXCEPT ![s.nand] = Installed(@, d)]
    BY <2>1, <2>2, DiskAfterIs
  <2> QED
    BY <1>5, <2>3
<1> HIDE DEF e, c
<1>7. \A n \in DOMAIN d.nand :
        d.nand[n] \in NandImage /\ e.nand[n] =
          IF c.rom = "dsiware" /\ n = k.nand THEN Installed(d.nand[n], d) ELSE d.nand[n]
  BY <1>5, <1>6, DiskParts DEF Files
<1>8. \A m \in NandImage :
        /\ Installed(m, d).title # "absent" /\ Installed(m, d).mounts = m.mounts
        /\ Installed(m, d).regionFits = m.regionFits
        /\ Installed(m, d).save = IF m.title # "absent" THEN m.save ELSE d.save
  BY DEF Installed, NandImage
<1>9. /\ \A n \in DOMAIN d.nand :
           e.nand[n].mounts = d.nand[n].mounts /\ e.nand[n].regionFits = d.nand[n].regionFits
      /\ c.rom = "dsiware" => e.nand[k.nand].title # "absent"
  BY <1>5, <1>7, <1>8
<1>10. Fits(k, c, e)
  <2>1. \A bios \in Bios : LoadBios(e, bios) <=> LoadBios(d, bios)
    BY <1>6 DEF LoadBios
  <2>2. k.type = "DSi" => k.nand \in DOMAIN d.nand
    BY <1>4 DEF IsConsole
  <2> QED
    BY <1>4, <1>5, <1>9, <2>1, <2>2 DEF Fits, Bios
<1>11. IsConsole(k, e)
  BY <1>4, <1>6, ConsoleStill
<1>12. nands \in SUBSET DOMAIN e.nand
  BY <1>2, <1>5, <1>6
<1>13. StoredWifi(e) = StoredWifi(d)
  BY <1>6 DEF StoredWifi
<1>14. Newest(e, played')
  <2>1. \A n \in DOMAIN e.nand : e.nand[n].title # "absent" => n \in nands
    BY <1>2, <1>6, <1>7 DEF Newest
  <2>2. nands = {} => c.rom # "dsiware" /\ played.nands = {}
    OBVIOUS
  <2>3. ASSUME NEW n \in DOMAIN e.nand, played.exported, nands = {n}
        PROVE  played.save = IF e.nand[n].title # "absent" THEN e.nand[n].save ELSE e.save
    <3>1. CASE c.rom = "dsiware"
      <4>1. n = k.nand /\ (played.nands = {} \/ played.nands = {n})
        BY <2>3, <3>1
      <4>2. e.nand[n].title # "absent"
            /\ e.nand[n].save = IF d.nand[n].title # "absent" THEN d.nand[n].save ELSE d.save
        BY <1>5, <1>7, <1>8, <3>1, <4>1
      <4>3. CASE played.nands = {n}
        BY <1>2, <1>6, <2>3, <4>2, <4>3 DEF Newest
      <4>4. CASE played.nands = {}
        <5>1. d.nand[n].title = "absent" /\ d.save = played.save
          BY <1>2, <1>6, <2>3, <4>4 DEF Newest
        <5> QED
          BY <4>2, <5>1
      <4> QED
        BY <4>1, <4>3, <4>4
    <3>2. CASE c.rom # "dsiware"
      BY <1>2, <1>6, <2>3, <3>2 DEF Newest
    <3> QED
      BY <3>1, <3>2
  <2> QED
    BY <1>2, <1>3, <1>6, <2>1, <2>2, <2>3 DEF Newest
<1>15. c.rom = "dsiware" => k.nand \in nands
  OBVIOUS
<1> HIDE DEF nands
<1>16. Shape'
  BY <1>1, <1>2, <1>3, <1>6, <1>11, <1>12 DEF Shape, c
<1>17. ConsoleFits' /\ SaveHeld'
  BY <1>1, <1>3, <1>10, <1>14, <1>15 DEF ConsoleFits, SaveHeld, c
<1>18. WifiHeld'
  BY <1>1, <1>3, <1>4, <1>13 DEF WifiHeld
<1> QED
  BY <1>16, <1>17, <1>18 DEF IInv

LEMMA LoadGameStep == ASSUME IInv, LoadGame PROVE IInv'
<1> PICK s \in Settings :
      /\ content' \in Contents
      /\ \/ Starts(s, disk)
         \/ /\ CreateError(s, content', disk) # None
            /\ phase' = IF CreateError(s, content', disk) \in ConfigErrors
                        THEN "screen" ELSE "failed"
            /\ UNCHANGED <<console, disk, played>>
  BY DEF LoadGame
<1>1. phase = "out" /\ writes' = writes
  BY DEF LoadGame
<1>2. CASE Starts(s, disk)
  BY <1>1, <1>2, StartsStep DEF IInv, Shape, WifiHeld
<1>3. CASE /\ CreateError(s, content', disk) # None
           /\ phase' = IF CreateError(s, content', disk) \in ConfigErrors
                       THEN "screen" ELSE "failed"
           /\ UNCHANGED <<console, disk, played>>
  <2>1. phase' \in {"screen", "failed"} /\ UNCHANGED <<console, disk, played>>
    BY <1>3
  <2> QED
    BY <1>1, <2>1 DEF IInv, Shape, ConsoleFits, SaveHeld, WifiHeld
<1> QED
  BY <1>2, <1>3

\* The files after a flush of the running console.
LEMMA Flushed ==
  ASSUME IInv, phase = "running", NEW e, e = FlushFirmware(disk, console)
  PROVE  /\ Files(e) /\ e.bios = disk.bios /\ e.nand = disk.nand /\ e.save = disk.save
         /\ DOMAIN e.firmware = DOMAIN disk.firmware
         /\ StoredWifi(e) = played.wfc
         /\ Newest(e, played)
<1>1. Files(disk) /\ IsConsole(console, disk)
  BY DEF IInv, Shape
<1>2. /\ Files(e) /\ e.bios = disk.bios /\ e.nand = disk.nand /\ e.save = disk.save
      /\ DOMAIN e.firmware = DOMAIN disk.firmware
      /\ StoredWifi(e) = IF IsGenerated(console.firmware) THEN console.firmware.wifi
                         ELSE StoredWifi(disk)
  BY <1>1, FlushIs
<1> QED
  BY <1>2 DEF IInv, WifiHeld, SaveHeld, Newest

LEMMA ResetStep == ASSUME IInv, Reset PROVE IInv'
<1> DEFINE flushed == FlushFirmware(disk, console)
<1> PICK s \in Settings :
      /\ UNCHANGED content
      /\ \/ Starts(s, flushed)
         \/ /\ CreateError(s, content, flushed) # None
            /\ phase' = "shutdown" /\ console' = None /\ disk' = flushed
            /\ UNCHANGED played
  BY DEF Reset
<1>1. phase = "running" /\ writes' = writes /\ content' = content /\ content \in Contents
  BY DEF Reset, IInv, Shape
<1>2. /\ Files(flushed) /\ flushed.nand = disk.nand /\ flushed.save = disk.save
      /\ StoredWifi(flushed) = played.wfc /\ Newest(flushed, played)
  BY <1>1, Flushed
<1> HIDE DEF flushed
<1>3. CASE Starts(s, flushed)
  BY <1>1, <1>2, <1>3, StartsStep
<1>4. CASE phase' = "shutdown" /\ console' = None /\ disk' = flushed /\ UNCHANGED played
  <2>1. played \in [wfc : Nat, firmware : {played.firmware}, nands : SUBSET DOMAIN disk'.nand,
                    exported : BOOLEAN, save : Nat] /\ writes \in Nat
    BY <1>2, <1>4 DEF IInv, Shape
  <2> QED
    BY <1>1, <1>2, <1>4, <2>1 DEF IInv, Shape, ConsoleFits, SaveHeld, WifiHeld
<1> QED
  BY <1>3, <1>4

LEMMA UnloadGameStep == ASSUME IInv, UnloadGame PROVE IInv'
<1> DEFINE flushed == FlushFirmware(disk, console)
<1>1. phase = "running" /\ phase' = "out" /\ console' = None /\ writes' = writes
  BY DEF UnloadGame
<1> PICK exported \in BOOLEAN :
      IF content.rom = "dsiware"
      THEN /\ disk' = UninstallDsiware(flushed, console, exported)
           /\ played' = [played EXCEPT !.exported = @ /\ exported]
      ELSE exported /\ disk' = flushed /\ UNCHANGED played
  BY DEF UnloadGame
<1>2. /\ Files(flushed) /\ flushed.nand = disk.nand /\ flushed.save = disk.save
      /\ StoredWifi(flushed) = played.wfc /\ Newest(flushed, played)
  BY <1>1, Flushed
<1>3. /\ played \in [wfc : Nat, firmware : {played.firmware}, nands : SUBSET DOMAIN flushed.nand,
                     exported : BOOLEAN, save : Nat] /\ writes \in Nat
      /\ content.rom = "dsiware" =>
           /\ console.nand \in DOMAIN flushed.nand /\ console.nand \in played.nands
           /\ flushed.nand[console.nand].title # "absent"
  BY <1>1, <1>2 DEF IInv, Shape, SaveHeld, ConsoleFits, Fits, IsConsole
<1> HIDE DEF flushed
<1>4. CASE content.rom # "dsiware"
  BY <1>1, <1>2, <1>3, <1>4 DEF IInv, Shape, ConsoleFits, SaveHeld, WifiHeld
<1>5. CASE content.rom = "dsiware"
  <2> DEFINE n == console.nand
             d == flushed
             nand == [d.nand EXCEPT ![n].title = "absent"]
             save == IF exported THEN d.nand[n].save ELSE d.save
  <2>1. n \in DOMAIN d.nand /\ n \in played.nands /\ d.nand[n].title # "absent"
    BY <1>3, <1>5
  <2>2. d.nand \in [DOMAIN d.nand -> NandImage] /\ d.save \in Nat
    BY <1>2, DiskParts DEF Files
  <2>3. disk' = [d EXCEPT !.save = save, !.nand = nand]
    BY <1>2, <1>5, <2>1, <2>2 DEF UninstallDsiware, Files, IsDisk
  <2>4. [d.nand[n] EXCEPT !.title = "absent"] \in NandImage /\ d.nand[n].save \in Nat
    BY <2>1, <2>2 DEF NandImage
  <2>5. /\ nand \in [DOMAIN d.nand -> NandImage] /\ DOMAIN nand = DOMAIN d.nand
        /\ nand[n].title = "absent" /\ \A m \in DOMAIN d.nand : m # n => nand[m] = d.nand[m]
    BY <2>1, <2>2, <2>4 DEF NandImage
  <2>6. save \in Nat
    BY <2>2, <2>4
  <2> HIDE DEF nand, save, n
  <2>7. /\ disk'.bios = d.bios /\ disk'.firmware = d.firmware /\ disk'.wfc = d.wfc
        /\ disk'.save = save /\ disk'.nand = nand /\ disk'.tmd = d.tmd
        /\ disk'.online = d.online
        /\ disk' = [bios |-> disk'.bios, firmware |-> disk'.firmware, nand |-> disk'.nand,
                    wfc |-> disk'.wfc, tmd |-> disk'.tmd, online |-> disk'.online,
                    save |-> disk'.save]
    BY <1>2, <2>3 DEF Files, IsDisk
  <2>8. IsDisk(disk')
    BY <1>2, <2>5, <2>6, <2>7 DEF Files, IsDisk
  <2>9. /\ played'.wfc = played.wfc /\ played'.nands = played.nands
        /\ played'.save = played.save /\ played'.exported \in BOOLEAN
        /\ played'.exported => played.exported /\ exported
        /\ played' = [wfc |-> played'.wfc, firmware |-> played'.firmware,
                      nands |-> played'.nands, exported |-> played'.exported,
                      save |-> played'.save]
    BY <1>3, <1>5
  <2>10. Newest(disk', played')
    <3>1. \A m \in DOMAIN nand : nand[m].title # "absent" => m \in played.nands
      BY <1>2, <2>5 DEF Newest
    <3>2. ASSUME NEW m \in DOMAIN nand, played'.exported, played.nands = {m}
          PROVE  played.save = IF nand[m].title # "absent" THEN nand[m].save ELSE save
      <4>1. m = n /\ exported /\ played.exported
        BY <2>1, <2>9, <3>2
      <4>2. played.save = d.nand[n].save
        BY <1>2, <2>1, <3>2, <4>1 DEF Newest
      <4> QED
        BY <2>5, <4>1, <4>2 DEF save, n
    <3> QED
      BY <2>1, <2>7, <2>9, <3>1, <3>2 DEF Newest
  <2>11. StoredWifi(disk') = StoredWifi(d)
    BY <2>7 DEF StoredWifi
  <2>12. Files(disk')
    BY <1>2, <2>7, <2>8 DEF Files
  <2>13. Shape'
    BY <1>1, <1>3, <2>5, <2>7, <2>9, <2>12 DEF Shape
  <2> QED
    BY <1>1, <1>2, <2>9, <2>10, <2>11, <2>13 DEF IInv, ConsoleFits, SaveHeld, WifiHeld
<1> QED
  BY <1>4, <1>5

LEMMA UnloadNothingStep == ASSUME IInv, UnloadNothing PROVE IInv'
<1>1. /\ phase # "running" /\ phase' \in {"faulted", "out"}
      /\ UNCHANGED <<console, disk, writes, played>>
  BY DEF UnloadNothing
<1> QED
  BY <1>1 DEF IInv, Shape, ConsoleFits, SaveHeld, WifiHeld

LEMMA GameSavesStep == ASSUME IInv, GameSaves PROVE IInv'
<1> DEFINE n == console.nand
           w == writes + 1
           nand == [disk.nand EXCEPT ![n].save = w]
<1>1. /\ phase = "running" /\ content.rom = "dsiware" /\ writes' = w
      /\ disk' = [disk EXCEPT !.nand[n].save = w]
      /\ played' = [played EXCEPT !.save = w]
      /\ UNCHANGED <<phase, content, console>>
  BY DEF GameSaves
<1>2. /\ Files(disk) /\ w \in Nat /\ IsConsole(console, disk) /\ content \in Contents
      /\ played \in [wfc : Nat, firmware : {played.firmware}, nands : SUBSET DOMAIN disk.nand,
                     exported : BOOLEAN, save : Nat]
      /\ Newest(disk, played) /\ n \in played.nands /\ Fits(console, content, disk)
  BY <1>1 DEF IInv, Shape, SaveHeld, ConsoleFits
<1>3. n \in DOMAIN disk.nand /\ disk.nand[n].title # "absent"
  BY <1>1, <1>2 DEF Fits
<1>4. disk.nand \in [DOMAIN disk.nand -> NandImage]
  BY <1>2, DiskParts DEF Files
<1>5. [disk.nand[n] EXCEPT !.save = w] \in NandImage
  BY <1>2, <1>3, <1>4 DEF NandImage
<1>6. /\ nand \in [DOMAIN disk.nand -> NandImage] /\ DOMAIN nand = DOMAIN disk.nand
      /\ nand[n].save = w
      /\ \A m \in DOMAIN disk.nand :
           /\ nand[m].title = disk.nand[m].title /\ nand[m].mounts = disk.nand[m].mounts
           /\ nand[m].regionFits = disk.nand[m].regionFits
  BY <1>3, <1>4, <1>5 DEF NandImage
<1>7. disk' = [disk EXCEPT !.nand = nand]
  BY <1>1, <1>2, <1>3, <1>4 DEF Files, IsDisk
<1> HIDE DEF nand
<1>8. /\ disk'.bios = disk.bios /\ disk'.firmware = disk.firmware /\ disk'.wfc = disk.wfc
      /\ disk'.save = disk.save /\ disk'.nand = nand /\ disk'.tmd = disk.tmd
      /\ disk'.online = disk.online
      /\ disk' = [bios |-> disk'.bios, firmware |-> disk'.firmware, nand |-> disk'.nand,
                  wfc |-> disk'.wfc, tmd |-> disk'.tmd, online |-> disk'.online,
                  save |-> disk'.save]
  BY <1>2, <1>7 DEF Files, IsDisk
<1>9. IsDisk(disk')
  BY <1>2, <1>6, <1>8 DEF Files, IsDisk
<1>10. /\ played'.wfc = played.wfc /\ played'.nands = played.nands /\ played'.save = w
       /\ played'.exported = played.exported
       /\ played' = [wfc |-> played'.wfc, firmware |-> played'.firmware,
                     nands |-> played'.nands, exported |-> played'.exported,
                     save |-> played'.save]
  BY <1>1, <1>2
<1> HIDE DEF w
<1>11. Files(disk') /\ StoredWifi(disk') = StoredWifi(disk)
  BY <1>2, <1>8, <1>9 DEF Files, StoredWifi
<1>12. IsConsole(console, disk')
  BY <1>2, <1>6, <1>8, ConsoleStill
<1>13. Fits(console, content, disk')
  <2>1. \A bios \in Bios : LoadBios(disk', bios) <=> LoadBios(disk, bios)
    BY <1>8 DEF LoadBios
  <2>2. console.type = "DSi" => console.nand \in DOMAIN disk.nand
    BY <1>2 DEF IsConsole
  <2> QED
    BY <1>2, <1>3, <1>6, <1>8, <2>1, <2>2 DEF Fits, Bios
<1>14. Newest(disk', played')
  <2>1. \A m \in DOMAIN nand : nand[m].title # "absent" => m \in played.nands
    BY <1>2, <1>6 DEF Newest
  <2>2. \A m : played.nands = {m} => m = n
    BY <1>2
  <2>3. played.nands # {}
    BY <1>2
  <2> HIDE DEF n
  <2> QED
    BY <1>3, <1>6, <1>8, <1>10, <2>1, <2>2, <2>3 DEF Newest
<1>15. Shape'
  BY <1>1, <1>2, <1>6, <1>8, <1>10, <1>11, <1>12 DEF Shape
<1>16. WifiHeld'
  BY <1>1, <1>10, <1>11 DEF IInv, WifiHeld
<1> QED
  BY <1>1, <1>2, <1>10, <1>13, <1>14, <1>15, <1>16 DEF IInv, ConsoleFits, SaveHeld

LEMMA WriteFirmwareStep == ASSUME IInv, WriteFirmware PROVE IInv'
<1> DEFINE w == writes + 1
           k == console'
<1>1. /\ phase = "running" /\ writes' = w
      /\ console' = [console EXCEPT !.firmware.wifi = w]
      /\ played' = IF IsGenerated(console.firmware) THEN [played EXCEPT !.wfc = w]
                   ELSE [played EXCEPT !.firmware[console.firmware.image].wifi = w]
      /\ UNCHANGED <<phase, content, disk>>
  BY DEF WriteFirmware
<1>2. /\ Files(disk) /\ w \in Nat /\ IsConsole(console, disk) /\ content \in Contents
      /\ played \in [wfc : Nat, firmware : {played.firmware}, nands : SUBSET DOMAIN disk.nand,
                     exported : BOOLEAN, save : Nat]
  BY <1>1 DEF IInv, Shape
<1> HIDE DEF w
<1>3. /\ k.type = console.type /\ k.bios = console.bios /\ k.cart = console.cart
      /\ k.slot2 = console.slot2 /\ k.nand = console.nand /\ k.boot = console.boot
      /\ k.firmware = [console.firmware EXCEPT !.wifi = w]
      /\ k = [type |-> k.type, bios |-> k.bios, firmware |-> k.firmware, cart |-> k.cart,
              slot2 |-> k.slot2, nand |-> k.nand, boot |-> k.boot]
  BY <1>1, <1>2 DEF IsConsole
<1>4. /\ k.firmware \in FirmwareOf(disk) /\ k.firmware.image = console.firmware.image
      /\ k.firmware.type = console.firmware.type /\ k.firmware.wifi = w
  BY <1>2, <1>3 DEF IsConsole, FirmwareOf
<1> HIDE DEF k
<1>5. IsConsole(k, disk)
  BY <1>2, <1>3, <1>4 DEF IsConsole
<1>6. /\ IsGenerated(k.firmware) <=> IsGenerated(console.firmware)
      /\ IsBootable(k.firmware) <=> IsBootable(console.firmware)
  BY <1>4 DEF IsGenerated, IsBootable
<1>7. Fits(k, content, disk)
  BY <1>1, <1>3, <1>4, <1>6 DEF IInv, ConsoleFits, Fits
<1>8. /\ played'.nands = played.nands /\ played'.save = played.save
      /\ played'.exported = played.exported
      /\ played'.wfc = IF IsGenerated(console.firmware) THEN w ELSE played.wfc
      /\ played' = [wfc |-> played'.wfc, firmware |-> played'.firmware,
                    nands |-> played'.nands, exported |-> played'.exported,
                    save |-> played'.save]
  BY <1>1, <1>2
<1>9. Newest(disk, played')
  BY <1>8 DEF IInv, SaveHeld, Newest
<1>10. Shape'
  BY <1>1, <1>2, <1>5, <1>8 DEF Shape, k
<1>11. ConsoleFits'
  BY <1>1, <1>7 DEF ConsoleFits, k
<1>12. SaveHeld'
  BY <1>1, <1>3, <1>8, <1>9 DEF IInv, SaveHeld, k
<1>13. WifiHeld'
  BY <1>1, <1>4, <1>6, <1>8 DEF IInv, WifiHeld, k
<1> QED
  BY <1>10, <1>11, <1>12, <1>13 DEF IInv

LEMMA FlushFirmwareTaskStep == ASSUME IInv, FlushFirmwareTask PROVE IInv'
<1>1. /\ phase = "running" /\ disk' = FlushFirmware(disk, console)
      /\ UNCHANGED <<phase, content, console, writes, played>>
  BY DEF FlushFirmwareTask
<1>2. /\ Files(disk') /\ disk'.bios = disk.bios /\ disk'.nand = disk.nand
      /\ DOMAIN disk'.firmware = DOMAIN disk.firmware
      /\ StoredWifi(disk') = played.wfc /\ Newest(disk', played)
  BY <1>1, Flushed
<1>3. IsConsole(console, disk) /\ Fits(console, content, disk)
  BY <1>1 DEF IInv, Shape, ConsoleFits
<1>4. IsConsole(console, disk') /\ Fits(console, content, disk')
  BY <1>2, <1>3, ConsoleStill, FitsStill
<1> QED
  BY <1>1, <1>2, <1>4 DEF IInv, Shape, ConsoleFits, SaveHeld, WifiHeld

LEMMA CrashStep == ASSUME IInv, Crash PROVE IInv'
<1>1. /\ phase' = "out" /\ console' = None /\ UNCHANGED <<disk, writes>>
      /\ played' = [played EXCEPT !.wfc = StoredWifi(disk), !.firmware = disk.firmware]
  BY DEF Crash
<1>2. /\ Files(disk) /\ StoredWifi(disk) \in Nat
      /\ played \in [wfc : Nat, firmware : {played.firmware}, nands : SUBSET DOMAIN disk.nand,
                     exported : BOOLEAN, save : Nat]
  BY DiskParts DEF IInv, Shape, Files
<1>3. /\ played'.nands = played.nands /\ played'.save = played.save
      /\ played'.exported = played.exported /\ played'.wfc = StoredWifi(disk)
      /\ played' = [wfc |-> played'.wfc, firmware |-> played'.firmware,
                    nands |-> played'.nands, exported |-> played'.exported,
                    save |-> played'.save]
  BY <1>1, <1>2
<1>4. Newest(disk, played')
  BY <1>3 DEF IInv, SaveHeld, Newest
<1>5. Shape'
  BY <1>1, <1>2, <1>3 DEF IInv, Shape
<1> QED
  BY <1>1, <1>3, <1>4, <1>5 DEF IInv, ConsoleFits, SaveHeld, WifiHeld

LEMMA InvStep == ASSUME IInv, [Next]_vars PROVE IInv'
<1>1. CASE Next
  BY <1>1, LoadGameStep, ResetStep, UnloadGameStep, UnloadNothingStep, GameSavesStep,
     WriteFirmwareStep, FlushFirmwareTaskStep, CrashStep DEF Next
<1>2. CASE UNCHANGED vars
  BY <1>2 DEF vars, IInv, Shape, ConsoleFits, SaveHeld, WifiHeld
<1> QED
  BY <1>1, <1>2

LEMMA Invariance == Spec => []IInv
BY InitHolds, InvStep, PTL DEF Spec

-----------------------------------------------------------------------------
(* The theorems *)

\* Whatever files there are and whatever is configured, a console that starts has the
\* BIOS, firmware and NAND it needs, and keeps them through flushes and resets: the
\* checks of GetNdsArgs and GetDSiArgs suffice (console.cpp:163-240, 316-375).
THEOREM SystemFilesCorrect == Spec => []SystemFilesFit
<1>1. IInv => SystemFilesFit
  BY DEF IInv, Shape, ConsoleFits, Fits, SystemFilesFit
<1> QED
  BY <1>1, Invariance, PTL

\* A DSiWare game goes on from its last save, over any number of sessions, resets and
\* crashes on one NAND image (console.cpp:583-625, core.cpp:609-666).
THEOREM DsiwareCorrect == Spec => []DsiwareSeesNewest
<1>1. IInv => DsiwareSeesNewest
  <2> SUFFICES ASSUME IInv, phase = "running", content.rom = "dsiware",
                      Cardinality(played.nands) = 1, played.exported
               PROVE  disk.nand[console.nand].save = played.save
    BY DEF DsiwareSeesNewest
  <2> DEFINE n == console.nand
  <2>1. IsFiniteSet(played.nands)
    <3>1. IsFiniteSet(DOMAIN disk.nand) /\ played.nands \subseteq DOMAIN disk.nand
      BY DEF IInv, Shape, Files, IsDisk
    <3> QED
      BY <3>1, FS_Subset
  <2>2. n \in played.nands /\ n \in DOMAIN disk.nand
    BY DEF IInv, Shape, SaveHeld, Files
  <2>3. played.nands = {n}
    <3>1. \E m : played.nands = {m}
      BY <2>1, FS_Singleton
    <3> QED
      BY <2>2, <3>1
  <2>4. disk.nand[n].title # "absent"
    BY DEF IInv, ConsoleFits, Fits
  <2> HIDE DEF n
  <2>5. played.save = disk.nand[n].save
    BY <2>2, <2>3, <2>4 DEF IInv, SaveHeld, Newest
  <2> QED
    BY <2>5 DEF n
<1> QED
  BY <1>1, Invariance, PTL

\* The Wi-Fi settings made on built-in firmware come back with it, over any sessions
\* with native firmware in between (console.cpp:958-966, tasks.cpp:139-208).
THEOREM GeneratedWifiCorrect == Spec => []GeneratedWifiKept
<1>1. IInv => GeneratedWifiKept
  BY DEF IInv, Shape, WifiHeld, GeneratedWifiKept
<1> QED
  BY <1>1, Invariance, PTL
=============================================================================
