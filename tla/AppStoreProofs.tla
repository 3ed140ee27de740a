--------------------------- MODULE AppStoreProofs ---------------------------
(***************************************************************************)
(* Proofs about the stored configuration and data, for any texts, settings *)
(* and data, any number of commands, power cuts and refused allocations.   *)
(***************************************************************************)
EXTENDS AppStore, TLAPS

FsProofs == INSTANCE PicoFsIoProofs

-----------------------------------------------------------------------------
(* The flash driver inside the composition. *)

(* What a call of the driver's write() does, with and without memory for its *)
(* copy (pico-fs-io.cpp:70-89).                                              *)
LEMMA WriteBegins ==
    ASSUME NEW half \in Half, NEW image, NEW memory \in BOOLEAN,
           Write(half, image, memory)
    PROVE  /\ writing = "idle"
           /\ flash' = flash
           /\ memory => /\ data_sector' = [flash EXCEPT ![half] = image]
                        /\ writing' = "erase"
           /\ ~memory => data_sector' = data_sector /\ writing' = "idle"
BY DEF Write, Fs!BeginWrite, Idle, fsVars

(* A call of write() with an image of the right kind is a step of the driver *)
(* or none.                                                                  *)
LEMMA WriteIsDriverStep ==
    ASSUME NEW half \in Half, NEW image \in Image, NEW memory \in BOOLEAN,
           Write(half, image, memory)
    PROVE  [Fs!Next]_(Fs!vars)
BY DEF Write, Fs!Next, Fs!vars, fsVars, Half

(* The structures in memory and the images written of them have their types. *)
LEMMA ImagesTyped ==
    /\ \A v \in Configuration : ImageOf(v) \in ConfigImage
    /\ \A v \in Data : ImageOf(v) \in DataImage
    /\ Default \in Configuration
    /\ \A v \in Configuration, crc \in Configuration \cup {NoCrc} :
           [value |-> v, crc |-> crc] \in ConfigImage
    /\ \A v \in Configuration : [v EXCEPT !.serial = Append(@, ChipSerial)] \in Configuration
    /\ \A v \in Configuration : \A s \in Amended(v.serial) :
           [v EXCEPT !.serial = s] \in Configuration
    /\ \A v \in Configuration : \A s \in Amended(v.descr) :
           [v EXCEPT !.descr = s] \in Configuration
    /\ \A v \in Configuration, s \in Settings : [v EXCEPT !.settings = s] \in Configuration
<1> USE AppStoreAssumption DEF AppStoreAssumption, Configuration, ConfigImage, DataImage
<1>1. \A v \in Configuration : ImageOf(v) \in ConfigImage
  BY DEF ImageOf
<1>2. \A v \in Data : ImageOf(v) \in DataImage
  BY DEF ImageOf
<1>3. Default \in Configuration
  BY DEF Default
<1>4. \A v \in Configuration, crc \in Configuration \cup {NoCrc} :
           [value |-> v, crc |-> crc] \in ConfigImage
  OBVIOUS
<1>5. \A v \in Configuration : [v EXCEPT !.serial = Append(@, ChipSerial)] \in Configuration
  OBVIOUS
<1>6. \A s \in Seq(Text) : Amended(s) \subseteq Seq(Text)
  <2>1. SUFFICES ASSUME NEW s \in Seq(Text), NEW t \in Amended(s) PROVE t \in Seq(Text)
    OBVIOUS
  <2>2. <<>> \in Seq(Text) /\ \A text \in Text : Append(s, text) \in Seq(Text)
    OBVIOUS
  <2>3. t \in {s, <<>>} \/ \E text \in Text : t = Append(s, text)
    BY <2>1 DEF Amended
  <2>4. QED
    BY <2>2, <2>3
<1>7. \A v \in Configuration : \A s \in Amended(v.serial) :
           [v EXCEPT !.serial = s] \in Configuration
  BY <1>6
<1>8. \A v \in Configuration : \A s \in Amended(v.descr) :
           [v EXCEPT !.descr = s] \in Configuration
  BY <1>6
<1>9. \A v \in Configuration, s \in Settings : [v EXCEPT !.settings = s] \in Configuration
  OBVIOUS
<1>10. QED
  BY <1>1, <1>2, <1>3, <1>4, <1>5, <1>7, <1>8, <1>9

(* Every step writes an image of the right kind, the data's with a checksum  *)
(* that covers it, or begins to clear, or lets the driver go on, or cuts the *)
(* power, or leaves the flash alone (app-config.cpp:66-194,                  *)
(* app-data.cpp:64-69).                                                      *)
LEMMA StepShapes ==
    ASSUME TypeOK, [Next]_vars
    PROVE  \/ UNCHANGED fsVars
           \/ \E image \in ConfigImage, memory \in BOOLEAN : Write("CONFIG", image, memory)
           \/ \E value \in Data, memory \in BOOLEAN : Write("DATA", ImageOf(value), memory)
           \/ \E half \in Half : Fs!BeginClear(half)
           \/ Fs!Progress
           \/ Fs!PowerCut
<1> DEFINE Config == \E image \in ConfigImage, memory \in BOOLEAN : Write("CONFIG", image, memory)
<1> DEFINE Stored == \E value \in Data, memory \in BOOLEAN : Write("DATA", ImageOf(value), memory)
<1>1. ASSUME NEW v \in Configuration, NEW memory \in BOOLEAN, StoreConfig(v, memory)
      PROVE  Config
  BY <1>1, ImagesTyped DEF StoreConfig
<1>2. ASSUME NEW v \in Data, NEW memory \in BOOLEAN, StoreData(v, memory)
      PROVE  Stored
  BY <1>2 DEF StoreData
<1>3. ASSUME NEW v \in Configuration, NEW memory \in BOOLEAN, WriteConfigAsIs(v, memory)
      PROVE  Config
  BY <1>3, ImagesTyped DEF WriteConfigAsIs, TypeOK
<1>4. CASE Boot
  <2>1. CASE PowerOn \/ LoadConfig \/ LoadData \/ Register
    BY <2>1 DEF PowerOn, LoadConfig, LoadData, Register
  <2>2. ASSUME NEW memory \in BOOLEAN, LoadDefault(memory) PROVE Config
    BY <2>2, <1>1, ImagesTyped DEF LoadDefault
  <2>3. ASSUME NEW memory \in BOOLEAN, CheckSerial(memory) PROVE Config \/ UNCHANGED fsVars
    BY <2>3, <1>3, ImagesTyped DEF CheckSerial, TypeOK
  <2>4. ASSUME NEW memory \in BOOLEAN, StoreSerial(memory) PROVE Config
    BY <2>4, <1>1 DEF StoreSerial, TypeOK
  <2>5. ASSUME NEW memory \in BOOLEAN, ResetData(memory) PROVE Stored
    BY <2>5, <1>2, AppStoreAssumption DEF ResetData, AppStoreAssumption
  <2>6. QED
    BY <1>4, <2>1, <2>2, <2>3, <2>4, <2>5 DEF Boot
<1>5. CASE Commands
  <2>1. CASE SetSettings \/ SetData \/ Reboot
    BY <2>1 DEF SetSettings, SetData, Reboot
  <2>2. ASSUME NEW half \in Half, ClearCommand(half) PROVE Fs!BeginClear(half)
    BY <2>2 DEF ClearCommand
  <2>3. ASSUME NEW memory \in BOOLEAN, SetSerial(memory) PROVE Config
    BY <2>3, <1>3, ImagesTyped DEF SetSerial, TypeOK
  <2>4. ASSUME NEW memory \in BOOLEAN, SetDescr(memory) PROVE Config
    BY <2>4, <1>3, ImagesTyped DEF SetDescr, TypeOK
  <2>5. ASSUME NEW memory \in BOOLEAN, StoreConfigCommand(memory) PROVE Config
    BY <2>5, <1>1 DEF StoreConfigCommand, TypeOK
  <2>6. ASSUME NEW memory \in BOOLEAN, StoreDataCommand(memory) PROVE Stored
    BY <2>6, <1>2 DEF StoreDataCommand, TypeOK
  <2>7. QED
    BY <1>5, <2>1, <2>2, <2>3, <2>4, <2>5, <2>6 DEF Commands
<1>6. CASE FlashProgress \/ PowerCut
  BY <1>6 DEF FlashProgress, PowerCut
<1>7. CASE UNCHANGED vars
  BY <1>7 DEF vars
<1>8. QED
  BY <1>4, <1>5, <1>6, <1>7 DEF Next

(* Every step of the composition is a step of the flash driver or leaves it  *)
(* alone, and what it writes is an image of the half it writes to.           *)
LEMMA FsComponent == TypeOK /\ [Next]_vars => [Fs!Next]_(Fs!vars)
<1> SUFFICES ASSUME TypeOK, [Next]_vars PROVE [Fs!Next]_(Fs!vars)
  OBVIOUS
<1>half. "CONFIG" \in Half /\ "DATA" \in Half
  BY DEF Half, Fs!Half
<1>1. ASSUME NEW image \in ConfigImage, NEW memory \in BOOLEAN, Write("CONFIG", image, memory)
      PROVE  [Fs!Next]_(Fs!vars)
  BY <1>1, <1>half, WriteIsDriverStep DEF Image
<1>2. ASSUME NEW value \in Data, NEW memory \in BOOLEAN, Write("DATA", ImageOf(value), memory)
      PROVE  [Fs!Next]_(Fs!vars)
  BY <1>2, <1>half, WriteIsDriverStep, ImagesTyped DEF Image
<1>3. QED
  BY <1>1, <1>2, StepShapes DEF Fs!Next, Fs!vars, fsVars, Half

(* FsProofs speaks of its own instance of the driver, which is the same one. *)
LEMMA SameFs ==
    /\ FsProofs!FsInv <=> Fs!FsInv
    /\ FsProofs!Init <=> Fs!Init
    /\ FsProofs!Next <=> Fs!Next
    /\ FsProofs!vars = Fs!vars
<1> USE DEF FsProofs!Half, Fs!Half, FsProofs!Erased, Fs!Erased, FsProofs!Sector, Fs!Sector,
            FsProofs!Clearing, Fs!Clearing, FsProofs!ClearOf, Fs!ClearOf
<1>1. FsProofs!FsInv <=> Fs!FsInv
  BY DEF FsProofs!FsInv, Fs!FsInv, FsProofs!TypeOK, Fs!TypeOK,
         FsProofs!FlashFollowsCopy, Fs!FlashFollowsCopy
<1>2. FsProofs!Init <=> Fs!Init
  BY DEF FsProofs!Init, Fs!Init
<1>3. FsProofs!Next <=> Fs!Next
  BY DEF FsProofs!Next, Fs!Next, FsProofs!BeginWrite, Fs!BeginWrite,
         FsProofs!BeginClear, Fs!BeginClear, FsProofs!Progress, Fs!Progress,
         FsProofs!EraseSector, Fs!EraseSector, FsProofs!ProgramConfig, Fs!ProgramConfig,
         FsProofs!ProgramData, Fs!ProgramData, FsProofs!Clear, Fs!Clear,
         FsProofs!PowerCut, Fs!PowerCut
<1>4. FsProofs!vars = Fs!vars
  BY DEF FsProofs!vars, Fs!vars
<1>5. QED
  BY <1>1, <1>2, <1>3, <1>4

(* Every step of the composition keeps what the driver proves of the sector. *)
LEMMA NextFsInv == TypeOK /\ Fs!FsInv /\ [Next]_vars => Fs!FsInv'
<1> SUFFICES ASSUME TypeOK, Fs!FsInv, [Next]_vars PROVE Fs!FsInv'
  OBVIOUS
<1>1. NoImage \notin Image
  BY AppStoreAssumption DEF AppStoreAssumption, Image
<1>2. FsProofs!FsInv /\ [FsProofs!Next]_(FsProofs!vars) => FsProofs!FsInv'
  BY <1>1, FsProofs!NextFsInv
<1>3. FsProofs!FsInv' <=> Fs!FsInv'
  BY DEF FsProofs!FsInv, Fs!FsInv, FsProofs!TypeOK, Fs!TypeOK,
         FsProofs!FlashFollowsCopy, Fs!FlashFollowsCopy, FsProofs!Half, Fs!Half,
         FsProofs!Erased, Fs!Erased, FsProofs!Sector, Fs!Sector,
         FsProofs!Clearing, Fs!Clearing
<1>4. UNCHANGED Fs!vars => UNCHANGED FsProofs!vars
  BY DEF Fs!vars, FsProofs!vars
<1>5. QED
  BY <1>2, <1>3, <1>4, FsComponent, SameFs

-----------------------------------------------------------------------------
(* The images in the flash and in the copy. *)

ImagesSound == HalvesTyped /\ CopyIsFresh /\ DataChecksummed

(* Each half holds images of its own kind and the data's are covered by      *)
(* their checksum, in the flash and in the driver's copy, after every step.  *)
LEMMA NextImagesSound == TypeOK /\ ImagesSound /\ [Next]_vars => ImagesSound'
<1> SUFFICES ASSUME TypeOK, ImagesSound, [Next]_vars PROVE ImagesSound'
  OBVIOUS
<1> USE DEF ImagesSound, HalvesTyped, CopyIsFresh, DataChecksummed
<1>types. flash \in Fs!Sector /\ data_sector \in Fs!Sector
  BY DEF TypeOK, Fs!TypeOK
<1>1. CASE UNCHANGED fsVars
  BY <1>1 DEF fsVars
<1>2. ASSUME NEW image \in ConfigImage, NEW memory \in BOOLEAN, Write("CONFIG", image, memory)
      PROVE  ImagesSound'
  BY <1>2, <1>types, WriteBegins DEF Fs!Sector, Half, Fs!Half
<1>3. ASSUME NEW value \in Data, NEW memory \in BOOLEAN, Write("DATA", ImageOf(value), memory)
      PROVE  ImagesSound'
  <2>1. ImageOf(value) \in DataImage /\ ImageOf(value).crc = ImageOf(value).value
    BY ImagesTyped DEF ImageOf
  <2>2. QED
    BY <1>3, <2>1, <1>types, WriteBegins DEF Fs!Sector, Half, Fs!Half
<1>4. ASSUME NEW half \in Half, Fs!BeginClear(half)
      PROVE  ImagesSound'
  BY <1>4 DEF Fs!BeginClear, Fs!ClearOf, Half, Fs!Half
<1>5. CASE Fs!Progress
  <2>1. CASE Fs!EraseSector
    BY <2>1 DEF Fs!EraseSector, Fs!Erased, Fs!Half
  <2>2. CASE Fs!ProgramConfig
    BY <2>2, <1>types DEF Fs!ProgramConfig, Fs!Sector, Fs!Half
  <2>3. CASE Fs!ProgramData
    BY <2>3, <1>types DEF Fs!ProgramData, Fs!Sector, Fs!Erased, Fs!Half
  <2>4. CASE Fs!Clear
    BY <2>4 DEF Fs!Clear, Fs!Clearing, Fs!Erased, Fs!Half
  <2>5. QED
    BY <1>5, <2>1, <2>2, <2>3, <2>4 DEF Fs!Progress
<1>6. CASE Fs!PowerCut
  BY <1>6 DEF Fs!PowerCut, Fs!Erased, Fs!Half
<1>7. QED
  BY <1>1, <1>2, <1>3, <1>4, <1>5, <1>6, StepShapes

-----------------------------------------------------------------------------
(* Types. *)

(* What store(), and the two setters that write to the flash, do to memory   *)
(* and to the history (app-config.cpp:66-83, 160-194, app-data.cpp:64-69).   *)
LEMMA StoresTyped ==
    ASSUME TypeOK, NEW memory \in BOOLEAN
    PROVE  /\ \A v \in Configuration : StoreConfig(v, memory) =>
                  /\ config_crc' \in Configuration \cup {NoCrc}
                  /\ asked' \in [Half -> SUBSET (Configuration \cup Data)]
                  /\ kept' \in [Half -> SUBSET (Configuration \cup Data)]
           /\ \A v \in Data : StoreData(v, memory) =>
                  /\ data_crc' \in Data \cup {NoCrc}
                  /\ asked' \in [Half -> SUBSET (Configuration \cup Data)]
                  /\ kept' \in [Half -> SUBSET (Configuration \cup Data)]
           /\ \A v \in Configuration : WriteConfigAsIs(v, memory) =>
                  /\ config' \in Configuration
                  /\ config_crc' \in Configuration \cup {NoCrc}
                  /\ asked' \in [Half -> SUBSET (Configuration \cup Data)]
                  /\ kept' \in [Half -> SUBSET (Configuration \cup Data)]
BY DEF TypeOK, StoreConfig, StoreData, WriteConfigAsIs, Record

(* Every step keeps the types of memory and of the history                   *)
(* (app-config.hpp:69-95, app-data.hpp:49-172).                              *)
LEMMA NextTypeOK == TypeOK /\ Fs!FsInv /\ ImagesSound /\ [Next]_vars => TypeOK'
<1> SUFFICES ASSUME TypeOK, Fs!FsInv, ImagesSound, [Next]_vars PROVE TypeOK'
  OBVIOUS
<1> DEFINE Places == {"off", "load_config", "check_serial", "store_serial", "load_data",
                      "register", "run", "partial", "failed"}
<1> DEFINE Histories == [Half -> SUBSET (Configuration \cup Data)]
<1> DEFINE Memory ==
        /\ config \in Configuration
        /\ config_crc \in Configuration \cup {NoCrc}
        /\ data \in Data
        /\ data_crc \in Data \cup {NoCrc}
        /\ at \in Places
        /\ asked \in Histories
        /\ kept \in Histories
        /\ commands \in 0 .. MaxCommands
<1>now. Memory
  BY DEF TypeOK
<1>fs. Fs!TypeOK'
  BY NextFsInv DEF Fs!FsInv
<1>count. ASSUME Command PROVE commands' \in 0 .. MaxCommands /\ at' = at
  BY <1>count, <1>now, AppStoreAssumption DEF Command, AppStoreAssumption
<1>default. Default \in Configuration /\ NoData \in Data
  BY ImagesTyped, AppStoreAssumption DEF AppStoreAssumption
<1>enough. Memory' => TypeOK'
  BY <1>fs DEF TypeOK
<1> HIDE DEF Histories, Memory
<1>1. CASE Boot
  <2>1. CASE PowerOn \/ Register
    BY <2>1, <1>now, <1>enough DEF Memory, PowerOn, Register, configVars, dataVars
  <2>2. CASE LoadConfig
    <3>1. flash["CONFIG"] \in ConfigImage
      BY <2>2 DEF ImagesSound, HalvesTyped, LoadConfig, Loads
    <3>2. config' \in Configuration /\ config_crc' \in Configuration \cup {NoCrc}
      BY <2>2, <3>1 DEF LoadConfig, ConfigImage
    <3>3. asked' \in Histories
      BY <2>2, <3>2, <1>now DEF Memory, Histories, LoadConfig
    <3>4. QED
      BY <2>2, <3>2, <3>3, <1>now, <1>enough DEF Memory, LoadConfig, dataVars
  <2>3. CASE LoadData
    <3>1. flash["DATA"] \in DataImage
      BY <2>3 DEF ImagesSound, HalvesTyped, LoadData, Loads
    <3>2. data' \in Data /\ data_crc' \in Data \cup {NoCrc}
      BY <2>3, <3>1 DEF LoadData, DataImage
    <3>3. asked' \in Histories
      BY <2>3, <3>2, <1>now DEF Memory, Histories, LoadData
    <3>4. QED
      BY <2>3, <3>2, <3>3, <1>now, <1>enough DEF Memory, LoadData, configVars
  <2>4. ASSUME NEW memory \in BOOLEAN, LoadDefault(memory) PROVE Memory'
    BY <2>4, <1>now, <1>default, StoresTyped DEF Memory, Histories, LoadDefault, dataVars
  <2>5. ASSUME NEW memory \in BOOLEAN, CheckSerial(memory) PROVE Memory'
    <3>1. CASE config.serial = <<>>
      BY <2>5, <3>1, <1>now, ImagesTyped, StoresTyped DEF Memory, Histories, CheckSerial, dataVars
    <3>2. CASE config.serial # <<>>
      BY <2>5, <3>2, <1>now DEF Memory, CheckSerial, configVars, dataVars
    <3>3. QED
      BY <3>1, <3>2
  <2>6. ASSUME NEW memory \in BOOLEAN, StoreSerial(memory) PROVE Memory'
    BY <2>6, <1>now, StoresTyped DEF Memory, Histories, StoreSerial, dataVars
  <2>7. ASSUME NEW memory \in BOOLEAN, ResetData(memory) PROVE Memory'
    BY <2>7, <1>now, <1>default, StoresTyped DEF Memory, Histories, ResetData, configVars
  <2>8. QED
    BY <1>1, <2>1, <2>2, <2>3, <2>4, <2>5, <2>6, <2>7, <1>enough DEF Boot
<1>2. CASE Commands
  <2>1. CASE SetSettings
    BY <2>1, <1>now, <1>enough, <1>count, ImagesTyped DEF Memory, SetSettings, dataVars
  <2>2. CASE SetData
    BY <2>2, <1>now, <1>enough, <1>count DEF Memory, SetData, configVars
  <2>3. CASE Reboot
    BY <2>3, <1>now, <1>enough, <1>default DEF Memory, Reboot, Restart
  <2>4. ASSUME NEW half \in Half, ClearCommand(half) PROVE Memory'
    <3>1. kept' \in Histories
      BY <2>4 DEF ClearCommand, Histories
    <3>2. QED
      BY <2>4, <3>1, <1>now, <1>count DEF Memory, ClearCommand, configVars, dataVars
  <2>5. ASSUME NEW memory \in BOOLEAN, SetSerial(memory) PROVE Memory'
    BY <2>5, <1>now, <1>count, ImagesTyped, StoresTyped DEF Memory, Histories, SetSerial, dataVars
  <2>6. ASSUME NEW memory \in BOOLEAN, SetDescr(memory) PROVE Memory'
    BY <2>6, <1>now, <1>count, ImagesTyped, StoresTyped DEF Memory, Histories, SetDescr, dataVars
  <2>7. ASSUME NEW memory \in BOOLEAN, StoreConfigCommand(memory) PROVE Memory'
    BY <2>7, <1>now, <1>count, StoresTyped DEF Memory, Histories, StoreConfigCommand, dataVars
  <2>8. ASSUME NEW memory \in BOOLEAN, StoreDataCommand(memory) PROVE Memory'
    BY <2>8, <1>now, <1>count, StoresTyped DEF Memory, Histories, StoreDataCommand, configVars
  <2>9. QED
    BY <1>2, <2>1, <2>2, <2>3, <2>4, <2>5, <2>6, <2>7, <2>8, <1>enough
       DEF Commands
<1>3. CASE FlashProgress
  BY <1>3, <1>now, <1>enough DEF Memory, FlashProgress, configVars, dataVars
<1>4. CASE PowerCut
  <2>1. kept' \in Histories
    BY <1>4, <1>now DEF Memory, PowerCut, Histories
  <2>2. QED
    BY <1>4, <2>1, <1>now, <1>enough, <1>default DEF Memory, PowerCut, Restart
<1>5. CASE UNCHANGED vars
  BY <1>5, <1>now, <1>enough DEF Memory, vars, configVars, dataVars
<1>6. QED
  BY <1>1, <1>2, <1>3, <1>4, <1>5 DEF Next

-----------------------------------------------------------------------------
(* Only what was stored can be loaded. *)

(* The image store() writes is recorded, and the image of the setters covers *)
(* its value only when that very value was stored before                     *)
(* (app-config.cpp:66-83, 160-194, app-data.cpp:64-69).                      *)
LEMMA StoresAsked ==
    ASSUME TypeOK, ImagesSound, ChecksumsAsked, NEW memory \in BOOLEAN
    PROVE  /\ \A v \in Configuration :
                  StoreConfig(v, memory) /\ UNCHANGED data_crc => ChecksumsAsked'
           /\ \A v \in Data :
                  StoreData(v, memory) /\ UNCHANGED config_crc => ChecksumsAsked'
           /\ \A v \in Configuration :
                  WriteConfigAsIs(v, memory) /\ UNCHANGED data_crc => ChecksumsAsked'
<1> USE DEF ChecksumsAsked
<1>types. /\ flash \in Fs!Sector
          /\ asked \in [Half -> SUBSET (Configuration \cup Data)]
  BY DEF TypeOK, Fs!TypeOK
<1>half. Half = {"CONFIG", "DATA"}
  BY DEF Half, Fs!Half
<1>enough. ASSUME UNCHANGED flash,
                  \A h \in Half : asked[h] \subseteq asked'[h],
                  \A h \in Half :
                      \/ data_sector'[h] \in {flash[h], data_sector[h]}
                      \/ data_sector'[h].crc = data_sector'[h].value
                             => data_sector'[h].value \in asked'[h],
                  config_crc' \in asked'["CONFIG"] \cup {NoCrc},
                  data_crc' \in asked'["DATA"] \cup {NoCrc}
           PROVE  ChecksumsAsked'
  BY <1>enough
<1> HIDE DEF ChecksumsAsked
<1>1. ASSUME NEW v \in Configuration, StoreConfig(v, memory), UNCHANGED data_crc
      PROVE  ChecksumsAsked'
  <2>1. asked' = [asked EXCEPT !["CONFIG"] = @ \cup {v}] /\ config_crc' = v
    BY <1>1 DEF StoreConfig, Record
  <2>2. /\ writing = "idle" /\ flash' = flash
        /\ memory => data_sector' = [flash EXCEPT !["CONFIG"] = ImageOf(v)]
        /\ ~memory => data_sector' = data_sector
    BY <1>1, <1>half, WriteBegins DEF StoreConfig
  <2>3. v \in asked'["CONFIG"] /\ \A h \in Half : asked[h] \subseteq asked'[h]
    BY <2>1, <1>types, <1>half
  <2>4. ASSUME NEW h \in Half
        PROVE  \/ data_sector'[h] \in {flash[h], data_sector[h]}
               \/ data_sector'[h] = ImageOf(v) /\ h = "CONFIG"
    BY <2>2, <1>types DEF Fs!Sector, Half
  <2>5. data_crc' \in asked'["DATA"] \cup {NoCrc}
    BY <1>1, <2>3, <1>half DEF ChecksumsAsked
  <2>6. QED
    BY <2>1, <2>2, <2>3, <2>4, <2>5, <1>enough DEF ImageOf
<1>2. ASSUME NEW v \in Data, StoreData(v, memory), UNCHANGED config_crc
      PROVE  ChecksumsAsked'
  <2>1. asked' = [asked EXCEPT !["DATA"] = @ \cup {v}] /\ data_crc' = v
    BY <1>2 DEF StoreData, Record
  <2>2. /\ writing = "idle" /\ flash' = flash
        /\ memory => data_sector' = [flash EXCEPT !["DATA"] = ImageOf(v)]
        /\ ~memory => data_sector' = data_sector
    BY <1>2, <1>half, WriteBegins DEF StoreData
  <2>3. v \in asked'["DATA"] /\ \A h \in Half : asked[h] \subseteq asked'[h]
    BY <2>1, <1>types, <1>half
  <2>4. ASSUME NEW h \in Half
        PROVE  \/ data_sector'[h] \in {flash[h], data_sector[h]}
               \/ data_sector'[h] = ImageOf(v) /\ h = "DATA"
    BY <2>2, <1>types DEF Fs!Sector, Half
  <2>5. config_crc' \in asked'["CONFIG"] \cup {NoCrc}
    BY <1>2, <2>3, <1>half DEF ChecksumsAsked
  <2>6. QED
    BY <2>1, <2>2, <2>3, <2>4, <2>5, <1>enough DEF ImageOf
<1>3. ASSUME NEW v \in Configuration, WriteConfigAsIs(v, memory), UNCHANGED data_crc
      PROVE  ChecksumsAsked'
  <2>1. UNCHANGED <<config_crc, asked>>
    BY <1>3 DEF WriteConfigAsIs
  <2>2. /\ writing = "idle" /\ flash' = flash
        /\ memory => data_sector' = [flash EXCEPT !["CONFIG"] = [value |-> v, crc |-> config_crc]]
        /\ ~memory => data_sector' = data_sector
    BY <1>3, <1>half, WriteBegins DEF WriteConfigAsIs
  <2>3. config_crc = v => v \in asked["CONFIG"]
    BY AppStoreAssumption DEF AppStoreAssumption, ChecksumsAsked
  <2>4. ASSUME NEW h \in Half
        PROVE  \/ data_sector'[h] \in {flash[h], data_sector[h]}
               \/ data_sector'[h] = [value |-> v, crc |-> config_crc] /\ h = "CONFIG"
    BY <2>2, <1>types DEF Fs!Sector, Half
  <2>5. config_crc' \in asked'["CONFIG"] \cup {NoCrc} /\ data_crc' \in asked'["DATA"] \cup {NoCrc}
    BY <1>3, <2>1 DEF ChecksumsAsked
  <2>6. QED
    BY <2>1, <2>2, <2>3, <2>4, <2>5, <1>enough
<1>4. QED
  BY <1>1, <1>2, <1>3

(* Every step keeps it that what the checksums cover was stored.             *)
LEMMA NextChecksumsAsked ==
    TypeOK /\ Fs!FsInv /\ ImagesSound /\ ChecksumsAsked /\ [Next]_vars => ChecksumsAsked'
<1> SUFFICES ASSUME TypeOK, Fs!FsInv, ImagesSound, ChecksumsAsked, [Next]_vars
             PROVE  ChecksumsAsked'
  OBVIOUS
<1>types. /\ flash \in Fs!Sector
          /\ data_sector \in Fs!Sector
          /\ asked \in [Half -> SUBSET (Configuration \cup Data)]
  BY DEF TypeOK, Fs!TypeOK
<1>half. Half = {"CONFIG", "DATA"}
  BY DEF Half, Fs!Half
<1>copy. writing = "idle" => \A h \in Half : data_sector[h] = NoImage
  BY DEF ImagesSound, CopyIsFresh, Fs!Erased, Half
<1>quiet. ASSUME UNCHANGED <<flash, data_sector, asked>>,
                 config_crc' \in {config_crc, NoCrc}, data_crc' \in {data_crc, NoCrc}
          PROVE  ChecksumsAsked'
  BY <1>quiet DEF ChecksumsAsked
<1>lost. ASSUME \A h \in Half : flash'[h] \in {flash[h], data_sector[h], NoImage},
                \A h \in Half : data_sector'[h] \in {data_sector[h], NoImage},
                UNCHANGED asked,
                config_crc' \in {config_crc, NoCrc}, data_crc' \in {data_crc, NoCrc}
         PROVE  ChecksumsAsked'
  BY <1>lost DEF ChecksumsAsked
<1>default. Default \in Configuration /\ NoData \in Data
  BY ImagesTyped, AppStoreAssumption DEF AppStoreAssumption
<1>1. CASE Boot
  <2>1. CASE PowerOn \/ Register
    BY <2>1, <1>quiet DEF PowerOn, Register, configVars, dataVars, fsVars
  <2>2. CASE LoadConfig
    <3>1. UNCHANGED <<flash, data_sector, data_crc>> /\ writing = "idle"
      BY <2>2 DEF LoadConfig, fsVars, dataVars, Idle
    <3>2. /\ config' = flash["CONFIG"].value
          /\ config_crc' = flash["CONFIG"].value
          /\ asked' = [asked EXCEPT !["CONFIG"] = {config'}]
      BY <2>2 DEF LoadConfig, Loads
    <3>3. QED
      BY <3>1, <3>2, <1>types, <1>half, <1>copy DEF ChecksumsAsked
  <2>3. CASE LoadData
    <3>1. UNCHANGED <<flash, data_sector, config_crc>> /\ writing = "idle"
      BY <2>3 DEF LoadData, fsVars, configVars, Idle
    <3>2. /\ data' = flash["DATA"].value
          /\ data_crc' = flash["DATA"].value
          /\ asked' = [asked EXCEPT !["DATA"] = {data'}]
      BY <2>3 DEF LoadData, Loads
    <3>3. QED
      BY <3>1, <3>2, <1>types, <1>half, <1>copy DEF ChecksumsAsked
  <2>4. ASSUME NEW memory \in BOOLEAN, LoadDefault(memory) PROVE ChecksumsAsked'
    BY <2>4, <1>default, StoresAsked DEF LoadDefault, dataVars
  <2>5. ASSUME NEW memory \in BOOLEAN, CheckSerial(memory) PROVE ChecksumsAsked'
    <3>1. CASE config.serial = <<>>
      BY <2>5, <3>1, ImagesTyped, StoresAsked DEF CheckSerial, dataVars, TypeOK
    <3>2. CASE config.serial # <<>>
      BY <2>5, <3>2, <1>quiet DEF CheckSerial, fsVars, configVars, dataVars
    <3>3. QED
      BY <3>1, <3>2
  <2>6. ASSUME NEW memory \in BOOLEAN, StoreSerial(memory) PROVE ChecksumsAsked'
    BY <2>6, StoresAsked DEF StoreSerial, dataVars, TypeOK
  <2>7. ASSUME NEW memory \in BOOLEAN, ResetData(memory) PROVE ChecksumsAsked'
    BY <2>7, <1>default, StoresAsked DEF ResetData, configVars
  <2>8. QED
    BY <1>1, <2>1, <2>2, <2>3, <2>4, <2>5, <2>6, <2>7 DEF Boot
<1>2. CASE Commands
  <2>1. CASE SetSettings \/ SetData
    BY <2>1, <1>quiet DEF SetSettings, SetData, fsVars, configVars, dataVars
  <2>2. CASE Reboot
    BY <2>2, <1>quiet DEF Reboot, Restart, fsVars
  <2>3. ASSUME NEW half \in Half, ClearCommand(half) PROVE ChecksumsAsked'
    BY <2>3, <1>quiet DEF ClearCommand, Fs!BeginClear, configVars, dataVars
  <2>4. ASSUME NEW memory \in BOOLEAN, SetSerial(memory) PROVE ChecksumsAsked'
    BY <2>4, ImagesTyped, StoresAsked DEF SetSerial, dataVars, TypeOK
  <2>5. ASSUME NEW memory \in BOOLEAN, SetDescr(memory) PROVE ChecksumsAsked'
    BY <2>5, ImagesTyped, StoresAsked DEF SetDescr, dataVars, TypeOK
  <2>6. ASSUME NEW memory \in BOOLEAN, StoreConfigCommand(memory) PROVE ChecksumsAsked'
    BY <2>6, StoresAsked DEF StoreConfigCommand, dataVars, TypeOK
  <2>7. ASSUME NEW memory \in BOOLEAN, StoreDataCommand(memory) PROVE ChecksumsAsked'
    BY <2>7, StoresAsked DEF StoreDataCommand, configVars, TypeOK
  <2>8. QED
    BY <1>2, <2>1, <2>2, <2>3, <2>4, <2>5, <2>6, <2>7 DEF Commands
<1>3. CASE FlashProgress
  <2>1. UNCHANGED <<asked, config_crc, data_crc>>
    BY <1>3 DEF FlashProgress, configVars, dataVars
  <2>2. /\ \A h \in Half : flash'[h] \in {flash[h], data_sector[h], NoImage}
        /\ \A h \in Half : data_sector'[h] \in {data_sector[h], NoImage}
    <3>1. CASE Fs!EraseSector \/ Fs!Clear
      BY <3>1 DEF Fs!EraseSector, Fs!Clear, Fs!Erased, Half
    <3>2. CASE Fs!ProgramConfig
      BY <3>2, <1>types, <1>half DEF Fs!ProgramConfig, Fs!Sector
    <3>3. CASE Fs!ProgramData
      BY <3>3, <1>types, <1>half DEF Fs!ProgramData, Fs!Sector, Fs!Erased, Half
    <3>4. QED
      BY <1>3, <3>1, <3>2, <3>3 DEF FlashProgress, Fs!Progress
  <2>3. QED
    BY <2>1, <2>2, <1>lost
<1>4. CASE PowerCut
  <2>1. /\ \A h \in Half : flash'[h] \in {flash[h], NoImage}
        /\ \A h \in Half : data_sector'[h] = NoImage
    BY <1>4 DEF PowerCut, Fs!PowerCut, Fs!Erased, Half
  <2>2. UNCHANGED asked /\ config_crc' = NoCrc /\ data_crc' = NoCrc
    BY <1>4 DEF PowerCut, Restart
  <2>3. QED
    BY <2>1, <2>2, <1>lost
<1>5. CASE UNCHANGED vars
  BY <1>5, <1>quiet DEF vars, fsVars, configVars, dataVars
<1>6. QED
  BY <1>1, <1>2, <1>3, <1>4, <1>5 DEF Next

-----------------------------------------------------------------------------
(* What the sector holds when the call in progress has finished. *)

(* A call of write() replaces one half of what the sector will hold, or      *)
(* nothing without memory, and leaves the driver writing or idle             *)
(* (pico-fs-io.cpp:70-89).                                                   *)
LEMMA SettledByWrite ==
    ASSUME TypeOK, NEW half \in Half, NEW image, NEW memory \in BOOLEAN,
           Write(half, image, memory)
    PROVE  /\ Settled' = IF memory THEN [Settled EXCEPT ![half] = image] ELSE Settled
           /\ writing' \notin Fs!Clearing
BY WriteBegins DEF Settled, Fs!Clearing

(* Going on with a write changes nothing of what the sector will hold; a     *)
(* power cut does only in the middle of a call (pico-fs-io.cpp:91-102).      *)
LEMMA SettledOtherwise ==
    ASSUME TypeOK, Fs!FsInv
    PROVE  /\ UNCHANGED fsVars => Settled' = Settled
           /\ \A half \in Half : Fs!BeginClear(half) => Settled' = Settled
           /\ Fs!Progress /\ writing \notin Fs!Clearing => Settled' = Settled
           /\ Fs!Progress => writing # "idle" /\ writing' \notin Fs!Clearing
           /\ Fs!PowerCut /\ Idle => Settled' = Settled
           /\ Fs!PowerCut => writing' = "idle"
<1> USE DEF Settled, Fs!Clearing
<1>types. flash \in Fs!Sector /\ data_sector \in Fs!Sector
  BY DEF TypeOK, Fs!TypeOK
<1>1. UNCHANGED fsVars => Settled' = Settled
  BY DEF fsVars
<1>2. \A half \in Half : Fs!BeginClear(half) => Settled' = Settled
  BY DEF Fs!BeginClear, Fs!ClearOf, Half, Fs!Half
<1>3. Fs!Progress /\ writing \notin Fs!Clearing => Settled' = Settled
  <2>1. Fs!EraseSector => Settled' = Settled
    BY DEF Fs!EraseSector
  <2>2. Fs!ProgramConfig => Settled' = Settled
    BY DEF Fs!ProgramConfig
  <2>3. Fs!ProgramData => Settled' = Settled
    BY <1>types DEF Fs!ProgramData, Fs!FsInv, Fs!FlashFollowsCopy, Fs!Sector, Fs!Half
  <2>4. Fs!Clear => writing \in Fs!Clearing
    BY DEF Fs!Clear
  <2>5. QED
    BY <2>1, <2>2, <2>3, <2>4 DEF Fs!Progress
<1>4. Fs!Progress => writing # "idle" /\ writing' \notin Fs!Clearing
  BY DEF Fs!Progress, Fs!EraseSector, Fs!ProgramConfig, Fs!ProgramData, Fs!Clear
<1>5. Fs!PowerCut /\ Idle => Settled' = Settled
  <2>1. ASSUME Fs!PowerCut, Idle PROVE Settled' = Settled
    <3>1. flash' = [h \in Half |-> flash[h]] /\ writing' = "idle"
      BY <2>1 DEF Fs!PowerCut, Idle, Half
    <3>2. flash' = flash
      BY <3>1, <1>types DEF Fs!Sector, Half
    <3>3. QED
      BY <2>1, <3>1, <3>2 DEF Idle
  <2>2. QED
    BY <2>1
<1>6. Fs!PowerCut => writing' = "idle"
  BY DEF Fs!PowerCut
<1>7. QED
  BY <1>1, <1>2, <1>3, <1>4, <1>5, <1>6

-----------------------------------------------------------------------------
(* The start. *)

(* Every step of app_main::init finds what the ones before have established, *)
(* and nothing else runs meanwhile (app-main.cpp:453-540).                   *)
LEMMA NextBootEstablishes ==
    TypeOK /\ Fs!FsInv /\ ImagesSound /\ BootEstablishes /\ [Next]_vars => BootEstablishes'
<1> SUFFICES ASSUME TypeOK, Fs!FsInv, ImagesSound, BootEstablishes, [Next]_vars
             PROVE  BootEstablishes'
  OBVIOUS
<1>half. "CONFIG" \in Half /\ "DATA" \in Half
  BY DEF Half, Fs!Half
<1>types. Idle => Settled = flash /\ flash \in [Half -> Image \cup {NoImage}]
  BY DEF Idle, Settled, TypeOK, Fs!TypeOK, Fs!Sector, Half
<1>idle. Idle => writing \notin Fs!Clearing
  BY DEF Idle, Fs!Clearing
<1>1. CASE Boot
  <2>1. CASE PowerOn
    <3>1. at = "off" /\ at' = "load_config" /\ UNCHANGED fsVars
      BY <2>1 DEF PowerOn
    <3>2. QED
      BY <3>1 DEF BootEstablishes, Idle, fsVars
  <2>2. CASE LoadConfig
    <3>1. /\ Idle /\ at' = "check_serial" /\ UNCHANGED fsVars
          /\ flash["CONFIG"] # NoImage /\ flash["CONFIG"].crc = flash["CONFIG"].value
          /\ config' = flash["CONFIG"].value
      BY <2>2 DEF LoadConfig, Loads
    <3>2. flash["CONFIG"] \in ConfigImage
      BY <3>1 DEF ImagesSound, HalvesTyped
    <3>3. flash["CONFIG"] = ImageOf(config')
      BY <3>1, <3>2 DEF ConfigImage, ImageOf
    <3>4. Settled' = flash /\ writing' \notin Fs!Clearing
      BY <3>1, <1>types, <1>idle, SettledOtherwise DEF fsVars
    <3>5. QED
      BY <3>1, <3>3, <3>4 DEF BootEstablishes, ImageOf
  <2>3. CASE LoadData
    <3>1. /\ Idle /\ at = "load_data" /\ at' = "register" /\ UNCHANGED <<fsVars, config>>
          /\ flash["DATA"] # NoImage /\ flash["DATA"].crc = flash["DATA"].value
          /\ data' = flash["DATA"].value
      BY <2>3 DEF LoadData, Loads, configVars
    <3>2. flash["DATA"] \in DataImage
      BY <3>1 DEF ImagesSound, HalvesTyped
    <3>3. flash["DATA"] = ImageOf(data')
      BY <3>1, <3>2 DEF DataImage, ImageOf
    <3>4. Settled = flash /\ Settled' = flash /\ writing' \notin Fs!Clearing
      BY <3>1, <1>types, <1>idle, SettledOtherwise DEF fsVars
    <3>5. QED
      BY <3>1, <3>3, <3>4 DEF BootEstablishes, ImageOf
  <2>4. CASE Register
    <3>1. at' = "run"
      BY <2>4 DEF Register
    <3>2. QED
      BY <3>1 DEF BootEstablishes
  <2>5. ASSUME NEW memory \in BOOLEAN, LoadDefault(memory) PROVE BootEstablishes'
    <3>1. /\ Write("CONFIG", ImageOf(Default), memory) /\ config' = Default
          /\ at' = IF memory THEN "check_serial" ELSE "failed"
      BY <2>5 DEF LoadDefault, StoreConfig
    <3>2. /\ Settled' = IF memory THEN [Settled EXCEPT !["CONFIG"] = ImageOf(Default)] ELSE Settled
          /\ writing' \notin Fs!Clearing
      BY <3>1, <1>half, SettledByWrite
    <3>3. memory => Settled'["CONFIG"] = ImageOf(config')
      BY <3>1, <3>2, <1>half, <1>types, WriteBegins DEF Idle
    <3>4. QED
      BY <3>1, <3>2, <3>3 DEF BootEstablishes, ImageOf
  <2>6. ASSUME NEW memory \in BOOLEAN, CheckSerial(memory) PROVE BootEstablishes'
    <3>1. CASE config.serial = <<>>
      <4>1. /\ at' = "store_serial"
            /\ config' = [config EXCEPT !.serial = Append(@, ChipSerial)]
            /\ Write("CONFIG", [value |-> config', crc |-> config_crc], memory)
        BY <2>6, <3>1 DEF CheckSerial, WriteConfigAsIs
      <4>2. config'.serial = Append(<<>>, ChipSerial)
        BY <3>1, <4>1 DEF TypeOK, Configuration
      <4>3. config'.serial # <<>>
        BY <4>2
      <4>4. writing' \notin Fs!Clearing
        BY <4>1, <1>half, SettledByWrite
      <4>5. QED
        BY <4>1, <4>3, <4>4 DEF BootEstablishes
    <3>2. CASE config.serial # <<>>
      <4>1. /\ Idle /\ at = "check_serial" /\ at' = "load_data"
            /\ UNCHANGED <<fsVars, config>>
        BY <2>6, <3>2 DEF CheckSerial, configVars
      <4>2. Settled' = Settled /\ writing' \notin Fs!Clearing
        BY <4>1, <1>idle, SettledOtherwise DEF fsVars
      <4>3. QED
        BY <3>2, <4>1, <4>2 DEF BootEstablishes, ImageOf
    <3>3. QED
      BY <3>1, <3>2
  <2>7. ASSUME NEW memory \in BOOLEAN, StoreSerial(memory) PROVE BootEstablishes'
    <3>1. /\ at = "store_serial" /\ at' = IF memory THEN "load_data" ELSE "partial"
          /\ Write("CONFIG", ImageOf(config), memory) /\ UNCHANGED config
      BY <2>7 DEF StoreSerial, StoreConfig
    <3>2. /\ Settled' = IF memory THEN [Settled EXCEPT !["CONFIG"] = ImageOf(config)] ELSE Settled
          /\ writing' \notin Fs!Clearing
      BY <3>1, <1>half, SettledByWrite
    <3>3. memory => Settled'["CONFIG"] = ImageOf(config')
      BY <3>1, <3>2, <1>half, <1>types, WriteBegins DEF Idle
    <3>4. QED
      BY <3>1, <3>2, <3>3 DEF BootEstablishes, ImageOf
  <2>8. ASSUME NEW memory \in BOOLEAN, ResetData(memory) PROVE BootEstablishes'
    <3>1. /\ at = "load_data" /\ at' = IF memory THEN "register" ELSE "partial"
          /\ Write("DATA", ImageOf(NoData), memory) /\ data' = NoData /\ UNCHANGED config
      BY <2>8 DEF ResetData, StoreData, configVars
    <3>2. /\ Settled' = IF memory THEN [Settled EXCEPT !["DATA"] = ImageOf(NoData)] ELSE Settled
          /\ writing' \notin Fs!Clearing
      BY <3>1, <1>half, SettledByWrite
    <3>3. memory => /\ Settled'["DATA"] = ImageOf(data')
                    /\ Settled'["CONFIG"] = Settled["CONFIG"]
      BY <3>1, <3>2, <1>half, <1>types, WriteBegins DEF Idle
    <3>4. QED
      BY <3>1, <3>2, <3>3 DEF BootEstablishes, ImageOf
  <2>9. QED
    BY <1>1, <2>1, <2>2, <2>3, <2>4, <2>5, <2>6, <2>7, <2>8 DEF Boot
<1>2. CASE Commands
  <2>1. CASE Reboot
    BY <2>1, <1>idle DEF BootEstablishes, Reboot, Idle, fsVars
  <2>2. ASSUME Command PROVE BootEstablishes'
    <3>1. at' \in {"run", "partial"}
      BY <2>2 DEF Command
    <3>2. QED
      BY <3>1 DEF BootEstablishes
  <2>3. QED
    BY <1>2, <2>1, <2>2 DEF Commands, SetSettings, SetData, ClearCommand, SetSerial, SetDescr,
                            StoreConfigCommand, StoreDataCommand
<1>3. CASE FlashProgress
  <2>1. Fs!Progress /\ UNCHANGED <<config, data, at>>
    BY <1>3 DEF FlashProgress, configVars, dataVars
  <2>2. at \notin {"run", "partial"} => Settled' = Settled
    BY <2>1, SettledOtherwise DEF BootEstablishes
  <2>3. writing' \notin Fs!Clearing /\ ~Idle
    BY <2>1, SettledOtherwise DEF Idle
  <2>4. QED
    BY <2>1, <2>2, <2>3 DEF BootEstablishes, ImageOf
<1>4. CASE PowerCut
  <2>1. at' = "off" /\ writing' = "idle"
    BY <1>4, SettledOtherwise DEF PowerCut
  <2>2. QED
    BY <2>1 DEF BootEstablishes, Idle, Fs!Clearing
<1>5. CASE UNCHANGED vars
  <2>1. UNCHANGED <<fsVars, config, data, at>>
    BY <1>5 DEF vars, configVars, dataVars
  <2>2. Settled' = Settled
    BY <2>1, SettledOtherwise
  <2>3. QED
    BY <2>1, <2>2 DEF BootEstablishes, fsVars, Idle, ImageOf
<1>6. QED
  BY <1>1, <1>2, <1>3, <1>4, <1>5 DEF Next

-----------------------------------------------------------------------------
(* What was stored is kept. *)

(* store() and the two setters keep the claim on both halves: the one they   *)
(* write and the one they program again (app-config.cpp:66-83, 160-194,      *)
(* app-data.cpp:64-69, pico-fs-io.cpp:83-100).                               *)
LEMMA StoresKeep ==
    ASSUME TypeOK, KeptHolds, NEW memory \in BOOLEAN
    PROVE  /\ \A v : StoreConfig(v, memory) => KeptHolds'
           /\ \A v : StoreData(v, memory) => KeptHolds'
           /\ \A v : WriteConfigAsIs(v, memory) => KeptHolds'
<1> USE DEF KeptHolds, StoredIsKept
<1>types. kept \in [Half -> SUBSET (Configuration \cup Data)]
  BY DEF TypeOK
<1>half. "CONFIG" \in Half /\ "DATA" \in Half
  BY DEF Half, Fs!Half
<1>settled. Settled \in [Half -> Image \cup {NoImage}]
  BY DEF Settled, TypeOK, Fs!TypeOK, Fs!Sector, Half
<1>1. ASSUME NEW v, StoreConfig(v, memory) PROVE KeptHolds'
  <2>1. /\ Write("CONFIG", ImageOf(v), memory)
        /\ kept' = IF memory THEN [kept EXCEPT !["CONFIG"] = {v}] ELSE kept
    BY <1>1 DEF StoreConfig, Record
  <2>2. QED
    BY <2>1, <1>types, <1>half, <1>settled, SettledByWrite DEF ImageOf
<1>2. ASSUME NEW v, StoreData(v, memory) PROVE KeptHolds'
  <2>1. /\ Write("DATA", ImageOf(v), memory)
        /\ kept' = IF memory THEN [kept EXCEPT !["DATA"] = {v}] ELSE kept
    BY <1>2 DEF StoreData, Record
  <2>2. QED
    BY <2>1, <1>types, <1>half, <1>settled, SettledByWrite DEF ImageOf
<1>3. ASSUME NEW v, WriteConfigAsIs(v, memory) PROVE KeptHolds'
  <2>1. /\ Write("CONFIG", [value |-> v, crc |-> config_crc], memory)
        /\ kept' = IF memory THEN [kept EXCEPT !["CONFIG"] = {}] ELSE kept
    BY <1>3 DEF WriteConfigAsIs
  <2>2. QED
    BY <2>1, <1>types, <1>half, <1>settled, SettledByWrite DEF ImageOf
<1>4. QED
  BY <1>1, <1>2, <1>3

(* Every step keeps the images the last stores have put there.               *)
LEMMA NextKeptHolds == TypeOK /\ Fs!FsInv /\ KeptHolds /\ [Next]_vars => KeptHolds'
<1> SUFFICES ASSUME TypeOK, Fs!FsInv, KeptHolds, [Next]_vars PROVE KeptHolds'
  OBVIOUS
<1>none. ASSUME \A h \in Half : kept'[h] = {} PROVE KeptHolds'
  BY <1>none DEF KeptHolds, StoredIsKept
<1>quiet. ASSUME UNCHANGED <<fsVars, kept>> PROVE KeptHolds'
  <2>1. UNCHANGED <<Settled, writing, kept>>
    BY <1>quiet, SettledOtherwise DEF fsVars
  <2>2. QED
    BY <2>1 DEF KeptHolds, StoredIsKept, ImageOf
<1>1. CASE Boot
  <2>1. CASE PowerOn \/ LoadConfig \/ LoadData \/ Register
    BY <2>1, <1>quiet DEF PowerOn, LoadConfig, LoadData, Register
  <2>2. ASSUME NEW memory \in BOOLEAN, LoadDefault(memory) PROVE KeptHolds'
    BY <2>2, StoresKeep DEF LoadDefault
  <2>3. ASSUME NEW memory \in BOOLEAN, CheckSerial(memory) PROVE KeptHolds'
    BY <2>3, <1>quiet, StoresKeep DEF CheckSerial
  <2>4. ASSUME NEW memory \in BOOLEAN, StoreSerial(memory) PROVE KeptHolds'
    BY <2>4, StoresKeep DEF StoreSerial
  <2>5. ASSUME NEW memory \in BOOLEAN, ResetData(memory) PROVE KeptHolds'
    BY <2>5, StoresKeep DEF ResetData
  <2>6. QED
    BY <1>1, <2>1, <2>2, <2>3, <2>4, <2>5 DEF Boot
<1>2. CASE Commands
  <2>1. CASE SetSettings \/ SetData \/ Reboot
    BY <2>1, <1>quiet DEF SetSettings, SetData, Reboot
  <2>2. ASSUME NEW half \in Half, ClearCommand(half) PROVE KeptHolds'
    BY <2>2, <1>none DEF ClearCommand
  <2>3. ASSUME NEW memory \in BOOLEAN, SetSerial(memory) PROVE KeptHolds'
    BY <2>3, StoresKeep DEF SetSerial
  <2>4. ASSUME NEW memory \in BOOLEAN, SetDescr(memory) PROVE KeptHolds'
    BY <2>4, StoresKeep DEF SetDescr
  <2>5. ASSUME NEW memory \in BOOLEAN, StoreConfigCommand(memory) PROVE KeptHolds'
    BY <2>5, StoresKeep DEF StoreConfigCommand
  <2>6. ASSUME NEW memory \in BOOLEAN, StoreDataCommand(memory) PROVE KeptHolds'
    BY <2>6, StoresKeep DEF StoreDataCommand
  <2>7. QED
    BY <1>2, <2>1, <2>2, <2>3, <2>4, <2>5, <2>6 DEF Commands
<1>3. CASE FlashProgress
  <2>1. Fs!Progress /\ UNCHANGED kept
    BY <1>3 DEF FlashProgress
  <2>2. CASE writing \in Fs!Clearing
    BY <2>1, <2>2, <1>none DEF KeptHolds
  <2>3. CASE writing \notin Fs!Clearing
    BY <2>1, <2>3, SettledOtherwise DEF KeptHolds, StoredIsKept, ImageOf
  <2>4. QED
    BY <2>2, <2>3
<1>4. CASE PowerCut
  <2>1. CASE Idle
    <3>1. Settled' = Settled /\ kept' = kept /\ writing' = "idle"
      BY <1>4, <2>1, SettledOtherwise DEF PowerCut
    <3>2. QED
      BY <3>1 DEF KeptHolds, StoredIsKept, ImageOf, Fs!Clearing
  <2>2. CASE ~Idle
    BY <1>4, <2>2, <1>none DEF PowerCut
  <2>3. QED
    BY <2>1, <2>2
<1>5. CASE UNCHANGED vars
  BY <1>5, <1>quiet DEF vars
<1>6. QED
  BY <1>1, <1>2, <1>3, <1>4, <1>5 DEF Next

-----------------------------------------------------------------------------
(* The theorems. *)

(* A device that was never started: an erased sector, constructed structures *)
(* (app-config.hpp:69-95, app-data.hpp:49-172).                              *)
LEMMA InitStoreInv == Init => StoreInv
<1> SUFFICES ASSUME Init PROVE StoreInv
  OBVIOUS
<1>erased. /\ flash = Fs!Erased /\ data_sector = Fs!Erased /\ writing = "idle"
           /\ \A h \in Half : flash[h] = NoImage /\ data_sector[h] = NoImage
  BY DEF Init, Fs!Erased, Half
<1>half. "CONFIG" \in Half /\ "DATA" \in Half
  BY DEF Half, Fs!Half
<1>1. Fs!FsInv
  <2>1. Fs!TypeOK
    BY <1>erased DEF Fs!TypeOK, Fs!Sector, Fs!Erased, Fs!Clearing
  <2>2. Fs!FlashFollowsCopy
    BY <1>erased DEF Fs!FlashFollowsCopy
  <2>3. QED
    BY <2>1, <2>2 DEF Fs!FsInv
<1>2. TypeOK
  <2>1. config \in Configuration /\ data \in Data
    BY ImagesTyped, AppStoreAssumption DEF Init, AppStoreAssumption
  <2>2. commands \in 0 .. MaxCommands
    BY AppStoreAssumption DEF Init, AppStoreAssumption
  <2>3. QED
    BY <1>1, <2>1, <2>2 DEF Init, TypeOK, Fs!FsInv
<1>3. HalvesTyped /\ DataChecksummed
  BY <1>erased, <1>half DEF HalvesTyped, DataChecksummed
<1>4. CopyIsFresh
  BY <1>erased DEF CopyIsFresh
<1>5. ChecksumsAsked
  BY <1>erased DEF Init, ChecksumsAsked
<1>6. BootEstablishes
  BY <1>erased DEF Init, BootEstablishes, Idle, Fs!Clearing
<1>7. KeptHolds
  BY DEF Init, KeptHolds, StoredIsKept
<1>8. QED
  BY <1>1, <1>2, <1>3, <1>4, <1>5, <1>6, <1>7 DEF StoreInv

(* The structures, the copy and the flash have to do with each other what    *)
(* StoreInv says, between any two steps, whatever was set and stored and     *)
(* whenever power or memory failed (app-config.cpp, app-data.cpp,            *)
(* pico-fs-io.cpp).                                                          *)
THEOREM StoreCorrect == Spec => []StoreInv
<1>1. Init => StoreInv
  BY InitStoreInv
<1>2. StoreInv /\ [Next]_vars => StoreInv'
  <2> SUFFICES ASSUME StoreInv, [Next]_vars PROVE StoreInv'
    OBVIOUS
  <2>1. /\ TypeOK /\ Fs!FsInv /\ ImagesSound
        /\ ChecksumsAsked /\ BootEstablishes /\ KeptHolds
    BY DEF StoreInv, ImagesSound
  <2>2. TypeOK' /\ Fs!FsInv' /\ ImagesSound'
    BY <2>1, NextTypeOK, NextFsInv, NextImagesSound
  <2>3. ChecksumsAsked' /\ BootEstablishes' /\ KeptHolds'
    BY <2>1, NextChecksumsAsked, NextBootEstablishes, NextKeptHolds
  <2>4. QED
    BY <2>2, <2>3 DEF StoreInv, ImagesSound
<1>3. QED
  BY <1>1, <1>2, PTL DEF Spec

(* What a start accepts was stored before, value for value.                  *)
THEOREM LoadsOnlyStored == Spec => []OnlyStoredLoads
<1>1. StoreInv => OnlyStoredLoads
  BY DEF StoreInv, ChecksumsAsked, OnlyStoredLoads, Loads
<1>2. QED
  BY <1>1, StoreCorrect, PTL

(* Neither setters, starts, stores of the other half nor power cuts between  *)
(* calls undo a store (pico-fs-io.cpp:83-100).                               *)
THEOREM KeepsStored == Spec => []StoredIsKept
<1>1. StoreInv => StoredIsKept
  BY DEF StoreInv, KeptHolds
<1>2. QED
  BY <1>1, StoreCorrect, PTL

(* Every start that comes to its end leaves a serial number and a sector     *)
(* both halves of which are accepted (app-main.cpp:453-540).                 *)
THEOREM BootRepairs == Spec => []BootLeavesSound
<1>1. StoreInv => BootLeavesSound
  BY DEF StoreInv, BootEstablishes, BootLeavesSound
<1>2. QED
  BY <1>1, StoreCorrect, PTL

(* The data half is gone or accepted, never there and refused                *)
(* (app-data.cpp:64-129).                                                    *)
THEOREM DataSound == Spec => []DataHalfSound
<1>1. StoreInv => DataHalfSound
  BY DEF StoreInv, DataChecksummed, DataHalfSound, Loads
<1>2. QED
  BY <1>1, StoreCorrect, PTL

(* The application uses the flash driver only as the driver's specification  *)
(* allows (app-config.cpp:66-83, 160-194, 292-295, app-data.cpp:64-69).      *)
THEOREM UsesFlash == Spec => Fs!Spec
<1>1. Init => Fs!Init
  BY DEF Init, Fs!Init, Fs!Sector, Fs!Erased
<1>2. StoreInv => TypeOK
  BY DEF StoreInv
<1>3. TypeOK /\ [Next]_vars => [Fs!Next]_(Fs!vars)
  BY FsComponent
<1>4. QED
  BY <1>1, <1>2, <1>3, StoreCorrect, PTL DEF Spec, Fs!Spec

(* The sector and the copy agree at every step of a write, whatever is being *)
(* started, set or stored (pico-fs-io.cpp:85-96).                            *)
THEOREM SectorSound == Spec => []SectorFollowsCopy
<1>1. StoreInv => SectorFollowsCopy
  BY DEF StoreInv, Fs!FsInv, SectorFollowsCopy
<1>2. QED
  BY <1>1, StoreCorrect, PTL

(* So what is proved of the driver alone holds in the device: a half keeps   *)
(* its image until it is written, cleared, or torn by a power cut inside an  *)
(* update (pico-fs-io.cpp:47-146).                                           *)
THEOREM HalvesKept == Spec => FlashIsDurable
<1>1. FsProofs!Spec => FsProofs!ImplementsDurableStore
  BY FsProofs!KeepsHalves
<1>2. Init => FsProofs!Init
  BY SameFs DEF Init, Fs!Init, Fs!Sector, Fs!Erased
<1>3. TypeOK /\ [Next]_vars => [FsProofs!Next]_(FsProofs!vars)
  <2>1. UNCHANGED Fs!vars => UNCHANGED FsProofs!vars
    BY DEF Fs!vars, FsProofs!vars
  <2>2. QED
    BY <2>1, FsComponent, SameFs
<1>4. StoreInv => TypeOK
  BY DEF StoreInv
<1> USE DEF FsProofs!durable, Fs!durable, FsProofs!busy, Fs!busy, FsProofs!Half, Fs!Half
<1>5. FsProofs!Durable!Init => Fs!Durable!Init
  BY DEF FsProofs!Durable!Init, Fs!Durable!Init
<1>6. FsProofs!Durable!Next => Fs!Durable!Next
  BY DEF FsProofs!Durable!Next, Fs!Durable!Next, FsProofs!Durable!Announce,
         Fs!Durable!Announce, FsProofs!Durable!Put, Fs!Durable!Put,
         FsProofs!Durable!Finish, Fs!Durable!Finish, FsProofs!Durable!Lose, Fs!Durable!Lose
<1>7. UNCHANGED FsProofs!Durable!vars => UNCHANGED Fs!Durable!vars
  BY DEF FsProofs!Durable!vars, Fs!Durable!vars
<1>8. QED
  BY <1>1, <1>2, <1>3, <1>4, <1>5, <1>6, <1>7, StoreCorrect, PTL
     DEF Spec, FsProofs!Spec, FlashIsDurable, FsProofs!ImplementsDurableStore,
         Fs!ImplementsDurableStore, FsProofs!Durable!Spec, Fs!Durable!Spec

=============================================================================
