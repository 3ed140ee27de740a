------------------------------ MODULE AppStore ------------------------------
(***************************************************************************)
(* The configuration and the irrigation data: app-config.cpp,              *)
(* app-data.cpp, the part of app_main::init that loads them, and the       *)
(* commands of app-parser-commands.cpp that change and store them, over    *)
(* the flash driver of PicoFsIo.                                           *)
(*                                                                         *)
(* Each part is one structure in memory that ends in a checksum.  Setters  *)
(* change the structure; store() computes the checksum in place and writes *)
(* the structure; load() accepts what it reads only when the checksum      *)
(* covers it.  A checksum is modelled by what it was computed over.        *)
(*                                                                         *)
(* init runs in the main thread, at the highest priority and without       *)
(* blocking, before any command finds the structures registered; the       *)
(* commands, those of the display too, all run in the parser's thread.     *)
(* So the calls follow one another; what comes in between is the power,    *)
(* which can fail at any moment, and memory, which can be short at any     *)
(* allocation.                                                             *)
(***************************************************************************)
EXTENDS Naturals, Sequences

CONSTANTS
    Text,             \* what set_serial and set_descr append
    ChipSerial,       \* hardware::get_serial()
    Settings,         \* values of everything else in the configuration
    DefaultSettings,  \* those of load_default: users, no network
    Data,             \* values of the irrigation data
    NoData,           \* a reset one
    NoCrc,            \* the checksum of a structure never stored: MAGIC
    NoImage,
    MaxPieces,        \* bound: texts appended to one string
    MaxCommands       \* bound: commands given

Configuration == [serial : Seq(Text), descr : Seq(Text), settings : Settings]
Default == [serial |-> <<>>, descr |-> <<>>, settings |-> DefaultSettings]

ConfigImage == [value : Configuration, crc : Configuration \cup {NoCrc}]
DataImage == [value : Data, crc : Data \cup {NoCrc}]
Image == ConfigImage \cup DataImage

\* The image store() writes of a value.
ImageOf(value) == [value |-> value, crc |-> value]

ASSUME AppStoreAssumption ==
    /\ ChipSerial \in Text
    /\ DefaultSettings \in Settings
    /\ NoData \in Data
    /\ NoCrc \notin Configuration
    /\ NoCrc \notin Data
    /\ NoImage \notin ConfigImage
    /\ NoImage \notin DataImage
    /\ MaxPieces \in Nat
    /\ MaxCommands \in Nat

VARIABLES
    flash, data_sector, writing,   \* the flash driver's
    config, config_crc,            \* app_config::config
    data, data_crc,                \* app_data::data
    at,                            \* the step of init, then "run"; "failed", or
                                   \* "partial" after set_app_config
    asked,                         \* history: values store() was called with
    kept,                          \* history: {v} when the last that happened to
                                   \* a half is a store of v that met no power cut
    commands                       \* commands given so far

fsVars == <<flash, data_sector, writing>>
configVars == <<config, config_crc>>
dataVars == <<data, data_crc>>
vars == <<fsVars, configVars, dataVars, at, asked, kept, commands>>

Fs == INSTANCE PicoFsIo
Half == Fs!Half

Init ==
    /\ flash = Fs!Erased
    /\ data_sector = Fs!Erased
    /\ writing = "idle"
    /\ config = Default
    /\ config_crc = NoCrc
    /\ data = NoData
    /\ data_crc = NoCrc
    /\ at = "off"
    /\ asked = [h \in Half |-> {}]
    /\ kept = [h \in Half |-> {}]
    /\ commands = 0

-----------------------------------------------------------------------------
(* The calls of app_config and app_data that reach the flash.  "memory"     *)
(* says whether the driver gets its copy of the sector.                     *)

Idle == writing = "idle"

Write(half, image, memory) ==
    IF memory THEN Fs!BeginWrite(half, image) ELSE Idle /\ UNCHANGED fsVars

Record(half, value, memory) ==
    /\ asked' = [asked EXCEPT ![half] = @ \cup {value}]
    /\ kept' = IF memory THEN [kept EXCEPT ![half] = {value}] ELSE kept

StoreConfig(value, memory) ==
    /\ config_crc' = value
    /\ Write("CONFIG", ImageOf(value), memory)
    /\ Record("CONFIG", value, memory)

StoreData(value, memory) ==
    /\ data_crc' = value
    /\ Write("DATA", ImageOf(value), memory)
    /\ Record("DATA", value, memory)

\* set_serial and set_descr: the structure goes to the flash with the
\* checksum it had before the change.
WriteConfigAsIs(value, memory) ==
    /\ config' = value
    /\ Write("CONFIG", [value |-> value, crc |-> config_crc], memory)
    /\ kept' = IF memory THEN [kept EXCEPT !["CONFIG"] = {}] ELSE kept
    /\ UNCHANGED <<config_crc, asked>>

Loads(half) == flash[half] # NoImage /\ flash[half].crc = flash[half].value

-----------------------------------------------------------------------------
(* app_main::init. *)

PowerOn ==
    /\ at = "off"
    /\ at' = "load_config"
    /\ UNCHANGED <<fsVars, configVars, dataVars, asked, kept, commands>>

LoadConfig ==
    /\ at = "load_config" /\ Idle
    /\ Loads("CONFIG")
    /\ config' = flash["CONFIG"].value
    /\ config_crc' = flash["CONFIG"].crc
    /\ asked' = [asked EXCEPT !["CONFIG"] = {config'}]
    /\ at' = "check_serial"
    /\ UNCHANGED <<fsVars, dataVars, kept, commands>>

\* load() refuses what it reads, or has no memory to read it to.
LoadDefault(memory) ==
    /\ at = "load_config" /\ Idle
    /\ config' = Default
    /\ StoreConfig(Default, memory)
    /\ at' = IF memory THEN "check_serial" ELSE "failed"
    /\ UNCHANGED <<dataVars, commands>>

\* The result of set_serial is not looked at.
CheckSerial(memory) ==
    /\ at = "check_serial" /\ Idle
    /\ IF config.serial = <<>>
       THEN /\ WriteConfigAsIs([config EXCEPT !.serial = Append(@, ChipSerial)], memory)
            /\ at' = "store_serial"
       ELSE /\ at' = "load_data"
            /\ UNCHANGED <<fsVars, configVars, asked, kept>>
    /\ UNCHANGED <<dataVars, commands>>

\* Mutated: set_serial is trusted to have stored the configuration.
TrustSetSerial(memory) ==
    /\ at = "store_serial" /\ Idle
    /\ at' = "load_data"
    /\ UNCHANGED <<fsVars, configVars, dataVars, asked, kept, commands>>

StoreSerial(memory) ==
    /\ at = "store_serial" /\ Idle
    /\ StoreConfig(config, memory)
    /\ at' = IF memory THEN "load_data" ELSE "partial"
    /\ UNCHANGED <<config, dataVars, commands>>

LoadData ==
    /\ at = "load_data" /\ Idle
    /\ Loads("DATA")
    /\ data' = flash["DATA"].value
    /\ data_crc' = flash["DATA"].crc
    /\ asked' = [asked EXCEPT !["DATA"] = {data'}]
    /\ at' = "register"
    /\ UNCHANGED <<fsVars, configVars, kept, commands>>

ResetData(memory) ==
    /\ at = "load_data" /\ Idle
    /\ data' = NoData
    /\ StoreData(NoData, memory)
    /\ at' = IF memory THEN "register" ELSE "partial"
    /\ UNCHANGED <<configVars, commands>>

\* set_app_data has registered the commands of the data too.
Register ==
    /\ at = "register" /\ Idle
    /\ at' = "run"
    /\ UNCHANGED <<fsVars, configVars, dataVars, asked, kept, commands>>

Boot ==
    \/ PowerOn \/ LoadConfig \/ LoadData \/ Register
    \/ \E memory \in BOOLEAN :
        LoadDefault(memory) \/ CheckSerial(memory) \/ StoreSerial(memory) \/ ResetData(memory)

-----------------------------------------------------------------------------
(* The commands of the parser's thread.  Those of the configuration are      *)
(* registered before the serial number and the data are seen to.             *)

Command ==
    /\ at \in {"run", "partial"} /\ Idle
    /\ commands < MaxCommands
    /\ commands' = commands + 1
    /\ UNCHANGED at

\* A text is appended, an empty one too; no text at all empties the string.
Amended(string) ==
    {string, <<>>} \cup
        (IF Len(string) < MaxPieces THEN {Append(string, text) : text \in Text} ELSE {})

\* $CONF 2.
SetSerial(memory) ==
    /\ Command
    /\ \E serial \in Amended(config.serial) :
        WriteConfigAsIs([config EXCEPT !.serial = serial], memory)
    /\ UNCHANGED dataVars

\* Mutated: set_descr publishes what else was set, checksum and all.
SetDescrWithCrc(memory) ==
    /\ Command
    /\ \E descr \in Amended(config.descr) : config' = [config EXCEPT !.descr = descr]
    /\ config_crc' = config'
    /\ Write("CONFIG", ImageOf(config'), memory)
    /\ UNCHANGED <<dataVars, asked, kept>>

\* $CONF 4.
SetDescr(memory) ==
    /\ Command
    /\ \E descr \in Amended(config.descr) :
        WriteConfigAsIs([config EXCEPT !.descr = descr], memory)
    /\ UNCHANGED dataVars

\* $CONF 6 to 16, except the ones above: the structure in memory only.
SetSettings ==
    /\ Command
    /\ \E settings \in Settings : config' = [config EXCEPT !.settings = settings]
    /\ UNCHANGED <<fsVars, config_crc, dataVars, asked, kept>>

StoreConfigCommand(memory) ==
    /\ Command
    /\ StoreConfig(config, memory)
    /\ UNCHANGED <<config, dataVars>>

\* $DATA 2 and 4.
SetData ==
    /\ Command /\ at = "run"
    /\ data' \in Data
    /\ UNCHANGED <<fsVars, configVars, data_crc, asked, kept>>

StoreDataCommand(memory) ==
    /\ Command /\ at = "run"
    /\ StoreData(data, memory)
    /\ UNCHANGED <<configVars, data>>

\* $CONF CLEAR and $DATA CLEAR: the flash, not the structure in memory.
ClearCommand(half) ==
    /\ Command
    /\ half = "DATA" => at = "run"
    /\ Fs!BeginClear(half)
    /\ kept' = [h \in Half |-> {}]
    /\ UNCHANGED <<configVars, dataVars, asked>>

\* What memory holds is gone and constructed again.
Restart ==
    /\ config' = Default
    /\ config_crc' = NoCrc
    /\ data' = NoData
    /\ data_crc' = NoCrc
    /\ UNCHANGED <<asked, commands>>

\* $REB.
Reboot ==
    /\ at \in {"run", "partial", "failed"} /\ Idle
    /\ at' = "load_config"
    /\ Restart
    /\ UNCHANGED <<fsVars, kept>>

Commands ==
    \/ SetSettings \/ SetData \/ Reboot
    \/ \E half \in Half : ClearCommand(half)
    \/ \E memory \in BOOLEAN :
        SetSerial(memory) \/ SetDescr(memory)
            \/ StoreConfigCommand(memory) \/ StoreDataCommand(memory)

-----------------------------------------------------------------------------

FlashProgress ==
    /\ Fs!Progress
    /\ UNCHANGED <<configVars, dataVars, at, asked, kept, commands>>

PowerCut ==
    /\ at # "off"
    /\ Fs!PowerCut
    /\ at' = "off"
    /\ kept' = IF Idle THEN kept ELSE [h \in Half |-> {}]
    /\ Restart

Next == Boot \/ Commands \/ FlashProgress \/ PowerCut

Spec == Init /\ [][Next]_vars

-----------------------------------------------------------------------------
(* Properties. *)

TypeOK ==
    /\ Fs!TypeOK
    /\ config \in Configuration
    /\ config_crc \in Configuration \cup {NoCrc}
    /\ data \in Data
    /\ data_crc \in Data \cup {NoCrc}
    /\ at \in {"off", "load_config", "check_serial", "store_serial", "load_data",
               "register", "run", "partial", "failed"}
    /\ asked \in [Half -> SUBSET (Configuration \cup Data)]
    /\ kept \in [Half -> SUBSET (Configuration \cup Data)]
    /\ commands \in 0 .. MaxCommands

(* Nothing becomes durable that was not stored: what the next start would    *)
(* accept is a value store() was called with, though set_serial and          *)
(* set_descr write the structure with everything else that was set since     *)
(* (app-config.cpp:66-83, 160-177, 189-252).                                 *)
OnlyStoredLoads ==
    \A h \in Half : Loads(h) => flash[h].value \in asked[h]

\* The sector as it will be when the call in progress has finished.
Settled == IF writing \in {"erase", "CONFIG", "DATA"} THEN data_sector ELSE flash

(* What was stored is kept: setters, starts and power cuts while nothing is  *)
(* written, and stores of the other half, each of which erases both, leave   *)
(* the stored image where it is (pico-fs-io.cpp:83-100).                     *)
StoredIsKept ==
    \A h \in Half : \A v \in kept[h] : Settled[h] = ImageOf(v)

(* However the last run ended, the start ends with a device that knows its   *)
(* serial number and a sector whose halves both are accepted and hold what   *)
(* is in memory (app-main.cpp:453-540).                                      *)
BootLeavesSound ==
    at = "register" =>
        /\ config.serial # <<>>
        /\ Settled["CONFIG"] = ImageOf(config)
        /\ Settled["DATA"] = ImageOf(data)

(* The data half is either gone or accepted: every way of writing it         *)
(* computes the checksum first (app-data.cpp:64-69).                         *)
DataHalfSound ==
    flash["DATA"] # NoImage => Loads("DATA")

-----------------------------------------------------------------------------
(* The inductive invariant. *)

\* Each half holds images of its own kind, in the flash and in the copy.
HalvesTyped ==
    \A sector \in {flash, data_sector} :
        /\ sector["CONFIG"] \in ConfigImage \cup {NoImage}
        /\ sector["DATA"] \in DataImage \cup {NoImage}

\* The copy of the sector lives as long as the write.
CopyIsFresh ==
    writing \notin {"erase", "CONFIG", "DATA"} => data_sector = Fs!Erased

\* A checksum that covers its value, in the flash or in the copy, and every
\* checksum in memory, come from a store.
ChecksumsAsked ==
    /\ \A h \in Half : \A sector \in {flash, data_sector} :
           sector[h] # NoImage /\ sector[h].crc = sector[h].value => sector[h].value \in asked[h]
    /\ config_crc \in asked["CONFIG"] \cup {NoCrc}
    /\ data_crc \in asked["DATA"] \cup {NoCrc}

\* The data's images are written by store() only.
DataChecksummed ==
    \A sector \in {flash, data_sector} :
        sector["DATA"] # NoImage => sector["DATA"].crc = sector["DATA"].value

\* What each step of init has established.
BootEstablishes ==
    /\ at \in {"off", "load_config"} => Idle
    /\ at \notin {"run", "partial"} => writing \notin Fs!Clearing
    /\ at \in {"store_serial", "load_data", "register"} => config.serial # <<>>
    /\ at \in {"check_serial", "load_data", "register"} =>
           Settled["CONFIG"] = ImageOf(config)
    /\ at = "register" => Settled["DATA"] = ImageOf(data)

KeptHolds ==
    /\ StoredIsKept
    /\ writing \in Fs!Clearing => \A h \in Half : kept[h] = {}

(* Everything above together: what the flash, the copy and the structures    *)
(* in memory have to do with each other between any two steps                *)
(* (pico-fs-io.cpp:83-100, app-config.cpp:189-252, app-data.cpp:64-129).     *)
StoreInv ==
    /\ TypeOK
    /\ Fs!FsInv
    /\ HalvesTyped
    /\ CopyIsFresh
    /\ ChecksumsAsked
    /\ DataChecksummed
    /\ BootEstablishes
    /\ KeptHolds

(* At every step of a write the flash holds what has been programmed of the  *)
(* copy, and the copy differs from the sector in one half only               *)
(* (pico-fs-io.cpp:85-96).                                                   *)
SectorFollowsCopy == Fs!FlashFollowsCopy

(* Under the start and the commands, too, the flash is what the driver       *)
(* promises (pico-fs-io.cpp:47-146).                                         *)
FlashIsDurable == Fs!ImplementsDurableStore

-----------------------------------------------------------------------------
(* Properties the code does not have. *)

(* The command described as "Set description" (app-parser-commands.cpp:113), *)
(* and "Set serial" likewise, leaves a configuration that is there at the    *)
(* next start.  It does not: app-config.cpp:168 writes the structure with    *)
(* the checksum of before the change, and the next load refuses all of it.   *)
ConfigHalfSound ==
    at = "run" /\ flash["CONFIG"] # NoImage => Loads("CONFIG")

(* The command described as "Clear all zone" (app-parser-commands.cpp:273)   *)
(* clears the zones and nothing else.  It does not: the erased sector is     *)
(* also the configuration's, and the configuration stored there is lost.     *)
ClearKeepsConfig ==
    [][writing = "clear_data" /\ writing' = "idle" /\ at' = "run"
        => flash'["CONFIG"] = flash["CONFIG"]]_vars

=============================================================================
