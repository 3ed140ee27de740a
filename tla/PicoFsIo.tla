------------------------------ MODULE PicoFsIo ------------------------------
(***************************************************************************)
(* The flash driver, hhg-driver/platform/pico/pico-fs-io.cpp.              *)
(*                                                                         *)
(* Configuration and data share the last sector of the flash, a half each. *)
(* The flash can only be erased by whole sectors, so write() copies the    *)
(* sector to memory, replaces one half there, erases the sector and        *)
(* programs it again page by page, the configuration's pages first.        *)
(* Interrupts are off from the copy to the last page and there is one core *)
(* (configNUMBER_OF_CORES is 1): no other thread runs between these steps, *)
(* but the power can fail between any two.                                 *)
(*                                                                         *)
(* The pages of a half are one step: a half of which a page is missing     *)
(* fails its checksum like an erased one, and is NoImage as well.          *)
(***************************************************************************)

CONSTANTS
    Image,    \* what may be written to a half
    NoImage   \* an erased half, or what an interrupted operation left of it

VARIABLES
    flash,        \* what each half of the sector holds
    data_sector,  \* write()'s copy of the sector
    writing       \* where the call in progress is, "idle" when there is none

vars == <<flash, data_sector, writing>>

Half == {"CONFIG", "DATA"}
Sector == [Half -> Image \cup {NoImage}]
Erased == [h \in Half |-> NoImage]
ClearOf == [h \in Half |-> IF h = "CONFIG" THEN "clear_config" ELSE "clear_data"]
Clearing == {"clear_config", "clear_data"}

TypeOK ==
    /\ flash \in Sector
    /\ data_sector \in Sector
    /\ writing \in {"idle", "erase", "CONFIG", "DATA"} \cup Clearing

\* The sector as the factory or an earlier run left it.
Init ==
    /\ flash \in Sector
    /\ data_sector = Erased
    /\ writing = "idle"

-----------------------------------------------------------------------------
(* write(type, data): the copy in memory, then erase, then program. *)

\* Mutated: the copy starts from an erased sector, as the memset before it.
BeginWriteWithoutCopy(half, image) ==
    /\ writing = "idle"
    /\ data_sector' = [Erased EXCEPT ![half] = image]
    /\ writing' = "erase"
    /\ UNCHANGED flash

BeginWrite(half, image) ==
    /\ writing = "idle"
    /\ data_sector' = [flash EXCEPT ![half] = image]
    /\ writing' = "erase"
    /\ UNCHANGED flash

\* Mutated: the pages are programmed over what is there.
SkipErase ==
    /\ writing = "erase"
    /\ writing' = "CONFIG"
    /\ UNCHANGED <<flash, data_sector>>

EraseSector ==
    /\ writing = "erase"
    /\ flash' = Erased
    /\ writing' = "CONFIG"
    /\ UNCHANGED data_sector

ProgramConfig ==
    /\ writing = "CONFIG"
    /\ flash' = [flash EXCEPT !["CONFIG"] = data_sector["CONFIG"]]
    /\ writing' = "DATA"
    /\ UNCHANGED data_sector

ProgramData ==
    /\ writing = "DATA"
    /\ flash' = [flash EXCEPT !["DATA"] = data_sector["DATA"]]
    /\ data_sector' = Erased
    /\ writing' = "idle"

\* clear(type) asks for half a sector from the half's offset; the boot ROM
\* steps by sectors, and the sector that contains the offset is erased.
BeginClear(half) ==
    /\ writing = "idle"
    /\ writing' = ClearOf[half]
    /\ UNCHANGED <<flash, data_sector>>

Clear ==
    /\ writing \in Clearing
    /\ flash' = Erased
    /\ writing' = "idle"
    /\ UNCHANGED data_sector

\* Power fails: an erasure under way has reached any cells it could.
PowerCut ==
    /\ \E torn \in SUBSET Half :
        /\ torn # {} => writing \in {"erase"} \cup Clearing
        /\ flash' = [h \in Half |-> IF h \in torn THEN NoImage ELSE flash[h]]
    /\ data_sector' = Erased
    /\ writing' = "idle"

Progress == EraseSector \/ ProgramConfig \/ ProgramData \/ Clear

Next ==
    \/ \E half \in Half, image \in Image : BeginWrite(half, image)
    \/ \E half \in Half : BeginClear(half)
    \/ Progress
    \/ PowerCut

Spec == Init /\ [][Next]_vars

-----------------------------------------------------------------------------
(* Properties. *)

(* The copy differs from the sector in the half that is written, and while   *)
(* the sector is programmed it holds of the copy exactly what has been       *)
(* programmed so far (pico-fs-io.cpp:85-96).                                 *)
FlashFollowsCopy ==
    /\ writing = "erase" =>
           \E half \in Half :
               /\ data_sector[half] \in Image
               /\ data_sector = [flash EXCEPT ![half] = data_sector[half]]
    /\ writing = "CONFIG" => flash = Erased
    /\ writing = "DATA" => flash = [data_sector EXCEPT !["DATA"] = NoImage]

FsInv == TypeOK /\ FlashFollowsCopy

\* From the moment the sector is erased, its contents are those of the copy.
durable == IF writing \in {"CONFIG", "DATA"} THEN data_sector ELSE flash
busy == writing # "idle"

Durable == INSTANCE DurableStore

(* A half changes only when it is written, cleared or torn by a power cut    *)
(* in the middle of an update; writing one half gives the other its own      *)
(* image back (pico-fs-io.cpp:85-96).                                        *)
ImplementsDurableStore == Durable!Spec

=============================================================================
