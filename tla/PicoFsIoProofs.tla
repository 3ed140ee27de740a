--------------------------- MODULE PicoFsIoProofs ---------------------------
(***************************************************************************)
(* Proofs about the flash driver, for any images, any callers and a power  *)
(* cut between any two steps.                                              *)
(***************************************************************************)
EXTENDS PicoFsIo, TLAPS

-----------------------------------------------------------------------------
(* What the flash holds while it is written. *)

(* Before the first call nothing is being written (pico-fs-io.hpp:32-45).    *)
LEMMA InitFsInv == Init => FsInv
<1> SUFFICES ASSUME Init PROVE FsInv
  OBVIOUS
<1>1. TypeOK
  BY DEF Init, TypeOK, Sector, Erased, Clearing
<1>2. FlashFollowsCopy
  BY DEF Init, FlashFollowsCopy
<1>3. QED
  BY <1>1, <1>2 DEF FsInv

(* Every step of a write, of a clear and of a power cut keeps the flash what *)
(* has been programmed of the copy so far (pico-fs-io.cpp:83-100, 139-143).  *)
LEMMA NextFsInv == FsInv /\ [Next]_vars => FsInv'
<1> SUFFICES ASSUME FsInv, [Next]_vars PROVE FsInv'
  OBVIOUS
<1> USE DEF FsInv, TypeOK, FlashFollowsCopy, Sector, Erased, Clearing
<1>1. ASSUME NEW half \in Half, NEW image \in Image, BeginWrite(half, image)
      PROVE  FsInv'
  BY <1>1 DEF BeginWrite
<1>2. ASSUME NEW half \in Half, BeginClear(half)
      PROVE  FsInv'
  BY <1>2 DEF BeginClear, ClearOf, Half
<1>3. CASE EraseSector
  BY <1>3 DEF EraseSector
<1>4. CASE ProgramConfig
  <2>1. flash' = [data_sector EXCEPT !["DATA"] = NoImage]
    BY <1>4 DEF ProgramConfig, Half
  <2>2. QED
    BY <1>4, <2>1 DEF ProgramConfig, Half
<1>5. CASE ProgramData
  BY <1>5 DEF ProgramData, Half
<1>6. CASE Clear
  BY <1>6 DEF Clear
<1>7. CASE PowerCut
  BY <1>7 DEF PowerCut
<1>8. CASE UNCHANGED vars
  BY <1>8 DEF vars
<1>9. QED
  BY <1>1, <1>2, <1>3, <1>4, <1>5, <1>6, <1>7, <1>8 DEF Next, Progress

(* At every moment of a write the flash holds exactly the part of the copy   *)
(* programmed so far, whatever is written and whenever power fails.          *)
THEOREM SectorCorrect == Spec => []FsInv
<1>1. Init => FsInv
  BY InitFsInv
<1>2. FsInv /\ [Next]_vars => FsInv'
  BY NextFsInv
<1>3. QED
  BY <1>1, <1>2, PTL DEF Spec

-----------------------------------------------------------------------------
(* The driver implements the abstract store. *)

(* The sector as found is what the abstract store starts with.               *)
LEMMA InitDurable == Init => Durable!Init
BY DEF Init, Durable!Init, durable, busy, Sector

(* A write takes effect in the abstract store when the sector is erased, and *)
(* a power cut loses exactly the halves that are not programmed again        *)
(* (pico-fs-io.cpp:85-96).                                                   *)
LEMMA NextDurable == FsInv /\ FsInv' /\ [Next]_vars => [Durable!Next]_(Durable!vars)
<1> SUFFICES ASSUME FsInv, FsInv', [Next]_vars
             PROVE  [Durable!Next]_(Durable!vars)
  OBVIOUS
<1> USE DEF FsInv, TypeOK, FlashFollowsCopy, Sector, Erased, Clearing, durable, busy
<1>1. ASSUME NEW half \in Half, NEW image \in Image, BeginWrite(half, image)
      PROVE  Durable!Announce
  BY <1>1 DEF BeginWrite, Durable!Announce
<1>2. ASSUME NEW half \in Half, BeginClear(half)
      PROVE  Durable!Announce
  BY <1>2 DEF BeginClear, ClearOf, Half, Durable!Announce
<1>3. CASE EraseSector
  <2>1. PICK half \in Half :
          /\ data_sector[half] \in Image
          /\ data_sector = [flash EXCEPT ![half] = data_sector[half]]
    BY <1>3 DEF EraseSector
  <2>2. Durable!Put(half)
    BY <1>3, <2>1 DEF EraseSector, Durable!Put
  <2>3. QED
    BY <2>1, <2>2 DEF Durable!Next
<1>4. CASE ProgramConfig
  BY <1>4 DEF ProgramConfig, Durable!vars
<1>5. CASE ProgramData
  <2>1. flash' = data_sector
    BY <1>5 DEF ProgramData, Half
  <2>2. Durable!Finish
    BY <1>5, <2>1 DEF ProgramData, Durable!Finish
  <2>3. QED
    BY <2>2 DEF Durable!Next
<1>6. CASE Clear
  <2>1. Durable!Lose(Half)
    BY <1>6 DEF Clear, Durable!Lose
  <2>2. QED
    BY <2>1 DEF Durable!Next
<1>7. CASE PowerCut
  <2>1. PICK torn \in SUBSET Half :
          /\ torn # {} => writing \in {"erase"} \cup Clearing
          /\ flash' = [h \in Half |-> IF h \in torn THEN NoImage ELSE flash[h]]
    BY <1>7 DEF PowerCut
  <2>2. data_sector' = Erased /\ writing' = "idle"
    BY <1>7 DEF PowerCut
  <2>3. CASE writing = "idle"
    BY <2>1, <2>2, <2>3 DEF Durable!vars
  <2>4. CASE writing \in {"erase"} \cup Clearing
    BY <2>1, <2>2, <2>4 DEF Durable!Lose, Durable!Next
  <2>5. CASE writing = "CONFIG"
    <3>1. Durable!Lose(Half)
      BY <2>1, <2>2, <2>5 DEF Durable!Lose
    <3>2. QED
      BY <3>1 DEF Durable!Next
  <2>6. CASE writing = "DATA"
    <3>1. Durable!Lose({"DATA"})
      BY <2>1, <2>2, <2>6 DEF Durable!Lose, Half
    <3>2. QED
      BY <3>1 DEF Durable!Next, Half
  <2>7. QED
    BY <2>3, <2>4, <2>5, <2>6
<1>8. CASE UNCHANGED vars
  BY <1>8 DEF vars, Durable!vars
<1>9. QED
  BY <1>1, <1>2, <1>3, <1>4, <1>5, <1>6, <1>7, <1>8 DEF Next, Progress, Durable!Next

(* The driver keeps its promise: a half changes only when it is put there,   *)
(* cleared, or lost to a power cut in the middle of an update; it never gets *)
(* back an older image or one of the other half (pico-fs-io.cpp:47-146).     *)
THEOREM KeepsHalves == Spec => ImplementsDurableStore
<1>1. Init => Durable!Init
  BY InitDurable
<1>2. FsInv /\ FsInv' /\ [Next]_vars => [Durable!Next]_(Durable!vars)
  BY NextDurable
<1>3. Spec => []FsInv
  BY SectorCorrect
<1>4. QED
  BY <1>1, <1>2, <1>3, PTL DEF Spec, ImplementsDurableStore, Durable!Spec

=============================================================================
