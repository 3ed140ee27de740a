---------------------------- MODULE DurableStore ----------------------------
(***************************************************************************)
(* What the flash driver promises to the parts that keep something in it:  *)
(* each half holds the image that was last put there.  An update is        *)
(* announced first; while it is under way the power may fail or the        *)
(* update may be an erasure, and then any halves may be lost.  A half is   *)
(* never replaced by an older image or by the other half's.                *)
(***************************************************************************)

CONSTANTS
    Half,     \* the parts of the store
    Image,    \* what may be kept in a part
    NoImage   \* what is left of a part that was erased or torn

VARIABLES
    durable,  \* the image of each half
    busy      \* an update is under way

vars == <<durable, busy>>

Init ==
    /\ durable \in [Half -> Image \cup {NoImage}]
    /\ busy = FALSE

Announce ==
    /\ ~busy
    /\ busy' = TRUE
    /\ UNCHANGED durable

Put(h) ==
    /\ busy
    /\ durable'[h] \in Image
    /\ durable' = [durable EXCEPT ![h] = durable'[h]]
    /\ UNCHANGED busy

Finish ==
    /\ busy
    /\ busy' = FALSE
    /\ UNCHANGED durable

\* The power fails in the middle of an update, or the update erases.
Lose(lost) ==
    /\ busy
    /\ busy' = FALSE
    /\ durable' = [h \in Half |-> IF h \in lost THEN NoImage ELSE durable[h]]

Next ==
    \/ Announce
    \/ \E h \in Half : Put(h)
    \/ Finish
    \/ \E lost \in SUBSET Half : Lose(lost)

Spec == Init /\ [][Next]_vars

=============================================================================
