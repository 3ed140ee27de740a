----------------------------- MODULE PicoSh1106 -----------------------------
(***************************************************************************)
(* The LCD, pico_sh1106 (hhg-driver/platform/pico/pico-sh1106.cpp), and    *)
(* the locking of app_display_handler around it.                           *)
(*                                                                         *)
(* Painting changes a frame buffer; send_buffer copies it to the panel over *)
(* the I2C bus: the column once, then for every page its address and a row *)
(* of all columns.  Any transfer may fail, with some of its bytes taken; it *)
(* is reported and not repeated.  The panel (external) keeps its page and  *)
(* counts its column on, from the last to the first.                       *)
(*                                                                         *)
(* Painting and sending exclude each other by app_display_handler::mx; the *)
(* callbacks of buttons and encoder also clean the content without it.     *)
(***************************************************************************)
EXTENDS Naturals

CONSTANTS
    Pages,      \* height, 8; page 0 stands for the header
    Columns     \* width, 132

ASSUME PicoSh1106Assumption == Pages \in 1 .. 255 /\ Columns \in 1 .. 255

VARIABLES
    frame,      \* buffer, a value for each page and column
    turned_on,
    send_at,    \* where send_buffer is
    send_page   \* i of send_buffer

VARIABLES
    panel,                  \* what the panel shows in each page and column
    panel_page, panel_col,  \* where it writes
    panel_on

VARIABLES
    send_failed,    \* history: a transfer of this send failed
    cleaned         \* history: the content was cleaned during this send

frameVars == <<frame, turned_on, send_at, send_page>>
panelVars == <<panel, panel_page, panel_col, panel_on>>
sh1106Vars == <<frameVars, panelVars, send_failed, cleaned>>

Page == 0 .. Pages - 1
Column == 0 .. Columns - 1
Blank == [p \in Page |-> [c \in Column |-> 0]]

\* The panel may have been running before the program.
Sh1106Init ==
    /\ frame \in [Page -> [Column -> {0, 1}]]
    /\ turned_on = TRUE /\ send_at = "init" /\ send_page = 0
    /\ panel \in {Blank, [p \in Page |-> [c \in Column |-> 1]]}
    /\ panel_page \in Page /\ panel_col \in Column /\ panel_on \in BOOLEAN
    /\ send_failed = FALSE /\ cleaned = FALSE

-----------------------------------------------------------------------------
(* send_buffer. *)

StartSend == send_at' = "column" /\ send_page' = 0 /\ send_failed' = FALSE /\ cleaned' = FALSE

\* init: the setup commands, clear and the first send.
InitPanel ==
    /\ send_at = "init"
    /\ frame' = Blank
    /\ panel_on' \in {TRUE, panel_on}
    /\ StartSend
    /\ UNCHANGED <<turned_on, panel, panel_page, panel_col>>

SendBuffer ==
    /\ send_at \in {"idle", "done"}
    /\ StartSend
    /\ UNCHANGED <<frame, turned_on, panelVars>>

\* A transfer of this send: done, or failed in some way.
Transfer(done, failed) ==
    \/ done /\ UNCHANGED send_failed
    \/ failed /\ send_failed' = TRUE

\* Mutated: the column is where the last row has left it.
SendColumnNot ==
    /\ send_at = "column" /\ send_at' = "page"
    /\ UNCHANGED <<frame, turned_on, send_page, panelVars, send_failed, cleaned>>

SendColumn ==
    /\ send_at = "column" /\ send_at' = "page"
    /\ Transfer(panel_col' = 0, panel_col' \in Column)
    /\ UNCHANGED <<frame, turned_on, send_page, panel, panel_page, panel_on, cleaned>>

SendPageAddress ==
    /\ send_at = "page" /\ send_at' = "row"
    /\ Transfer(panel_page' = send_page, UNCHANGED panel_page)
    /\ UNCHANGED <<frame, turned_on, send_page, panel, panel_col, panel_on, cleaned>>

\* The first n bytes of a row reach the panel.
WriteRow(n) ==
    /\ panel' = [panel EXCEPT ![panel_page] =
                    [c \in Column |->
                        LET k == (c + Columns - panel_col) % Columns
                        IN IF k < n THEN frame[send_page][k] ELSE @[c]]]
    /\ panel_col' = (panel_col + n) % Columns

SendRow ==
    /\ send_at = "row"
    /\ Transfer(WriteRow(Columns), \E n \in 0 .. Columns - 1 : WriteRow(n))
    /\ send_at' = IF send_page + 1 < Pages THEN "page" ELSE "done"
    /\ send_page' = IF send_page + 1 < Pages THEN send_page + 1 ELSE 0
    /\ UNCHANGED <<frame, turned_on, panel_page, panel_on, cleaned>>

-----------------------------------------------------------------------------
(* Painting: set_pixel and what is made of it. *)

\* paint_header, paint_str, paint_char, clean, and paint_clean in the display's thread.
Paint ==
    /\ send_at \in {"idle", "done"} /\ send_at' = "idle"
    /\ \E p \in Page, c \in Column, b \in {0, 1} : frame' = [frame EXCEPT ![p][c] = b]
    /\ UNCHANGED <<turned_on, send_page, panelVars, send_failed, cleaned>>

\* paint_clean in a callback, and no lock: also while the frame is sent.
PaintClean ==
    /\ send_at # "init"
    /\ send_at' = IF send_at = "done" THEN "idle" ELSE send_at
    /\ \E c \in Column : frame' = [p \in Page |-> IF p = 0 THEN frame[p] ELSE [frame[p] EXCEPT ![c] = 0]]
    /\ cleaned' = (send_at' # "idle")
    /\ UNCHANGED <<turned_on, send_page, panelVars, send_failed>>

\* The flag is set whether the command arrives or not.
TurnOn ==
    /\ send_at \in {"idle", "done"} /\ ~turned_on
    /\ turned_on' = TRUE
    /\ panel_on' \in {TRUE, panel_on}
    /\ UNCHANGED <<frame, send_at, send_page, panel, panel_page, panel_col, send_failed, cleaned>>

TurnOff ==
    /\ send_at \in {"idle", "done"} /\ turned_on
    /\ turned_on' = FALSE
    /\ panel_on' \in {FALSE, panel_on}
    /\ UNCHANGED <<frame, send_at, send_page, panel, panel_page, panel_col, send_failed, cleaned>>

Sh1106Next ==
    \/ InitPanel \/ SendBuffer \/ SendColumn \/ SendPageAddress \/ SendRow
    \/ Paint \/ PaintClean \/ TurnOn \/ TurnOff

Sh1106Spec == Sh1106Init /\ [][Sh1106Next]_sh1106Vars

-----------------------------------------------------------------------------
(* Properties. *)

(* After a send without a failure the panel shows the frame, whatever failed *)
(* in the sends before and wherever they left the panel's page and column;   *)
(* only where the content was cleaned during the send may it show, once      *)
(* more, what was there (pico-sh1106.cpp:134-143, 325-389;                   *)
(* app-display-handler.hpp:125-128).                                         *)
SentIsShown ==
    send_at = "done" /\ ~send_failed =>
        \A p \in Page, c \in Column :
            panel[p][c] = frame[p][c] \/ (cleaned /\ p # 0 /\ frame[p][c] = 0)
=============================================================================
