---------------------------- MODULE KeyboardLine ----------------------------
(***************************************************************************)
(* The line on which app_display_keyboard (app-display-keyboard.cpp) shows *)
(* the text that is entered, type DEFAULT.                                  *)
(*                                                                         *)
(* The callbacks of button and encoder, of higher priority, change the text *)
(* and ask for a paint; the display's thread paints only what it takes to  *)
(* have changed since the last paint: one cell, or two after a deletion,   *)
(* and the whole row only around the end of the line.  A callback may come *)
(* in the middle of a paint.  Other screens are painted over the row: the  *)
(* lock screen, and "Ready" when the menu was closed by the time-out.      *)
(***************************************************************************)
EXTENDS Naturals, Sequences

CONSTANTS
    Chars,      \* what can be typed, in the order of the encoder
    LineMax,    \* line_max_char, 16
    TextMax     \* KEYBOARD_BUFFER_SIZE - 1, 31

ASSUME KeyboardLineAssumption ==
    Chars \in Seq(STRING) /\ Len(Chars) > 0 /\ LineMax \in 5 .. 255 /\ TextMax \in LineMax .. 255

VARIABLES
    keyboard_open,
    typed,          \* keyboard_buffer, of length keyboard_position
    char_idx,       \* menu_idx
    add_char,
    overflow,       \* keyboard_buffer_overflow
    paint_asked,    \* do_paint of the menu
    painting        \* where paint is: nowhere, or the position and what to clean

VARIABLES
    line,           \* the cells of the row
    damaged         \* history: since the row was last whole, it was painted over, or
                    \* a character entered or deleted before the last was painted

keyboardVars == <<keyboard_open, typed, char_idx, add_char, overflow, paint_asked, painting>>
lineVars == <<keyboardVars, line, damaged>>

Cells == 0 .. LineMax - 1
NoChar == " "
Empty == [c \in Cells |-> NoChar]
NotPainting == [position |-> 0, mode |-> "none"]

LineInit ==
    /\ keyboard_open = FALSE /\ typed = <<>> /\ char_idx = 1
    /\ add_char = TRUE /\ overflow = FALSE
    /\ paint_asked = FALSE /\ painting = NotPainting
    /\ line = Empty /\ damaged = FALSE

-----------------------------------------------------------------------------
(* The callbacks. *)

UpToDate == ~paint_asked /\ painting = NotPainting

OpenKeyboard ==
    /\ ~keyboard_open /\ keyboard_open' = TRUE
    /\ char_idx' = 1
    /\ paint_asked' = TRUE
    /\ UNCHANGED <<typed, add_char, overflow, painting, line, damaged>>

Rotate ==
    /\ keyboard_open
    /\ char_idx' \in {(char_idx % Len(Chars)) + 1, ((char_idx + Len(Chars) - 2) % Len(Chars)) + 1}
    /\ paint_asked' = TRUE
    /\ UNCHANGED <<keyboard_open, typed, add_char, overflow, painting, line, damaged>>

\* The button, RELEASE; with the buffer full it is ignored, and painted again.
EnterChar ==
    /\ keyboard_open
    /\ paint_asked' = TRUE
    /\ IF Len(typed) < TextMax
       THEN /\ typed' = Append(typed, Chars[char_idx])
            /\ char_idx' = 1
            /\ add_char' = TRUE
            /\ damaged' = (damaged \/ ~UpToDate)
       ELSE UNCHANGED <<typed, char_idx, add_char, damaged>>
    /\ UNCHANGED <<keyboard_open, overflow, painting, line>>

\* The encoder's click.
DeleteChar ==
    /\ keyboard_open /\ typed # <<>>
    /\ typed' = SubSeq(typed, 1, Len(typed) - 1)
    /\ char_idx' = 1
    /\ add_char' = FALSE
    /\ paint_asked' = TRUE
    /\ damaged' = (damaged \/ ~UpToDate)
    /\ UNCHANGED <<keyboard_open, overflow, painting, line>>

(* exit: after a LONG_PRESS, or a click with nothing typed.  A paint that is *)
(* under way goes on behind it.                                              *)
ExitKeyboard ==
    /\ keyboard_open /\ keyboard_open' = FALSE
    /\ typed' = <<>> /\ add_char' = TRUE /\ overflow' = FALSE
    /\ line' = Empty
    /\ damaged' = (painting # NotPainting)
    /\ UNCHANGED <<char_idx, paint_asked, painting>>

-----------------------------------------------------------------------------
(* paint, in the display's thread: up to its tests, and after them. *)

PaintStart ==
    /\ painting = NotPainting /\ paint_asked /\ paint_asked' = FALSE
    /\ keyboard_open
    /\ painting' = [position |-> Len(typed),
                    mode |-> IF Len(typed) >= LineMax - 1 THEN "tail"
                             ELSE IF overflow THEN "whole"
                             ELSE IF add_char THEN "cell" ELSE "two_cells"]
    /\ overflow' = (overflow \/ painting'.mode = "tail")
    /\ UNCHANGED <<keyboard_open, typed, char_idx, add_char, line, damaged>>

Char(i) == IF i < Len(typed) THEN typed[i + 1] ELSE NoChar

\* Mutated: a deletion cleans only the cell it paints.
CleanedOne(mode, at) ==
    CASE mode = "cell" -> line
      [] mode = "two_cells" -> [line EXCEPT ![at] = NoChar]
      [] mode = "whole" -> [c \in Cells |-> Char(c)]
      [] mode = "tail" -> [c \in Cells |-> IF c \in 3 .. LineMax - 2
                                           THEN Char(c + at - (LineMax - 1)) ELSE NoChar]

\* The row as paint prepares it for the current character.
Cleaned(mode, at) ==
    CASE mode = "cell" -> line
      [] mode = "two_cells" -> [line EXCEPT ![at] = NoChar, ![at + 1] = NoChar]
      [] mode = "whole" -> [c \in Cells |-> Char(c)]
      [] mode = "tail" -> [c \in Cells |-> IF c \in 3 .. LineMax - 2
                                           THEN Char(c + at - (LineMax - 1)) ELSE NoChar]

\* It makes the row whole if it paints all of it and nothing came in between.
PaintEnd ==
    LET mode == painting.mode
        at == painting.position
        cell == IF mode = "tail" THEN LineMax - 1 ELSE at
    IN /\ painting # NotPainting /\ painting' = NotPainting
       /\ line' = [Cleaned(mode, at) EXCEPT ![cell] = Chars[char_idx]]
       /\ add_char' = (add_char \/ mode \in {"whole", "two_cells"})
       /\ overflow' = (overflow /\ mode = "tail")
       /\ damaged' = (damaged /\ (mode \in {"cell", "two_cells"} \/ paint_asked
                                  \/ ~keyboard_open))
       /\ UNCHANGED <<keyboard_open, typed, char_idx, paint_asked>>

(* Another screen is painted, the row left empty or with its text, and the   *)
(* menu shown again: after on_logout, which asks for a paint, or when the    *)
(* menu is opened again.                                                     *)
OtherScreen ==
    /\ painting = NotPainting
    /\ \E t \in {NoChar, "from UART"} : line' = [c \in Cells |-> t]
    /\ damaged' = TRUE
    /\ paint_asked' = TRUE
    /\ UNCHANGED <<keyboard_open, typed, char_idx, add_char, overflow, painting>>

LineNext ==
    \/ OpenKeyboard \/ Rotate \/ EnterChar \/ DeleteChar \/ ExitKeyboard
    \/ PaintStart \/ PaintEnd \/ OtherScreen

LineSpec == LineInit /\ [][LineNext]_lineVars

-----------------------------------------------------------------------------
(* Properties. *)

Expected ==
    [Cleaned(IF Len(typed) >= LineMax - 1 THEN "tail" ELSE "whole", Len(typed))
        EXCEPT ![IF Len(typed) >= LineMax - 1 THEN LineMax - 1 ELSE Len(typed)] = Chars[char_idx]]

(* When nothing is left to paint, the row shows the text, or its end, and    *)
(* the character that is about to be entered, and nothing else, although     *)
(* only cells are painted; unless another screen was painted over it or a    *)
(* character was entered or deleted before the one before it was painted     *)
(* (app-display-keyboard.cpp:192-250).                                       *)
LineShowsText ==
    keyboard_open /\ UpToDate /\ ~damaged => line = Expected
=============================================================================
