--------------------------- MODULE AppDisplayPaint ---------------------------
(***************************************************************************)
(* Where text is painted: app_display_handler::paint_str and paint_header  *)
(* (hhg-app/src/app-display-handler.cpp:129-238), set_str, set_char and    *)
(* set_pixel of the LCD (pico-sh1106.cpp:109-131, 183-256), and the two    *)
(* fonts.  Only the columns are followed, and what a glyph looks like is   *)
(* left out.                                                               *)
(*                                                                         *)
(* Widths are kept in a uint8_t, columns in a uint16_t; what is computed   *)
(* beyond them wraps, and pixels outside of the LCD are dropped.           *)
(***************************************************************************)
EXTENDS Integers, FiniteSetsExt

CONSTANTS
    LcdWidth,   \* get_size().first, 132
    Texts       \* bound: the fonts, lengths, alignments and offsets of texts

VARIABLE text_painted   \* what the last paint was asked for, and the columns it reached

paintVars == <<text_painted>>

FirstChar == 32     \* ASCII_TABLE_START_AT_IDX

\* The first two bytes of a table are the width and height of its glyphs.
Font5x8 == [width |-> 5, height |-> 8, size |-> 2 + 5 * 224]
Font8x8 == [width |-> 8, height |-> 8, size |-> 2 + 8 * 224]
FontOf(font) == IF font = "F5X8" THEN Font5x8 ELSE Font8x8

\* get_font_range.
FontRange(font) ==
    FirstChar .. ((FontOf(font).size - 2) \div FontOf(font).width) - 1 + FirstChar

Alignments == {"LEFT", "CENTER", "RIGHT"}

ASSUME AppDisplayPaintAssumption ==
    /\ LcdWidth \in 1 .. 255
    /\ Texts \subseteq [font : {"F5X8", "F8X8"}, length : 1 .. 255, valign : Alignments,
                        offset : 0 .. 255]

NothingPainted == [what |-> "none", columns |-> {}, bytes |-> {}]

-----------------------------------------------------------------------------
\* The conversions to uint8_t and uint16_t.
U8(n) == n % 256
U16(n) == n % 65536

\* set_pixel drops what is not on the LCD.
OnLcd(xs) == {U16(x) : x \in xs} \cap 0 .. LcdWidth - 1

Rows(font) == (font.height \div 8) + (IF font.height % 8 # 0 THEN 1 ELSE 0)

\* set_char: the columns of a glyph, and the bytes of the table it is read from.
CharColumns(x, font) == OnLcd({x + w : w \in 0 .. font.width - 1})
CharBytes(c, font) ==
    LET single == font.width * Rows(font)
    IN {(c - FirstChar) * single + 2 + idx : idx \in 0 .. U8(single) - 1}

\* set_str.
StrColumns(x, length, font) ==
    UNION {CharColumns(x + font.width * i, font) : i \in 0 .. length - 1}

\* Mutated: the width is a signed byte.
TextWidthSigned(length, font) ==
    LET w == U8(font.width * length) IN IF w > 127 THEN w - 256 ELSE w

TextWidth(length, font) == U8(font.width * length)

\* Division in C rounds towards zero.
Halved(n) == IF n >= 0 THEN n \div 2 ELSE -((-n) \div 2)

TextLeft(valign, width) ==
    CASE valign = "LEFT" -> 0
      [] valign = "CENTER" -> U16(Halved(LcdWidth - width))
      [] valign = "RIGHT" -> U16(LcdWidth - width - 2)

\* The first and the last character of app_display_keyboard, its font_limit.
KeyboardLimits == {Min(FontRange("F5X8")), Max(FontRange("F5X8"))}

\* paint_str.  Bound: one paint in a behaviour; none depends on another.
PaintStr ==
    /\ text_painted = NothingPainted
    /\ \E t \in Texts, c \in KeyboardLimits :
        LET font == FontOf(t.font)
        IN text_painted' =
              [what |-> "text", text |-> t,
               columns |-> StrColumns(TextLeft(t.valign, TextWidth(t.length, font)) + t.offset,
                                      t.length, font),
               bytes |-> {Min(CharBytes(c, font)), Max(CharBytes(c, font))}]

Date == 17      \* the length of FORMAT, "%Y/%m/%d  %H:%M", filled in

\* paint_header: the symbol of the network, and the time if it is known.
PaintHeader ==
    /\ text_painted = NothingPainted
    /\ \E known \in BOOLEAN :
        text_painted' =
            [what |-> "header",
             columns |-> IF known THEN StrColumns(LcdWidth - Date * 5 - 5, Date, Font5x8) ELSE {},
             symbol |-> OnLcd({3 + w : w \in 0 .. 11})]

PaintInit == text_painted = NothingPainted
PaintNext == PaintStr \/ PaintHeader
PaintSpec == PaintInit /\ [][PaintNext]_paintVars

-----------------------------------------------------------------------------
(* Properties. *)

Wide(t) == FontOf(t.font).width * t.length

\* What an unbounded arithmetic would reach.
Wanted(t) ==
    LET left == CASE t.valign = "LEFT" -> t.offset
                  [] t.valign = "CENTER" -> Halved(LcdWidth - Wide(t)) + t.offset
                  [] t.valign = "RIGHT" -> LcdWidth - Wide(t) - 2 + t.offset
    IN left .. left + Wide(t) - 1

(* Every text the program paints reaches the columns of the LCD that its     *)
(* alignment calls for, and no others, although the width is a byte and a    *)
(* text that is wider than the LCD begins at a column that has wrapped; every *)
(* character the keyboard offers has its glyph in both fonts; and the time   *)
(* leaves the symbol of the network free (app-display-handler.cpp:129-238,   *)
(* pico-sh1106.cpp:109-131, 183-256).                                        *)
TextIsAligned ==
    /\ text_painted.what = "header" =>
          text_painted.columns \cap text_painted.symbol = {}
    /\ text_painted.what = "text" =>
          LET t == text_painted.text
          IN /\ text_painted.columns = Wanted(t) \cap 0 .. LcdWidth - 1
             /\ text_painted.bytes \subseteq 2 .. FontOf(t.font).size - 1
=============================================================================
