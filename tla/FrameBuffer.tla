---------------------------- MODULE FrameBuffer -----------------------------
(***************************************************************************)
(* What the graphics primitives (src/src/video.c) write into the frame     *)
(* buffer, and where the text console (console.c, cursor.c) draws.  A call *)
(* is the set of the bytes it writes; what colour they get is left out.    *)
(*                                                                         *)
(* A row of 32-bit pixels is written in one go, one of 24-bit pixels pixel *)
(* by pixel.  Coordinates are taken as they are: no caller comes near the  *)
(* ends of their 16 and 32 bits, but the cursor, whose place in pixels     *)
(* wraps (Short).                                                          *)
(***************************************************************************)
EXTENDS Integers

CONSTANTS
    vbe_width, vbe_height,  \* in pixels
    vbe_pitch,              \* bytes from one row to the next
    vbe_bpp,                \* bits of a pixel
    scale,                  \* get_font_scale()
    Short                   \* 2^16

SCREEN_WIDTH  == vbe_width
SCREEN_HEIGHT == vbe_height

\* kernel.asm takes no other mode (find_mode: 1024 times 768, 24 or 32 bits);
\* that a row fits between two rows is up to the BIOS.
ASSUME ModeAssumption ==
    /\ vbe_width \in Nat /\ vbe_height \in Nat /\ vbe_pitch \in Nat
    /\ vbe_bpp \in {24, 32}
    /\ vbe_width * (vbe_bpp \div 8) <= vbe_pitch

\* The screen is made of whole character cells, and of three at least.
ASSUME CellAssumption ==
    /\ scale \in Nat \ {0}
    /\ \E n \in 3 .. vbe_width : vbe_width = n * (8 * scale)
    /\ \E n \in 1 .. vbe_height : vbe_height = n * (8 * scale)
    /\ Short \in Nat /\ Short % 2 = 0
    /\ vbe_width < Short \div 2 /\ vbe_height < Short \div 2

PixelBytes == vbe_bpp \div 8

\* Pixels there are.
Lit(x, y) == x \in 0 .. vbe_width - 1 /\ y \in 0 .. vbe_height - 1
Lesser(m, n) == IF m < n THEN m ELSE n

\* The bytes of n pixels from x on in row y, and those of the whole buffer.
Row(y, x, n) == y * vbe_pitch + x * PixelBytes .. y * vbe_pitch + (x + n) * PixelBytes - 1
Buffer == 0 .. vbe_height * vbe_pitch - 1

-----------------------------------------------------------------------------
(* video.c                                                                 *)

put_pixel(x, y) == IF Lit(x, y) THEN Row(y, x, 1) ELSE {}

\* In the first row from x on; later rows from their beginning, with what the
\* rows before have left of count.
video_memset(x, y, count) ==
    LET Start(r)  == IF r = y THEN x ELSE 0
        Before(r) == IF r = y THEN 0 ELSE (r - y) * vbe_width - x
    IN  IF x >= vbe_width \/ y >= vbe_height THEN {}
        ELSE UNION {Row(r, Start(r), Lesser(count - Before(r), vbe_width - Start(r))) :
                        r \in {s \in y .. vbe_height - 1 : Before(s) < count}}

\* h rows of w pixels.
Block(x, y, w, h) ==
    IF vbe_bpp = 32 THEN UNION {Row(r, x, w) : r \in y .. y + h - 1}
    ELSE UNION {UNION {put_pixel(p, r) : p \in x .. x + w - 1} : r \in y .. y + h - 1}

\* What begins left of the screen or above it is not drawn at all.
fill_rect(x, y, w, h) ==
    IF x < 0 \/ y < 0 \/ x >= vbe_width \/ y >= vbe_height THEN {}
    ELSE Block(x, y, Lesser(w, vbe_width - x), Lesser(h, vbe_height - y))

blit32(src_w, y0, y1) == Block(0, y0, Lesser(src_w, vbe_width), Lesser(y1, vbe_height) - y0)

-----------------------------------------------------------------------------
(* console.c and cursor.c: the cursor c has the cell it is in, and the one *)
(* it is drawn in (-1: none).                                              *)

SCREEN_MARGIN_X == 2

cell == 8 * scale

int16(n) == ((n + Short \div 2) % Short) - Short \div 2

raw(v) == int16(v * cell)    \* get_raw_cursor_x, get_raw_cursor_y

set_cursor(c, x, y)  == [c EXCEPT !.x = x, !.y = y]
move_cursor(c, x, y) == [c EXCEPT !.x = int16(@ + x), !.y = int16(@ + y)]
new_line(c)          == set_cursor(c, SCREEN_MARGIN_X, int16(c.y + 1))

EraseBytes(c)  == IF c.drawn_x < 0 THEN {}
                  ELSE fill_rect(c.drawn_x * cell, c.drawn_y * cell, cell, cell)
erase_cursor(c) == IF c.drawn_x < 0 THEN c ELSE [c EXCEPT !.drawn_x = -1, !.drawn_y = -1]

UpdateBytes(c)  == EraseBytes(c) \union fill_rect(raw(c.x), raw(c.y), cell, cell)
update_cursor(c) == [c EXCEPT !.drawn_x = c.x, !.drawn_y = c.y]

\* Where print_char draws: into the margin, then to the next row behind the last
\* column, then to the top behind the last row.
AfterMargin(c) == IF c.x < SCREEN_MARGIN_X THEN set_cursor(c, SCREEN_MARGIN_X, c.y) ELSE c
AfterColumn(c) == IF raw(c.x) >= SCREEN_WIDTH THEN new_line(c) ELSE c
AfterRow(c)    == IF raw(c.y) >= SCREEN_HEIGHT THEN set_cursor(c, SCREEN_MARGIN_X, 0) ELSE c
Placed(c)      == AfterRow(AfterColumn(AfterMargin(c)))

print_char(c, ch) ==
    LET e == erase_cursor(c)
    IN  IF ch = "\n" THEN new_line(e)
        ELSE move_cursor(Placed(IF ch = "\t" THEN move_cursor(e, 4, 0) ELSE e), 1, 0)

\* draw_char: some of the pixels of the cell at x, y.
GlyphBytes(x, y) == UNION {UNION {put_pixel(p, q) : p \in x .. x + cell - 1} :
                               q \in y .. y + cell - 1}

clear(c)   == set_cursor(c, 0, 0)
ClearBytes == video_memset(0, 0, SCREEN_WIDTH * SCREEN_HEIGHT)

-----------------------------------------------------------------------------
\* A cursor that can be told from its place in pixels: left of the screen's end
\* plus a tab, above the row where 16 bits wrap.
Sane(c) == /\ c.x \in 0 .. (Short \div 2 - 1) \div cell
           /\ c.y \in 0 .. (Short \div 2 - 1) \div cell - 1

\* The cell that begins at pixel x, y is on the screen.
OnScreen(x, y) == /\ 0 <= x /\ x + cell <= vbe_width
                  /\ 0 <= y /\ y + cell <= vbe_height
=============================================================================
