------------------------------ MODULE FrameBuffer ------------------------------
(***************************************************************************)
(* The frame buffer, framebuf.cpp and mono_vlsb.cpp: pixels packed into    *)
(* bytes, eight rows to a byte, behind the control byte of the display.    *)
(* Every way of drawing is a function from one buffer to the next, and is  *)
(* compared with what it means for a picture, the set of lit pixels.       *)
(***************************************************************************)
EXTENDS Integers, SequencesExt

CONSTANTS
    width, height,
    Calls,          \* the calls that are made, as records
    Glyph,          \* the font: the set of rows of each column of a character
    Sprite,          \* a picture for blit: its width, height and lit pixels
    MaxCalls        \* bounds how many are made one after the other

VARIABLES
    buffer,         \* buffer: the set of bits of each byte
    call,           \* history: the last call
    calls           \* history: how many there were

fbVars == <<buffer, call, calls>>

buffer_offset == 1
size == width * ((height + 7) \div 8) + buffer_offset

Larger(m, n) == IF m > n THEN m ELSE n
Smaller(m, n) == IF m < n THEN m ELSE n
Size(n) == IF n < 0 THEN -n ELSE n

OnScreen(p) == p[1] \in 0..(width - 1) /\ p[2] \in 0..(height - 1)

-------------------------------------------------------------------------------
\* mono_vlsb

\* Variant of ByteOf that forgets the control byte.
ByteAtStart(p) == (p[2] \div 8) * width + p[1]

\* Where a pixel is: its byte, and the bit of the byte.
ByteOf(p) == (p[2] \div 8) * width + p[1] + buffer_offset
BitOf(p) == p[2] % 8

SetPixel(b, p, color) ==
    [b EXCEPT ![ByteOf(p)] = IF color # 0 THEN @ \cup {BitOf(p)} ELSE @ \ {BitOf(p)}]
GetPixel(b, p) == IF BitOf(p) \in b[ByteOf(p)] THEN 1 ELSE 0

\* A sequence of pixels is set, one after the other.
SetPixels(b, pixels, color) == FoldLeft(LAMBDA c, p : SetPixel(c, p, color), b, pixels)

\* The pixels of an area, row by row.
Area(x, y, w, h) ==
    [i \in 1..(w * h) |-> <<x + ((i - 1) % w), y + ((i - 1) \div w)>>]

\* fill_rect, which does not clip: callers keep within the picture.
FillRect(b, x, y, w, h, color) == SetPixels(b, Area(x, y, w, h), color)

-------------------------------------------------------------------------------
\* framebuf

\* rect without fill.
Outline(b, x, y, w, h, color) ==
    LET top == FillRect(b, x, y, w, 1, color)
        bottom == FillRect(top, x, y + h - 1, w, 1, color)
        left == FillRect(bottom, x, y, 1, h, color)
    IN  FillRect(left, x + w - 1, y, 1, h, color)

\* text, one character; clipped.
Text(b, glyph, x, y, color) ==
    LET column(j) == SetToSeq({ <<x + j - 1, y + r>> : r \in glyph[j] })
    IN  FoldLeft(LAMBDA c, j : SetPixels(c, SelectSeq(column(j), OnScreen), color),
                 b, [j \in 1..Len(glyph) |-> j])

\* The error of Bresenham's algorithm is corrected while it is not negative.
Corrected(s, dx, sy) ==
    LET times == IF s.e < 0 THEN 0 ELSE s.e \div (2 * dx) + 1
    IN  [s EXCEPT !.y = @ + times * sy, !.e = @ - times * 2 * dx]

\* Variant of StartError that begins as if the line had advanced already.
StartErrorLate(dx, dy) == 2 * dy

StartError(dx, dy) == 2 * dy - dx

\* line: the longer direction is walked step by step, swapped if it is y; both
\* ends are drawn, what is off the screen is not.
Line(b, x1, y1, x2, y2, color) ==
    LET steep == Size(y2 - y1) > Size(x2 - x1)
        dx == IF steep THEN Size(y2 - y1) ELSE Size(x2 - x1)
        dy == IF steep THEN Size(x2 - x1) ELSE Size(y2 - y1)
        toRight == IF x2 > x1 THEN 1 ELSE -1
        toBottom == IF y2 > y1 THEN 1 ELSE -1
        sx == IF steep THEN toBottom ELSE toRight
        sy == IF steep THEN toRight ELSE toBottom
        walk[i \in 0..dx] ==
            IF i = 0 THEN [x |-> IF steep THEN y1 ELSE x1, y |-> IF steep THEN x1 ELSE y1,
                           e |-> StartError(dx, dy)]
            ELSE LET s == Corrected(walk[i - 1], dx, sy)
                 IN  [s EXCEPT !.x = @ + sx, !.e = @ + 2 * dy]
        pixel(s) == IF steep THEN <<s.y, s.x>> ELSE <<s.x, s.y>>
    IN  SetPixels(b, SelectSeq([i \in 1..dx |-> pixel(walk[i - 1])] \o <<<<x2, y2>>>>, OnScreen),
                  color)

\* blit of the stamp: clipped, and without the pixels of the colour key.
Blit(b, x, y, key) ==
    LET x0 == Larger(0, x)    x1 == Larger(0, -x)
        y0 == Larger(0, y)    y1 == Larger(0, -y)
        w == Smaller(width, x + Sprite.width) - x0
        h == Smaller(height, y + Sprite.height) - y0
        col(p) == IF <<p[1] - x0 + x1, p[2] - y0 + y1>> \in Sprite.lit THEN 1 ELSE 0
    IN  IF x >= width \/ y >= height \/ -x >= Sprite.width \/ -y >= Sprite.height THEN b
        ELSE FoldLeft(LAMBDA c, p : IF col(p) = key THEN c ELSE SetPixel(c, p, col(p)),
                      b, Area(x0, y0, w, h))

\* Variant of Order that always begins with the last.
OrderDown(n, step) == [i \in 1..(n - Size(step)) |-> n - i]

\* The columns, or rows, that are overwritten by a step of scroll, in the order in
\* which they are: away from where the picture goes.
Order(n, step) ==
    [i \in 1..(n - Size(step)) |-> IF step < 0 THEN i - 1 ELSE n - i]

\* scroll: in place.
Scroll(b, xstep, ystep) ==
    LET xs == Order(width, xstep)
        row(c, y) ==
            FoldLeft(LAMBDA d, x : SetPixel(d, <<x, y>>, GetPixel(d, <<x - xstep, y - ystep>>)),
                     c, xs)
    IN  FoldLeft(LAMBDA c, y : row(c, y), b, Order(height, ystep))

-------------------------------------------------------------------------------
Cleared == [i \in 0..(size - 1) |-> IF i = 0 THEN {6} ELSE {}]

FrameBufferInit == buffer = Cleared /\ call = [op |-> "none"] /\ calls = 0

Drawn(b, c) ==
    CASE c.op = "fill_rect" -> FillRect(b, c.x, c.y, c.w, c.h, c.color)
      [] c.op = "rect" -> Outline(b, c.x, c.y, c.w, c.h, c.color)
      [] c.op = "text" -> Text(b, Glyph, c.x, c.y, c.color)
      [] c.op = "line" -> Line(b, c.x, c.y, c.x2, c.y2, c.color)
      [] c.op = "blit" -> Blit(b, c.x, c.y, c.key)
      [] c.op = "scroll" -> Scroll(b, c.x, c.y)

Draw(c) ==
    /\ calls < MaxCalls /\ calls' = calls + 1
    /\ call' = c
    /\ buffer' = Drawn(buffer, c)

\* Another buffer, after as many calls as are looked at.
Another == calls = MaxCalls /\ buffer' = Cleared /\ call' = [op |-> "none"] /\ calls' = 0

FrameBufferNext == Another \/ \E c \in Calls : Draw(c)

FrameBufferSpec == FrameBufferInit /\ [][FrameBufferNext]_fbVars

-------------------------------------------------------------------------------
\* What a call means: which pixels it lights or clears.
Pixels == (0..(width - 1)) \X (0..(height - 1))
Picture(b) == { p \in Pixels : GetPixel(b, p) = 1 }

Within(p, x, y, w, h) == p[1] \in x..(x + w - 1) /\ p[2] \in y..(y + h - 1)

\* A rise of d after n of the len steps of a line that rises by rise: the nearest
\* there is; of two that are equally near, the higher one.
Nearest(d, n, len, rise) ==
    LET excess == 2 * (d * len - n * rise) IN  -len < excess /\ excess <= len

\* How far v is on the way from v1 to v2.
Way(v, v1, v2) == IF v2 > v1 THEN v - v1 ELSE v1 - v

OnLine(p, x1, y1, x2, y2) ==
    LET dx == Size(x2 - x1)         dy == Size(y2 - y1)
        x == Way(p[1], x1, x2)      y == Way(p[2], y1, y2)
    IN  CASE dx = 0 /\ dy = 0 -> p = <<x1, y1>>
          [] dy > dx -> y \in 0..dy /\ Nearest(x, y, dy, dx)
          [] OTHER   -> x \in 0..dx /\ Nearest(y, x, dx, dy)

Meant(c, picture) ==
    LET colored(hit(_), color) == { p \in Pixels : IF hit(p) THEN color # 0 ELSE p \in picture }
        from(p) == <<p[1] - c.x, p[2] - c.y>>
        scrolls == Size(c.x) < width /\ Size(c.y) < height
    IN  CASE c.op = "fill_rect" ->
               colored(LAMBDA p : Within(p, c.x, c.y, c.w, c.h), c.color)
          [] c.op = "rect" ->
               colored(LAMBDA p : /\ Within(p, c.x, c.y, c.w, c.h)
                                  /\ ~Within(p, c.x + 1, c.y + 1, c.w - 2, c.h - 2), c.color)
          [] c.op = "text" ->
               colored(LAMBDA p : \E j \in 1..Len(Glyph) :
                           p[1] = c.x + j - 1 /\ p[2] - c.y \in Glyph[j], c.color)
          [] c.op = "line" -> colored(LAMBDA p : OnLine(p, c.x, c.y, c.x2, c.y2), c.color)
          [] c.op = "blit" ->
               { p \in Pixels :
                   LET inside == Within(p, c.x, c.y, Sprite.width, Sprite.height)
                       col == IF from(p) \in Sprite.lit THEN 1 ELSE 0
                   IN  IF inside /\ col # c.key THEN col # 0 ELSE p \in picture }
          [] c.op = "scroll" ->
               { p \in Pixels :
                   IF scrolls /\ OnScreen(from(p)) THEN from(p) \in picture ELSE p \in picture }

\* However the pixels are packed, and whatever was drawn before, a call changes
\* the pixels it is meant to change and no other, and never the control byte.
DrawsAsMeant ==
    [][calls' > calls => /\ Picture(buffer') = Meant(call', Picture(buffer))
                         /\ buffer'[0] = {6}]_fbVars
===============================================================================
