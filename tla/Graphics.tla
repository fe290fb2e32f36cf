-------------------------------- MODULE Graphics --------------------------------
(***************************************************************************)
(* The graphics library of project1 (library.c) under its driver           *)
(* (driver.c): the terminal is put in raw mode, prompts are drawn, a key   *)
(* is read, and shapes are drawn for it, a pixel, a row of a letter or a   *)
(* turn of the circle's loop at a time.  What is written to the frame      *)
(* buffer is the set of places written by the call in hand; the colours    *)
(* are left out.                                                           *)
(***************************************************************************)
EXTENDS Integers, Sequences

CONSTANTS
    LineLength,    \* fixInfo.line_length, in bytes
    YRes,          \* varInfo.yres_virtual
    Prompts,       \* the calls made on every turn of the driver's loop
    Bodies,        \* the calls made for the key s, one of these sequences
    Faces,         \* the calls made for the key o, one of these
    Glyph,         \* iso_font: for each character, the bits of its 16 rows
    Pauses         \* the arguments of sleep_ms

Width == LineLength \div 2
Addresses == 0 .. Width * YRes - 1
Bits == 0 .. 7

(* A call: draw_rect(x, y, w, h), draw_text(x, y, text), draw_circle(x, y, *)
(* r).                                                                     *)
Rect(x, y, w, h) == [draw |-> "rect", x |-> x, y |-> y, w |-> w, h |-> h]
Text(x, y, text) == [draw |-> "text", x |-> x, y |-> y, text |-> text]
Circle(x, y, r) == [draw |-> "circle", x |-> x, y |-> y, r |-> r]

ASSUME GraphicsAssumption ==
    /\ LineLength \in Nat /\ LineLength % 2 = 0 /\ YRes \in Nat
    /\ \A c \in DOMAIN Glyph : Glyph[c] \in [0 .. 15 -> SUBSET Bits]
    /\ Pauses \subseteq Nat

(* What the driver draws fits its screen: its own calls are within 640 by  *)
(* 480.  The box of a text begins seven pixels left of its first place.    *)
Rects ==
    {c \in [draw : {"rect"}, x : Nat, y : Nat, w : Nat, h : Nat] :
        c.x + c.w < Width /\ c.y + c.h < YRes}
Texts ==
    {c \in [draw : {"text"}, x : Nat, y : Nat, text : Seq(DOMAIN Glyph)] :
        c.x >= 7 /\ c.x + 8 * (Len(c.text) - 1) < Width /\ c.y + 15 < YRes}
Circles ==
    {c \in [draw : {"circle"}, x : Nat, y : Nat, r : Nat] :
        /\ c.r <= c.x /\ c.x + c.r < Width
        /\ c.r <= c.y /\ c.y + c.r < YRes}
Shapes == Rects \cup Texts \cup Circles

ASSUME DriverAssumption ==
    /\ Prompts \in Seq(Shapes)
    /\ Bodies \subseteq Seq(Shapes) /\ Faces \subseteq Seq(Shapes)

VARIABLES
    pc,            \* where the driver is
    calls,         \* the calls to make, the one in hand first
    x, y,          \* the locals of draw_rect, x_cord and y_cord of draw_circle,
                   \* x and i of draw_text
    t1,            \* of draw_circle
    count,         \* of draw_text
    pixels,        \* the places of the frame buffer the call in hand has written
    mapped,        \* addy points to the frame buffer
    terminal,      \* the mode of the terminal
    oldTerminal, newTerminal,
    key,
    asked,         \* the last pause asked of sleep_ms, in units of 64 ns
    granted        \* the least that nanosleep then waits

locals == <<x, y, t1, count>>
tty == <<terminal, oldTerminal, newTerminal>>
pause == <<asked, granted>>
vars == <<pc, calls, locals, pixels, mapped, tty, key, pause>>

Init ==
    /\ pc = "init"
    /\ calls = <<>>
    /\ x = 0 /\ y = 0 /\ t1 = 0 /\ count = 0
    /\ pixels = {}
    /\ mapped = FALSE
    /\ terminal = "line" /\ oldTerminal = "unset" /\ newTerminal = "unset"
    /\ key = "none"
    /\ asked = 0 /\ granted = 0

Call == Head(calls)

--------------------------------------------------------------------------------
(* Mutant: the old mode is stored after the change. *)
InitStoresLate ==
    /\ pc = "init"
    /\ mapped' \in BOOLEAN
    /\ newTerminal' = "raw"
    /\ terminal' = newTerminal'
    /\ oldTerminal' = terminal'
    /\ calls' = Prompts
    /\ pc' = "call"
    /\ UNCHANGED <<locals, pixels, key, pause>>

(* init_graphics: no call is checked, so without a frame buffer the        *)
(* program goes on.                                                        *)
InitGraphics ==
    /\ pc = "init"
    /\ mapped' \in BOOLEAN
    /\ oldTerminal' = terminal
    /\ newTerminal' = "raw"
    /\ terminal' = newTerminal'
    /\ calls' = Prompts
    /\ pc' = "call"
    /\ UNCHANGED <<locals, pixels, key, pause>>

(* A call begins: its locals get their first values. *)
StartCall ==
    /\ pc = "call" /\ calls # <<>>
    /\ pc' = Call.draw
    /\ x' = IF Call.draw = "circle" THEN Call.r ELSE Call.x
    /\ y' = IF Call.draw = "rect" THEN Call.y ELSE 0
    /\ t1' = IF Call.draw = "circle" THEN Call.r \div 16 ELSE 0
    /\ count' = 0
    /\ pixels' = {}
    /\ UNCHANGED <<calls, mapped, tty, key, pause>>

Return ==
    /\ pc' = "call"
    /\ calls' = Tail(calls)
    /\ UNCHANGED <<locals, pixels, mapped, tty, key, pause>>

(* draw_pixel: where the pixel (px, py) is in the frame buffer. *)
Place(px, py) == px + py * Width

Draw(points) ==
    /\ mapped
    /\ pixels' = pixels \cup {Place(p[1], p[2]) : p \in points}

Paint(points) ==
    IF points = {} THEN UNCHANGED pixels ELSE Draw(points)

--------------------------------------------------------------------------------
(* draw_rect: a pixel, or the end of a row.  Both ends are included. *)
RectPixel ==
    /\ pc = "rect" /\ y <= Call.y + Call.h
    /\ \/ x <= Call.x + Call.w /\ Draw({<<x, y>>}) /\ x' = x + 1 /\ UNCHANGED y
       \/ x > Call.x + Call.w /\ x' = Call.x /\ y' = y + 1 /\ UNCHANGED pixels
    /\ UNCHANGED <<pc, calls, t1, count, mapped, tty, key, pause>>

RectEnd == pc = "rect" /\ y > Call.y + Call.h /\ Return

(* draw_text: row y of the character at count.  Bit 7, the mask 0x80, is   *)
(* the rightmost pixel.                                                    *)
RowPoints == {<<x - (7 - b), Call.y + y>> : b \in Glyph[Call.text[count + 1]][y]}

TextRow ==
    /\ pc = "text" /\ count < Len(Call.text)
    /\ Paint(RowPoints)
    /\ IF y < 15
       THEN y' = y + 1 /\ UNCHANGED <<x, count>>
       ELSE y' = 0 /\ x' = x + 8 /\ count' = count + 1
    /\ UNCHANGED <<pc, calls, t1, mapped, tty, key, pause>>

TextEnd == pc = "text" /\ count = Len(Call.text) /\ Return

(* draw_circle: the eight pixels of a turn, then the next point. *)
Octants ==
    {<<Call.x + d[1], Call.y + d[2]>> :
        d \in ({x, -x} \X {y, -y}) \cup ({y, -y} \X {x, -x})}

(* Mutant: x moves in only once the error has passed zero and t1 is not    *)
(* corrected.                                                              *)
CircleDrifts ==
    /\ pc = "circle" /\ x >= y
    /\ Draw(Octants)
    /\ y' = y + 1
    /\ t1' = t1 + y'
    /\ x' = IF t1' - x >= 0 THEN x - 1 ELSE x
    /\ UNCHANGED <<pc, calls, count, mapped, tty, key, pause>>

CircleTurn ==
    /\ pc = "circle" /\ x >= y
    /\ Draw(Octants)
    /\ y' = y + 1
    /\ LET t2 == t1 + y' - x
       IN IF t2 >= 0 THEN t1' = t2 /\ x' = x - 1
          ELSE t1' = t1 + y' /\ UNCHANGED x
    /\ UNCHANGED <<pc, calls, count, mapped, tty, key, pause>>

CircleEnd == pc = "circle" /\ x < y /\ Return

(* The first pixel the driver draws is one of its prompts: without a frame *)
(* buffer it is a segmentation fault, and the terminal stays as it is.     *)
NoFrameBuffer ==
    /\ pc = "text" /\ count < Len(Call.text)
    /\ RowPoints # {} /\ ~mapped
    /\ pc' = "crashed"
    /\ UNCHANGED <<calls, locals, pixels, mapped, tty, key, pause>>

--------------------------------------------------------------------------------
(* The prompts are drawn: getkey waits for a key. *)
AskKey ==
    /\ pc = "call" /\ calls = <<>> /\ key = "none"
    /\ pc' = "key"
    /\ UNCHANGED <<calls, locals, pixels, mapped, tty, key, pause>>

(* The key is read, and what it stands for is drawn; any other key, and    *)
(* an end of the input, draw nothing.                                      *)
GetKey ==
    /\ pc = "key"
    /\ \E k \in {"s", "o", "q", "other"} :
          /\ key' = k
          /\ calls' \in (CASE k = "s" -> Bodies [] k = "o" -> Faces [] OTHER -> {<<>>})
    /\ pc' = "call"
    /\ UNCHANGED <<locals, pixels, mapped, tty, pause>>

Millisecond == 15625                 \* 10^6 ns, in units of 64 ns
Second == 1000 * Millisecond
Word == 67108864                     \* 2^32 ns

(* Mutant: milliseconds taken for microseconds. *)
TvMicro(ms, bits) == (ms * Millisecond) \div 1000

(* ms * 1000000 in a long, which is of 32 bits on the board. *)
TvNsec(ms, bits) ==
    LET product == ms * Millisecond
        wrapped == product % Word
    IN IF bits = 64 THEN product ELSE IF wrapped < Word \div 2 THEN wrapped ELSE wrapped - Word

(* nanosleep waits for at least tv_nsec: the program has no handler that   *)
(* would cut it short, and an interrupt ends it.  It refuses a count that  *)
(* is negative or a second or more, and the error is not looked at.        *)
Granted(nsec) == IF nsec \in 0 .. Second - 1 THEN nsec ELSE 0

(* sleep_ms, then the test of the loop. *)
SleepMs ==
    /\ pc = "call" /\ calls = <<>> /\ key # "none"
    /\ \E ms \in Pauses : \E bits \in {32, 64} :
          /\ asked' = ms * Millisecond
          /\ granted' = Granted(TvNsec(ms, bits))
    /\ IF key = "q"
       THEN pc' = "exit" /\ UNCHANGED <<calls, key>>
       ELSE pc' = "call" /\ calls' = Prompts /\ key' = "none"
    /\ UNCHANGED <<locals, pixels, mapped, tty>>

ExitGraphics ==
    /\ pc = "exit"
    /\ terminal' = oldTerminal
    /\ mapped' = FALSE
    /\ pc' = "done"
    /\ UNCHANGED <<calls, locals, pixels, oldTerminal, newTerminal, key, pause>>

(* Raw mode leaves the interrupt key on, and nothing handles the signal. *)
Interrupt ==
    /\ pc \notin {"done", "crashed"}
    /\ pc' = "crashed"
    /\ UNCHANGED <<calls, locals, pixels, mapped, tty, key, pause>>

Work ==
    \/ InitGraphics \/ StartCall
    \/ RectPixel \/ RectEnd \/ TextRow \/ TextEnd \/ CircleTurn \/ CircleEnd
    \/ NoFrameBuffer \/ AskKey \/ SleepMs \/ ExitGraphics

Next == Work \/ GetKey \/ Interrupt

Spec == Init /\ [][Next]_vars

--------------------------------------------------------------------------------
(* The points of a rectangle of the screen, both corners included. *)
Area(x1, y1, x2, y2) == {a \in Addresses : a % Width \in x1 .. x2 /\ a \div Width \in y1 .. y2}

BoundingBox ==
    CASE Call.draw = "rect" -> Area(Call.x, Call.y, Call.x + Call.w, Call.y + Call.h)
      [] Call.draw = "text" -> Area(Call.x - 7, Call.y, Call.x + 8 * (Len(Call.text) - 1), Call.y + 15)
      [] Call.draw = "circle" ->
             Area(Call.x - Call.r, Call.y - Call.r, Call.x + Call.r, Call.y + Call.r)

(* A shape that fits the screen is drawn within its bounding box: no pixel *)
(* wraps to another row or leaves the frame buffer, in the last turn of    *)
(* the circle's loop as little as in the first.                            *)
StaysInBox == pc \in {"rect", "text", "circle"} => pixels \subseteq BoundingBox

(* draw_rect fills its rectangle: width + 1 columns and height + 1 rows.   *)
RectIsFull == pc = "rect" /\ y > Call.y + Call.h => pixels = BoundingBox

Square(n) == n * n
Distance(a) == Square((a % Width) - Call.x) + Square((a \div Width) - Call.y)

(* A finished circle is round and closed: each of its pixels is less than  *)
(* one pixel away from the radius, and there is one on both sides in every *)
(* row and column it crosses.  The loop keeps an approximate error, t1.    *)
CircleIsRound ==
    pc = "circle" /\ x < y =>
        /\ \A a \in pixels :
              /\ Distance(a) < Square(Call.r + 1)
              /\ Call.r > 0 => Distance(a) > Square(Call.r - 1)
        /\ \A d \in -Call.r .. Call.r : \A side \in {-1, 1} :
              /\ \E e \in 0 .. Call.r : Place(Call.x + d, Call.y + side * e) \in pixels
              /\ \E e \in 0 .. Call.r : Place(Call.x + side * e, Call.y + d) \in pixels

(* What is drawn is whole: nothing of it leaves its place, a rectangle has *)
(* no holes, and a circle no gaps (draw_rect, draw_circle, draw_text).     *)
ShapesAreWhole == StaysInBox /\ RectIsFull /\ CircleIsRound

(* The terminal is raw exactly while the program runs, and as it was found *)
(* when the program ends by itself; an interrupt or a crash leaves it raw. *)
TerminalRestored ==
    /\ pc = "done" => terminal = "line" /\ ~mapped
    /\ pc \notin {"init", "done", "crashed"} => terminal = "raw"

(* sleep_ms has nanosleep wait for the time it was asked for if that is    *)
(* less than a second, and otherwise, with 32 bits as with 64, never: it   *)
(* waits for less or not at all.  So the driver's pause of five seconds    *)
(* (driver.c:38) is not kept.                                              *)
PausesKept == granted <= asked /\ (granted = asked <=> asked < Second)
================================================================================
