----------------------------- MODULE GraphicsProofs -----------------------------
(***************************************************************************)
(* What is proved of the graphics library, for a screen and shapes of any  *)
(* size: what is drawn is whole, the terminal is restored, and a pause is  *)
(* kept exactly if it is of less than a second.                            *)
(*                                                                         *)
(* The hard part is the circle.  Its loop keeps an error, t1, in place of  *)
(* a distance.  CircleInv says what t1 is a measure of: up to the sixteenth *)
(* of the radius it starts from, 2 * t1 is how far x^2 + x + y^2 + y is    *)
(* beyond r^2 + r.  As t1 stays within 0 .. x while the loop goes on, the  *)
(* points it draws are within a pixel of the radius.                       *)
(***************************************************************************)
EXTENDS Graphics, SequenceTheorems, TLAPS

Drawing == {"rect", "text", "circle"}

--------------------------------------------------------------------------------
(* Places of the frame buffer. *)

LEMMA WidthNat == Width \in Nat
BY GraphicsAssumption, SMT DEF Width

LEMMA DivMod ==
    ASSUME NEW n \in Nat, NEW w \in Nat \ {0}
    PROVE  /\ n \div w \in Int /\ n % w \in 0 .. w - 1
           /\ n = w * (n \div w) + (n % w)
<1>1. n \div w \in Int
  BY SMT
<1>2. n % w \in 0 .. w - 1
  BY SMT
<1>3. n = w * (n \div w) + (n % w)
  BY SMT
<1> QED
  BY <1>1, <1>2, <1>3

LEMMA DivModUnique ==
    ASSUME NEW w \in Nat, NEW p \in 0 .. w - 1, NEW s \in 0 .. w - 1,
           NEW q \in Int, NEW t \in Int, w * q + p = w * t + s
    PROVE  p = s /\ q = t
<1>1. w * (q - t) = s - p
  BY SMT
<1>2. q - t < 1
  <2>1. SUFFICES ASSUME q - t >= 1 PROVE FALSE
    BY SMT
  <2>2. w * (q - t) >= w
    BY <2>1, SMT
  <2> QED
    BY <1>1, <2>2, SMT
<1>3. q - t > -1
  <2>1. SUFFICES ASSUME t - q >= 1 PROVE FALSE
    BY SMT
  <2>2. w * (t - q) >= w
    BY <2>1, SMT
  <2>3. w * (t - q) = p - s
    BY <1>1, SMT
  <2> QED
    BY <2>2, <2>3, SMT
<1>4. q = t
  BY <1>2, <1>3, SMT
<1> QED
  BY <1>1, <1>4, SMT

(* A place of the screen is in the frame buffer, in its own row and column. *)
LEMMA PlaceInRow ==
    ASSUME NEW px \in 0 .. Width - 1, NEW py \in 0 .. YRes - 1
    PROVE  /\ Place(px, py) \in Addresses
           /\ Place(px, py) % Width = px /\ Place(px, py) \div Width = py
<1>0. Width \in Nat /\ YRes \in Nat
  BY WidthNat, GraphicsAssumption
<1> HIDE DEF Width
<1> DEFINE a == Place(px, py)
<1>1. a \in Nat /\ a = Width * py + px /\ Width # 0
  BY <1>0, SMT DEF Place
<1>2. a <= Width * YRes - 1
  <2>1. Width * py <= Width * (YRes - 1)
    BY <1>0, SMT
  <2>2. Width * (YRes - 1) = Width * YRes - Width
    BY <1>0, SMT
  <2> QED
    BY <1>0, <1>1, <2>1, <2>2, SMT
<1>3. a \in Addresses
  <2>1. Width * YRes - 1 \in Int
    BY <1>0, SMT
  <2> QED
    BY <1>1, <1>2, <2>1, SMT DEF Addresses
<1> HIDE DEF a
<1>4. a \div Width \in Int /\ a % Width \in 0 .. Width - 1 /\ a = Width * (a \div Width) + (a % Width)
  BY <1>0, <1>1, DivMod
<1>5. a % Width = px /\ a \div Width = py
  BY <1>0, <1>1, <1>4, DivModUnique, SMT
<1> QED
  BY <1>3, <1>5 DEF a

(* An address of the frame buffer is the place of its column and row. *)
LEMMA AddressIsPlace ==
    ASSUME NEW a \in Addresses
    PROVE  /\ a % Width \in 0 .. Width - 1 /\ a \div Width \in Int
           /\ a = Place(a % Width, a \div Width)
<1>0. Width \in Nat /\ YRes \in Nat
  BY WidthNat, GraphicsAssumption
<1> HIDE DEF Width
<1>1. a \in Nat /\ Width # 0
  BY <1>0, SMT DEF Addresses
<1>2. a \div Width \in Int /\ a % Width \in 0 .. Width - 1 /\ a = Width * (a \div Width) + (a % Width)
  BY <1>0, <1>1, DivMod
<1> QED
  BY <1>0, <1>2, SMT DEF Place

LEMMA PlaceInArea ==
    ASSUME NEW x1 \in Nat, NEW y1 \in Nat, NEW x2 \in Nat, NEW y2 \in Nat,
           x2 < Width, y2 < YRes, NEW px \in x1 .. x2, NEW py \in y1 .. y2
    PROVE  /\ Place(px, py) \in Area(x1, y1, x2, y2)
           /\ Place(px, py) % Width = px /\ Place(px, py) \div Width = py
<1>0. Width \in Nat /\ YRes \in Nat
  BY WidthNat, GraphicsAssumption
<1>1. px \in 0 .. Width - 1 /\ py \in 0 .. YRes - 1
  BY <1>0, SMT
<1> QED
  BY <1>1, PlaceInRow DEF Area

--------------------------------------------------------------------------------
(* The arithmetic of draw_circle. *)

(* What t1 measures. *)
Error(r, i, j, t) == 2 * t = 2 * (r \div 16) + i * i + i + j * j + j - r * r - r

LEMMA SixteenthOf ==
    ASSUME NEW r \in Nat
    PROVE  /\ r \div 16 \in Nat /\ 16 * (r \div 16) <= r
           /\ r < 16 => r \div 16 = 0
BY SMT

LEMMA Squares ==
    ASSUME NEW a \in Int
    PROVE  /\ a * a \in Int
           /\ (a + 1) * (a + 1) = a * a + 2 * a + 1
           /\ (a - 1) * (a - 1) = a * a - 2 * a + 1
           /\ (-a) * (-a) = a * a
<1>1. a * a \in Int
  BY SMT
<1>2. (a + 1) * (a + 1) = a * a + 2 * a + 1
  BY SMT
<1>3. (a - 1) * (a - 1) = a * a - 2 * a + 1
  BY SMT
<1>4. (-a) * (-a) = a * a
  BY SMT
<1> QED
  BY <1>1, <1>2, <1>3, <1>4

LEMMA ErrorStarts ==
    ASSUME NEW r \in Nat
    PROVE  Error(r, r, 0, r \div 16) /\ r \div 16 \in 0 .. r
<1>1. r \div 16 \in 0 .. r
  BY SixteenthOf, SMT
<1> QED
  BY <1>1, Squares, SMT DEF Error

(* The two ways a turn of the loop ends. *)
LEMMA ErrorKept ==
    ASSUME NEW r \in Nat, NEW i \in Nat, NEW j \in Nat, NEW t \in Int,
           j <= i, t \in 0 .. i, Error(r, i, j, t)
    PROVE  /\ t + (j + 1) - i >= 0 =>
                 /\ Error(r, i - 1, j + 1, t + (j + 1) - i)
                 /\ i - 1 >= j + 1 => t + (j + 1) - i \in 0 .. i - 1
           /\ t + (j + 1) - i < 0 =>
                 /\ Error(r, i, j + 1, t + (j + 1))
                 /\ t + (j + 1) \in 0 .. i
<1> DEFINE k == r \div 16  ii == i * i  jj == j * j  rr == r * r
<1>1. k \in Int /\ ii \in Int /\ jj \in Int /\ rr \in Int
  BY SixteenthOf, Squares
<1>2. /\ (i - 1) * (i - 1) = ii - 2 * i + 1
      /\ (j + 1) * (j + 1) = jj + 2 * j + 1
  BY Squares
<1>3. 2 * t = 2 * k + ii + i + jj + j - rr - r
  BY DEF Error
<1> HIDE DEF k, ii, jj, rr
<1>4. Error(r, i - 1, j + 1, t + (j + 1) - i)
  <2>1. 2 * (t + (j + 1) - i) = 2 * k + (ii - 2 * i + 1) + (i - 1) + (jj + 2 * j + 1) + (j + 1) - rr - r
    BY <1>1, <1>3, SMT
  <2> QED
    BY <1>2, <2>1 DEF Error, k, rr
<1>5. Error(r, i, j + 1, t + (j + 1))
  <2>1. 2 * (t + (j + 1)) = 2 * k + ii + i + (jj + 2 * j + 1) + (j + 1) - rr - r
    BY <1>1, <1>3, SMT
  <2> QED
    BY <1>2, <2>1 DEF Error, k, ii, rr
<1>6. i - 1 >= j + 1 /\ t + (j + 1) - i >= 0 => t + (j + 1) - i \in 0 .. i - 1
  BY SMT
<1>7. t + (j + 1) - i < 0 => t + (j + 1) \in 0 .. i
  BY SMT
<1> QED
  BY <1>4, <1>5, <1>6, <1>7

(* While the loop goes on, its point is within a pixel of the radius. *)
LEMMA NearRadius ==
    ASSUME NEW r \in Nat, NEW i \in Nat, NEW j \in Nat, NEW t \in Int,
           i <= r, j <= i, t \in 0 .. i, Error(r, i, j, t)
    PROVE  /\ Square(i) + Square(j) < Square(r + 1)
           /\ r > 0 => Square(i) + Square(j) > Square(r - 1)
<1> DEFINE k == r \div 16  ii == i * i  jj == j * j  rr == r * r
<1>1. /\ k \in Nat /\ 16 * k <= r /\ (r < 16 => k = 0)
      /\ ii \in Int /\ jj \in Int /\ rr \in Int
  BY SixteenthOf, Squares
<1>2. /\ (r + 1) * (r + 1) = rr + 2 * r + 1
      /\ (r - 1) * (r - 1) = rr - 2 * r + 1
  BY Squares
<1>3. 2 * t = 2 * k + ii + i + jj + j - rr - r
  BY DEF Error
<1>4. r = 1 => (ii = i /\ jj = j)
  <2>1. r = 1 => (i = 0 \/ i = 1) /\ (j = 0 \/ j = 1)
    BY SMT
  <2>2. 0 * 0 = 0 /\ 1 * 1 = 1
    BY SMT
  <2> QED
    BY <2>1, <2>2
<1> HIDE DEF k, ii, jj, rr
<1>5. ii + jj < rr + 2 * r + 1
  BY <1>1, <1>3, SMT
<1>6. r > 1 => ii + jj > rr - 2 * r + 1
  BY <1>1, <1>3, SMT
<1>7. r = 1 => ii + jj > rr - 2 * r + 1
  <2>1. SUFFICES ASSUME r = 1 PROVE ii + jj > rr - 1
    BY <1>1, SMT
  <2>2. rr = 1
    BY <2>1, SMT DEF rr
  <2>3. k = 0 /\ ii = i /\ jj = j /\ i <= 1 /\ j <= 1
    BY <1>1, <1>4, <2>1
  <2>4. 2 * t = 2 * i + 2 * j - 2
    BY <1>3, <2>1, <2>2, <2>3, SMT
  <2> QED
    BY <2>2, <2>3, <2>4, SMT
<1>8. r > 0 => ii + jj > rr - 2 * r + 1
  BY <1>6, <1>7, SMT
<1> QED
  BY <1>2, <1>5, <1>8 DEF Square, ii, jj

--------------------------------------------------------------------------------
(* The inductive invariant: how far each shape has come. *)

RectInv ==
    pc = "rect" =>
        /\ x \in Call.x .. Call.x + Call.w + 1
        /\ y \in Call.y .. Call.y + Call.h + 1
        /\ pixels = {a \in BoundingBox : a \div Width < y \/ (a \div Width = y /\ a % Width < x)}

TextInv ==
    pc = "text" =>
        /\ count \in 0 .. Len(Call.text)
        /\ x = Call.x + 8 * count
        /\ y \in 0 .. 15
        /\ pixels \subseteq BoundingBox

IsRound(a) ==
    /\ Distance(a) < Square(Call.r + 1)
    /\ Call.r > 0 => Distance(a) > Square(Call.r - 1)

(* The eight places of a point (i, j) of the circle. *)
Closed(i, j) ==
    \A s, u \in {-1, 1} :
        /\ Place(Call.x + s * i, Call.y + u * j) \in pixels
        /\ Place(Call.x + s * j, Call.y + u * i) \in pixels

(* What lies below y or beyond x is drawn. *)
CircleInv ==
    pc = "circle" =>
        /\ x \in Int /\ y \in Nat /\ t1 \in Int
        /\ x <= Call.r
        /\ Error(Call.r, x, y, t1)
        /\ x >= y => t1 \in 0 .. x
        /\ pixels \subseteq BoundingBox
        /\ \A a \in pixels : IsRound(a)
        /\ \A v \in 0 .. Call.r : v < y \/ v > x => \E e \in 0 .. Call.r : Closed(v, e)

DrawingInv ==
    /\ calls \in Seq(Shapes)
    /\ pc \in Drawing => calls # <<>> /\ Call.draw = pc
    /\ RectInv /\ TextInv /\ CircleInv

LEMMA CallIsShape ==
    ASSUME calls \in Seq(Shapes), calls # <<>>
    PROVE  Call \in Shapes /\ Tail(calls) \in Seq(Shapes)
BY DEF Call

LEMMA ShapeOfCall ==
    ASSUME NEW c \in Shapes
    PROVE  /\ c.draw \in Drawing
           /\ c.draw = "rect" => c \in Rects
           /\ c.draw = "text" => c \in Texts
           /\ c.draw = "circle" => c \in Circles
BY DEF Shapes, Drawing, Rects, Texts, Circles

LEMMA RectBox ==
    ASSUME Call \in Rects
    PROVE  /\ Call.x \in Nat /\ Call.y \in Nat /\ Call.w \in Nat /\ Call.h \in Nat
           /\ Call.x + Call.w < Width /\ Call.y + Call.h < YRes
           /\ BoundingBox = Area(Call.x, Call.y, Call.x + Call.w, Call.y + Call.h)
<1>1. Call.draw = "rect"
  BY DEF Rects
<1>2. BoundingBox = Area(Call.x, Call.y, Call.x + Call.w, Call.y + Call.h)
  BY <1>1 DEF BoundingBox
<1> QED
  BY <1>2 DEF Rects

LEMMA TextBox ==
    ASSUME Call \in Texts
    PROVE  /\ Call.x \in Nat /\ Call.y \in Nat /\ Call.text \in Seq(DOMAIN Glyph)
           /\ Call.x >= 7 /\ Call.x + 8 * (Len(Call.text) - 1) < Width /\ Call.y + 15 < YRes
           /\ BoundingBox = Area(Call.x - 7, Call.y, Call.x + 8 * (Len(Call.text) - 1), Call.y + 15)
<1>1. Call.draw = "text"
  BY DEF Texts
<1>2. BoundingBox = Area(Call.x - 7, Call.y, Call.x + 8 * (Len(Call.text) - 1), Call.y + 15)
  BY <1>1 DEF BoundingBox
<1> QED
  BY <1>2 DEF Texts

LEMMA CircleBox ==
    ASSUME Call \in Circles
    PROVE  /\ Call.x \in Nat /\ Call.y \in Nat /\ Call.r \in Nat
           /\ Call.r <= Call.x /\ Call.x + Call.r < Width
           /\ Call.r <= Call.y /\ Call.y + Call.r < YRes
           /\ BoundingBox = Area(Call.x - Call.r, Call.y - Call.r, Call.x + Call.r, Call.y + Call.r)
<1>1. Call.draw = "circle"
  BY DEF Circles
<1>2. BoundingBox = Area(Call.x - Call.r, Call.y - Call.r, Call.x + Call.r, Call.y + Call.r)
  BY <1>1 DEF BoundingBox
<1> QED
  BY <1>2 DEF Circles

(* A circle draws its points within its box and within a pixel of its      *)
(* radius.                                                                 *)
LEMMA OctantsAreRound ==
    ASSUME Call \in Circles, x \in Nat, y \in Nat, t1 \in 0 .. x, x <= Call.r, y <= x,
           Error(Call.r, x, y, t1), NEW p \in Octants
    PROVE  Place(p[1], p[2]) \in BoundingBox /\ IsRound(Place(p[1], p[2]))
<1>0. /\ Call.x \in Nat /\ Call.y \in Nat /\ Call.r \in Nat
      /\ Call.r <= Call.x /\ Call.x + Call.r < Width
      /\ Call.r <= Call.y /\ Call.y + Call.r < YRes
      /\ BoundingBox = Area(Call.x - Call.r, Call.y - Call.r, Call.x + Call.r, Call.y + Call.r)
  BY CircleBox
<1>1. PICK i, j \in Int : /\ p = <<Call.x + i, Call.y + j>>
                          /\ \/ i \in {x, -x} /\ j \in {y, -y}
                             \/ i \in {y, -y} /\ j \in {x, -x}
  BY DEF Octants
<1> DEFINE a == Place(p[1], p[2])  r == Call.r  cx == Call.x  cy == Call.y
<1>2. i \in -r .. r /\ j \in -r .. r
  BY <1>0, <1>1, SMT
<1>3. /\ a \in Area(cx - r, cy - r, cx + r, cy + r)
      /\ a % Width = cx + i /\ a \div Width = cy + j
  <2>1. /\ cx - r \in Nat /\ cy - r \in Nat /\ cx + r \in Nat /\ cy + r \in Nat
        /\ cx + i \in cx - r .. cx + r /\ cy + j \in cy - r .. cy + r
    BY <1>0, <1>2, SMT
  <2>2. p[1] = cx + i /\ p[2] = cy + j
    BY <1>1
  <2>3. /\ Place(cx + i, cy + j) \in Area(cx - r, cy - r, cx + r, cy + r)
        /\ Place(cx + i, cy + j) % Width = cx + i /\ Place(cx + i, cy + j) \div Width = cy + j
    <3> DEFINE x1 == cx - r  y1 == cy - r  x2 == cx + r  y2 == cy + r  px == cx + i  py == cy + j
    <3>1. /\ x1 \in Nat /\ y1 \in Nat /\ x2 \in Nat /\ y2 \in Nat
          /\ x2 < Width /\ y2 < YRes /\ px \in x1 .. x2 /\ py \in y1 .. y2
      BY <1>0, <2>1
    <3> HIDE DEF x1, y1, x2, y2, px, py
    <3>2. /\ Place(px, py) \in Area(x1, y1, x2, y2)
          /\ Place(px, py) % Width = px /\ Place(px, py) \div Width = py
      BY <3>1, PlaceInArea
    <3> QED
      BY <3>2 DEF x1, y1, x2, y2, px, py
  <2> QED
    BY <2>2, <2>3
<1>4. Distance(a) = Square(x) + Square(y)
  <2>1. (cx + i) - cx = i /\ (cy + j) - cy = j
    BY <1>0, SMT
  <2>2. Distance(a) = Square(i) + Square(j)
    BY <1>3, <2>1 DEF Distance
  <2>3. Square(-x) = Square(x) /\ Square(-y) = Square(y) /\ Square(x) \in Int /\ Square(y) \in Int
    BY Squares DEF Square
  <2> QED
    BY <1>1, <2>2, <2>3
<1>5. IsRound(a)
  BY <1>0, <1>4, NearRadius DEF IsRound
<1> QED
  BY <1>0, <1>3, <1>5

--------------------------------------------------------------------------------
(* A step outside the shapes: no shape is in hand afterwards. *)
LEMMA NoShapeInHand ==
    ASSUME calls' \in Seq(Shapes), pc' \notin Drawing
    PROVE  DrawingInv'
BY DEF DrawingInv, RectInv, TextInv, CircleInv, Drawing

LEMMA StartsShape == ASSUME DrawingInv, StartCall PROVE DrawingInv'
<1>0. /\ calls \in Seq(Shapes) /\ calls # <<>> /\ calls' = calls
      /\ pc' = Call.draw /\ pixels' = {} /\ count' = 0
      /\ x' = (IF Call.draw = "circle" THEN Call.r ELSE Call.x)
      /\ y' = (IF Call.draw = "rect" THEN Call.y ELSE 0)
      /\ t1' = (IF Call.draw = "circle" THEN Call.r \div 16 ELSE 0)
  BY DEF StartCall, DrawingInv
<1>1. Call' = Call /\ BoundingBox' = BoundingBox
  BY <1>0 DEF Call, BoundingBox
<1>2. /\ Call \in Shapes
      /\ Call.draw = "rect" => Call \in Rects
      /\ Call.draw = "text" => Call \in Texts
      /\ Call.draw = "circle" => Call \in Circles
  BY <1>0, CallIsShape, ShapeOfCall
<1>3. RectInv'
  <2>1. SUFFICES ASSUME Call.draw = "rect"
                 PROVE  /\ x' \in Call.x .. Call.x + Call.w + 1
                        /\ y' \in Call.y .. Call.y + Call.h + 1
                        /\ pixels' = {a \in BoundingBox : a \div Width < y' \/ (a \div Width = y' /\ a % Width < x')}
    BY <1>0, <1>1 DEF RectInv
  <2>2. x' = Call.x /\ y' = Call.y
    BY <1>0, <2>1
  <2>3. /\ Call.x \in Nat /\ Call.y \in Nat /\ Call.w \in Nat /\ Call.h \in Nat
        /\ BoundingBox = Area(Call.x, Call.y, Call.x + Call.w, Call.y + Call.h)
    BY <1>2, <2>1, RectBox
  <2>4. ASSUME NEW a \in BoundingBox
        PROVE  ~(a \div Width < y' \/ (a \div Width = y' /\ a % Width < x'))
    <3>1. /\ a % Width \in Call.x .. Call.x + Call.w
          /\ a \div Width \in Call.y .. Call.y + Call.h
      BY <2>3, <2>4 DEF Area
    <3> QED
      BY <2>2, <2>3, <3>1
  <2>5. x' \in Call.x .. Call.x + Call.w + 1 /\ y' \in Call.y .. Call.y + Call.h + 1
    BY <2>2, <2>3
  <2> QED
    BY <1>0, <2>4, <2>5
<1>4. TextInv'
  <2>1. SUFFICES ASSUME Call.draw = "text"
                 PROVE  /\ count' \in 0 .. Len(Call.text)
                        /\ x' = Call.x + 8 * count'
                        /\ y' \in 0 .. 15
                        /\ pixels' \subseteq BoundingBox
    BY <1>0, <1>1 DEF TextInv
  <2>2. Call.x \in Nat /\ Call.text \in Seq(DOMAIN Glyph)
    BY <1>2, <2>1, TextBox
  <2>3. x' = Call.x /\ y' = 0
    BY <1>0, <2>1
  <2> QED
    BY <1>0, <2>2, <2>3
<1>5. CircleInv'
  <2>1. SUFFICES ASSUME Call.draw = "circle"
                 PROVE  CircleInv'
    BY <1>0 DEF CircleInv
  <2>2. Call.r \in Nat
    BY <1>2, <2>1, CircleBox
  <2>3. x' = Call.r /\ y' = 0 /\ t1' = Call.r \div 16
    BY <1>0, <2>1
  <2>4. Error(Call.r, x', y', t1') /\ t1' \in 0 .. x'
    BY <2>2, <2>3, ErrorStarts
  <2>5. \A v \in 0 .. Call.r : ~(v < y' \/ v > x')
    BY <2>2, <2>3
  <2>6. Error(Call.r, x, y, t1)'
    BY <1>1, <2>4 DEF Error
  <2> QED
    BY <1>0, <1>1, <2>2, <2>3, <2>4, <2>5, <2>6 DEF CircleInv
<1>6. (pc \in Drawing => calls # <<>> /\ Call.draw = pc)' /\ (calls \in Seq(Shapes))'
  BY <1>0, <1>1
<1> QED
  BY <1>3, <1>4, <1>5, <1>6 DEF DrawingInv

(* The end of a row adds nothing: the next one has no pixel yet. *)
LEMMA RectKept == ASSUME DrawingInv, RectPixel PROVE DrawingInv'
<1> DEFINE below(a) == a \div Width < y \/ (a \div Width = y /\ a % Width < x)
<1>0. /\ calls \in Seq(Shapes) /\ calls # <<>> /\ Call.draw = "rect"
      /\ pc = "rect" /\ pc' = "rect" /\ calls' = calls
      /\ x \in Call.x .. Call.x + Call.w + 1
      /\ y \in Call.y .. Call.y + Call.h
      /\ pixels = {a \in BoundingBox : below(a)}
  <2>1. calls \in Seq(Shapes) /\ calls # <<>> /\ Call.draw = "rect" /\ RectInv /\ pc = "rect"
    BY DEF DrawingInv, RectPixel, Drawing
  <2>2. Call.y \in Nat /\ Call.h \in Nat
    BY <2>1, CallIsShape, ShapeOfCall, RectBox
  <2>3. y <= Call.y + Call.h /\ pc' = "rect" /\ calls' = calls
    BY <2>1 DEF RectPixel
  <2> QED
    BY <2>1, <2>2, <2>3 DEF RectInv
<1>1. Call' = Call /\ BoundingBox' = BoundingBox
  BY <1>0 DEF Call, BoundingBox
<1>2. /\ Call.x \in Nat /\ Call.y \in Nat /\ Call.w \in Nat /\ Call.h \in Nat
      /\ Call.x + Call.w < Width /\ Call.y + Call.h < YRes
      /\ BoundingBox = Area(Call.x, Call.y, Call.x + Call.w, Call.y + Call.h)
  BY <1>0, CallIsShape, ShapeOfCall, RectBox
<1>3. ASSUME NEW a \in BoundingBox
      PROVE  /\ a % Width \in Call.x .. Call.x + Call.w
             /\ a \div Width \in Call.y .. Call.y + Call.h
             /\ a = Place(a % Width, a \div Width)
  BY <1>2, <1>3, AddressIsPlace DEF Area
<1>4. SUFFICES /\ x' \in Call.x .. Call.x + Call.w + 1
               /\ y' \in Call.y .. Call.y + Call.h + 1
               /\ pixels' = {a \in BoundingBox : a \div Width < y' \/ (a \div Width = y' /\ a % Width < x')}
  <2>1. RectInv'
    BY <1>0, <1>1, <1>4 DEF RectInv
  <2>2. TextInv' /\ CircleInv'
    BY <1>0 DEF TextInv, CircleInv
  <2>3. (pc \in Drawing => calls # <<>> /\ Call.draw = pc)' /\ (calls \in Seq(Shapes))'
    BY <1>0, <1>1
  <2> QED
    BY <2>1, <2>2, <2>3 DEF DrawingInv
<1>5. CASE x <= Call.x + Call.w /\ Draw({<<x, y>>}) /\ x' = x + 1 /\ UNCHANGED y
  <2>1. x' \in Call.x .. Call.x + Call.w + 1 /\ y' = y /\ y \in Call.y .. Call.y + Call.h + 1
    BY <1>0, <1>2, <1>5
  <2>2. pixels' = pixels \cup {Place(x, y)}
    BY <1>5 DEF Draw
  <2>3. /\ Place(x, y) \in BoundingBox
        /\ Place(x, y) % Width = x /\ Place(x, y) \div Width = y
    <3>1. /\ x \in Call.x .. Call.x + Call.w
          /\ Call.x + Call.w \in Nat /\ Call.y + Call.h \in Nat
      BY <1>0, <1>2, <1>5
    <3>2. y \in Call.y .. Call.y + Call.h
      BY <1>0
    <3>3. /\ Place(x, y) \in Area(Call.x, Call.y, Call.x + Call.w, Call.y + Call.h)
          /\ Place(x, y) % Width = x /\ Place(x, y) \div Width = y
      BY <1>2, <3>1, <3>2, PlaceInArea
    <3> QED
      BY <1>2, <3>3
  <2>4. ASSUME NEW a \in BoundingBox
        PROVE  (a \div Width < y' \/ (a \div Width = y' /\ a % Width < x')) <=> below(a) \/ a = Place(x, y)
    <3>1. a % Width = x /\ a \div Width = y <=> a = Place(x, y)
      BY <1>3, <2>3, <2>4
    <3>2. a % Width < x + 1 <=> a % Width < x \/ a % Width = x
      BY <1>0, <1>2, <1>3, <2>4
    <3> QED
      BY <1>5, <2>1, <3>1, <3>2
  <2> HIDE DEF below
  <2>5. pixels' = {a \in BoundingBox : a \div Width < y' \/ (a \div Width = y' /\ a % Width < x')}
    BY <1>0, <2>2, <2>3, <2>4
  <2> QED
    BY <2>1, <2>5
<1>6. CASE x > Call.x + Call.w /\ x' = Call.x /\ y' = y + 1 /\ UNCHANGED pixels
  <2>1. x' \in Call.x .. Call.x + Call.w + 1 /\ y' \in Call.y .. Call.y + Call.h + 1
    BY <1>0, <1>2, <1>6
  <2>2. ASSUME NEW a \in BoundingBox
        PROVE  (a \div Width < y' \/ (a \div Width = y' /\ a % Width < x')) <=> below(a)
    <3> DEFINE row == a \div Width  col == a % Width
    <3>1. row \in Int /\ col \in Int /\ col >= Call.x /\ col <= Call.x + Call.w
      BY <1>2, <1>3, <2>2
    <3> HIDE DEF row, col
    <3>2. col < x /\ ~(col < x')
      BY <1>0, <1>2, <1>6, <3>1
    <3>3. row < y + 1 <=> row < y \/ row = y
      BY <1>0, <1>2, <3>1
    <3> QED
      BY <1>6, <3>2, <3>3 DEF row, col
  <2> HIDE DEF below
  <2>3. pixels' = {a \in BoundingBox : a \div Width < y' \/ (a \div Width = y' /\ a % Width < x')}
    BY <1>0, <1>6, <2>2
  <2> QED
    BY <2>1, <2>3
<1> QED
  BY <1>5, <1>6 DEF RectPixel

(* A row of a letter ends at x and begins seven places before it. *)
LEMMA RowInBox ==
    ASSUME Call \in Texts, count \in 0 .. Len(Call.text) - 1, x = Call.x + 8 * count,
           y \in 0 .. 15, NEW p \in RowPoints
    PROVE  Place(p[1], p[2]) \in BoundingBox
<1> DEFINE n == Len(Call.text)
<1>1. /\ Call.x \in Nat /\ Call.y \in Nat /\ Call.text \in Seq(DOMAIN Glyph)
      /\ Call.x >= 7 /\ Call.x + 8 * (n - 1) < Width /\ Call.y + 15 < YRes
      /\ BoundingBox = Area(Call.x - 7, Call.y, Call.x + 8 * (n - 1), Call.y + 15)
  BY TextBox
<1>2. n \in Nat /\ count \in Nat /\ count <= n - 1
  BY <1>1
<1>3. Call.text[count + 1] \in DOMAIN Glyph
  BY <1>1, <1>2
<1>4. PICK b \in Glyph[Call.text[count + 1]][y] : p = <<x - (7 - b), Call.y + y>>
  BY DEF RowPoints
<1>5. b \in 0 .. 7
  BY <1>3, <1>4, GraphicsAssumption DEF Bits
<1> HIDE DEF n
<1>6. ASSUME NEW cx \in Nat, NEW cy \in Nat, NEW m \in Nat, NEW c \in Nat, NEW row \in 0 .. 15,
             cx >= 7, c <= m - 1
      PROVE  /\ cx - 7 \in Nat /\ cx + 8 * (m - 1) \in Nat /\ cy + 15 \in Nat
             /\ (cx + 8 * c) - (7 - b) \in cx - 7 .. cx + 8 * (m - 1)
             /\ cy + row \in cy .. cy + 15
  BY <1>5, <1>6, SMT
<1>7. Place(x - (7 - b), Call.y + y) \in Area(Call.x - 7, Call.y, Call.x + 8 * (n - 1), Call.y + 15)
  <2>1. /\ Call.x - 7 \in Nat /\ Call.x + 8 * (n - 1) \in Nat /\ Call.y + 15 \in Nat
        /\ x - (7 - b) \in Call.x - 7 .. Call.x + 8 * (n - 1)
        /\ Call.y + y \in Call.y .. Call.y + 15
    BY <1>1, <1>2, <1>6
  <2> QED
    BY <1>1, <2>1, PlaceInArea
<1> QED
  BY <1>1, <1>4, <1>7

LEMMA TextKept == ASSUME DrawingInv, TextRow PROVE DrawingInv'
<1>0. /\ calls \in Seq(Shapes) /\ calls # <<>> /\ Call.draw = "text" /\ Call \in Texts
      /\ pc = "text" /\ pc' = "text" /\ calls' = calls
      /\ count \in 0 .. Len(Call.text) /\ x = Call.x + 8 * count /\ y \in 0 .. 15
      /\ pixels \subseteq BoundingBox
  <2>1. calls \in Seq(Shapes) /\ calls # <<>> /\ Call.draw = "text" /\ TextInv /\ pc = "text"
    BY DEF DrawingInv, TextRow, Drawing
  <2>2. Call \in Texts /\ pc' = "text" /\ calls' = calls
    BY <2>1, CallIsShape, ShapeOfCall DEF TextRow
  <2> QED
    BY <2>1, <2>2 DEF TextInv
<1>1. Call' = Call /\ BoundingBox' = BoundingBox
  BY <1>0 DEF Call, BoundingBox
<1>2. Call.x \in Nat /\ Len(Call.text) \in Nat
  BY <1>0, TextBox
<1>3. count \in 0 .. Len(Call.text) - 1
  BY <1>0, <1>2 DEF TextRow
<1>4. pixels' \subseteq BoundingBox
  <2>1. pixels' \subseteq pixels \cup {Place(p[1], p[2]) : p \in RowPoints}
    BY DEF TextRow, Paint, Draw
  <2> QED
    BY <1>0, <1>3, <2>1, RowInBox
<1>5. /\ count' \in 0 .. Len(Call.text) /\ x' = Call.x + 8 * count' /\ y' \in 0 .. 15
  <2>1. CASE y < 15 /\ y' = y + 1 /\ UNCHANGED <<x, count>>
    BY <1>0, <2>1
  <2>2. CASE y' = 0 /\ x' = x + 8 /\ count' = count + 1
    BY <1>0, <1>2, <1>3, <2>2
  <2> QED
    BY <2>1, <2>2 DEF TextRow
<1>6. TextInv'
  BY <1>0, <1>1, <1>4, <1>5 DEF TextInv
<1>7. RectInv' /\ CircleInv'
  BY <1>0 DEF RectInv, CircleInv
<1>8. (pc \in Drawing => calls # <<>> /\ Call.draw = pc)' /\ (calls \in Seq(Shapes))'
  BY <1>0, <1>1
<1> QED
  BY <1>6, <1>7, <1>8 DEF DrawingInv


(* A turn of the loop draws the eight places of its point (i, j). *)
LEMMA TurnCloses ==
    ASSUME NEW i \in Int, NEW j \in Int, x = i, y = j, Draw(Octants), Call' = Call,
           Call.x \in Nat, Call.y \in Nat
    PROVE  Closed(i, j)' /\ Closed(j, i)'
<1>1. pixels' = pixels \cup {Place(p[1], p[2]) : p \in Octants}
  BY DEF Draw
<1>2. ASSUME NEW d \in ({x, -x} \X {y, -y}) \cup ({y, -y} \X {x, -x})
      PROVE  Place(Call.x + d[1], Call.y + d[2]) \in pixels'
  <2> DEFINE p == <<Call.x + d[1], Call.y + d[2]>>
  <2>1. p \in Octants
    BY <1>2, Zenon DEF Octants
  <2>2. p[1] = Call.x + d[1] /\ p[2] = Call.y + d[2]
    OBVIOUS
  <2> HIDE DEF p
  <2>3. Place(p[1], p[2]) \in pixels'
    BY <1>1, <2>1, Zenon
  <2> QED
    BY <2>2, <2>3
<1>3. ASSUME NEW s \in {-1, 1}, NEW u \in {-1, 1}
      PROVE  /\ Place(Call.x + s * i, Call.y + u * j) \in pixels'
             /\ Place(Call.x + s * j, Call.y + u * i) \in pixels'
  <2>1. s * i \in {x, -x} /\ u * j \in {y, -y} /\ s * j \in {y, -y} /\ u * i \in {x, -x}
    BY <1>3, SMT
  <2>2. <<s * i, u * j>> \in {x, -x} \X {y, -y} /\ <<s * j, u * i>> \in {y, -y} \X {x, -x}
    BY <2>1
  <2>3. Place(Call.x + <<s * i, u * j>>[1], Call.y + <<s * i, u * j>>[2]) \in pixels'
    BY <1>2, <2>2
  <2>4. Place(Call.x + <<s * j, u * i>>[1], Call.y + <<s * j, u * i>>[2]) \in pixels'
    BY <1>2, <2>2
  <2> QED
    BY <2>3, <2>4
<1>4. (Call.x)' = Call.x /\ (Call.y)' = Call.y
  OBVIOUS
<1>5. Closed(i, j)'
  BY <1>3, <1>4 DEF Closed, Place
<1>6. Closed(j, i)'
  BY <1>3, <1>4 DEF Closed, Place
<1> QED
  BY <1>5, <1>6

LEMMA StaysClosed ==
    ASSUME NEW i, NEW j, Closed(i, j), pixels \subseteq pixels', Call' = Call
    PROVE  Closed(i, j)'
BY DEF Closed, Place

LEMMA CircleKept == ASSUME DrawingInv, CircleTurn PROVE DrawingInv'
<1>0. /\ calls \in Seq(Shapes) /\ calls # <<>> /\ Call.draw = "circle" /\ Call \in Circles
      /\ pc = "circle" /\ pc' = "circle" /\ calls' = calls /\ CircleInv
  <2>1. calls \in Seq(Shapes) /\ calls # <<>> /\ Call.draw = "circle" /\ CircleInv /\ pc = "circle"
    BY DEF DrawingInv, CircleTurn, Drawing
  <2> QED
    BY <2>1, CallIsShape, ShapeOfCall DEF CircleTurn
<1>1. Call' = Call /\ BoundingBox' = BoundingBox
  BY <1>0 DEF Call, BoundingBox
<1>2. Call.x \in Nat /\ Call.y \in Nat /\ Call.r \in Nat
  BY <1>0, CircleBox
<1>3. /\ x \in Nat /\ y \in Nat /\ t1 \in Int /\ x <= Call.r /\ y <= x /\ t1 \in 0 .. x
      /\ Error(Call.r, x, y, t1)
      /\ pixels \subseteq BoundingBox /\ \A a \in pixels : IsRound(a)
      /\ \A v \in 0 .. Call.r : v < y \/ v > x => \E e \in 0 .. Call.r : Closed(v, e)
  <2>1. x >= y
    BY DEF CircleTurn
  <2> QED
    BY <1>0, <1>2, <2>1 DEF CircleInv
<1>4. Draw(Octants) /\ y' = y + 1
  BY DEF CircleTurn
<1>5. pixels' = pixels \cup {Place(p[1], p[2]) : p \in Octants}
  BY <1>4 DEF Draw
<1>6. pixels' \subseteq BoundingBox /\ \A a \in pixels' : IsRound(a)
  BY <1>0, <1>3, <1>5, OctantsAreRound
<1>7. \A a \in pixels' : IsRound(a)'
  BY <1>1, <1>6 DEF IsRound, Distance
<1>8. \/ x' = x - 1 /\ t1' = t1 + (y + 1) - x /\ t1 + (y + 1) - x >= 0
      \/ x' = x /\ t1' = t1 + (y + 1) /\ t1 + (y + 1) - x < 0
  BY <1>3 DEF CircleTurn
<1>9. /\ x' \in Int /\ y' \in Nat /\ t1' \in Int /\ x' <= Call.r
      /\ Error(Call.r, x', y', t1') /\ (x' >= y' => t1' \in 0 .. x')
  <2>1. CASE x' = x - 1 /\ t1' = t1 + (y + 1) - x /\ t1 + (y + 1) - x >= 0
    <3>1. Error(Call.r, x', y', t1') /\ (x' >= y' => t1' \in 0 .. x')
      BY <1>2, <1>3, <1>4, <2>1, ErrorKept
    <3> QED
      BY <1>2, <1>3, <1>4, <2>1, <3>1
  <2>2. CASE x' = x /\ t1' = t1 + (y + 1) /\ t1 + (y + 1) - x < 0
    <3>1. Error(Call.r, x', y', t1') /\ t1' \in 0 .. x'
      BY <1>2, <1>3, <1>4, <2>2, ErrorKept
    <3> QED
      BY <1>2, <1>3, <1>4, <2>2, <3>1
  <2> QED
    BY <1>8, <2>1, <2>2
<1>10. Error(Call.r, x, y, t1)'
  BY <1>1, <1>9 DEF Error
<1>11. ASSUME NEW v \in 0 .. Call.r, v < y' \/ v > x'
       PROVE  \E e \in 0 .. Call.r : Closed(v, e)'
  <2>1. SUFFICES ASSUME NEW i \in Int, NEW j \in Int, x = i, y = j
                 PROVE  \E e \in 0 .. Call.r : Closed(v, e)'
    BY <1>3
  <2>2. Closed(i, j)' /\ Closed(j, i)'
    BY <1>1, <1>2, <1>4, <2>1, TurnCloses
  <2>3. i \in 0 .. Call.r /\ j \in 0 .. Call.r
    BY <1>2, <1>3, <2>1
  <2>4. v < j \/ v > i \/ v = j \/ v = i
    BY <1>3, <1>4, <1>8, <1>11, <2>1
  <2>5. CASE v < j \/ v > i
    <3>1. PICK e \in 0 .. Call.r : Closed(v, e)
      BY <1>3, <2>1, <2>5
    <3>2. Closed(v, e)'
      BY <1>1, <1>5, <3>1, StaysClosed
    <3> QED
      BY <3>2
  <2>6. CASE v = i
    BY <2>2, <2>3, <2>6
  <2>7. CASE v = j
    BY <2>2, <2>3, <2>7
  <2> QED
    BY <2>4, <2>5, <2>6, <2>7
<1>12. CircleInv'
  BY <1>1, <1>6, <1>7, <1>9, <1>10, <1>11 DEF CircleInv
<1>13. RectInv' /\ TextInv'
  BY <1>0 DEF RectInv, TextInv
<1>14. (pc \in Drawing => calls # <<>> /\ Call.draw = pc)' /\ (calls \in Seq(Shapes))'
  BY <1>0, <1>1
<1> QED
  BY <1>12, <1>13, <1>14 DEF DrawingInv

LEMMA ReturnKeeps == ASSUME DrawingInv, Return, calls # <<>> PROVE DrawingInv'
<1>1. calls' \in Seq(Shapes) /\ pc' = "call"
  BY CallIsShape DEF Return, DrawingInv
<1> QED
  BY <1>1, NoShapeInHand DEF Drawing

LEMMA DrawingStarts == Init => DrawingInv
BY DEF Init, DrawingInv, RectInv, TextInv, CircleInv, Drawing

LEMMA DrawingKept == ASSUME DrawingInv, [Next]_vars PROVE DrawingInv'
<1>0. calls \in Seq(Shapes) /\ (pc \in Drawing => calls # <<>>)
  BY DEF DrawingInv
<1>1. CASE InitGraphics
  BY <1>1, DriverAssumption, NoShapeInHand DEF InitGraphics, Drawing
<1>2. CASE StartCall
  BY <1>2, StartsShape
<1>3. CASE RectPixel
  BY <1>3, RectKept
<1>4. CASE RectEnd \/ TextEnd \/ CircleEnd
  BY <1>0, <1>4, ReturnKeeps DEF RectEnd, TextEnd, CircleEnd, Drawing
<1>5. CASE TextRow
  BY <1>5, TextKept
<1>6. CASE CircleTurn
  BY <1>6, CircleKept
<1>7. CASE NoFrameBuffer \/ Interrupt
  BY <1>0, <1>7, NoShapeInHand DEF NoFrameBuffer, Interrupt, Drawing
<1>8. CASE AskKey
  BY <1>0, <1>8, NoShapeInHand DEF AskKey, Drawing
<1>9. CASE SleepMs
  <2>1. (pc' = "exit" /\ UNCHANGED <<calls, key>>) \/ (pc' = "call" /\ calls' = Prompts)
    BY <1>9, Zenon DEF SleepMs
  <2>2. calls' \in Seq(Shapes) /\ pc' \in {"exit", "call"}
    BY <1>0, <2>1, DriverAssumption
  <2> QED
    BY <2>2, NoShapeInHand DEF Drawing
<1>10. CASE ExitGraphics
  BY <1>0, <1>10, NoShapeInHand DEF ExitGraphics, Drawing
<1>11. CASE GetKey
  <2>1. PICK k \in {"s", "o", "q", "other"} :
            calls' \in (CASE k = "s" -> Bodies [] k = "o" -> Faces [] OTHER -> {<<>>})
    BY <1>11 DEF GetKey
  <2>2. calls' \in Bodies \/ calls' \in Faces \/ calls' = <<>>
    <3>1. CASE k = "s"
      BY <2>1, <3>1
    <3>2. CASE k = "o"
      BY <2>1, <3>2
    <3>3. CASE k # "s" /\ k # "o"
      BY <2>1, <3>3
    <3> QED
      BY <3>1, <3>2, <3>3
  <2>3. <<>> \in Seq(Shapes)
    OBVIOUS
  <2>4. calls' \in Seq(Shapes)
    BY <2>2, <2>3, DriverAssumption
  <2>5. pc' = "call"
    BY <1>11 DEF GetKey
  <2> QED
    BY <2>4, <2>5, NoShapeInHand DEF Drawing
<1>12. CASE UNCHANGED vars
  <2>1. /\ pc' = pc /\ calls' = calls /\ pixels' = pixels
        /\ x' = x /\ y' = y /\ t1' = t1 /\ count' = count
    BY <1>12 DEF vars, locals
  <2>2. Call' = Call /\ BoundingBox' = BoundingBox
    BY <2>1 DEF Call, BoundingBox
  <2>3. RectInv' /\ TextInv'
    BY <2>1, <2>2 DEF DrawingInv, RectInv, TextInv
  <2>4. CircleInv'
    <3>1. Error(Call.r, x, y, t1) => Error(Call.r, x, y, t1)'
      BY <2>1, <2>2 DEF Error
    <3>2. \A a : IsRound(a) => IsRound(a)'
      BY <2>2 DEF IsRound, Distance
    <3>3. \A i, j : Closed(i, j) => Closed(i, j)'
      BY <2>1, <2>2 DEF Closed, Place
    <3> QED
      BY <2>1, <2>2, <3>1, <3>2, <3>3 DEF DrawingInv, CircleInv
  <2> QED
    BY <2>1, <2>2, <2>3, <2>4 DEF DrawingInv
<1> QED
  BY <1>1, <1>2, <1>3, <1>4, <1>5, <1>6, <1>7, <1>8, <1>9, <1>10, <1>11, <1>12 DEF Next, Work

LEMMA DrawingIsWhole == ASSUME DrawingInv PROVE ShapesAreWhole
<1>1. ASSUME pc = "rect"
      PROVE  pixels \subseteq BoundingBox /\ (y > Call.y + Call.h => pixels = BoundingBox)
  <2>1. Call \in Rects /\ RectInv
    BY <1>1, CallIsShape, ShapeOfCall DEF DrawingInv, Drawing
  <2>2. /\ Call.y \in Nat /\ Call.h \in Nat
        /\ BoundingBox = Area(Call.x, Call.y, Call.x + Call.w, Call.y + Call.h)
    BY <2>1, RectBox
  <2>3. pixels = {a \in BoundingBox : a \div Width < y \/ (a \div Width = y /\ a % Width < x)}
    BY <1>1, <2>1 DEF RectInv
  <2>4. ASSUME y > Call.y + Call.h, NEW a \in BoundingBox
        PROVE  a \div Width < y
    <3>1. a \div Width \in Call.y .. Call.y + Call.h
      BY <2>2, <2>4 DEF Area
    <3>2. y \in Call.y .. Call.y + Call.h + 1
      BY <1>1, <2>1 DEF RectInv
    <3> QED
      BY <2>2, <2>4, <3>1, <3>2
  <2> QED
    BY <2>3, <2>4
<1>2. StaysInBox
  BY <1>1 DEF StaysInBox, DrawingInv, TextInv, CircleInv
<1>3. RectIsFull
  BY <1>1 DEF RectIsFull
<1>4. CircleIsRound
  <2>1. SUFFICES ASSUME pc = "circle", x < y
                 PROVE  /\ \A a \in pixels : IsRound(a)
                        /\ \A d \in -Call.r .. Call.r : \A side \in {-1, 1} :
                              /\ \E e \in 0 .. Call.r : Place(Call.x + d, Call.y + side * e) \in pixels
                              /\ \E e \in 0 .. Call.r : Place(Call.x + side * e, Call.y + d) \in pixels
    BY DEF CircleIsRound, IsRound
  <2>2. Call \in Circles /\ CircleInv
    BY <2>1, CallIsShape, ShapeOfCall DEF DrawingInv, Drawing
  <2>3. Call.r \in Nat
    BY <2>2, CircleBox
  <2>4. \A a \in pixels : IsRound(a)
    BY <2>1, <2>2 DEF CircleInv
  <2>5. ASSUME NEW d \in -Call.r .. Call.r, NEW side \in {-1, 1}
        PROVE  /\ \E e \in 0 .. Call.r : Place(Call.x + d, Call.y + side * e) \in pixels
               /\ \E e \in 0 .. Call.r : Place(Call.x + side * e, Call.y + d) \in pixels
    <3>1. PICK v \in 0 .. Call.r, s \in {-1, 1} : d = s * v
      <4>1. CASE d >= 0
        <5>1. d \in 0 .. Call.r /\ d = 1 * d
          BY <2>3, <2>5, <4>1
        <5> QED
          BY <5>1
      <4>2. CASE d < 0
        <5>1. -d \in 0 .. Call.r /\ d = (-1) * (-d)
          BY <2>3, <2>5, <4>2
        <5> QED
          BY <5>1
      <4> QED
        BY <2>3, <2>5, <4>1, <4>2
    <3>2. v < y \/ v > x
      BY <2>1, <2>2, <2>3 DEF CircleInv
    <3>3. PICK e \in 0 .. Call.r : Closed(v, e)
      BY <2>1, <2>2, <3>2 DEF CircleInv
    <3>4. Place(Call.x + s * v, Call.y + side * e) \in pixels
      BY <2>5, <3>1, <3>3 DEF Closed
    <3>5. Place(Call.x + side * e, Call.y + s * v) \in pixels
      BY <2>5, <3>1, <3>3 DEF Closed
    <3> QED
      BY <3>1, <3>4, <3>5
  <2> QED
    BY <2>4, <2>5
<1> QED
  BY <1>2, <1>3, <1>4 DEF ShapesAreWhole

(* Whatever the driver draws on a screen it fits is whole: no pixel of it  *)
(* lands outside its box, a finished rectangle has no holes, a finished    *)
(* circle of any radius is within a pixel of it and has no gaps            *)
(* (draw_rect, draw_text, draw_circle).                                    *)
THEOREM WholeShapes == Spec => []ShapesAreWhole
<1>1. Init => DrawingInv
  BY DrawingStarts
<1>2. DrawingInv /\ [Next]_vars => DrawingInv'
  BY DrawingKept
<1>3. DrawingInv => ShapesAreWhole
  BY DrawingIsWhole
<1> QED
  BY <1>1, <1>2, <1>3, PTL DEF Spec

--------------------------------------------------------------------------------
(* The terminal and the pause. *)

TerminalInv ==
    /\ TerminalRestored
    /\ pc = "init" => terminal = "line"
    /\ pc \notin {"init", "crashed"} => oldTerminal = "line"

LEMMA TerminalKept == ASSUME DrawingInv, TerminalInv, [Next]_vars PROVE TerminalInv'
<1>1. CASE InitGraphics
  BY <1>1 DEF InitGraphics, TerminalInv, TerminalRestored
<1>2. CASE StartCall
  <2>1. pc = "call" /\ pc' \in Drawing /\ UNCHANGED <<mapped, tty>>
    BY <1>2, CallIsShape, ShapeOfCall DEF StartCall, DrawingInv
  <2> QED
    BY <2>1 DEF TerminalInv, TerminalRestored, tty, Drawing
<1>3. CASE RectPixel \/ TextRow \/ CircleTurn \/ UNCHANGED vars
  <2>1. UNCHANGED <<pc, mapped, tty>>
    BY <1>3 DEF RectPixel, TextRow, CircleTurn, vars
  <2> QED
    BY <2>1 DEF TerminalInv, TerminalRestored, tty
<1>4. CASE RectEnd \/ TextEnd \/ CircleEnd \/ AskKey \/ GetKey \/ SleepMs
  <2>1. pc \in Drawing \cup {"call", "key"} /\ pc' \in {"call", "key", "exit"} /\ UNCHANGED <<mapped, tty>>
    BY <1>4 DEF RectEnd, TextEnd, CircleEnd, Return, AskKey, GetKey, SleepMs, Drawing
  <2> QED
    BY <2>1 DEF TerminalInv, TerminalRestored, tty, Drawing
<1>5. CASE ExitGraphics
  BY <1>5 DEF ExitGraphics, TerminalInv, TerminalRestored, tty
<1>6. CASE NoFrameBuffer \/ Interrupt
  <2>1. pc' = "crashed" /\ UNCHANGED <<mapped, tty>>
    BY <1>6 DEF NoFrameBuffer, Interrupt
  <2> QED
    BY <2>1 DEF TerminalInv, TerminalRestored, tty
<1> QED
  BY <1>1, <1>2, <1>3, <1>4, <1>5, <1>6 DEF Next, Work

(* The terminal is raw exactly while the program runs, and when it ends by *)
(* itself the mode is the one it was found in (init_graphics,              *)
(* exit_graphics).                                                         *)
THEOREM TerminalIsRestored == Spec => []TerminalRestored
<1>1. Init => DrawingInv /\ TerminalInv
  BY DrawingStarts DEF Init, TerminalInv, TerminalRestored
<1>2. DrawingInv /\ TerminalInv /\ [Next]_vars => (DrawingInv /\ TerminalInv)'
  BY DrawingKept, TerminalKept
<1>3. TerminalInv => TerminalRestored
  BY DEF TerminalInv
<1> QED
  BY <1>1, <1>2, <1>3, PTL DEF Spec

LEMMA SecondIs ==
    /\ Millisecond \in Nat /\ Second \in Nat /\ Word \in Nat \ {0}
    /\ 0 < Second /\ Second < Word \div 2
BY SMT DEF Millisecond, Second, Word

(* A long of either width: what nanosleep accepts is not more than asked,  *)
(* and all that was asked only below a second.                             *)
LEMMA GrantedIsNoMore ==
    ASSUME NEW ms \in Nat, NEW bits \in {32, 64}
    PROVE  /\ ms * Millisecond \in Nat
           /\ Granted(TvNsec(ms, bits)) <= ms * Millisecond
           /\ Granted(TvNsec(ms, bits)) = ms * Millisecond <=> ms * Millisecond < Second
<1> DEFINE asking == ms * Millisecond  wrapped == asking % Word
<1>1. asking \in Nat
  BY SecondIs, SMT
<1> HIDE DEF asking
<1>2. TvNsec(ms, bits) = IF bits = 64 THEN asking
                         ELSE IF wrapped < Word \div 2 THEN wrapped ELSE wrapped - Word
  BY Zenon DEF TvNsec, asking
<1>3. ASSUME NEW n \in Int, n <= asking, asking < Second => n = asking
      PROVE  Granted(n) <= asking /\ (Granted(n) = asking <=> asking < Second)
  BY <1>1, <1>3, SecondIs, SMT DEF Granted
<1>4. /\ wrapped \in 0 .. Word - 1 /\ wrapped <= asking
      /\ asking < Word => wrapped = asking
  <2>1. /\ asking \div Word \in Int /\ wrapped \in 0 .. Word - 1
        /\ asking = Word * (asking \div Word) + wrapped
    BY <1>1, SecondIs, DivMod
  <2> DEFINE q == asking \div Word
  <2>2. q \in Int /\ asking = Word * q + wrapped
    BY <2>1
  <2> HIDE DEF q, wrapped
  <2>3. q >= 0
    <3>1. SUFFICES ASSUME q <= -1 PROVE FALSE
      BY <2>2, SMT
    <3>2. Word * q <= -Word
      BY <2>2, <3>1, SecondIs, SMT
    <3> QED
      BY <1>1, <2>1, <2>2, <3>2, SecondIs, SMT
  <2>4. Word * q >= 0
    BY <2>2, <2>3, SecondIs, SMT
  <2>5. asking < Word => q = 0
    <3>1. SUFFICES ASSUME asking < Word, q >= 1 PROVE FALSE
      BY <2>2, <2>3, SMT
    <3>2. Word * q >= Word
      BY <2>2, <3>1, SecondIs, SMT
    <3> QED
      BY <1>1, <2>1, <2>2, <3>1, <3>2, SecondIs, SMT
  <2>6. q = 0 => wrapped = asking
    BY <2>1, <2>2, SecondIs, SMT
  <2>7. wrapped <= asking
    BY <1>1, <2>1, <2>2, <2>4, SecondIs, SMT
  <2> QED
    BY <2>1, <2>5, <2>6, <2>7
<1> HIDE DEF wrapped
<1>5. CASE bits = 64
  BY <1>1, <1>2, <1>3, <1>5 DEF asking
<1>6. CASE bits # 64 /\ wrapped < Word \div 2
  <2>1. wrapped \in Int /\ (asking < Second => wrapped = asking)
    BY <1>1, <1>4, SecondIs, SMT
  <2> QED
    BY <1>1, <1>2, <1>3, <1>4, <1>6, <2>1 DEF asking
<1>7. CASE bits # 64 /\ ~(wrapped < Word \div 2)
  <2>1. /\ wrapped - Word \in Int /\ wrapped - Word <= asking
        /\ asking < Second => wrapped - Word = asking
    BY <1>1, <1>4, <1>7, SecondIs, SMT
  <2> QED
    BY <1>1, <1>2, <1>3, <1>7, <2>1 DEF asking
<1> QED
  BY <1>5, <1>6, <1>7

(* For a pause of any length, with a long of 32 bits or of 64: nanosleep   *)
(* is made to wait for it if it is less than a second, and for less than   *)
(* it otherwise (sleep_ms, library.c:73-80).                               *)
THEOREM ShortPausesKept == Spec => []PausesKept
<1>1. Init => PausesKept
  BY SecondIs DEF Init, PausesKept, Second, Millisecond
<1>2. ASSUME PausesKept, [Next]_vars PROVE PausesKept'
  <2>1. CASE UNCHANGED pause
    BY <1>2, <2>1, Zenon DEF PausesKept, pause
  <2>2. CASE SleepMs
    <3>1. PICK ms \in Pauses, bits \in {32, 64} :
              asked' = ms * Millisecond /\ granted' = Granted(TvNsec(ms, bits))
      BY <2>2, Zenon DEF SleepMs
    <3>2. ms \in Nat
      BY GraphicsAssumption
    <3> QED
      BY <3>1, <3>2, GrantedIsNoMore DEF PausesKept
  <2>3. SleepMs \/ UNCHANGED pause
    BY <1>2 DEF Next, Work, vars, InitGraphics, StartCall, RectPixel, RectEnd, TextRow, TextEnd,
                CircleTurn, CircleEnd, Return, NoFrameBuffer, AskKey, ExitGraphics, GetKey, Interrupt
  <2> QED
    BY <2>1, <2>2, <2>3
<1> QED
  BY <1>1, <1>2, PTL DEF Spec
================================================================================
