---------------------------- MODULE ArenaProofs ----------------------------
(***************************************************************************)
(* Proofs about Arena. For every border, set of walls and width of size_t:  *)
(* only a missing map makes the bound of the loops wrap. For every roomy    *)
(* map: the pushes keep a player that is in the open there, and no shot     *)
(* fired from the open gets past a wall or the border.                      *)
(*                                                                         *)
(* The distances come first (NearInterval to FarFacts), then what one push, *)
(* the pushes of one wall (PushedFar to WallStep), the loops over the walls *)
(* and over the border (ByWallsIs to MoveOpen) do, and the shots.           *)
(***************************************************************************)
EXTENDS Arena, NaturalsInduction, WellFoundedInduction, TLAPS

(* The border is the one given or none; with none no player gets anywhere,  *)
(* and with one no update reads beyond its end.                             *)
MapInv ==
  /\ border \in {Border, <<>>}
  /\ crashed \in BOOLEAN
  /\ CrashesWithoutMap

(* borders.size() - 1 wraps when the size is zero, and only then.           *)
LEMMA BoundWraps ==
  ASSUME border \in {Border, <<>>}
  PROVE  ReadsBeyond <=> border = <<>>
<1>1. Len(Border) \in Nat /\ Len(Border) > 0 /\ SizeMax \in Nat /\ SizeMax > Len(Border)
  BY ArenaAssumption
<1>2. CASE border = Border
  <2> DEFINE n == Len(Border) - 1
  <2>1. n \in 0 .. SizeMax - 1 /\ Border # <<>>
    BY <1>1
  <2>2. n % SizeMax = n
    BY <1>1, <2>1
  <2> QED BY <1>2, <2>1, <2>2 DEF ReadsBeyond
<1>3. CASE border = <<>>
  <2>1. Len(border) - 1 = -1
    BY <1>3
  <2>2. (-1) % SizeMax \in 0 .. SizeMax - 1
    BY <1>1
  <2> QED BY <1>3, <2>1, <2>2 DEF ReadsBeyond
<1> QED BY <1>2, <1>3

LEMMA MapStep == MapInv /\ [Next]_vars => MapInv'
<1> SUFFICES ASSUME MapInv, [Next]_vars PROVE MapInv'
  OBVIOUS
<1> USE DEF player
<1>1. CASE Update
  <2>1. ReadsBeyond <=> border = <<>>
    BY BoundWraps DEF MapInv
  <2>2. border' = border
    BY <1>1 DEF Update
  <2>3. CASE ReadsBeyond /\ (alive \/ shot.flying)
    BY <1>1, <2>1, <2>2, <2>3 DEF Update, MapInv, CrashesWithoutMap
  <2>4. CASE ~ (ReadsBeyond /\ (alive \/ shot.flying))
    <3>1. crashed' = crashed /\ (~ alive => centre' = centre)
      BY <1>1, <2>4 DEF Update
    <3>2. alive => border # <<>>
      BY <2>1, <2>4
    <3> QED BY <2>2, <3>1, <3>2 DEF MapInv, CrashesWithoutMap
  <2> QED BY <2>3, <2>4
<1>2. CASE Spawn
  <2>1. /\ centre' \in (TopLeft(1) .. BottomRight(1)) \X (TopLeft(2) .. BottomRight(2))
        /\ UNCHANGED <<border, crashed>>
    BY <1>2 DEF Spawn
  <2>2. border = <<>> => centre' = <<0, 0>>
    BY <2>1 DEF TopLeft, BottomRight
  <2> QED BY <2>1, <2>2 DEF MapInv, CrashesWithoutMap
<1>3. CASE Turn \/ Die \/ Shoot
  BY <1>3 DEF Turn, Die, Shoot, MapInv, CrashesWithoutMap
<1>4. CASE UNCHANGED vars
  BY <1>4 DEF vars, MapInv, CrashesWithoutMap
<1> QED BY <1>1, <1>2, <1>3, <1>4 DEF Next

(* borders is read beyond its end only when no map was read, and then by    *)
(* the first update with a player in play (game.cpp:406, :447): no player   *)
(* ever moves.                                                              *)
THEOREM OnlyWithoutMap == Spec => []CrashesWithoutMap
<1>1. Init => MapInv
  BY DEF Init, MapInv, CrashesWithoutMap
<1>2. MapInv => CrashesWithoutMap
  BY DEF MapInv
<1> QED BY <1>1, <1>2, MapStep, PTL DEF Spec

-----------------------------------------------------------------------------
(* Distances along an axis.                                                 *)

(* How far p is from the interval from a to b: zero when it is in it.       *)
Gap(p, a, b) == IF p < a THEN a - p ELSE IF p > b THEN p - b ELSE 0

LEMMA GapType ==
  ASSUME NEW p \in Int, NEW a \in Int, NEW b \in Int
  PROVE  Gap(p, a, b) \in Nat
BY DEF Gap

LEMMA Product ==
  ASSUME NEW a \in Nat, NEW b \in Nat, NEW n \in Nat, a <= b
  PROVE  a * n <= b * n
<1>1. PICK d \in Nat : b = a + d
  <2>1. b - a \in Nat /\ b = a + (b - a)
    OBVIOUS
  <2> QED BY <2>1
<1>2. b * n = a * n + d * n /\ d * n \in Nat /\ a * n \in Nat
  BY <1>1
<1> QED BY <1>2

LEMMA SquareType ==
  ASSUME NEW a \in Int
  PROVE  Square(a) \in Nat /\ Square(- a) = Square(a) /\ Square(Abs(a)) = Square(a)
<1>1. CASE a >= 0
  BY <1>1 DEF Square, Abs
<1>2. CASE a < 0
  <2>1. - a \in Nat /\ (- a) * (- a) \in Nat /\ (- a) * (- a) = a * a
    BY <1>2
  <2> QED BY <1>2, <2>1 DEF Square, Abs
<1> QED BY <1>1, <1>2

(* Squares of natural numbers are ordered as the numbers are.               *)
LEMMA SquareOrder ==
  ASSUME NEW a \in Nat, NEW b \in Nat
  PROVE  /\ a <= b => Square(a) <= Square(b)
         /\ a < b => Square(a) + b + a <= Square(b)
         /\ Square(a) <= Square(b) => a <= b
<1>1. ASSUME NEW m \in Nat, NEW n \in Nat, m <= n
      PROVE  Square(m) <= Square(n)
  <2>1. m * m <= n * m /\ m * n <= n * n
    BY <1>1, Product
  <2>2. n * m = m * n
    OBVIOUS
  <2> QED BY <2>1, <2>2 DEF Square
<1>2. ASSUME NEW m \in Nat, NEW n \in Nat, m < n
      PROVE  Square(m) + n + m <= Square(n)
  <2>1. (m + 1) * (m + 1) = m * m + m + m + 1
    OBVIOUS
  <2>2. PICK k \in Nat : n = m + 1 + k
    <3>1. n - m - 1 \in Nat /\ n = m + 1 + (n - m - 1)
      BY <1>2
    <3> QED BY <3>1
  <2>3. n * n = m * m + m + m + 1 + k + k + k * m + k * m + k * k
    BY <2>2
  <2>4. k * m \in Nat /\ k * k \in Nat /\ m * m \in Nat
    OBVIOUS
  <2> QED BY <2>2, <2>3, <2>4 DEF Square
<1>3. Square(a) \in Nat /\ Square(b) \in Nat
  BY SquareType
<1>4. Square(a) <= Square(b) => a <= b
  <2> SUFFICES ASSUME b < a PROVE Square(b) < Square(a)
    BY <1>3
  <2>1. Square(b) + a + b <= Square(a)
    BY <1>2
  <2> QED BY <1>3, <2>1
<1> QED BY <1>1, <1>2, <1>4

(* A sum of two squares within that of r: neither side is longer than r.    *)
LEMMA SumOfSquares ==
  ASSUME NEW a \in Nat, NEW b \in Nat, NEW r \in Nat
  PROVE  /\ Square(a) + Square(b) <= Square(r) =>
              a <= r /\ b <= r /\ (a = r => b = 0) /\ (b = r => a = 0)
         /\ Square(a) + Square(b) >= Square(r) =>
              (a = 0 => b >= r) /\ (b = 0 => a >= r)
              /\ (r > 1 /\ a <= 1 => b >= r) /\ (r > 1 /\ b <= 1 => a >= r)
<1>1. Square(a) \in Nat /\ Square(b) \in Nat /\ Square(r) \in Nat /\ Square(0) = 0 /\ Square(1) = 1
  BY SquareType DEF Square
<1>2. ASSUME NEW m \in Nat, NEW n \in Nat, Square(m) + Square(n) <= Square(r)
      PROVE  m <= r /\ (m = r => n = 0)
  <2>1. Square(m) \in Nat /\ Square(n) \in Nat
    BY SquareType
  <2>2. Square(m) <= Square(r)
    BY <1>1, <1>2, <2>1
  <2>3. ASSUME m = r PROVE n = 0
    <3>1. Square(n) <= Square(0)
      BY <1>1, <1>2, <2>1, <2>3
    <3>2. 0 \in Nat
      OBVIOUS
    <3>3. n <= 0
      BY <3>1, <3>2, SquareOrder
    <3> QED BY <3>3
  <2> QED BY <2>2, <2>3, SquareOrder
<1>3. ASSUME NEW m \in Nat, NEW n \in Nat, Square(m) + Square(n) >= Square(r),
             m = 0 \/ (r > 1 /\ m <= 1)
      PROVE  n >= r
  <2> SUFFICES ASSUME n < r PROVE FALSE
    OBVIOUS
  <2>1. Square(n) + r + n <= Square(r) /\ Square(n) \in Nat
    BY SquareOrder, SquareType
  <2>2. m = 0 \/ m = 1
    BY <1>3
  <2> QED BY <1>1, <1>3, <2>1, <2>2
<1>4. Square(b) + Square(a) = Square(a) + Square(b)
  BY <1>1
<1>5. Square(a) + Square(b) <= Square(r) => a <= r /\ b <= r /\ (a = r => b = 0) /\ (b = r => a = 0)
  BY <1>2, <1>4
<1>6. ASSUME Square(a) + Square(b) >= Square(r)
      PROVE  /\ (a = 0 => b >= r) /\ (b = 0 => a >= r)
             /\ (r > 1 /\ a <= 1 => b >= r) /\ (r > 1 /\ b <= 1 => a >= r)
  BY <1>3, <1>4, <1>6
<1> QED BY <1>5, <1>6

(* A corner of a box cannot be less than half a radius away both ways.      *)
LEMMA HalfRadius ==
  ASSUME NEW a \in Nat, NEW b \in Nat, NEW r \in Nat, r > 0,
         Square(a) + Square(b) >= Square(r)
  PROVE  2 * a > r \/ 2 * b > r
<1> SUFFICES ASSUME 2 * a <= r, 2 * b <= r PROVE FALSE
  OBVIOUS
<1>1. Square(2 * a) <= Square(r) /\ Square(2 * b) <= Square(r)
  BY SquareOrder
<1>2. Square(2 * a) = 4 * Square(a) /\ Square(2 * b) = 4 * Square(b)
  BY DEF Square
<1>3. Square(a) \in Nat /\ Square(b) \in Nat /\ Square(r) \in Nat
  BY SquareType
<1>4. Square(0) < Square(r)
  <2>1. Square(0) + r + 0 <= Square(r) /\ Square(0) = 0
    BY SquareOrder DEF Square
  <2> QED BY <1>3, <2>1
<1>5. Square(0) = 0
  BY DEF Square
<1> QED BY <1>1, <1>2, <1>3, <1>4, <1>5

-----------------------------------------------------------------------------
(* The tests of collisions.cpp for edges along an axis.                     *)

(* An edge from 0 to l, a point at d along it and at e off it.              *)
LEMMA FootOnEdge ==
  ASSUME NEW d \in Int, NEW l \in Int \ {0}, NEW e \in Int, NEW n \in Int
  PROVE  /\ 0 <= d * l /\ d * l <= l * l <=> (0 <= d /\ d <= l) \/ (l <= d /\ d <= 0)
         /\ (d * d + e * e) * (l * l) - (d * l) * (d * l) <= n * (l * l) <=> e * e <= n
<1>1. ASSUME NEW a \in Int, NEW b \in Int, b > 0
      PROVE  (0 <= a * b <=> 0 <= a) /\ (a * b <= b * b <=> a <= b)
  <2>1. ASSUME NEW x \in Int, NEW y \in Int, x < y PROVE x * b < y * b
    <3>1. y - x \in Nat /\ y - x >= 1
      BY <2>1
    <3>2. 1 * b <= (y - x) * b
      BY <1>1, <3>1, Product
    <3>3. (y - x) * b = y * b - x * b
      OBVIOUS
    <3>4. x * b \in Int /\ y * b \in Int
      OBVIOUS
    <3> QED BY <1>1, <3>2, <3>3, <3>4
  <2>2. ASSUME NEW x \in Int, NEW y \in Int PROVE x <= y <=> x * b <= y * b
    <3>1. x < y => x * b < y * b
      BY <2>1
    <3>2. y < x => y * b < x * b
      BY <2>1
    <3>3. x * b \in Int /\ y * b \in Int
      OBVIOUS
    <3> QED BY <3>1, <3>2, <3>3
  <2>3. 0 * b = 0
    OBVIOUS
  <2>4. 0 <= a <=> 0 * b <= a * b
    BY <2>2
  <2>5. a <= b <=> a * b <= b * b
    BY <2>2
  <2> QED BY <2>3, <2>4, <2>5
<1>2. 0 <= d * l /\ d * l <= l * l <=> (0 <= d /\ d <= l) \/ (l <= d /\ d <= 0)
  <2>1. CASE l > 0
    BY <1>1, <2>1
  <2>2. CASE l < 0
    <3> DEFINE a == - d
               b == - l
    <3>1. a \in Int /\ b \in Int /\ b > 0 /\ a * b = d * l /\ b * b = l * l
      BY <2>2
    <3>2. (0 <= a * b <=> 0 <= a) /\ (a * b <= b * b <=> a <= b)
      BY <1>1, <3>1
    <3>3. (0 <= a <=> d <= 0) /\ (a <= b <=> l <= d)
      BY <2>2
    <3>4. (0 <= d * l <=> d <= 0) /\ (d * l <= l * l <=> l <= d)
      BY <3>1, <3>2, <3>3
    <3> QED BY <2>2, <3>4
  <2> QED BY <2>1, <2>2
<1>3. (d * d + e * e) * (l * l) - (d * l) * (d * l) <= n * (l * l) <=> e * e <= n
  <2> DEFINE m == l * l
  <2>1. m \in Int /\ m > 0
    <3>1. Abs(l) \in Nat /\ Abs(l) > 0 /\ Square(Abs(l)) = l * l
      <4>1. Abs(l) \in Nat /\ Abs(l) > 0
        BY DEF Abs
      <4> QED BY <4>1, SquareType DEF Square
    <3>2. Square(0) + Abs(l) + 0 <= Square(Abs(l)) /\ Square(0) = 0
      BY <3>1, SquareOrder DEF Square
    <3> QED BY <3>1, <3>2
  <2>2. (d * d + e * e) * (l * l) - (d * l) * (d * l) = (e * e) * m
    OBVIOUS
  <2> DEFINE g == e * e
  <2>3. g \in Int
    OBVIOUS
  <2> HIDE DEF m, g
  <2>4. ASSUME NEW x \in Int, NEW y \in Int PROVE x * m <= y * m <=> x <= y
    <3>1. ASSUME NEW a \in Int, NEW b \in Int, a < b PROVE a * m < b * m
      <4>1. b - a \in Nat /\ 1 <= b - a /\ m \in Nat
        BY <2>1, <3>1
      <4>2. 1 * m <= (b - a) * m
        BY <4>1, Product
      <4>3. (b - a) * m = b * m - a * m /\ a * m \in Int /\ b * m \in Int
        BY <2>1
      <4> QED BY <2>1, <4>2, <4>3
    <3>2. x * m \in Int /\ y * m \in Int
      BY <2>1
    <3>3. x < y => x * m < y * m
      BY <3>1
    <3>4. y < x => y * m < x * m
      BY <3>1
    <3> QED BY <3>2, <3>3, <3>4
  <2>5. g * m <= n * m <=> g <= n
    BY <2>3, <2>4
  <2> QED BY <2>2, <2>5 DEF m, g
<1> QED BY <1>2, <1>3

(* How far q is from the line of the edge, and p from its span.             *)
LEMMA NearInterval ==
  ASSUME NEW p \in Int, NEW a \in Int, NEW b \in Int, NEW e \in Int, NEW n \in Int, a < b
  PROVE  Square(Gap(p, a, b)) + e * e <= n <=>
           \/ Square(p - a) + e * e <= n \/ Square(p - b) + e * e <= n
           \/ a <= p /\ p <= b /\ e * e <= n
<1>1. Square(p - a) = Square(a - p)
  BY DEF Square
<1>2. Square(p - a) \in Nat /\ Square(p - b) \in Nat /\ Square(0) = 0 /\ e * e \in Nat
  BY SquareType DEF Square
<1>3. CASE p < a
  <2>1. a - p \in Nat /\ b - p \in Nat /\ a - p <= b - p
    BY <1>3
  <2>2. Square(a - p) <= Square(b - p) /\ Square(b - p) = Square(p - b)
    <3>1. Square(b - p) = Square(p - b)
      BY DEF Square
    <3> QED BY <2>1, <3>1, SquareOrder
  <2>3. Gap(p, a, b) = a - p
    BY <1>3 DEF Gap
  <2> QED BY <1>1, <1>2, <1>3, <2>2, <2>3
<1>4. CASE p > b
  <2>1. p - b \in Nat /\ p - a \in Nat /\ p - b <= p - a
    BY <1>4
  <2>2. Square(p - b) <= Square(p - a)
    BY <2>1, SquareOrder
  <2>3. Gap(p, a, b) = p - b
    BY <1>4 DEF Gap
  <2> QED BY <1>2, <1>4, <2>2, <2>3
<1>5. CASE a <= p /\ p <= b
  <2>1. Gap(p, a, b) = 0
    BY <1>5 DEF Gap
  <2> QED BY <1>2, <1>5, <2>1
<1> QED BY <1>3, <1>4, <1>5

LEMMA NearAcross ==
  ASSUME NEW p \in Int, NEW q \in Int, NEW a \in Int, NEW b \in Int, NEW t \in Int,
         NEW n \in Int, a < b
  PROVE  /\ NearSegment(<<p, q>>, n, <<a, t>>, <<b, t>>) <=>
              Square(Gap(p, a, b)) + Square(q - t) <= n
         /\ NearSegment(<<p, q>>, n, <<b, t>>, <<a, t>>) <=>
              Square(Gap(p, a, b)) + Square(q - t) <= n
<1>1. ASSUME NEW u \in Int, NEW v \in Int, u # v
      PROVE  NearSegment(<<p, q>>, n, <<u, t>>, <<v, t>>) <=>
                \/ Square(p - u) + Square(q - t) <= n \/ Square(p - v) + Square(q - t) <= n
                \/ /\ (u <= p /\ p <= v) \/ (v <= p /\ p <= u)
                   /\ Square(q - t) <= n
  <2> DEFINE d == p - u
             l == v - u
             e == q - t
  <2>1. d \in Int /\ l \in Int \ {0} /\ e \in Int
    BY <1>1
  <2>2. Distance2(<<u, t>>, <<v, t>>) = l * l
    BY DEF Distance2, Square
  <2>3. Dot(<<u, t>>, <<p, q>>, <<v, t>>) = d * l
    BY DEF Dot
  <2>4. Distance2(<<u, t>>, <<p, q>>) = d * d + e * e
    BY DEF Distance2, Square
  <2>5. Square(d * l) = (d * l) * (d * l) /\ Square(e) = e * e
    BY DEF Square
  <2>6. (0 <= d /\ d <= l) \/ (l <= d /\ d <= 0) <=> (u <= p /\ p <= v) \/ (v <= p /\ p <= u)
    OBVIOUS
  <2>7. /\ 0 <= d * l /\ d * l <= l * l <=> (0 <= d /\ d <= l) \/ (l <= d /\ d <= 0)
        /\ (d * d + e * e) * (l * l) - (d * l) * (d * l) <= n * (l * l) <=> e * e <= n
    BY <2>1, FootOnEdge
  <2>8. /\ Distance2(<<p, q>>, <<u, t>>) = Square(p - u) + Square(q - t)
        /\ Distance2(<<p, q>>, <<v, t>>) = Square(p - v) + Square(q - t)
    BY DEF Distance2
  <2> HIDE DEF d, l, e
  <2> QED BY <2>2, <2>3, <2>4, <2>5, <2>6, <2>7, <2>8 DEF NearSegment, e
<1>2. Square(q - t) = (q - t) * (q - t)
  BY DEF Square
<1>3. Square(Gap(p, a, b)) + Square(q - t) <= n <=>
           \/ Square(p - a) + Square(q - t) <= n \/ Square(p - b) + Square(q - t) <= n
           \/ a <= p /\ p <= b /\ Square(q - t) <= n
  BY <1>2, NearInterval
<1>4. ~ (b <= p /\ p <= a)
  OBVIOUS
<1> QED BY <1>1, <1>3, <1>4

LEMMA NearUpright ==
  ASSUME NEW p \in Int, NEW q \in Int, NEW a \in Int, NEW b \in Int, NEW t \in Int,
         NEW n \in Int, a < b
  PROVE  /\ NearSegment(<<p, q>>, n, <<t, a>>, <<t, b>>) <=>
              Square(p - t) + Square(Gap(q, a, b)) <= n
         /\ NearSegment(<<p, q>>, n, <<t, b>>, <<t, a>>) <=>
              Square(p - t) + Square(Gap(q, a, b)) <= n
<1>1. ASSUME NEW u \in Int, NEW v \in Int
      PROVE  NearSegment(<<p, q>>, n, <<t, u>>, <<t, v>>) <=>
                NearSegment(<<q, p>>, n, <<u, t>>, <<v, t>>)
  <2>1. ASSUME NEW i \in Int, NEW j \in Int, NEW k \in Int, NEW l \in Int
        PROVE  Distance2(<<i, j>>, <<k, l>>) = Distance2(<<j, i>>, <<l, k>>)
    BY SquareType DEF Distance2
  <2>2. Dot(<<t, u>>, <<p, q>>, <<t, v>>) = Dot(<<u, t>>, <<q, p>>, <<v, t>>)
    BY DEF Dot
  <2>3. /\ Distance2(<<p, q>>, <<t, u>>) = Distance2(<<q, p>>, <<u, t>>)
        /\ Distance2(<<p, q>>, <<t, v>>) = Distance2(<<q, p>>, <<v, t>>)
        /\ Distance2(<<t, u>>, <<p, q>>) = Distance2(<<u, t>>, <<q, p>>)
        /\ Distance2(<<t, u>>, <<t, v>>) = Distance2(<<u, t>>, <<v, t>>)
    BY <2>1
  <2> QED BY <2>2, <2>3 DEF NearSegment
<1>2. Square(p - t) \in Int /\ Square(Gap(q, a, b)) \in Int
  BY SquareType, GapType
<1>3. /\ NearSegment(<<q, p>>, n, <<a, t>>, <<b, t>>) <=>
              Square(Gap(q, a, b)) + Square(p - t) <= n
      /\ NearSegment(<<q, p>>, n, <<b, t>>, <<a, t>>) <=>
              Square(Gap(q, a, b)) + Square(p - t) <= n
  BY NearAcross
<1> QED BY <1>1, <1>2, <1>3

LEMMA AbsProduct ==
  ASSUME NEW h \in Int, NEW l \in Int
  PROVE  Abs(h * l) = Abs(h) * Abs(l)
<1>1. ASSUME NEW m \in Nat, NEW k \in Nat
      PROVE  /\ m * k \in Nat /\ (- m) * k = - (m * k) /\ m * (- k) = - (m * k)
             /\ (- m) * (- k) = m * k
  OBVIOUS
<1>2. Abs(h) \in Nat /\ Abs(l) \in Nat
  BY DEF Abs
<1>3. (h = Abs(h) \/ h = - Abs(h)) /\ (l = Abs(l) \/ l = - Abs(l))
  BY DEF Abs
<1>4. h * l = Abs(h) * Abs(l) \/ h * l = - (Abs(h) * Abs(l))
  BY <1>1, <1>2, <1>3
<1>5. Abs(h) * Abs(l) \in Nat
  BY <1>1, <1>2
<1>6. ASSUME NEW m \in Nat PROVE Abs(m) = m /\ Abs(- m) = m
  BY DEF Abs
<1> QED BY <1>4, <1>5, <1>6

(* The height over an edge along an axis is the distance from its line.     *)
LEMMA HeightIs ==
  ASSUME NEW h \in Int, NEW l \in Int \ {0}
  PROVE  Abs(h * l) \div Abs(l) = Abs(h)
<1>1. ASSUME NEW m \in Nat, NEW k \in Nat, k > 0
      PROVE  (m * k) \div k = m
  <2> DEFINE d == (m * k) \div k
  <2>1. d \in Int /\ k * d <= m * k /\ m * k < k * d + k
    BY <1>1
  <2>2. m * k = k * m
    OBVIOUS
  <2> HIDE DEF d
  <2>3. ~ d < m
    <3> SUFFICES ASSUME d < m PROVE FALSE
      OBVIOUS
    <3>1. 1 <= m - d /\ m - d \in Nat
      BY <2>1
    <3>2. 1 * k <= (m - d) * k
      BY <1>1, <3>1, Product
    <3>3. (m - d) * k = k * m - k * d /\ k * d \in Int /\ k * m \in Int
      BY <2>1
    <3> QED BY <2>1, <2>2, <3>2, <3>3
  <2>4. ~ m < d
    <3> SUFFICES ASSUME m < d PROVE FALSE
      OBVIOUS
    <3>1. 1 <= d - m /\ d - m \in Nat
      BY <2>1
    <3>2. 1 * k <= (d - m) * k
      BY <1>1, <3>1, Product
    <3>3. (d - m) * k = k * d - k * m /\ k * d \in Int /\ k * m \in Int
      BY <2>1
    <3> QED BY <1>1, <2>1, <2>2, <3>2, <3>3
  <2> QED BY <2>1, <2>3, <2>4 DEF d
<1>2. Abs(h) \in Nat /\ Abs(l) \in Nat /\ Abs(l) > 0
  BY DEF Abs
<1>3. Abs(h * l) = Abs(h) * Abs(l)
  BY AbsProduct
<1> QED BY <1>1, <1>2, <1>3

LEMMA MoveAcross ==
  ASSUME NEW p \in Int, NEW q \in Int, NEW a \in Int, NEW b \in Int, NEW t \in Int, a < b
  PROVE  /\ MoveAlongNormal(<<p, q>>, <<a, t>>, <<b, t>>) = <<p, q + (Radius - Abs(q - t))>>
         /\ MoveAlongNormal(<<p, q>>, <<b, t>>, <<a, t>>) = <<p, q - (Radius - Abs(q - t))>>
<1> Radius \in Nat
  BY ArenaAssumption
<1>1. ASSUME NEW u \in Int, NEW v \in Int, u # v
      PROVE  Height(<<p, q>>, <<u, t>>, <<v, t>>) = Abs(q - t)
  <2>1. Cross(<<p, q>>, <<u, t>>, <<v, t>>) = (q - t) * (v - u)
    BY DEF Cross
  <2>2. v - u \in Int \ {0} /\ q - t \in Int /\ v - u + t - t = v - u
    BY <1>1
  <2> QED BY <2>1, <2>2, HeightIs DEF Height, TwiceArea
<1>2. /\ Normal(<<a, t>>, <<b, t>>) = <<0, 1>>
      /\ Normal(<<b, t>>, <<a, t>>) = <<0, -1>>
  <2>1. b - a > 0 /\ ~ b - a < 0 /\ a - b < 0 /\ t - t = 0
    OBVIOUS
  <2>2. Sign(b - a) = 1
    BY <2>1 DEF Sign
  <2>3. Sign(a - b) = -1
    BY <2>1 DEF Sign
  <2>4. Sign(t - t) = 0
    BY <2>1 DEF Sign
  <2> QED BY <2>2, <2>3, <2>4 DEF Normal
<1>3. Abs(q - t) \in Int
  BY DEF Abs
<1> DEFINE h == Abs(q - t)
<1> HIDE DEF h
<1>4. /\ Plus(<<p, q>>, Times(<<0, 1>>, Radius - h)) = <<p, q + (Radius - h)>>
      /\ Plus(<<p, q>>, Times(<<0, -1>>, Radius - h)) = <<p, q - (Radius - h)>>
  <2>1. h \in Int
    BY <1>3 DEF h
  <2> QED BY <2>1 DEF Plus, Times
<1> QED BY <1>1, <1>2, <1>4 DEF MoveAlongNormal, h

LEMMA MoveUpright ==
  ASSUME NEW p \in Int, NEW q \in Int, NEW a \in Int, NEW b \in Int, NEW t \in Int, a < b
  PROVE  /\ MoveAlongNormal(<<p, q>>, <<t, a>>, <<t, b>>) = <<p - (Radius - Abs(p - t)), q>>
         /\ MoveAlongNormal(<<p, q>>, <<t, b>>, <<t, a>>) = <<p + (Radius - Abs(p - t)), q>>
<1> Radius \in Nat
  BY ArenaAssumption
<1>1. ASSUME NEW u \in Int, NEW v \in Int, u # v
      PROVE  Height(<<p, q>>, <<t, u>>, <<t, v>>) = Abs(p - t)
  <2>1. Cross(<<p, q>>, <<t, u>>, <<t, v>>) = (t - p) * (v - u)
    BY DEF Cross
  <2>2. v - u \in Int \ {0} /\ t - p \in Int /\ t - t + v - u = v - u
    BY <1>1
  <2>3. Abs(t - p) = Abs(p - t)
    BY DEF Abs
  <2> QED BY <2>1, <2>2, <2>3, HeightIs DEF Height, TwiceArea
<1>2. /\ Normal(<<t, a>>, <<t, b>>) = <<-1, 0>>
      /\ Normal(<<t, b>>, <<t, a>>) = <<1, 0>>
  <2>1. b - a > 0 /\ ~ b - a < 0 /\ a - b < 0 /\ t - t = 0
    OBVIOUS
  <2>2. Sign(b - a) = 1
    BY <2>1 DEF Sign
  <2>3. Sign(a - b) = -1
    BY <2>1 DEF Sign
  <2>4. Sign(t - t) = 0
    BY <2>1 DEF Sign
  <2> QED BY <2>2, <2>3, <2>4 DEF Normal
<1> DEFINE h == Abs(p - t)
<1>3. h \in Int
  BY DEF Abs
<1> HIDE DEF h
<1>4. /\ Plus(<<p, q>>, Times(<<1, 0>>, Radius - h)) = <<p + (Radius - h), q>>
      /\ Plus(<<p, q>>, Times(<<-1, 0>>, Radius - h)) = <<p - (Radius - h), q>>
  BY <1>3 DEF Plus, Times
<1> QED BY <1>1, <1>2, <1>4 DEF MoveAlongNormal, h

-----------------------------------------------------------------------------
(* One wall, in numbers: the box from (x, y) to (X, Y).                     *)

Near(a, b) == Square(a) + Square(b) <= Square(Radius)
Far(a, b)  == Square(a) + Square(b) >= Square(Radius)

LEMMA NearFacts ==
  ASSUME NEW a \in Int, NEW b \in Int
  PROVE  /\ Near(a, b) => /\ - Radius <= a /\ a <= Radius /\ - Radius <= b /\ b <= Radius
                          /\ (a = Radius \/ a = - Radius) => b = 0
                          /\ (b = Radius \/ b = - Radius) => a = 0
         /\ \A i, j \in Int : Near(i, j) /\ Abs(a) <= Abs(i) /\ Abs(b) <= Abs(j) => Near(a, b)
<1> Radius \in Nat
  BY ArenaAssumption
<1>1. ASSUME NEW i \in Int PROVE Abs(i) \in Nat /\ Square(Abs(i)) = Square(i)
  BY SquareType DEF Abs
<1>2. ASSUME NEW i \in Int, NEW j \in Int, Near(i, j), Abs(a) <= Abs(i), Abs(b) <= Abs(j)
      PROVE  Near(a, b)
  <2>1. Square(Abs(a)) <= Square(Abs(i)) /\ Square(Abs(b)) <= Square(Abs(j))
    BY <1>1, <1>2, SquareOrder
  <2>2. Square(a) \in Nat /\ Square(b) \in Nat /\ Square(i) \in Nat /\ Square(j) \in Nat
    BY SquareType
  <2>3. Square(a) <= Square(i) /\ Square(b) <= Square(j)
    BY <1>1, <2>1
  <2>4. Square(Radius) \in Nat
    BY SquareType
  <2> QED BY <1>2, <2>2, <2>3, <2>4 DEF Near
<1>3. ASSUME Near(a, b)
      PROVE  /\ Abs(a) <= Radius /\ Abs(b) <= Radius
             /\ Abs(a) = Radius => Abs(b) = 0
             /\ Abs(b) = Radius => Abs(a) = 0
  <2>1. Square(Abs(a)) + Square(Abs(b)) <= Square(Radius)
    BY <1>1, <1>3 DEF Near
  <2> QED BY <1>1, <2>1, SumOfSquares
<1> QED BY <1>2, <1>3 DEF Abs

LEMMA FarFacts ==
  ASSUME NEW a \in Nat, NEW b \in Nat
  PROVE  /\ a >= Radius \/ b >= Radius => Far(a, b)
         /\ ~ Near(a, b) => Far(a, b)
         /\ Far(a, b) <=> Far(b, a)
         /\ \A i, j \in Nat : Far(a, b) /\ a <= i /\ b <= j => Far(i, j)
         /\ Far(a, b) => /\ (a = 0 => b >= Radius) /\ (b = 0 => a >= Radius)
                         /\ 2 * a > Radius \/ 2 * b > Radius
                         /\ Radius > 1 => (a <= 1 => b >= Radius) /\ (b <= 1 => a >= Radius)
<1> Radius \in Nat /\ Radius > 0
  BY ArenaAssumption
<1>1. Square(a) \in Nat /\ Square(b) \in Nat /\ Square(Radius) \in Nat
  BY SquareType
<1>2. a >= Radius \/ b >= Radius => Far(a, b)
  <2>1. a >= Radius => Square(Radius) <= Square(a)
    BY SquareOrder
  <2>2. b >= Radius => Square(Radius) <= Square(b)
    BY SquareOrder
  <2> QED BY <1>1, <2>1, <2>2 DEF Far
<1>3. (~ Near(a, b) => Far(a, b)) /\ (Far(a, b) <=> Far(b, a))
  BY <1>1 DEF Near, Far
<1>4. ASSUME NEW i \in Nat, NEW j \in Nat, Far(a, b), a <= i, b <= j
      PROVE  Far(i, j)
  <2>1. Square(a) <= Square(i) /\ Square(b) <= Square(j)
    BY <1>4, SquareOrder
  <2>2. Square(i) \in Nat /\ Square(j) \in Nat
    BY SquareType
  <2> QED BY <1>1, <1>4, <2>1, <2>2 DEF Far
<1>5. Far(a, b) => 2 * a > Radius \/ 2 * b > Radius
  BY HalfRadius DEF Far
<1>6. Far(a, b) => /\ (a = 0 => b >= Radius) /\ (b = 0 => a >= Radius)
                   /\ Radius > 1 => (a <= 1 => b >= Radius) /\ (b <= 1 => a >= Radius)
  BY SumOfSquares DEF Far
<1> QED BY <1>2, <1>3, <1>4, <1>5, <1>6

(* The pushes off the four edges of a wall, in the order of the code.       *)
OffBottom(p, q, x, X, y) ==
  IF Near(Gap(p, x, X), q - y) THEN q - (Radius - Abs(q - y)) ELSE q
OffRight(p, q, y, Y, X) ==
  IF Near(p - X, Gap(q, y, Y)) THEN p + (Radius - Abs(p - X)) ELSE p
OffTop(p, q, x, X, Y) ==
  IF Near(Gap(p, x, X), q - Y) THEN q + (Radius - Abs(q - Y)) ELSE q
OffLeft(p, q, y, Y, x) ==
  IF Near(p - x, Gap(q, y, Y)) THEN p - (Radius - Abs(p - x)) ELSE p

(* What a point has been through: (p, q), (p, q1), (p1, q1), (p1, q2) and   *)
(* (p2, q2).                                                                *)
Way(p, q, p1, q1, p2, q2, x, X, y, Y) ==
  /\ q1 = OffBottom(p, q, x, X, y)
  /\ p1 = OffRight(p, q1, y, Y, X)
  /\ q2 = OffTop(p1, q1, x, X, Y)
  /\ p2 = OffLeft(p1, q2, y, Y, x)

(* A step at most from where it is far from the box: near a side it is      *)
(* beside, and less than half a radius from no corner both ways.            *)
StepFrom(p, q, x, X, y, Y) ==
  /\ Gap(p, x, X) = 0 => Gap(q, y, Y) >= Radius - 1
  /\ Gap(q, y, Y) = 0 => Gap(p, x, X) >= Radius - 1
  /\ 2 * Gap(p, x, X) >= Radius - 1 \/ 2 * Gap(q, y, Y) >= Radius - 1

(* Whatever edges it is pushed off, it ends up a radius from the box.       *)
LEMMA PushedFar ==
  ASSUME NEW x \in Int, NEW X \in Int, NEW y \in Int, NEW Y \in Int, x < X, y < Y,
         NEW p \in Int, NEW q \in Int, NEW p1 \in Int, NEW q1 \in Int,
         NEW p2 \in Int, NEW q2 \in Int, Radius > 1,
         Way(p, q, p1, q1, p2, q2, x, X, y, Y), StepFrom(p, q, x, X, y, Y)
  PROVE  Far(Gap(p2, x, X), Gap(q2, y, Y))
<1> Radius \in Nat /\ Radius > 1
  BY ArenaAssumption
<1> USE DEF Way
<1>g. ASSUME NEW m \in Int, NEW a \in Int, NEW b \in Int, a < b
      PROVE  /\ Gap(m, a, b) \in Nat
             /\ m <= a => Gap(m, a, b) = a - m
             /\ m >= b => Gap(m, a, b) = m - b
             /\ a <= m /\ m <= b => Gap(m, a, b) = 0
  BY <1>g DEF Gap
<1>t. /\ Gap(p, x, X) \in Nat /\ Gap(p1, x, X) \in Nat /\ Gap(p2, x, X) \in Nat
      /\ Gap(q, y, Y) \in Nat /\ Gap(q1, y, Y) \in Nat /\ Gap(q2, y, Y) \in Nat
  BY <1>g
<1>f. \A a, b \in Nat : a >= Radius \/ b >= Radius \/ ~ Near(a, b) => Far(a, b)
  BY FarFacts
<1>n. \A a, b, i, j \in Int : Near(i, j) /\ Abs(a) <= Abs(i) /\ Abs(b) <= Abs(j) => Near(a, b)
  BY NearFacts
<1>m. \A a, b \in Int : Near(a, b) =>
         /\ - Radius <= a /\ a <= Radius /\ - Radius <= b /\ b <= Radius
         /\ (a = Radius \/ a = - Radius) => b = 0
         /\ (b = Radius \/ b = - Radius) => a = 0
  BY NearFacts
<1>a. \A a \in Int : Abs(a) = IF a < 0 THEN - a ELSE a
  BY DEF Abs
<1>1. CASE p1 <= x
  <2>1. Gap(p1, x, X) = x - p1
    BY <1>1, <1>g
  <2>2. CASE Near(p1 - x, Gap(q2, y, Y))
    <3>1. p2 = x - Radius
      BY <1>1, <2>2, <1>a DEF OffLeft
    <3>2. Gap(p2, x, X) = Radius
      BY <1>g, <3>1
    <3> QED BY <1>t, <1>f, <3>2
  <2>3. CASE ~ Near(p1 - x, Gap(q2, y, Y))
    <3>1. p2 = p1
      BY <2>3 DEF OffLeft
    <3>2. ~ Near(x - p1, Gap(q2, y, Y))
      <4>1. Abs(p1 - x) <= Abs(x - p1) /\ Abs(Gap(q2, y, Y)) <= Abs(Gap(q2, y, Y))
        BY <1>a, <1>t
      <4> QED BY <1>t, <2>3, <4>1, <1>n
    <3> QED BY <1>t, <1>f, <2>1, <3>1, <3>2
  <2> QED BY <2>2, <2>3
(* p1 > x: the left edge is farther than one met before.                    *)
<1>2. CASE p1 > x /\ q1 >= Y
  <2>1. Gap(q1, y, Y) = q1 - Y /\ Gap(p1, x, X) <= p1 - x
    BY <1>2 DEF Gap
  <2>2. CASE Near(Gap(p1, x, X), q1 - Y)
    <3>1. q2 = Y + Radius
      BY <1>2, <2>2, <1>a DEF OffTop
    <3>2. Gap(q2, y, Y) = Radius
      BY <1>g, <3>1
    <3>3. ~ Near(p1 - x, Gap(q2, y, Y))
      BY <1>2, <1>m, <3>2
    <3>4. p2 = p1
      BY <3>3 DEF OffLeft
    <3> QED BY <1>t, <1>f, <3>2
  <2>3. CASE ~ Near(Gap(p1, x, X), q1 - Y)
    <3>1. q2 = q1
      BY <2>3 DEF OffTop
    <3>2. ~ Near(p1 - x, Gap(q1, y, Y))
      <4>1. Abs(Gap(p1, x, X)) <= Abs(p1 - x) /\ Abs(q1 - Y) <= Abs(Gap(q1, y, Y))
        BY <1>2, <2>1, <1>a, <1>t
      <4> QED BY <1>t, <2>3, <4>1, <1>n
    <3>3. p2 = p1
      BY <3>1, <3>2 DEF OffLeft
    <3> QED BY <1>t, <1>f, <2>1, <2>3, <3>1, <3>3
  <2> QED BY <2>2, <2>3
<1>3. CASE p1 > x /\ q1 < Y /\ p >= X
  <2>1. Gap(p, x, X) = p - X /\ Gap(q1, y, Y) <= Y - q1
    BY <1>3 DEF Gap
  <2>2. CASE Near(p - X, Gap(q1, y, Y))
    <3>1. p1 = X + Radius
      BY <1>3, <2>2, <1>a DEF OffRight
    <3>2. Gap(p1, x, X) = Radius
      BY <1>g, <3>1
    <3>3. q2 = q1
      BY <1>3, <1>m, <3>2 DEF OffTop
    <3>4. p2 = p1
      BY <1>t, <1>m, <3>1 DEF OffLeft
    <3> QED BY <1>t, <1>f, <3>2, <3>4
  <2>3. CASE ~ Near(p - X, Gap(q1, y, Y))
    <3>1. p1 = p
      BY <2>3 DEF OffRight
    <3>2. ~ Near(Gap(p1, x, X), q1 - Y)
      <4>1. Abs(p - X) <= Abs(Gap(p1, x, X)) /\ Abs(Gap(q1, y, Y)) <= Abs(q1 - Y)
        BY <1>3, <2>1, <3>1, <1>a, <1>t
      <4> QED BY <1>t, <2>3, <4>1, <1>n
    <3>3. q2 = q1
      BY <3>2 DEF OffTop
    <3>4. ~ Near(p1 - x, Gap(q2, y, Y))
      <4>1. Abs(p - X) <= Abs(p1 - x) /\ Abs(Gap(q1, y, Y)) <= Abs(Gap(q2, y, Y))
        BY <1>3, <3>1, <3>3, <1>a, <1>t
      <4> QED BY <1>t, <2>3, <4>1, <1>n
    <3>5. p2 = p1
      BY <3>4 DEF OffLeft
    <3> QED BY <1>t, <1>f, <2>1, <2>3, <3>1, <3>3, <3>5
  <2> QED BY <2>2, <2>3
<1>4. CASE p1 > x /\ p < X /\ q <= y
  <2>1. Gap(q, y, Y) = y - q /\ Gap(p, x, X) <= X - p
    BY <1>4 DEF Gap
  <2>2. CASE Near(Gap(p, x, X), q - y)
    <3>1. q1 = y - Radius
      BY <1>4, <2>2, <1>a DEF OffBottom
    <3>2. Gap(q1, y, Y) = Radius
      BY <1>g, <3>1
    <3>3. p1 = p
      BY <1>4, <1>m, <3>2 DEF OffRight
    <3>4. q2 = q1
      BY <1>t, <1>m, <3>1 DEF OffTop
    <3> QED BY <1>t, <1>f, <1>4, <1>m, <3>2, <3>3, <3>4 DEF OffLeft
  <2>3. CASE ~ Near(Gap(p, x, X), q - y)
    <3>1. q1 = q
      BY <2>3 DEF OffBottom
    <3>2. ~ Near(p - X, Gap(q1, y, Y))
      <4>1. Abs(Gap(p, x, X)) <= Abs(p - X) /\ Abs(q - y) <= Abs(Gap(q1, y, Y))
        BY <1>4, <2>1, <3>1, <1>a, <1>t
      <4> QED BY <1>t, <2>3, <4>1, <1>n
    <3>3. p1 = p
      BY <3>2 DEF OffRight
    <3>4. ~ Near(Gap(p1, x, X), q1 - Y)
      <4>1. Abs(Gap(p, x, X)) <= Abs(Gap(p1, x, X)) /\ Abs(q - y) <= Abs(q1 - Y)
        BY <1>4, <3>1, <3>3, <1>a, <1>t
      <4> QED BY <1>t, <2>3, <4>1, <1>n
    <3>5. q2 = q1
      BY <3>4 DEF OffTop
    <3>6. ~ Near(p1 - x, Gap(q2, y, Y))
      <4>1. Abs(Gap(p, x, X)) <= Abs(p1 - x) /\ Abs(q - y) <= Abs(Gap(q2, y, Y))
        <5>1. Gap(p, x, X) <= p1 - x
          BY <1>4, <3>3 DEF Gap
        <5>2. q2 = q /\ Gap(q2, y, Y) = y - q
          BY <2>1, <3>1, <3>5
        <5> QED BY <1>4, <5>1, <5>2, <1>a, <1>t
      <4> QED BY <1>t, <2>3, <4>1, <1>n
    <3>7. p2 = p1
      BY <3>6 DEF OffLeft
    <3>8. ~ Near(Gap(p, x, X), y - q)
      <4>1. Abs(Gap(p, x, X)) <= Abs(Gap(p, x, X)) /\ Abs(q - y) <= Abs(y - q)
        BY <1>t, <1>a
      <4> QED BY <1>t, <2>3, <4>1, <1>n
    <3> QED BY <1>t, <1>f, <2>1, <3>1, <3>3, <3>5, <3>7, <3>8
  <2> QED BY <2>2, <2>3
(* The first two edges cannot have taken it round a corner.                 *)
<1>5. CASE p1 > x /\ q1 < Y /\ p < X /\ q > y
  <2>1. p1 # p => Near(p - X, Gap(q1, y, Y)) /\ p1 = 2 * p - X + Radius /\ X - p <= Radius
    BY <1>5, <1>m, <1>a, <1>t DEF OffRight
  <2>2. q1 # q => q1 = 2 * q - y - Radius /\ q - y <= Radius
    BY <1>5, <1>m, <1>a, <1>t DEF OffBottom
  <2>3. CASE q < Y
    <3>1. Gap(q, y, Y) = 0 /\ Gap(p, x, X) >= Radius - 1
      BY <1>5, <2>3, <1>g DEF StepFrom
    <3>2. p <= x - Radius + 1
      BY <1>5, <3>1 DEF Gap
    <3> QED BY <1>5, <2>1, <3>2
  <2>4. CASE q >= Y /\ p >= x
    <3>1. Gap(p, x, X) = 0 /\ q - Y >= Radius - 1
      BY <1>5, <2>4, <1>g DEF StepFrom
    <3> QED BY <1>5, <2>2, <3>1
  <2>5. CASE q >= Y /\ p < x
    <3>1. Gap(p, x, X) = x - p /\ Gap(q, y, Y) = q - Y
      BY <2>5, <1>g
    <3>2. 2 * (x - p) >= Radius - 1 \/ 2 * (q - Y) >= Radius - 1
      BY <3>1 DEF StepFrom
    <3> QED BY <1>5, <2>1, <2>2, <2>5, <3>2
  <2> QED BY <2>3, <2>4, <2>5
<1> QED BY <1>1, <1>2, <1>3, <1>4, <1>5

(* It stays within a radius of the box if it was, and is not moved when it  *)
(* is farther.                                                              *)
LEMMA PushedBeside ==
  ASSUME NEW x \in Int, NEW X \in Int, NEW y \in Int, NEW Y \in Int, x < X, y < Y,
         NEW p \in Int, NEW q \in Int, NEW p1 \in Int, NEW q1 \in Int,
         NEW p2 \in Int, NEW q2 \in Int,
         Way(p, q, p1, q1, p2, q2, x, X, y, Y),
         Gap(p, x, X) <= Radius, Gap(q, y, Y) <= Radius
  PROVE  /\ x - Radius <= p2 /\ p2 <= X + Radius
         /\ y - Radius <= q2 /\ q2 <= Y + Radius
<1> Radius \in Nat /\ Radius > 0
  BY ArenaAssumption
<1> USE DEF Way
<1>t. /\ Gap(p, x, X) \in Nat /\ Gap(p1, x, X) \in Nat
      /\ Gap(q1, y, Y) \in Nat /\ Gap(q2, y, Y) \in Nat
  BY GapType
<1>m. \A a, b \in Int : Near(a, b) =>
         - Radius <= a /\ a <= Radius /\ - Radius <= b /\ b <= Radius
  BY NearFacts
<1>a. \A a \in Int : Abs(a) = IF a < 0 THEN - a ELSE a
  BY DEF Abs
<1>1. x - Radius <= p /\ p <= X + Radius /\ y - Radius <= q /\ q <= Y + Radius
  BY DEF Gap
<1>2. y - Radius <= q1 /\ q1 <= q
  BY <1>t, <1>m, <1>a, <1>1 DEF OffBottom
<1>3. p <= p1 /\ p1 <= X + Radius
  BY <1>t, <1>m, <1>a, <1>1 DEF OffRight
<1>4. q1 <= q2 /\ q2 <= Y + Radius
  BY <1>t, <1>m, <1>a, <1>1, <1>2 DEF OffTop
<1>5. x - Radius <= p2 /\ p2 <= p1
  BY <1>t, <1>m, <1>a, <1>1, <1>3 DEF OffLeft
<1> QED BY <1>1, <1>2, <1>3, <1>4, <1>5

(* Well inside of a side at distance d; or, not past the opposite side at   *)
(* distance e, a radius off along it.                                       *)
Within(d, e, off) == d > 0 /\ (2 * d > Radius \/ (e >= 0 /\ off >= Radius))

(* No edge pushes it over a side it was inside of: where a wall is flush    *)
(* with the border, not over the border.                                    *)
LEMMA PushedWithin ==
  ASSUME NEW x \in Int, NEW X \in Int, NEW y \in Int, NEW Y \in Int, x < X, y < Y,
         NEW p \in Int, NEW q \in Int, NEW p1 \in Int, NEW q1 \in Int,
         NEW p2 \in Int, NEW q2 \in Int,
         Way(p, q, p1, q1, p2, q2, x, X, y, Y)
  PROVE  /\ Within(p - x, X - p, Gap(q, y, Y)) => p2 > x
         /\ Within(X - p, p - x, Gap(q, y, Y)) => p2 < X
         /\ Within(q - y, Y - q, Gap(p, x, X)) => q2 > y
         /\ Within(Y - q, q - y, Gap(p, x, X)) => q2 < Y
<1> Radius \in Nat /\ Radius > 0
  BY ArenaAssumption
<1> USE DEF Way
<1>t. /\ Gap(p, x, X) \in Nat /\ Gap(p1, x, X) \in Nat /\ Gap(p2, x, X) \in Nat
      /\ Gap(q, y, Y) \in Nat /\ Gap(q1, y, Y) \in Nat /\ Gap(q2, y, Y) \in Nat
  BY GapType
<1>m. \A a, b \in Int : Near(a, b) =>
         /\ - Radius <= a /\ a <= Radius /\ - Radius <= b /\ b <= Radius
         /\ (a = Radius \/ a = - Radius) => b = 0
         /\ (b = Radius \/ b = - Radius) => a = 0
  BY NearFacts
<1>a. \A a \in Int : Abs(a) = IF a < 0 THEN - a ELSE a
  BY DEF Abs
<1>1. q1 <= q /\ p1 >= p /\ q2 >= q1 /\ p2 <= p1
  BY <1>t, <1>m, <1>a DEF OffBottom, OffRight, OffTop, OffLeft
(* Beside the box and a radius off: only an edge it ends at pushes.         *)
<1>2. ASSUME x <= p, p <= X, Gap(q, y, Y) >= Radius
      PROVE  q1 = q /\ (p < X => p1 = p) /\ (p > x => p2 = p1)
  <2>1. q <= y - Radius \/ q >= Y + Radius
    BY <1>2 DEF Gap
  <2>2. q1 = q
    BY <1>t, <1>m, <1>a, <2>1 DEF OffBottom
  <2>3. p < X => p1 = p
    BY <1>2, <1>t, <1>m, <1>a, <2>2 DEF OffRight
  <2>4. ASSUME p > x PROVE p2 = p1
    <3>1. CASE p1 = p
      <4>1. q2 = q1
        BY <1>t, <1>m, <1>a, <2>1, <2>2 DEF OffTop
      <4> QED BY <1>2, <1>t, <1>m, <1>a, <2>2, <2>4, <3>1, <4>1 DEF OffLeft
    <3>2. CASE p1 # p
      <4>1. p = X /\ p1 = X + Radius
        BY <1>2, <1>t, <1>m, <1>a, <2>2, <2>3, <3>2 DEF OffRight
      <4> QED BY <1>t, <1>m, <4>1 DEF OffLeft
    <3> QED BY <3>1, <3>2
  <2> QED BY <2>2, <2>3, <2>4
<1>3. ASSUME y <= q, q <= Y, Gap(p, x, X) >= Radius
      PROVE  (q > y => q1 = q) /\ (q < Y => q2 = q1)
  <2>1. p <= x - Radius \/ p >= X + Radius
    BY <1>3 DEF Gap
  <2>2. q > y => q1 = q
    BY <1>3, <1>t, <1>m, <1>a DEF OffBottom
  <2>3. ASSUME q < Y PROVE q2 = q1
    <3>1. CASE q1 = q
      <4>1. p1 = p
        BY <1>t, <1>m, <1>a, <2>1 DEF OffRight
      <4> QED BY <1>3, <1>t, <1>m, <1>a, <2>3, <3>1, <4>1 DEF OffTop
    <3>2. CASE q1 # q
      <4>1. q = y /\ q1 = y - Radius
        BY <1>3, <1>t, <1>m, <1>a, <2>2, <3>2 DEF OffBottom
      <4> QED BY <1>t, <1>m, <4>1 DEF OffTop
    <3> QED BY <3>1, <3>2
  <2> QED BY <2>2, <2>3
<1>4. ASSUME Within(p - x, X - p, Gap(q, y, Y)) PROVE p2 > x
  <2>1. CASE 2 * (p - x) > Radius
    <3>1. p1 >= p /\ p - x > 0
      BY <1>1, <2>1
    <3> QED BY <1>t, <1>m, <1>a, <2>1, <3>1 DEF OffLeft
  <2>2. CASE p <= X /\ Gap(q, y, Y) >= Radius
    <3>1. p > x
      BY <1>4 DEF Within
    <3>2. p2 = p1
      BY <1>2, <2>2, <3>1
    <3> QED BY <1>1, <3>1, <3>2
  <2> QED BY <1>4, <2>1, <2>2 DEF Within
<1>5. ASSUME Within(X - p, p - x, Gap(q, y, Y)) PROVE p2 < X
  <2>1. CASE 2 * (X - p) > Radius
    <3>1. p1 < X
      BY <1>t, <1>m, <1>a, <2>1 DEF OffRight
    <3> QED BY <1>1, <3>1
  <2>2. CASE p >= x /\ Gap(q, y, Y) >= Radius
    <3>1. p < X
      BY <1>5 DEF Within
    <3>2. p1 = p
      BY <1>2, <2>2, <3>1
    <3> QED BY <1>1, <3>1, <3>2
  <2> QED BY <1>5, <2>1, <2>2 DEF Within
<1>6. ASSUME Within(q - y, Y - q, Gap(p, x, X)) PROVE q2 > y
  <2>1. CASE 2 * (q - y) > Radius
    <3>1. q1 > y
      BY <1>t, <1>m, <1>a, <2>1 DEF OffBottom
    <3> QED BY <1>1, <3>1
  <2>2. CASE q <= Y /\ Gap(p, x, X) >= Radius
    <3>1. q > y
      BY <1>6 DEF Within
    <3>2. q1 = q
      BY <1>3, <2>2, <3>1
    <3> QED BY <1>1, <3>1, <3>2
  <2> QED BY <1>6, <2>1, <2>2 DEF Within
<1>7. ASSUME Within(Y - q, q - y, Gap(p, x, X)) PROVE q2 < Y
  <2>1. CASE 2 * (Y - q) > Radius
    <3>1. Y - q1 >= Y - q /\ Y - q > 0
      BY <1>1, <2>1
    <3> QED BY <1>t, <1>m, <1>a, <2>1, <3>1 DEF OffTop
  <2>2. CASE q >= y /\ Gap(p, x, X) >= Radius
    <3>1. q < Y
      BY <1>7 DEF Within
    <3>2. q2 = q1
      BY <1>3, <2>2, <3>1
    <3> QED BY <1>1, <3>1, <3>2
  <2> QED BY <1>7, <2>1, <2>2 DEF Within
<1> QED BY <1>4, <1>5, <1>6, <1>7

-----------------------------------------------------------------------------
(* One wall, in the operators of the model.                                 *)

BoxIs(w, x, y, X, Y) ==
  /\ x \in Int /\ y \in Int /\ X \in Int /\ Y \in Int /\ x < X /\ y < Y
  /\ w = <<<<x, y>>, <<X, y>>, <<X, Y>>, <<x, Y>>>>

LEMMA BoxCorners ==
  ASSUME NEW w, IsBox(w)
  PROVE  BoxIs(w, w[1][1], w[1][2], w[3][1], w[3][2])
<1>1. PICK x \in Int, y \in Int : w[1] = <<x, y>>
  BY DEF IsBox
<1>2. PICK X \in Int, Y \in Int : w[3] = <<X, Y>>
  BY DEF IsBox
<1> QED BY <1>1, <1>2 DEF IsBox, BoxIs

LEMMA BoxEdges ==
  ASSUME NEW w, NEW x, NEW y, NEW X, NEW Y, BoxIs(w, x, y, X, Y),
         NEW p \in Int, NEW q \in Int, NEW n \in Int
  PROVE  /\ NearSegment(<<p, q>>, n, Edges(w)[1][1], Edges(w)[1][2]) <=>
              Square(Gap(p, x, X)) + Square(q - y) <= n
         /\ NearSegment(<<p, q>>, n, Edges(w)[2][1], Edges(w)[2][2]) <=>
              Square(p - X) + Square(Gap(q, y, Y)) <= n
         /\ NearSegment(<<p, q>>, n, Edges(w)[3][1], Edges(w)[3][2]) <=>
              Square(Gap(p, x, X)) + Square(q - Y) <= n
         /\ NearSegment(<<p, q>>, n, Edges(w)[4][1], Edges(w)[4][2]) <=>
              Square(p - x) + Square(Gap(q, y, Y)) <= n
<1>1. /\ Edges(w)[1] = <<<<x, y>>, <<X, y>>>> /\ Edges(w)[2] = <<<<X, y>>, <<X, Y>>>>
      /\ Edges(w)[3] = <<<<X, Y>>, <<x, Y>>>> /\ Edges(w)[4] = <<<<x, Y>>, <<x, y>>>>
  BY DEF BoxIs, Edges
<1>2. x \in Int /\ y \in Int /\ X \in Int /\ Y \in Int /\ x < X /\ y < Y
  BY DEF BoxIs
<1>3. /\ NearSegment(<<p, q>>, n, <<x, y>>, <<X, y>>) <=>
           Square(Gap(p, x, X)) + Square(q - y) <= n
      /\ NearSegment(<<p, q>>, n, <<X, Y>>, <<x, Y>>) <=>
           Square(Gap(p, x, X)) + Square(q - Y) <= n
  BY <1>2, NearAcross
<1>4. /\ NearSegment(<<p, q>>, n, <<X, y>>, <<X, Y>>) <=>
           Square(p - X) + Square(Gap(q, y, Y)) <= n
      /\ NearSegment(<<p, q>>, n, <<x, Y>>, <<x, y>>) <=>
           Square(p - x) + Square(Gap(q, y, Y)) <= n
  BY <1>2, NearUpright
<1> QED BY <1>1, <1>3, <1>4

(* The four triangles cover the box exactly when the point is in it.        *)
LEMMA InBox ==
  ASSUME NEW w, NEW x, NEW y, NEW X, NEW Y, BoxIs(w, x, y, X, Y),
         NEW p \in Int, NEW q \in Int
  PROVE  InRectangle(<<p, q>>, w) <=> x <= p /\ p <= X /\ y <= q /\ q <= Y
<1> DEFINE c == <<p, q>>
           l == X - x
           h == Y - y
           u == Abs(q - y) + Abs(q - Y) - h
           v == Abs(p - x) + Abs(p - X) - l
<1>1. x \in Int /\ y \in Int /\ X \in Int /\ Y \in Int /\ x < X /\ y < Y
  BY DEF BoxIs
<1>2. w[1] = <<x, y>> /\ w[2] = <<X, y>> /\ w[3] = <<X, Y>> /\ w[4] = <<x, Y>>
  BY DEF BoxIs
<1>3. l \in Nat /\ l > 0 /\ h \in Nat /\ h > 0
  BY <1>1
<1>4. \A a \in Int : Abs(a) = IF a < 0 THEN - a ELSE a
  BY DEF Abs
<1>5. u \in Nat /\ v \in Nat
  BY <1>1, <1>4
<1>6. u = 0 <=> y <= q /\ q <= Y
  BY <1>1, <1>4
<1>7. v = 0 <=> x <= p /\ p <= X
  BY <1>1, <1>4
<1>8. /\ TwiceArea(w[1], w[2], c) = l * Abs(q - y)
      /\ TwiceArea(w[2], w[3], c) = h * Abs(p - X)
      /\ TwiceArea(w[3], w[4], c) = l * Abs(q - Y)
      /\ TwiceArea(w[4], w[1], c) = h * Abs(p - x)
      /\ TwiceArea(w[1], w[2], w[3]) = l * h
      /\ TwiceArea(w[3], w[4], w[1]) = l * h
  <2>1. Cross(w[1], w[2], c) = (X - x) * (q - y)
    BY <1>1, <1>2 DEF Cross
  <2>2. Cross(w[2], w[3], c) = (y - Y) * (p - X)
    BY <1>1, <1>2 DEF Cross
  <2>3. Cross(w[3], w[4], c) = (x - X) * (q - Y)
    BY <1>1, <1>2 DEF Cross
  <2>4. Cross(w[4], w[1], c) = (Y - y) * (p - x)
    BY <1>1, <1>2 DEF Cross
  <2>5. Cross(w[1], w[2], w[3]) = (X - x) * (Y - y)
    BY <1>1, <1>2 DEF Cross
  <2>6. Cross(w[3], w[4], w[1]) = (x - X) * (y - Y)
    BY <1>1, <1>2 DEF Cross
  <2>7. Abs(X - x) = l /\ Abs(x - X) = l /\ Abs(Y - y) = h /\ Abs(y - Y) = h
    BY <1>1, <1>4
  <2> HIDE DEF l, h
  <2>8. \A a, b \in Int : Abs(a * b) = Abs(a) * Abs(b)
    BY AbsProduct
  <2>9. /\ Abs((X - x) * (q - y)) = l * Abs(q - y)
        /\ Abs((y - Y) * (p - X)) = h * Abs(p - X)
        /\ Abs((x - X) * (q - Y)) = l * Abs(q - Y)
        /\ Abs((Y - y) * (p - x)) = h * Abs(p - x)
    <3>1. /\ X - x \in Int /\ x - X \in Int /\ Y - y \in Int /\ y - Y \in Int
          /\ q - y \in Int /\ q - Y \in Int /\ p - x \in Int /\ p - X \in Int
      BY <1>1
    <3>2. Abs((X - x) * (q - y)) = Abs(X - x) * Abs(q - y)
      BY <2>8, <3>1
    <3>3. Abs((y - Y) * (p - X)) = Abs(y - Y) * Abs(p - X)
      BY <2>8, <3>1
    <3>4. Abs((x - X) * (q - Y)) = Abs(x - X) * Abs(q - Y)
      BY <2>8, <3>1
    <3>5. Abs((Y - y) * (p - x)) = Abs(Y - y) * Abs(p - x)
      BY <2>8, <3>1
    <3> QED BY <2>7, <3>2, <3>3, <3>4, <3>5
  <2>10. Abs((X - x) * (Y - y)) = l * h /\ Abs((x - X) * (y - Y)) = l * h
    BY <1>1, <2>7, AbsProduct
  <2> QED BY <2>1, <2>2, <2>3, <2>4, <2>5, <2>6, <2>9, <2>10 DEF TwiceArea
<1>9. \A a \in Int : Abs(a) \in Nat
  BY <1>4
<1>10. ASSUME NEW i \in Nat, NEW j \in Nat, NEW m \in Nat, NEW n \in Nat,
              i + m - h \in Nat, j + n - l \in Nat
       PROVE  l * i + h * j + l * m + h * n = l * h + l * h
                <=> i + m - h = 0 /\ j + n - l = 0
  <2> DEFINE s == i + m - h
             t == j + n - l
  <2> HIDE DEF l, h
  <2>1. l * i + h * j + l * m + h * n - (l * h + l * h) = l * s + h * t
    BY <1>3
  <2>2. s \in Nat /\ t \in Nat
    BY <1>10
  <2> HIDE DEF s, t
  <2>3. l * s \in Nat /\ h * t \in Nat /\ (s > 0 => l * s > 0) /\ (t > 0 => h * t > 0)
    <3>1. s > 0 => l * 1 <= l * s
      <4>1. s > 0 => 1 * l <= s * l
        BY <1>3, <2>2, Product
      <4> QED BY <1>3, <2>2, <4>1
    <3>2. t > 0 => h * 1 <= h * t
      <4>1. t > 0 => 1 * h <= t * h
        BY <1>3, <2>2, Product
      <4> QED BY <1>3, <2>2, <4>1
    <3> QED BY <1>3, <2>2, <3>1, <3>2
  <2>4. s = 0 => l * s = 0
    BY <1>3
  <2>5. t = 0 => h * t = 0
    BY <1>3
  <2>6. l * s + h * t = 0 <=> s = 0 /\ t = 0
    BY <2>2, <2>3, <2>4, <2>5
  <2>7. l * i \in Int /\ h * j \in Int /\ l * m \in Int /\ h * n \in Int /\ l * h \in Int
    BY <1>3
  <2>8. l * s + h * t = 0 <=> l * i + h * j + l * m + h * n = l * h + l * h
    BY <2>1, <2>3, <2>7
  <2> QED BY <2>6, <2>8 DEF s, t
<1> HIDE DEF c, l, h
<1>11. /\ Abs(q - y) \in Nat /\ Abs(p - X) \in Nat /\ Abs(q - Y) \in Nat /\ Abs(p - x) \in Nat
       /\ Abs(p - X) + Abs(p - x) - l = v
  BY <1>1, <1>3, <1>9
<1>12. InRectangle(c, w) <=> u = 0 /\ v = 0
  BY <1>5, <1>8, <1>10, <1>11 DEF InRectangle
<1> QED BY <1>6, <1>7, <1>12 DEF c

(* Neither in the box nor nearer than a radius to an edge: a radius off.    *)
LEMMA OpenIs ==
  ASSUME NEW w, NEW x, NEW y, NEW X, NEW Y, BoxIs(w, x, y, X, Y),
         NEW p \in Int, NEW q \in Int
  PROVE  /\ ~ InRectangle(<<p, q>>, w)
         /\ \A i \in 1 .. 4 : ~ NearSegment(<<p, q>>, Square(Radius) - 1, Edges(w)[i][1], Edges(w)[i][2])
         <=> Far(Gap(p, x, X), Gap(q, y, Y))
<1> DEFINE n == Square(Radius) - 1
           a == Gap(p, x, X)
           b == Gap(q, y, Y)
<1>1. x \in Int /\ y \in Int /\ X \in Int /\ Y \in Int /\ x < X /\ y < Y
  BY DEF BoxIs
<1>2. Radius \in Nat /\ Radius > 0 /\ n \in Int
  BY ArenaAssumption, SquareType
<1>3. a \in Nat /\ b \in Nat
  BY <1>1, GapType
<1>4. /\ NearSegment(<<p, q>>, n, Edges(w)[1][1], Edges(w)[1][2]) <=> Square(a) + Square(q - y) <= n
      /\ NearSegment(<<p, q>>, n, Edges(w)[2][1], Edges(w)[2][2]) <=> Square(p - X) + Square(b) <= n
      /\ NearSegment(<<p, q>>, n, Edges(w)[3][1], Edges(w)[3][2]) <=> Square(a) + Square(q - Y) <= n
      /\ NearSegment(<<p, q>>, n, Edges(w)[4][1], Edges(w)[4][2]) <=> Square(p - x) + Square(b) <= n
  BY <1>2, BoxEdges
<1>5. InRectangle(<<p, q>>, w) <=> a = 0 /\ b = 0
  BY <1>1, InBox DEF Gap
<1>6. /\ Square(a) \in Nat /\ Square(b) \in Nat /\ Square(q - y) \in Nat /\ Square(q - Y) \in Nat
      /\ Square(p - x) \in Nat /\ Square(p - X) \in Nat
  BY <1>1, <1>3, SquareType
<1>7. /\ Square(a) <= Square(p - x) /\ Square(a) <= Square(p - X)
      /\ Square(b) <= Square(q - y) /\ Square(b) <= Square(q - Y)
  <2>1. ASSUME NEW m \in Nat, NEW k \in Int, m <= Abs(k) PROVE Square(m) <= Square(k)
    <3>1. Abs(k) \in Nat /\ Square(Abs(k)) = Square(k)
      BY SquareType DEF Abs
    <3> QED BY <2>1, <3>1, SquareOrder
  <2>2. a <= Abs(p - x) /\ a <= Abs(p - X) /\ b <= Abs(q - y) /\ b <= Abs(q - Y)
    BY <1>1 DEF Gap, Abs
  <2>3. p - x \in Int /\ p - X \in Int /\ q - y \in Int /\ q - Y \in Int
    BY <1>1
  <2> HIDE DEF a, b
  <2> QED BY <1>3, <2>1, <2>2, <2>3
<1>8. /\ p < x => Square(a) = Square(p - x)
      /\ p > X => Square(a) = Square(p - X)
      /\ q < y => Square(b) = Square(q - y)
      /\ q > Y => Square(b) = Square(q - Y)
  <2>1. ASSUME NEW m \in Int, NEW k \in Int PROVE Square(m - k) = Square(k - m)
    BY DEF Square
  <2> QED BY <1>1, <2>1 DEF Gap
<1>9. p < x \/ p > X \/ q < y \/ q > Y \/ (a = 0 /\ b = 0)
  BY <1>1 DEF Gap
<1> HIDE DEF a, b
<1>10. ASSUME Far(a, b)
       PROVE  /\ ~ InRectangle(<<p, q>>, w)
              /\ \A i \in 1 .. 4 : ~ NearSegment(<<p, q>>, n, Edges(w)[i][1], Edges(w)[i][2])
  <2>1. ~ (a = 0 /\ b = 0)
    <3>1. a = 0 => b >= Radius
      BY <1>3, <1>10, FarFacts
    <3> QED BY <1>2, <3>1
  <2>2. \A i \in 1 .. 4 : i = 1 \/ i = 2 \/ i = 3 \/ i = 4
    OBVIOUS
  <2>3. Square(a) + Square(b) > n
    <3>1. Square(Radius) \in Nat
      BY <1>2, SquareType
    <3> QED BY <1>6, <1>10, <3>1 DEF Far
  <2>4. /\ ~ Square(a) + Square(q - y) <= n /\ ~ Square(p - X) + Square(b) <= n
        /\ ~ Square(a) + Square(q - Y) <= n /\ ~ Square(p - x) + Square(b) <= n
    BY <1>2, <1>6, <1>7, <2>3
  <2> QED BY <1>4, <1>5, <2>1, <2>2, <2>4
<1>11. ASSUME ~ Far(a, b), a # 0 \/ b # 0
       PROVE  \E i \in 1 .. 4 : NearSegment(<<p, q>>, n, Edges(w)[i][1], Edges(w)[i][2])
  <2>1. Square(a) + Square(b) <= n
    <3>1. Square(Radius) \in Nat
      BY <1>2, SquareType
    <3> QED BY <1>6, <1>11, <3>1 DEF Far
  <2>2. \/ Square(a) + Square(q - y) <= n \/ Square(p - X) + Square(b) <= n
        \/ Square(a) + Square(q - Y) <= n \/ Square(p - x) + Square(b) <= n
    BY <1>8, <1>9, <1>11, <2>1
  <2>3. 1 \in 1 .. 4 /\ 2 \in 1 .. 4 /\ 3 \in 1 .. 4 /\ 4 \in 1 .. 4
    OBVIOUS
  <2> QED BY <1>4, <2>2, <2>3
<1> QED BY <1>5, <1>10, <1>11 DEF a, b

(* What a circle touches is within its radius, and what it does not is off. *)
LEMMA TouchIs ==
  ASSUME NEW w, NEW x, NEW y, NEW X, NEW Y, BoxIs(w, x, y, X, Y),
         NEW p \in Int, NEW q \in Int
  PROVE  CircleRectangle(<<p, q>>, Radius, w) <=> Near(Gap(p, x, X), Gap(q, y, Y))
<1> DEFINE n == Square(Radius)
           a == Gap(p, x, X)
           b == Gap(q, y, Y)
<1>1. x \in Int /\ y \in Int /\ X \in Int /\ Y \in Int /\ x < X /\ y < Y
  BY DEF BoxIs
<1>2. Radius \in Nat /\ Radius > 0 /\ n \in Nat
  <2>1. Radius \in Nat /\ Radius > 0
    BY ArenaAssumption
  <2> QED BY <2>1, SquareType
<1>3. a \in Nat /\ b \in Nat
  BY <1>1, GapType
<1>4. /\ CircleSegment(<<p, q>>, Radius, Edges(w)[1][1], Edges(w)[1][2]) <=> Near(a, q - y)
      /\ CircleSegment(<<p, q>>, Radius, Edges(w)[2][1], Edges(w)[2][2]) <=> Near(p - X, b)
      /\ CircleSegment(<<p, q>>, Radius, Edges(w)[3][1], Edges(w)[3][2]) <=> Near(a, q - Y)
      /\ CircleSegment(<<p, q>>, Radius, Edges(w)[4][1], Edges(w)[4][2]) <=> Near(p - x, b)
  BY <1>2, BoxEdges DEF CircleSegment, Near
<1>5. InRectangle(<<p, q>>, w) <=> a = 0 /\ b = 0
  BY <1>1, InBox DEF Gap
<1>6. p - x \in Int /\ p - X \in Int /\ q - y \in Int /\ q - Y \in Int
  BY <1>1
<1>7. /\ Abs(a) <= Abs(p - x) /\ Abs(a) <= Abs(p - X) /\ Abs(a) <= Abs(a)
      /\ Abs(b) <= Abs(q - y) /\ Abs(b) <= Abs(q - Y) /\ Abs(b) <= Abs(b)
  BY <1>1 DEF Gap, Abs
<1>8. /\ p < x => Abs(p - x) <= Abs(a)
      /\ p > X => Abs(p - X) <= Abs(a)
      /\ q < y => Abs(q - y) <= Abs(b)
      /\ q > Y => Abs(q - Y) <= Abs(b)
  BY <1>1 DEF Gap, Abs
<1>9. p < x \/ p > X \/ q < y \/ q > Y \/ (a = 0 /\ b = 0)
  BY <1>1 DEF Gap
<1>10. \A i, j, k, l \in Int : Near(k, l) /\ Abs(i) <= Abs(k) /\ Abs(j) <= Abs(l) => Near(i, j)
  BY NearFacts
<1> HIDE DEF a, b
<1>11. Near(0, 0)
  BY <1>2, SquareType DEF Near, Square
<1>12. Near(a, q - y) \/ Near(p - X, b) \/ Near(a, q - Y) \/ Near(p - x, b) => Near(a, b)
  BY <1>3, <1>6, <1>7, <1>10
<1>13. ASSUME Near(a, b), a # 0 \/ b # 0
       PROVE  Near(a, q - y) \/ Near(p - X, b) \/ Near(a, q - Y) \/ Near(p - x, b)
  <2>1. CASE p < x
    BY <2>1, <1>3, <1>6, <1>7, <1>8, <1>10, <1>13
  <2>2. CASE p > X
    BY <2>2, <1>3, <1>6, <1>7, <1>8, <1>10, <1>13
  <2>3. CASE q < y
    BY <2>3, <1>3, <1>6, <1>7, <1>8, <1>10, <1>13
  <2>4. CASE q > Y
    BY <2>4, <1>3, <1>6, <1>7, <1>8, <1>10, <1>13
  <2> QED BY <1>9, <1>13, <2>1, <2>2, <2>3, <2>4
<1>14. \A i \in 1 .. 4 : i = 1 \/ i = 2 \/ i = 3 \/ i = 4
  OBVIOUS
<1>15. CircleRectangle(<<p, q>>, Radius, w) <=>
         \/ a = 0 /\ b = 0
         \/ Near(a, q - y) \/ Near(p - X, b) \/ Near(a, q - Y) \/ Near(p - x, b)
  BY <1>4, <1>5, <1>14 DEF CircleRectangle
<1> QED BY <1>11, <1>12, <1>13, <1>15 DEF a, b

LEMMA WallEdges ==
  ASSUME NEW w, NEW x, NEW y, NEW X, NEW Y, BoxIs(w, x, y, X, Y),
         NEW p \in Int, NEW q \in Int
  PROVE  /\ OutOfWall(<<p, q>>, Edges(w)[1]) = <<p, OffBottom(p, q, x, X, y)>>
         /\ OutOfWall(<<p, q>>, Edges(w)[2]) = <<OffRight(p, q, y, Y, X), q>>
         /\ OutOfWall(<<p, q>>, Edges(w)[3]) = <<p, OffTop(p, q, x, X, Y)>>
         /\ OutOfWall(<<p, q>>, Edges(w)[4]) = <<OffLeft(p, q, y, Y, x), q>>
<1>1. x \in Int /\ y \in Int /\ X \in Int /\ Y \in Int /\ x < X /\ y < Y
  BY DEF BoxIs
<1>2. /\ Edges(w)[1] = <<<<x, y>>, <<X, y>>>> /\ Edges(w)[2] = <<<<X, y>>, <<X, Y>>>>
      /\ Edges(w)[3] = <<<<X, Y>>, <<x, Y>>>> /\ Edges(w)[4] = <<<<x, Y>>, <<x, y>>>>
  BY DEF BoxIs, Edges
<1>3. Square(Radius) \in Int
  BY ArenaAssumption, SquareType
<1>4. /\ CircleSegment(<<p, q>>, Radius, Edges(w)[1][1], Edges(w)[1][2]) <=> Near(Gap(p, x, X), q - y)
      /\ CircleSegment(<<p, q>>, Radius, Edges(w)[2][1], Edges(w)[2][2]) <=> Near(p - X, Gap(q, y, Y))
      /\ CircleSegment(<<p, q>>, Radius, Edges(w)[3][1], Edges(w)[3][2]) <=> Near(Gap(p, x, X), q - Y)
      /\ CircleSegment(<<p, q>>, Radius, Edges(w)[4][1], Edges(w)[4][2]) <=> Near(p - x, Gap(q, y, Y))
  BY <1>3, BoxEdges DEF CircleSegment, Near
<1>5. MoveAlongNormal(<<p, q>>, <<X, y>>, <<x, y>>) = <<p, q - (Radius - Abs(q - y))>>
  BY <1>1, MoveAcross
<1>6. MoveAlongNormal(<<p, q>>, <<x, Y>>, <<X, Y>>) = <<p, q + (Radius - Abs(q - Y))>>
  BY <1>1, MoveAcross
<1>7. MoveAlongNormal(<<p, q>>, <<X, Y>>, <<X, y>>) = <<p + (Radius - Abs(p - X)), q>>
  BY <1>1, MoveUpright
<1>8. MoveAlongNormal(<<p, q>>, <<x, y>>, <<x, Y>>) = <<p - (Radius - Abs(p - x)), q>>
  BY <1>1, MoveUpright
<1> QED BY <1>2, <1>4, <1>5, <1>6, <1>7, <1>8 DEF OutOfWall, OffBottom, OffRight, OffTop, OffLeft

LEMMA OffTypes ==
  ASSUME NEW p \in Int, NEW q \in Int, NEW x \in Int, NEW X \in Int, NEW y \in Int, NEW Y \in Int
  PROVE  /\ OffBottom(p, q, x, X, y) \in Int /\ OffRight(p, q, y, Y, X) \in Int
         /\ OffTop(p, q, x, X, Y) \in Int /\ OffLeft(p, q, y, Y, x) \in Int
<1> Radius \in Nat
  BY ArenaAssumption
<1>1. Abs(q - y) \in Int /\ Abs(p - X) \in Int /\ Abs(q - Y) \in Int /\ Abs(p - x) \in Int
  BY DEF Abs
<1> QED BY <1>1 DEF OffBottom, OffRight, OffTop, OffLeft

LEMMA WayExists ==
  ASSUME NEW x \in Int, NEW X \in Int, NEW y \in Int, NEW Y \in Int, NEW p \in Int, NEW q \in Int
  PROVE  \E p1, q1, p2, q2 \in Int : Way(p, q, p1, q1, p2, q2, x, X, y, Y)
<1> DEFINE q1 == OffBottom(p, q, x, X, y)
           p1 == OffRight(p, q1, y, Y, X)
           q2 == OffTop(p1, q1, x, X, Y)
           p2 == OffLeft(p1, q2, y, Y, x)
<1>1. q1 \in Int
  BY OffTypes
<1>2. p1 \in Int
  BY <1>1, OffTypes
<1>3. q2 \in Int
  BY <1>1, <1>2, OffTypes
<1>4. p2 \in Int
  BY <1>2, <1>3, OffTypes
<1>5. Way(p, q, p1, q1, p2, q2, x, X, y, Y)
  BY DEF Way
<1> HIDE DEF q1, p1, q2, p2
<1> QED BY <1>1, <1>2, <1>3, <1>4, <1>5

(* moveAlongNormal of a wall that is touched goes the whole way.            *)
LEMMA WallWay ==
  ASSUME NEW w, NEW x, NEW y, NEW X, NEW Y, BoxIs(w, x, y, X, Y),
         NEW p \in Int, NEW q \in Int, NEW p1 \in Int, NEW q1 \in Int,
         NEW p2 \in Int, NEW q2 \in Int, Way(p, q, p1, q1, p2, q2, x, X, y, Y)
  PROVE  PushedByWall(<<p, q>>, w) =
           IF Near(Gap(p, x, X), Gap(q, y, Y)) THEN <<p2, q2>> ELSE <<p, q>>
<1>1. OutOfWall(<<p, q>>, Edges(w)[1]) = <<p, q1>>
  BY WallEdges DEF Way
<1>2. OutOfWall(<<p, q1>>, Edges(w)[2]) = <<p1, q1>>
  BY WallEdges DEF Way
<1>3. OutOfWall(<<p1, q1>>, Edges(w)[3]) = <<p1, q2>>
  BY WallEdges DEF Way
<1>4. OutOfWall(<<p1, q2>>, Edges(w)[4]) = <<p2, q2>>
  BY WallEdges DEF Way
<1> QED BY <1>1, <1>2, <1>3, <1>4, TouchIs DEF PushedByWall

-----------------------------------------------------------------------------
(* A step from a place that is far from a wall.                             *)
LEMMA StepOff ==
  ASSUME NEW x \in Int, NEW X \in Int, NEW y \in Int, NEW Y \in Int, x < X, y < Y,
         NEW p \in Int, NEW q \in Int, NEW a \in Int, NEW b \in Int, Radius > 1,
         Far(Gap(p, x, X), Gap(q, y, Y)),
         (a = p /\ b - q \in {-1, 0, 1}) \/ (b = q /\ a - p \in {-1, 0, 1})
  PROVE  /\ StepFrom(a, b, x, X, y, Y)
         /\ p - x >= Radius => Within(a - x, X - a, Gap(b, y, Y))
         /\ X - p >= Radius => Within(X - a, a - x, Gap(b, y, Y))
         /\ q - y >= Radius => Within(b - y, Y - b, Gap(a, x, X))
         /\ Y - q >= Radius => Within(Y - b, b - y, Gap(a, x, X))
<1> Radius \in Nat /\ Radius > 1
  BY ArenaAssumption
<1> DEFINE gp == Gap(p, x, X)
           gq == Gap(q, y, Y)
           ga == Gap(a, x, X)
           gb == Gap(b, y, Y)
<1>1. gp \in Nat /\ gq \in Nat /\ ga \in Nat /\ gb \in Nat
  BY GapType
<1>2. /\ gp <= 1 => gq >= Radius
      /\ gq <= 1 => gp >= Radius
      /\ 2 * gp > Radius \/ 2 * gq > Radius
  BY <1>1, FarFacts
<1>3. \/ a = p /\ ga = gp /\ gb - gq \in {-1, 0, 1}
      \/ b = q /\ gb = gq /\ ga - gp \in {-1, 0, 1}
  BY DEF Gap
<1>4. /\ gp = 0 <=> x <= p /\ p <= X
      /\ ga = 0 <=> x <= a /\ a <= X
      /\ gq = 0 <=> y <= q /\ q <= Y
      /\ gb = 0 <=> y <= b /\ b <= Y
  BY DEF Gap
<1>5. /\ p = x - 1 \/ p = X + 1 => gp = 1
      /\ q = y - 1 \/ q = Y + 1 => gq = 1
  BY DEF Gap
<1> HIDE DEF gp, gq, ga, gb
<1>6. StepFrom(a, b, x, X, y, Y)
  BY <1>1, <1>2, <1>3 DEF StepFrom, ga, gb
<1>7. p - x >= Radius => Within(a - x, X - a, gb)
  BY <1>1, <1>2, <1>3, <1>4, <1>5 DEF Within
<1>8. X - p >= Radius => Within(X - a, a - x, gb)
  BY <1>1, <1>2, <1>3, <1>4, <1>5 DEF Within
<1>9. q - y >= Radius => Within(b - y, Y - b, ga)
  BY <1>1, <1>2, <1>3, <1>4, <1>5 DEF Within
<1>10. Y - q >= Radius => Within(Y - b, b - y, ga)
  BY <1>1, <1>2, <1>3, <1>4, <1>5 DEF Within
<1> QED BY <1>6, <1>7, <1>8, <1>9, <1>10 DEF ga, gb

-----------------------------------------------------------------------------
(* The map.                                                                 *)

(* c is at least a radius from the wall; at most a radius, both ways; and m *)
(* within the border.                                                       *)
GapOn(c, w, k) == Gap(c[k], w[1][k], w[3][k])
Off(c, w)    == Far(GapOn(c, w, 1), GapOn(c, w, 2))
Beside(c, w) == \A k \in {1, 2} : w[1][k] - Radius <= c[k] /\ c[k] <= w[3][k] + Radius
Inside(c, m) == \A k \in {1, 2} : Border[1][k] + m <= c[k] /\ c[k] <= Border[3][k] - m

LEMMA Corners ==
  ASSUME IsBox(Border), NEW k \in {1, 2}
  PROVE  /\ Lowest[k] = Border[1][k] /\ Highest[k] = Border[3][k]
         /\ Lowest[k] \in Int /\ Highest[k] \in Int
<1> DEFINE x == Border[1][1]
           y == Border[1][2]
           X == Border[3][1]
           Y == Border[3][2]
<1>1. BoxIs(Border, x, y, X, Y)
  BY BoxCorners
<1> HIDE DEF x, y, X, Y
<1>2. Points = {<<x, y>>, <<X, y>>, <<X, Y>>, <<x, Y>>}
  <2>1. Border = <<<<x, y>>, <<X, y>>, <<X, Y>>, <<x, Y>>>>
    BY <1>1 DEF BoxIs
  <2>2. DOMAIN Border = {1, 2, 3, 4}
    BY <2>1
  <2> QED BY <2>1, <2>2 DEF Points
<1>3. x \in Int /\ y \in Int /\ X \in Int /\ Y \in Int /\ x < X /\ y < Y
  BY <1>1 DEF BoxIs
<1>4. {p[1] : p \in Points} = {x, X} /\ {p[2] : p \in Points} = {y, Y}
  BY <1>2
<1>5. \A i, j \in Int : i < j =>
        /\ (CHOOSE n \in {i, j} : n <= i /\ n <= j) = i
        /\ (CHOOSE n \in {i, j} : n >= i /\ n >= j) = j
  OBVIOUS
<1>6. Lowest[1] = x
  <2>1. \A n \in {x, X} : (\A p \in Points : n <= p[1]) <=> n = x
    BY <1>2, <1>3
  <2> QED BY <1>4, <2>1 DEF Lowest
<1>7. Lowest[2] = y
  <2>1. \A n \in {y, Y} : (\A p \in Points : n <= p[2]) <=> n = y
    BY <1>2, <1>3
  <2> QED BY <1>4, <2>1 DEF Lowest
<1>8. Highest[1] = X
  <2>1. \A n \in {x, X} : (\A p \in Points : n >= p[1]) <=> n = X
    BY <1>2, <1>3
  <2> QED BY <1>4, <2>1 DEF Highest
<1>9. Highest[2] = Y
  <2>1. \A n \in {y, Y} : (\A p \in Points : n >= p[2]) <=> n = Y
    BY <1>2, <1>3
  <2> QED BY <1>4, <2>1 DEF Highest
<1> QED BY <1>3, <1>6, <1>7, <1>8, <1>9 DEF x, y, X, Y

LEMMA InMapIs ==
  ASSUME IsBox(Border), NEW c \in Int \X Int, NEW m \in Int
  PROVE  InMap(c, m) <=> Inside(c, m)
BY Corners DEF InMap, Inside

LEMMA OpenWall ==
  ASSUME NEW w, IsBox(w), NEW c \in Int \X Int
  PROVE  /\ ~ InRectangle(c, w)
         /\ \A i \in 1 .. 4 : ~ NearSegment(c, Square(Radius) - 1, Edges(w)[i][1], Edges(w)[i][2])
         <=> Off(c, w)
<1>1. PICK p \in Int, q \in Int : c = <<p, q>>
  OBVIOUS
<1>2. BoxIs(w, w[1][1], w[1][2], w[3][1], w[3][2])
  BY BoxCorners
<1> QED BY <1>1, <1>2, OpenIs DEF Off, GapOn

(* Inside of the border and off every wall.                                 *)
LEMMA OpenMap ==
  ASSUME Roomy, NEW c \in Int \X Int
  PROVE  InTheOpen(c) <=> Inside(c, Radius) /\ \A i \in 1 .. Len(Walls) : Off(c, Walls[i])
<1>1. IsBox(Border) /\ \A i \in 1 .. Len(Walls) : IsBox(Walls[i])
  BY DEF Roomy
<1>2. InMap(c, Radius) <=> Inside(c, Radius)
  BY <1>1, InMapIs, ArenaAssumption
<1>3. Range(Walls) = {Walls[i] : i \in DOMAIN Walls}
  BY DEF Range
<1> QED BY <1>1, <1>2, <1>3, OpenWall DEF InTheOpen

(* c is inside of those sides of the wall that are sides of the border.     *)
Flush(c, w) ==
  \A k \in {1, 2} :
    /\ w[1][k] = Border[1][k] => Within(c[k] - w[1][k], w[3][k] - c[k], GapOn(c, w, 3 - k))
    /\ w[3][k] = Border[3][k] => Within(w[3][k] - c[k], c[k] - w[1][k], GapOn(c, w, 3 - k))

StepTo(c, w) == StepFrom(c[1], c[2], w[1][1], w[3][1], w[1][2], w[3][2])

(* A wall in a place where it belongs.                                      *)
Placed(w) ==
  /\ IsBox(w)
  /\ \A k \in {1, 2} :
       /\ w[1][k] = Border[1][k] \/ w[1][k] >= Border[1][k] + 2 * Radius
       /\ w[3][k] = Border[3][k] \/ w[3][k] <= Border[3][k] - 2 * Radius

(* A wall leaves the player alone, or pushes it to a place beside itself.   *)
Pushes(c, w, d) ==
  /\ d \in Int \X Int /\ Off(d, w)
  /\ d = c \/ (Beside(d, w) /\ Inside(d, 1))

LEMMA WallStep ==
  ASSUME Radius > 1, IsBox(Border), NEW w, Placed(w), NEW c \in Int \X Int, StepTo(c, w),
         Near(GapOn(c, w, 1), GapOn(c, w, 2)) => Flush(c, w)
  PROVE  Pushes(c, w, PushedByWall(c, w))
<1> DEFINE x == w[1][1]
           y == w[1][2]
           X == w[3][1]
           Y == w[3][2]
<1>1. PICK p \in Int, q \in Int : c = <<p, q>>
  OBVIOUS
<1>2. BoxIs(w, x, y, X, Y)
  BY BoxCorners DEF Placed
<1>3. x \in Int /\ y \in Int /\ X \in Int /\ Y \in Int /\ x < X /\ y < Y
  BY <1>2 DEF BoxIs
<1>4. /\ Border[1][1] \in Int /\ Border[1][2] \in Int
      /\ Border[3][1] \in Int /\ Border[3][2] \in Int
  BY BoxCorners DEF BoxIs
<1>5. GapOn(c, w, 1) = Gap(p, x, X) /\ GapOn(c, w, 2) = Gap(q, y, Y)
  BY <1>1 DEF GapOn
<1>6. StepFrom(p, q, x, X, y, Y)
  BY <1>1 DEF StepTo
<1>7. PICK p1 \in Int, q1 \in Int, p2 \in Int, q2 \in Int :
         Way(p, q, p1, q1, p2, q2, x, X, y, Y)
  BY <1>3, WayExists
<1>p. PushedByWall(<<p, q>>, w) =
        IF Near(Gap(p, x, X), Gap(q, y, Y)) THEN <<p2, q2>> ELSE <<p, q>>
  BY <1>2, <1>7, WallWay
<1>8. /\ x = Border[1][1] \/ x >= Border[1][1] + 2 * Radius
      /\ X = Border[3][1] \/ X <= Border[3][1] - 2 * Radius
      /\ y = Border[1][2] \/ y >= Border[1][2] + 2 * Radius
      /\ Y = Border[3][2] \/ Y <= Border[3][2] - 2 * Radius
  BY DEF Placed
<1>9. Gap(p, x, X) \in Nat /\ Gap(q, y, Y) \in Nat
  BY <1>3, GapType
<1>10. CASE ~ Near(Gap(p, x, X), Gap(q, y, Y))
  <2>1. PushedByWall(c, w) = c
    BY <1>1, <1>p, <1>10
  <2>2. Off(c, w)
    BY <1>5, <1>9, <1>10, FarFacts DEF Off
  <2> QED BY <2>1, <2>2 DEF Pushes
<1>11. CASE Near(Gap(p, x, X), Gap(q, y, Y))
  <2> DEFINE d == <<p2, q2>>
  <2>1. PushedByWall(c, w) = d
    BY <1>1, <1>p, <1>11
  <2>2. Far(Gap(p2, x, X), Gap(q2, y, Y))
    BY <1>3, <1>6, <1>7, PushedFar
  <2>3. Off(d, w)
    BY <2>2 DEF Off, GapOn
  <2>4. Gap(p, x, X) <= Radius /\ Gap(q, y, Y) <= Radius
    BY <1>9, <1>11, NearFacts
  <2>5. /\ x - Radius <= p2 /\ p2 <= X + Radius
        /\ y - Radius <= q2 /\ q2 <= Y + Radius
    BY <1>3, <1>7, <2>4, PushedBeside
  <2>6. Beside(d, w)
    BY <2>5 DEF Beside
  <2>7. Flush(c, w)
    BY <1>5, <1>11
  <2>8. /\ x = Border[1][1] => Within(p - x, X - p, Gap(q, y, Y))
        /\ X = Border[3][1] => Within(X - p, p - x, Gap(q, y, Y))
        /\ y = Border[1][2] => Within(q - y, Y - q, Gap(p, x, X))
        /\ Y = Border[3][2] => Within(Y - q, q - y, Gap(p, x, X))
    <3>1. 3 - 1 = 2 /\ 3 - 2 = 1
      OBVIOUS
    <3> QED BY <1>1, <1>5, <2>7, <3>1 DEF Flush
  <2>9. /\ Within(p - x, X - p, Gap(q, y, Y)) => p2 > x
        /\ Within(X - p, p - x, Gap(q, y, Y)) => p2 < X
        /\ Within(q - y, Y - q, Gap(p, x, X)) => q2 > y
        /\ Within(Y - q, q - y, Gap(p, x, X)) => q2 < Y
    BY <1>3, <1>7, PushedWithin
  <2>10. Radius \in Nat /\ Radius > 1
    BY ArenaAssumption
  <2>11. /\ Border[1][1] + 1 <= p2 /\ p2 <= Border[3][1] - 1
         /\ Border[1][2] + 1 <= q2 /\ q2 <= Border[3][2] - 1
    BY <1>3, <1>4, <1>8, <2>5, <2>8, <2>9, <2>10
  <2>12. Inside(d, 1)
    BY <2>11 DEF Inside
  <2> HIDE DEF d
  <2>13. d \in Int \X Int
    BY DEF d
  <2> QED BY <2>1, <2>3, <2>6, <2>12, <2>13 DEF Pushes
<1> QED BY <1>10, <1>11

(* Two walls a player fits between: beside the one it is off the other.     *)
LEMMA BesideOther ==
  ASSUME Radius > 1, IsBox(Border), NEW w, Placed(w), NEW v, Placed(v), NEW c \in Int \X Int,
         \E k \in {1, 2} : w[3][k] + 2 * Radius <= v[1][k] \/ v[3][k] + 2 * Radius <= w[1][k],
         Beside(c, w), Inside(c, 1)
  PROVE  /\ Off(c, v) /\ StepTo(c, v)
         /\ Near(GapOn(c, v, 1), GapOn(c, v, 2)) => Flush(c, v)
<1> DEFINE x == v[1][1]
           y == v[1][2]
           X == v[3][1]
           Y == v[3][2]
           a == GapOn(c, v, 1)
           b == GapOn(c, v, 2)
<1>1. PICK p \in Int, q \in Int : c = <<p, q>>
  OBVIOUS
<1>2. x \in Int /\ y \in Int /\ X \in Int /\ Y \in Int /\ x < X /\ y < Y
  BY BoxCorners DEF BoxIs, Placed
<1>3. w[1][1] \in Int /\ w[1][2] \in Int /\ w[3][1] \in Int /\ w[3][2] \in Int
  BY BoxCorners DEF BoxIs, Placed
<1>4. Radius \in Nat /\ Radius > 1
  BY ArenaAssumption
<1>5. a = Gap(p, x, X) /\ b = Gap(q, y, Y) /\ a \in Nat /\ b \in Nat
  <2>1. a = Gap(p, x, X) /\ b = Gap(q, y, Y)
    BY <1>1 DEF GapOn
  <2> QED BY <1>2, <2>1, GapType
<1>6. /\ w[1][1] - Radius <= p /\ p <= w[3][1] + Radius
      /\ w[1][2] - Radius <= q /\ q <= w[3][2] + Radius
  BY <1>1 DEF Beside
<1>7. a >= Radius \/ b >= Radius
  <2>1. \/ w[3][1] + 2 * Radius <= x \/ X + 2 * Radius <= w[1][1]
        \/ w[3][2] + 2 * Radius <= y \/ Y + 2 * Radius <= w[1][2]
    OBVIOUS
  <2>2. p <= x - Radius \/ p >= X + Radius \/ q <= y - Radius \/ q >= Y + Radius
    BY <1>2, <1>3, <1>4, <1>6, <2>1
  <2>3. /\ p <= x - Radius \/ p >= X + Radius => Gap(p, x, X) >= Radius
        /\ q <= y - Radius \/ q >= Y + Radius => Gap(q, y, Y) >= Radius
    BY <1>2, <1>4 DEF Gap
  <2> QED BY <1>5, <2>2, <2>3
<1>8. Off(c, v)
  BY <1>5, <1>7, FarFacts DEF Off
<1>9. StepTo(c, v)
  BY <1>1, <1>4, <1>5, <1>7 DEF StepTo, StepFrom
<1>10. ASSUME Near(a, b) PROVE Flush(c, v)
  <2>1. (a = Radius /\ b = 0) \/ (a = 0 /\ b = Radius)
    <3>1. a <= Radius /\ b <= Radius /\ (a = Radius => b = 0) /\ (b = Radius => a = 0)
      BY <1>5, <1>10, NearFacts
    <3> QED BY <1>4, <1>5, <1>7, <3>1
  <2>2. /\ Border[1][1] + 1 <= p /\ p <= Border[3][1] - 1
        /\ Border[1][2] + 1 <= q /\ q <= Border[3][2] - 1
    BY <1>1 DEF Inside
  <2>3. /\ Border[1][1] \in Int /\ Border[1][2] \in Int
        /\ Border[3][1] \in Int /\ Border[3][2] \in Int
    BY BoxCorners DEF BoxIs
  <2>4. /\ a = 0 => x <= p /\ p <= X
        /\ b = 0 => y <= q /\ q <= Y
        /\ a = Radius => p = x - Radius \/ p = X + Radius
        /\ b = Radius => q = y - Radius \/ q = Y + Radius
    BY <1>2, <1>4, <1>5 DEF Gap
  <2> HIDE DEF x, y, X, Y, a, b
  <2>5. x = Border[1][1] => Within(p - x, X - p, b)
    BY <1>2, <1>4, <2>1, <2>2, <2>3, <2>4 DEF Within
  <2>6. X = Border[3][1] => Within(X - p, p - x, b)
    BY <1>2, <1>4, <2>1, <2>2, <2>3, <2>4 DEF Within
  <2>7. y = Border[1][2] => Within(q - y, Y - q, a)
    BY <1>2, <1>4, <2>1, <2>2, <2>3, <2>4 DEF Within
  <2>8. Y = Border[3][2] => Within(Y - q, q - y, a)
    BY <1>2, <1>4, <2>1, <2>2, <2>3, <2>4 DEF Within
  <2>9. 3 - 1 = 2 /\ 3 - 2 = 1
    OBVIOUS
  <2>10. ASSUME NEW k \in {1, 2}
         PROVE  /\ v[1][k] = Border[1][k] => Within(c[k] - v[1][k], v[3][k] - c[k], GapOn(c, v, 3 - k))
                /\ v[3][k] = Border[3][k] => Within(v[3][k] - c[k], c[k] - v[1][k], GapOn(c, v, 3 - k))
    <3>1. CASE k = 1
      BY <1>1, <2>5, <2>6, <2>9, <3>1 DEF x, X, b
    <3>2. CASE k = 2
      BY <1>1, <2>7, <2>8, <2>9, <3>2 DEF y, Y, a
    <3> QED BY <3>1, <3>2
  <2> QED BY <2>10 DEF Flush
<1> QED BY <1>8, <1>9, <1>10

-----------------------------------------------------------------------------
(* The loops.                                                               *)

(* Every nonempty set of numbers has a least one.                           *)
LEMMA Least ==
  ASSUME NEW T \in SUBSET Nat, T # {}
  PROVE  \E n \in T : \A m \in T : n <= m
<1>1. \E n \in T : \A m \in T : ~ (<<m, n>> \in OpToRel(<, Nat))
  BY WFMin, NatLessThanWellFounded, Zenon
<1>2. PICK n \in T : \A m \in T : ~ (<<m, n>> \in OpToRel(<, Nat))
  BY <1>1
<1>3. \A m \in T : ~ (m < n)
  BY <1>2, Zenon DEF OpToRel
<1> QED BY <1>3

(* The loop over the walls does what its body does, one wall after another. *)
LEMMA ByWallsIs ==
  ASSUME NEW c
  PROVE  /\ ByWalls(c)[0] = c
         /\ \A i \in 1 .. Len(Walls) : ByWalls(c)[i] = PushedByWall(ByWalls(c)[i - 1], Walls[i])
<1> DEFINE N == Len(Walls)
           Body(g, i) == IF i = 0 THEN c ELSE PushedByWall(g[i - 1], Walls[i])
           Runs(n) == \E g : g = [i \in 0 .. n |-> Body(g, i)]
           Fails == {n \in Nat : ~ Runs(n)}
<1>0. Runs(0)
  <2> DEFINE g == [i \in 0 .. 0 |-> c]
  <2>1. g = [i \in 0 .. 0 |-> Body(g, i)]
    OBVIOUS
  <2> QED BY <2>1
<1>1. ASSUME NEW n \in Nat, Runs(n) PROVE Runs(n + 1)
  <2>1. PICK g : g = [i \in 0 .. n |-> Body(g, i)]
    BY <1>1
  <2> DEFINE h == [i \in 0 .. n + 1 |-> IF i <= n THEN g[i] ELSE PushedByWall(g[n], Walls[n + 1])]
  <2>2. \A i \in 0 .. n : h[i] = g[i]
    OBVIOUS
  <2>3. \A i \in 0 .. n : g[i] = Body(g, i)
    BY <2>1
  <2>4. ASSUME NEW i \in 0 .. n + 1 PROVE h[i] = Body(h, i)
    <3>1. CASE i = 0
      BY <2>2, <2>3, <3>1
    <3>2. CASE i # 0 /\ i <= n
      <4>1. i \in 0 .. n /\ i - 1 \in 0 .. n
        BY <3>2
      <4> HIDE DEF h
      <4> QED BY <2>2, <2>3, <3>2, <4>1
    <3>3. CASE i = n + 1
      <4>1. h[n + 1] = PushedByWall(g[n], Walls[n + 1])
        BY <3>3
      <4>2. n \in 0 .. n /\ (n + 1) - 1 = n /\ n + 1 # 0
        OBVIOUS
      <4> HIDE DEF h
      <4> QED BY <2>2, <3>3, <4>1, <4>2
    <3> QED BY <3>1, <3>2, <3>3
  <2>5. h = [i \in 0 .. n + 1 |-> h[i]]
    OBVIOUS
  <2> HIDE DEF h
  <2>6. h = [i \in 0 .. n + 1 |-> Body(h, i)]
    BY <2>4, <2>5
  <2> QED BY <2>6
<1>2. Fails = {}
  <2> SUFFICES ASSUME Fails # {} PROVE FALSE
    OBVIOUS
  <2>1. PICK n \in Fails : \A m \in Fails : n <= m
    BY Least
  <2>2. n \in Nat /\ ~ Runs(n)
    OBVIOUS
  <2>3. n # 0
    BY <1>0, <2>2
  <2>4. n - 1 \in Nat /\ ~ n <= n - 1 /\ (n - 1) + 1 = n
    BY <2>2, <2>3
  <2>5. Runs(n - 1)
    <3>1. n - 1 \notin Fails
      BY <2>1, <2>4
    <3> HIDE DEF Runs
    <3> QED BY <2>4, <3>1
  <2> HIDE DEF Runs
  <2> QED BY <1>1, <2>2, <2>4, <2>5
<1>3. N \in Nat
  BY ArenaAssumption
<1>4. Runs(N)
  <2> HIDE DEF Runs, N
  <2> QED BY <1>2, <1>3
<1>5. ByWalls(c) = [i \in 0 .. N |-> Body(ByWalls(c), i)]
  BY <1>4 DEF ByWalls
<1>6. \A i \in 0 .. N : ByWalls(c)[i] = Body(ByWalls(c), i)
  BY <1>5
<1>7. 0 \in 0 .. N /\ \A i \in 1 .. N : i \in 0 .. N /\ i # 0
  BY <1>3
<1> QED BY <1>6, <1>7

(* The four edges of a border that is a box.                                *)
LEMMA ByBorderIs ==
  ASSUME NEW c, NEW e, Len(e) = 4
  PROVE  ByBorder(c, e)[4] =
           OffBorder(OffBorder(OffBorder(OffBorder(c, e[1]), e[2]), e[3]), e[4])
<1> DEFINE Body(g, i) == IF i = 0 THEN c ELSE OffBorder(g[i - 1], e[i])
           c1 == OffBorder(c, e[1])
           c2 == OffBorder(c1, e[2])
           c3 == OffBorder(c2, e[3])
           c4 == OffBorder(c3, e[4])
           g == [i \in 0 .. Len(e) |-> IF i = 0 THEN c ELSE IF i = 1 THEN c1
                                      ELSE IF i = 2 THEN c2 ELSE IF i = 3 THEN c3 ELSE c4]
<1>1. g[0] = c /\ g[1] = c1 /\ g[2] = c2 /\ g[3] = c3 /\ g[4] = c4
  <2> HIDE DEF c1, c2, c3, c4
  <2> QED OBVIOUS
<1>2. g = [i \in 0 .. Len(e) |-> g[i]]
  OBVIOUS
<1>3. \A i \in 0 .. Len(e) : i = 0 \/ i = 1 \/ i = 2 \/ i = 3 \/ i = 4
  OBVIOUS
<1> HIDE DEF g
<1>4. ASSUME NEW i \in 0 .. Len(e) PROVE g[i] = Body(g, i)
  <2>1. CASE i = 0
    BY <1>1, <2>1
  <2>2. CASE i = 1
    BY <1>1, <2>2
  <2>3. CASE i = 2
    BY <1>1, <2>3
  <2>4. CASE i = 3
    BY <1>1, <2>4
  <2>5. CASE i = 4
    BY <1>1, <2>5
  <2> QED BY <1>3, <2>1, <2>2, <2>3, <2>4, <2>5
<1>5. g = [i \in 0 .. Len(e) |-> Body(g, i)]
  BY <1>2, <1>4
<1> DEFINE f == ByBorder(c, e)
<1>6. f = [i \in 0 .. Len(e) |-> Body(f, i)]
  BY <1>5 DEF ByBorder
<1> HIDE DEF f
<1>7. \A i \in 0 .. Len(e) : f[i] = Body(f, i)
  BY <1>6
<1>8. f[0] = c
  BY <1>7
<1>9. f[1] = OffBorder(f[0], e[1])
  BY <1>7
<1>10. f[2] = OffBorder(f[1], e[2])
  BY <1>7
<1>11. f[3] = OffBorder(f[2], e[3])
  BY <1>7
<1>12. f[4] = OffBorder(f[3], e[4])
  BY <1>7
<1> QED BY <1>8, <1>9, <1>10, <1>11, <1>12 DEF f

-----------------------------------------------------------------------------
(* The border pushes a player inside of it back to a radius from its sides. *)

Clamp(m, k) ==
  IF m < Border[1][k] + Radius THEN Border[1][k] + Radius
  ELSE IF m > Border[3][k] - Radius THEN Border[3][k] - Radius ELSE m

LEMMA NearZero ==
  ASSUME NEW a \in Int
  PROVE  /\ Near(0, a) <=> - Radius <= a /\ a <= Radius
         /\ Near(a, 0) <=> - Radius <= a /\ a <= Radius
<1> Radius \in Nat
  BY ArenaAssumption
<1>1. Abs(a) \in Nat /\ Square(Abs(a)) = Square(a)
  BY SquareType DEF Abs
<1>2. Square(a) <= Square(Radius) <=> Abs(a) <= Radius
  BY <1>1, SquareOrder
<1>3. Abs(a) <= Radius <=> - Radius <= a /\ a <= Radius
  BY DEF Abs
<1>4. Square(0) = 0 /\ Square(a) \in Nat
  BY SquareType DEF Square
<1> QED BY <1>2, <1>3, <1>4 DEF Near

LEMMA BorderSides ==
  ASSUME IsBox(Border)
  PROVE  /\ Len(BorderEdges(Border)) = 4
         /\ \A i \in 1 .. 4 : BorderEdges(Border)[i] = Edges(Border)[i]
<1>1. BoxIs(Border, Border[1][1], Border[1][2], Border[3][1], Border[3][2])
  BY BoxCorners
<1>2. Len(Border) = 4
  BY <1>1 DEF BoxIs
<1> QED BY <1>2 DEF BorderEdges, Edges

LEMMA BorderWay ==
  ASSUME IsBox(Border), NEW p \in Int, NEW q \in Int,
         Border[1][1] <= p, p <= Border[3][1], Border[1][2] <= q, q <= Border[3][2]
  PROVE  /\ OffBorder(<<p, q>>, BorderEdges(Border)[1]) =
              <<p, IF q <= Border[1][2] + Radius THEN Border[1][2] + Radius ELSE q>>
         /\ OffBorder(<<p, q>>, BorderEdges(Border)[2]) =
              <<IF p >= Border[3][1] - Radius THEN Border[3][1] - Radius ELSE p, q>>
         /\ OffBorder(<<p, q>>, BorderEdges(Border)[3]) =
              <<p, IF q >= Border[3][2] - Radius THEN Border[3][2] - Radius ELSE q>>
         /\ OffBorder(<<p, q>>, BorderEdges(Border)[4]) =
              <<IF p <= Border[1][1] + Radius THEN Border[1][1] + Radius ELSE p, q>>
<1> DEFINE x == Border[1][1]
           y == Border[1][2]
           X == Border[3][1]
           Y == Border[3][2]
<1>1. BoxIs(Border, x, y, X, Y)
  BY BoxCorners
<1>2. x <= p /\ p <= X /\ y <= q /\ q <= Y
  OBVIOUS
<1>3. \A i \in 1 .. 4 : BorderEdges(Border)[i] = Edges(Border)[i]
  BY BorderSides
<1> HIDE DEF x, y, X, Y
<1>4. x \in Int /\ y \in Int /\ X \in Int /\ Y \in Int /\ x < X /\ y < Y
  BY <1>1 DEF BoxIs
<1>5. /\ Edges(Border)[1] = <<<<x, y>>, <<X, y>>>> /\ Edges(Border)[2] = <<<<X, y>>, <<X, Y>>>>
      /\ Edges(Border)[3] = <<<<X, Y>>, <<x, Y>>>> /\ Edges(Border)[4] = <<<<x, Y>>, <<x, y>>>>
  BY <1>1 DEF BoxIs, Edges
<1>6. Gap(p, x, X) = 0 /\ Gap(q, y, Y) = 0
  BY <1>2, <1>4 DEF Gap
<1>7. Radius \in Nat
  BY ArenaAssumption
<1>8. Square(Radius) \in Int
  BY <1>7, SquareType
<1>9. /\ CircleSegment(<<p, q>>, Radius, Edges(Border)[1][1], Edges(Border)[1][2]) <=> Near(0, q - y)
      /\ CircleSegment(<<p, q>>, Radius, Edges(Border)[2][1], Edges(Border)[2][2]) <=> Near(p - X, 0)
      /\ CircleSegment(<<p, q>>, Radius, Edges(Border)[3][1], Edges(Border)[3][2]) <=> Near(0, q - Y)
      /\ CircleSegment(<<p, q>>, Radius, Edges(Border)[4][1], Edges(Border)[4][2]) <=> Near(p - x, 0)
  BY <1>1, <1>6, <1>8, BoxEdges DEF CircleSegment, Near
<1>10. /\ Near(0, q - y) <=> q <= y + Radius
       /\ Near(p - X, 0) <=> p >= X - Radius
       /\ Near(0, q - Y) <=> q >= Y - Radius
       /\ Near(p - x, 0) <=> p <= x + Radius
  <2>1. Near(0, q - y) <=> - Radius <= q - y /\ q - y <= Radius
    BY <1>4, NearZero
  <2>2. Near(p - X, 0) <=> - Radius <= p - X /\ p - X <= Radius
    BY <1>4, NearZero
  <2>3. Near(0, q - Y) <=> - Radius <= q - Y /\ q - Y <= Radius
    BY <1>4, NearZero
  <2>4. Near(p - x, 0) <=> - Radius <= p - x /\ p - x <= Radius
    BY <1>4, NearZero
  <2> QED BY <1>2, <1>4, <1>7, <2>1, <2>2, <2>3, <2>4
<1>11. /\ Abs(q - y) = q - y /\ Abs(p - X) = X - p
       /\ Abs(q - Y) = Y - q /\ Abs(p - x) = p - x
  BY <1>2, <1>4 DEF Abs
<1>12. MoveAlongNormal(<<p, q>>, <<x, y>>, <<X, y>>) = <<p, y + Radius>>
  <2>1. MoveAlongNormal(<<p, q>>, <<x, y>>, <<X, y>>) = <<p, q + (Radius - Abs(q - y))>>
    BY <1>4, MoveAcross
  <2> QED BY <1>4, <1>7, <1>11, <2>1
<1>13. MoveAlongNormal(<<p, q>>, <<X, Y>>, <<x, Y>>) = <<p, Y - Radius>>
  <2>1. MoveAlongNormal(<<p, q>>, <<X, Y>>, <<x, Y>>) = <<p, q - (Radius - Abs(q - Y))>>
    BY <1>4, MoveAcross
  <2> QED BY <1>4, <1>7, <1>11, <2>1
<1>14. MoveAlongNormal(<<p, q>>, <<X, y>>, <<X, Y>>) = <<X - Radius, q>>
  <2>1. MoveAlongNormal(<<p, q>>, <<X, y>>, <<X, Y>>) = <<p - (Radius - Abs(p - X)), q>>
    BY <1>4, MoveUpright
  <2> QED BY <1>4, <1>7, <1>11, <2>1
<1>15. MoveAlongNormal(<<p, q>>, <<x, Y>>, <<x, y>>) = <<x + Radius, q>>
  <2>1. MoveAlongNormal(<<p, q>>, <<x, Y>>, <<x, y>>) = <<p + (Radius - Abs(p - x)), q>>
    BY <1>4, MoveUpright
  <2> QED BY <1>4, <1>7, <1>11, <2>1
<1>16. /\ OffBorder(<<p, q>>, BorderEdges(Border)[1]) = <<p, IF q <= y + Radius THEN y + Radius ELSE q>>
       /\ OffBorder(<<p, q>>, BorderEdges(Border)[3]) = <<p, IF q >= Y - Radius THEN Y - Radius ELSE q>>
  BY <1>3, <1>5, <1>9, <1>10, <1>12, <1>13 DEF OffBorder
<1>17. /\ OffBorder(<<p, q>>, BorderEdges(Border)[2]) = <<IF p >= X - Radius THEN X - Radius ELSE p, q>>
       /\ OffBorder(<<p, q>>, BorderEdges(Border)[4]) = <<IF p <= x + Radius THEN x + Radius ELSE p, q>>
  BY <1>3, <1>5, <1>9, <1>10, <1>14, <1>15 DEF OffBorder
<1> QED BY <1>16, <1>17 DEF x, y, X, Y

LEMMA BorderClamps ==
  ASSUME IsBox(Border), \A k \in {1, 2} : Border[3][k] - Border[1][k] >= 2 * Radius,
         NEW c \in Int \X Int, Inside(c, 0)
  PROVE  ByBorder(c, BorderEdges(Border))[Len(BorderEdges(Border))] = <<Clamp(c[1], 1), Clamp(c[2], 2)>>
<1> DEFINE x == Border[1][1]
           y == Border[1][2]
           X == Border[3][1]
           Y == Border[3][2]
           e == BorderEdges(Border)
<1>1. PICK p \in Int, q \in Int : c = <<p, q>>
  OBVIOUS
<1>2. x \in Int /\ y \in Int /\ X \in Int /\ Y \in Int
  BY BoxCorners DEF BoxIs
<1>3. Radius \in Nat /\ X - x >= 2 * Radius /\ Y - y >= 2 * Radius
  BY ArenaAssumption
<1>4. x <= p /\ p <= X /\ y <= q /\ q <= Y
  BY <1>1, <1>2 DEF Inside
<1> DEFINE q1 == IF q <= y + Radius THEN y + Radius ELSE q
           p1 == IF p >= X - Radius THEN X - Radius ELSE p
           q2 == IF q1 >= Y - Radius THEN Y - Radius ELSE q1
           p2 == IF p1 <= x + Radius THEN x + Radius ELSE p1
<1>5. /\ q1 \in Int /\ y <= q1 /\ q1 <= Y /\ p1 \in Int /\ x <= p1 /\ p1 <= X
      /\ q2 \in Int /\ y <= q2 /\ q2 <= Y
  BY <1>2, <1>3, <1>4
<1>6. p2 = Clamp(p, 1) /\ q2 = Clamp(q, 2)
  BY <1>2, <1>3, <1>4 DEF Clamp
<1>7. OffBorder(<<p, q>>, e[1]) = <<p, q1>>
  BY <1>4, BorderWay
<1>8. OffBorder(<<p, q1>>, e[2]) = <<p1, q1>>
  <2> HIDE DEF q1
  <2> QED BY <1>4, <1>5, BorderWay
<1>9. OffBorder(<<p1, q1>>, e[3]) = <<p1, q2>>
  <2> HIDE DEF q1, p1
  <2> QED BY <1>5, BorderWay
<1>10. OffBorder(<<p1, q2>>, e[4]) = <<p2, q2>>
  <2> HIDE DEF q2, p1
  <2> QED BY <1>5, BorderWay
<1>11. Len(e) = 4
  BY BorderSides
<1> HIDE DEF e, q1, p1, q2, p2
<1>12. ByBorder(<<p, q>>, e)[4] =
         OffBorder(OffBorder(OffBorder(OffBorder(<<p, q>>, e[1]), e[2]), e[3]), e[4])
  BY <1>11, ByBorderIs
<1>13. ByBorder(<<p, q>>, e)[4] = <<p2, q2>>
  BY <1>7, <1>8, <1>9, <1>10, <1>12
<1> QED BY <1>1, <1>6, <1>11, <1>13 DEF e

-----------------------------------------------------------------------------
(* An update of a player in the open.                                       *)

LEMMA WallPlaced ==
  ASSUME Roomy, NEW i \in 1 .. Len(Walls)
  PROVE  /\ Placed(Walls[i])
         /\ \A j \in 1 .. Len(Walls) \ {i} : \E k \in {1, 2} :
              \/ Walls[i][3][k] + 2 * Radius <= Walls[j][1][k]
              \/ Walls[j][3][k] + 2 * Radius <= Walls[i][1][k]
BY DEF Roomy, Placed

(* A step from the open comes neither too near to a wall nor over a side of *)
(* the border.                                                              *)
LEMMA StepOpen ==
  ASSUME Roomy, NEW p \in Int, NEW q \in Int, NEW a \in Int, NEW b \in Int,
         InTheOpen(<<p, q>>),
         (a = p /\ b - q \in {-1, 0, 1}) \/ (b = q /\ a - p \in {-1, 0, 1}),
         NEW i \in 1 .. Len(Walls)
  PROVE  StepTo(<<a, b>>, Walls[i]) /\ Flush(<<a, b>>, Walls[i])
<1> DEFINE w == Walls[i]
           x == w[1][1]
           y == w[1][2]
           X == w[3][1]
           Y == w[3][2]
<1>1. Radius > 1
  BY DEF Roomy
<1>2. x \in Int /\ y \in Int /\ X \in Int /\ Y \in Int /\ x < X /\ y < Y
  BY WallPlaced, BoxCorners DEF Placed, BoxIs
<1>3. Inside(<<p, q>>, Radius) /\ Off(<<p, q>>, w)
  BY OpenMap
<1>4. Far(Gap(p, x, X), Gap(q, y, Y))
  BY <1>3 DEF Off, GapOn
<1>5. /\ Border[1][1] + Radius <= p /\ p <= Border[3][1] - Radius
      /\ Border[1][2] + Radius <= q /\ q <= Border[3][2] - Radius
  BY <1>3 DEF Inside
<1>6. Radius \in Nat
  BY ArenaAssumption
<1>7. /\ StepFrom(a, b, x, X, y, Y)
      /\ p - x >= Radius => Within(a - x, X - a, Gap(b, y, Y))
      /\ X - p >= Radius => Within(X - a, a - x, Gap(b, y, Y))
      /\ q - y >= Radius => Within(b - y, Y - b, Gap(a, x, X))
      /\ Y - q >= Radius => Within(Y - b, b - y, Gap(a, x, X))
  <2> HIDE DEF x, y, X, Y
  <2>1. (a = p /\ b - q \in {-1, 0, 1}) \/ (b = q /\ a - p \in {-1, 0, 1})
    OBVIOUS
  <2> QED BY <1>1, <1>2, <1>4, <2>1, StepOff
<1>8. /\ x = Border[1][1] => Within(a - x, X - a, Gap(b, y, Y))
      /\ X = Border[3][1] => Within(X - a, a - x, Gap(b, y, Y))
      /\ y = Border[1][2] => Within(b - y, Y - b, Gap(a, x, X))
      /\ Y = Border[3][2] => Within(Y - b, b - y, Gap(a, x, X))
  <2>1. x = Border[1][1] => p - x >= Radius
    BY <1>2, <1>5, <1>6
  <2>2. X = Border[3][1] => X - p >= Radius
    BY <1>2, <1>5, <1>6
  <2>3. y = Border[1][2] => q - y >= Radius
    BY <1>2, <1>5, <1>6
  <2>4. Y = Border[3][2] => Y - q >= Radius
    BY <1>2, <1>5, <1>6
  <2> QED BY <1>7, <2>1, <2>2, <2>3, <2>4
<1>9. StepTo(<<a, b>>, w)
  BY <1>7 DEF StepTo
<1>10. ASSUME NEW k \in {1, 2}
       PROVE  LET c == <<a, b>> IN
              /\ w[1][k] = Border[1][k] => Within(c[k] - w[1][k], w[3][k] - c[k], GapOn(c, w, 3 - k))
              /\ w[3][k] = Border[3][k] => Within(w[3][k] - c[k], c[k] - w[1][k], GapOn(c, w, 3 - k))
  <2>0. 3 - 1 = 2 /\ 3 - 2 = 1
    OBVIOUS
  <2>1. CASE k = 1
    BY <1>8, <2>0, <2>1 DEF GapOn
  <2>2. CASE k = 2
    BY <1>8, <2>0, <2>2 DEF GapOn
  <2> QED BY <2>1, <2>2
<1> HIDE DEF w
<1>11. Flush(<<a, b>>, w)
  BY <1>10 DEF Flush
<1> QED BY <1>9, <1>11 DEF w

(* After the first i walls the player is where the step took it, off all of *)
(* them, or it was pushed and is beside one.                                *)
After(c, d, i) ==
  /\ d \in Int \X Int
  /\ \/ d = c /\ \A j \in 1 .. i : Off(c, Walls[j])
     \/ \E j \in 1 .. i : Off(d, Walls[j]) /\ Beside(d, Walls[j]) /\ Inside(d, 1)

LEMMA NextWall ==
  ASSUME Roomy, NEW c \in Int \X Int, NEW i \in 1 .. Len(Walls), NEW d,
         After(c, d, i - 1), StepTo(c, Walls[i]), Flush(c, Walls[i])
  PROVE  After(c, PushedByWall(d, Walls[i]), i)
<1> DEFINE w == Walls[i]
           e == PushedByWall(d, w)
<1>1. Radius > 1 /\ IsBox(Border) /\ Placed(w)
  BY WallPlaced DEF Roomy
<1>2. d \in Int \X Int /\ Len(Walls) \in Nat
  BY ArenaAssumption DEF After
<1>3. \A j \in 1 .. i : j \in 1 .. i - 1 \/ j = i
  BY <1>2
<1>4. CASE d = c /\ \A j \in 1 .. i - 1 : Off(c, Walls[j])
  <2>1. Pushes(c, w, PushedByWall(c, w))
    BY <1>1, WallStep
  <2>2. Pushes(c, w, e)
    BY <1>4, <2>1
  <2>3. i \in 1 .. i
    BY <1>2
  <2> HIDE DEF e, w
  <2>4. CASE e = c
    <3>1. Off(c, w)
      BY <2>2, <2>4 DEF Pushes
    <3>2. \A j \in 1 .. i : Off(c, Walls[j])
      BY <1>3, <1>4, <3>1 DEF w
    <3> QED BY <2>4, <3>2 DEF After, e, w
  <2>5. CASE Beside(e, w) /\ Inside(e, 1)
    <3>1. Off(e, w) /\ e \in Int \X Int
      BY <2>2 DEF Pushes
    <3> QED BY <2>3, <2>5, <3>1 DEF After, e, w
  <2> QED BY <2>2, <2>4, <2>5 DEF Pushes
<1>5. CASE \E j \in 1 .. i - 1 : Off(d, Walls[j]) /\ Beside(d, Walls[j]) /\ Inside(d, 1)
  <2>1. PICK j \in 1 .. i - 1 : Off(d, Walls[j]) /\ Beside(d, Walls[j]) /\ Inside(d, 1)
    BY <1>5
  <2>2. j \in 1 .. Len(Walls) /\ j # i /\ j \in 1 .. i /\ i \in 1 .. i
    BY <1>2
  <2>3. Placed(Walls[j])
    BY <2>2, WallPlaced
  <2>4. \E k \in {1, 2} : \/ Walls[j][3][k] + 2 * Radius <= w[1][k]
                          \/ w[3][k] + 2 * Radius <= Walls[j][1][k]
    BY <2>2, WallPlaced
  <2> HIDE DEF w
  <2>5. /\ Off(d, w) /\ StepTo(d, w)
        /\ Near(GapOn(d, w, 1), GapOn(d, w, 2)) => Flush(d, w)
    BY <1>1, <1>2, <2>1, <2>3, <2>4, BesideOther
  <2>6. Pushes(d, w, e)
    BY <1>1, <1>2, <2>5, WallStep
  <2> HIDE DEF e
  <2>7. CASE e = d
    BY <1>2, <2>1, <2>2, <2>7 DEF After, e, w
  <2>8. CASE Beside(e, w) /\ Inside(e, 1)
    <3>1. Off(e, w) /\ e \in Int \X Int
      BY <2>6 DEF Pushes
    <3> QED BY <2>2, <2>8, <3>1 DEF After, e, w
  <2> QED BY <2>6, <2>7, <2>8 DEF Pushes
<1> QED BY <1>4, <1>5 DEF After

LEMMA AllWalls ==
  ASSUME Roomy, NEW c \in Int \X Int,
         \A i \in 1 .. Len(Walls) : StepTo(c, Walls[i]) /\ Flush(c, Walls[i])
  PROVE  After(c, ByWalls(c)[Len(Walls)], Len(Walls))
<1> DEFINE N == Len(Walls)
           Fails == {n \in Nat : n <= N /\ ~ After(c, ByWalls(c)[n], n)}
<1>1. N \in Nat
  BY ArenaAssumption
<1>2. After(c, ByWalls(c)[0], 0)
  <2>1. ByWalls(c)[0] = c
    BY ByWallsIs
  <2>2. \A j \in 1 .. 0 : FALSE
    OBVIOUS
  <2> QED BY <2>1, <2>2 DEF After
<1>3. Fails = {}
  <2> SUFFICES ASSUME Fails # {} PROVE FALSE
    OBVIOUS
  <2>1. PICK n \in Fails : \A m \in Fails : n <= m
    BY Least
  <2>2. n \in Nat /\ n <= N /\ ~ After(c, ByWalls(c)[n], n)
    OBVIOUS
  <2>3. n # 0
    BY <1>2, <2>2
  <2>4. n - 1 \in Nat /\ ~ n <= n - 1 /\ n - 1 <= N /\ n \in 1 .. N
    BY <1>1, <2>2, <2>3
  <2>5. After(c, ByWalls(c)[n - 1], n - 1)
    BY <2>1, <2>4
  <2>6. After(c, PushedByWall(ByWalls(c)[n - 1], Walls[n]), n)
    BY <2>4, <2>5, NextWall
  <2>7. ByWalls(c)[n] = PushedByWall(ByWalls(c)[n - 1], Walls[n])
    BY <2>4, ByWallsIs
  <2> QED BY <2>2, <2>6, <2>7
<1> QED BY <1>1, <1>3

(* The border's push takes the player no nearer to a wall it is beside: the *)
(* sides it is pushed from are then sides of the wall too.                  *)
LEMMA ClampGap ==
  ASSUME Roomy, NEW w, Placed(w), NEW k \in {1, 2}, NEW m \in Int,
         Border[1][k] <= m, m <= Border[3][k], w[1][k] - Radius <= m, m <= w[3][k] + Radius
  PROVE  /\ Clamp(m, k) \in Int
         /\ Gap(m, w[1][k], w[3][k]) <= Gap(Clamp(m, k), w[1][k], w[3][k])
         /\ w[1][k] - Radius <= Clamp(m, k) /\ Clamp(m, k) <= w[3][k] + Radius
<1> DEFINE x == w[1][k]
           X == w[3][k]
           a == Border[1][k]
           b == Border[3][k]
<1>1. x \in Int /\ X \in Int /\ x < X
  BY BoxCorners DEF BoxIs, Placed
<1>2. IsBox(Border) /\ b - a >= 2 * Radius
  BY DEF Roomy
<1>3. a \in Int /\ b \in Int
  BY <1>2, BoxCorners DEF BoxIs
<1>4. Radius \in Nat
  BY ArenaAssumption
<1>5. (x = a \/ x >= a + 2 * Radius) /\ (X = b \/ X <= b - 2 * Radius)
  BY DEF Placed
<1>6. a <= m /\ m <= b /\ x - Radius <= m /\ m <= X + Radius
  OBVIOUS
<1>7. Clamp(m, k) = IF m < a + Radius THEN a + Radius ELSE IF m > b - Radius THEN b - Radius ELSE m
  BY DEF Clamp
<1> HIDE DEF x, X, a, b
<1>8. CASE m < a + Radius
  <2>1. x = a /\ Clamp(m, k) = a + Radius
    BY <1>1, <1>3, <1>4, <1>5, <1>6, <1>7, <1>8
  <2>2. a + Radius \in Int /\ x - Radius <= a + Radius /\ a + Radius <= X + Radius
    BY <1>1, <1>3, <1>4, <2>1
  <2>3. Gap(m, x, X) <= Gap(a + Radius, x, X)
    BY <1>1, <1>3, <1>4, <1>6, <1>8, <2>1 DEF Gap
  <2> QED BY <2>1, <2>2, <2>3 DEF x, X
<1>9. CASE ~ m < a + Radius /\ m > b - Radius
  <2>1. X = b /\ Clamp(m, k) = b - Radius
    BY <1>1, <1>3, <1>4, <1>5, <1>6, <1>7, <1>9
  <2>2. b - Radius \in Int /\ x - Radius <= b - Radius /\ b - Radius <= X + Radius
    BY <1>1, <1>3, <1>4, <2>1
  <2>3. Gap(m, x, X) <= Gap(b - Radius, x, X)
    BY <1>1, <1>3, <1>4, <1>6, <1>9, <2>1 DEF Gap
  <2> QED BY <2>1, <2>2, <2>3 DEF x, X
<1>10. CASE ~ m < a + Radius /\ ~ m > b - Radius
  <2>1. Clamp(m, k) = m
    BY <1>7, <1>10
  <2>2. Gap(m, x, X) \in Nat
    BY <1>1, GapType
  <2>3. Gap(m, x, X) <= Gap(m, x, X)
    BY <2>2
  <2> QED BY <1>6, <2>1, <2>3 DEF x, X
<1> QED BY <1>8, <1>9, <1>10

(* An update takes a player from the open into the open.                    *)
LEMMA MoveOpen ==
  ASSUME Roomy, NEW c \in Int \X Int, InTheOpen(c), NEW v \in Unit \cup {<<0, 0>>}
  PROVE  /\ Pushed(Plus(c, v), Border) \in Int \X Int
         /\ InTheOpen(Pushed(Plus(c, v), Border))
<1> DEFINE N == Len(Walls)
           c0 == Plus(c, v)
           d == ByWalls(c0)[N]
<1>1. PICK p \in Int, q \in Int : c = <<p, q>>
  OBVIOUS
<1>2. PICK s \in {-1, 0, 1}, t \in {-1, 0, 1} : v = <<s, t>> /\ (s = 0 \/ t = 0)
  BY DEF Unit
<1>3. c0 = <<p + s, q + t>>
  BY <1>1, <1>2 DEF Plus
<1> DEFINE a == p + s
           b == q + t
<1>4. /\ a \in Int /\ b \in Int
      /\ (a = p /\ b - q \in {-1, 0, 1}) \/ (b = q /\ a - p \in {-1, 0, 1})
  BY <1>1, <1>2
<1>5. InTheOpen(<<p, q>>)
  BY <1>1
<1>6. Radius \in Nat /\ Radius > 1 /\ N \in Nat
  BY ArenaAssumption DEF Roomy
<1>7. IsBox(Border) /\ \A k \in {1, 2} : Border[3][k] - Border[1][k] >= 2 * Radius
  BY DEF Roomy
<1>8. /\ Border[1][1] \in Int /\ Border[1][2] \in Int
      /\ Border[3][1] \in Int /\ Border[3][2] \in Int
  BY <1>7, BoxCorners DEF BoxIs
<1>9. /\ Border[1][1] + Radius <= p /\ p <= Border[3][1] - Radius
      /\ Border[1][2] + Radius <= q /\ q <= Border[3][2] - Radius
  BY <1>1, OpenMap DEF Inside
<1> DEFINE x == Border[1][1]
           y == Border[1][2]
           X == Border[3][1]
           Y == Border[3][2]
<1>m. /\ x \in Int /\ y \in Int /\ X \in Int /\ Y \in Int
      /\ X - x >= 2 * Radius /\ Y - y >= 2 * Radius
      /\ x + Radius <= p /\ p <= X - Radius /\ y + Radius <= q /\ q <= Y - Radius
  BY <1>7, <1>8, <1>9
<1>n. /\ a = p \/ a = p + 1 \/ a = p - 1
      /\ b = q \/ b = q + 1 \/ b = q - 1
      /\ a = p \/ b = q
  BY <1>2
<1>o. \A m \in Int :
        /\ Clamp(m, 1) = IF m < x + Radius THEN x + Radius ELSE IF m > X - Radius THEN X - Radius ELSE m
        /\ Clamp(m, 2) = IF m < y + Radius THEN y + Radius ELSE IF m > Y - Radius THEN Y - Radius ELSE m
  BY DEF Clamp
<1> HIDE DEF a, b, x, y, X, Y
<1>10. \A i \in 1 .. N : StepTo(<<a, b>>, Walls[i]) /\ Flush(<<a, b>>, Walls[i])
  BY <1>4, <1>5, StepOpen
<1>11. c0 = <<a, b>> /\ c0 \in Int \X Int
  BY <1>3, <1>4 DEF a, b
<1>12. After(c0, d, N)
  <2> HIDE DEF c0
  <2>1. \A i \in 1 .. N : StepTo(c0, Walls[i]) /\ Flush(c0, Walls[i])
    BY <1>10, <1>11
  <2> QED BY <1>11, <2>1, AllWalls
<1>13. Inside(c0, 1)
  <2>1. x + 1 <= a /\ a <= X - 1 /\ y + 1 <= b /\ b <= Y - 1
    BY <1>6, <1>m, <1>n
  <2> QED BY <1>11, <2>1 DEF Inside, x, y, X, Y
<1> DEFINE e == <<Clamp(d[1], 1), Clamp(d[2], 2)>>
<1>14. Pushed(c0, Border) = ByBorder(d, BorderEdges(Border))[Len(BorderEdges(Border))]
  BY DEF Pushed
<1> HIDE DEF c0, d
<1>15. d \in Int \X Int /\ Inside(d, 1)
  BY <1>12, <1>13 DEF After
<1>16. PICK g \in Int, h \in Int : d = <<g, h>>
  BY <1>15
<1>17. /\ Border[1][1] + 1 <= g /\ g <= Border[3][1] - 1
       /\ Border[1][2] + 1 <= h /\ h <= Border[3][2] - 1
  BY <1>15, <1>16 DEF Inside
<1>18. /\ Border[1][1] <= g /\ g <= Border[3][1]
       /\ Border[1][2] <= h /\ h <= Border[3][2]
  BY <1>8, <1>16, <1>17
<1>19. Inside(d, 0)
  <2>1. /\ Border[1][1] + 0 <= g /\ g <= Border[3][1] - 0
        /\ Border[1][2] + 0 <= h /\ h <= Border[3][2] - 0
    BY <1>8, <1>18
  <2> QED BY <1>16, <2>1 DEF Inside
<1>20. Pushed(c0, Border) = e
  BY <1>7, <1>14, <1>15, <1>19, BorderClamps
<1>21. e = <<Clamp(g, 1), Clamp(h, 2)>>
  BY <1>16
<1>22. /\ Clamp(g, 1) \in Int /\ Clamp(h, 2) \in Int
       /\ x + Radius <= Clamp(g, 1) /\ Clamp(g, 1) <= X - Radius
       /\ y + Radius <= Clamp(h, 2) /\ Clamp(h, 2) <= Y - Radius
  BY <1>6, <1>m, <1>o
<1> HIDE DEF e
<1>23. e \in Int \X Int /\ Inside(e, Radius)
  BY <1>21, <1>22 DEF Inside, x, y, X, Y
<1>24. CASE d = c0 /\ \A j \in 1 .. N : Off(c0, Walls[j])
  <2>1. g = a /\ h = b
    BY <1>11, <1>16, <1>24
  <2>2. e = <<a, b>> \/ e = <<p, q>>
    <3>1. g \in Int /\ h \in Int
      BY <1>16
    <3>3. /\ a = p => Clamp(g, 1) = p
          /\ b = q => Clamp(h, 2) = q
          /\ a = p + 1 \/ a = p - 1 => Clamp(g, 1) = a \/ Clamp(g, 1) = p
          /\ b = q + 1 \/ b = q - 1 => Clamp(h, 2) = b \/ Clamp(h, 2) = q
      BY <1>6, <1>m, <1>o, <2>1, <3>1
    <3> QED BY <1>21, <1>n, <3>3
  <2>3. CASE e = <<p, q>>
    BY <1>5, <1>20, <1>23, <2>3 DEF c0
  <2>4. CASE e = <<a, b>>
    <3>1. e = c0
      BY <1>11, <2>4
    <3>2. \A j \in 1 .. N : Off(e, Walls[j])
      BY <1>24, <3>1
    <3>3. InTheOpen(e)
      BY <1>23, <3>2, OpenMap
    <3> QED BY <1>20, <1>23, <3>3 DEF c0
  <2> QED BY <2>2, <2>3, <2>4
<1>25. CASE \E j \in 1 .. N : Off(d, Walls[j]) /\ Beside(d, Walls[j]) /\ Inside(d, 1)
  <2>1. PICK j \in 1 .. N : Off(d, Walls[j]) /\ Beside(d, Walls[j])
    BY <1>25
  <2> DEFINE w == Walls[j]
  <2>2. Placed(w)
    BY WallPlaced
  <2>3. /\ w[1][1] \in Int /\ w[1][2] \in Int /\ w[3][1] \in Int /\ w[3][2] \in Int
    BY <2>2, BoxCorners DEF Placed, BoxIs
  <2>4. Off(d, w) /\ Beside(d, w)
    BY <2>1
  <2> HIDE DEF w
  <2>5. /\ w[1][1] - Radius <= g /\ g <= w[3][1] + Radius
        /\ w[1][2] - Radius <= h /\ h <= w[3][2] + Radius
    BY <1>16, <2>4 DEF Beside
  <2>6. /\ Gap(g, w[1][1], w[3][1]) <= Gap(Clamp(g, 1), w[1][1], w[3][1])
        /\ w[1][1] - Radius <= Clamp(g, 1) /\ Clamp(g, 1) <= w[3][1] + Radius
    BY <1>18, <2>2, <2>5, ClampGap
  <2>7. /\ Gap(h, w[1][2], w[3][2]) <= Gap(Clamp(h, 2), w[1][2], w[3][2])
        /\ w[1][2] - Radius <= Clamp(h, 2) /\ Clamp(h, 2) <= w[3][2] + Radius
    BY <1>18, <2>2, <2>5, ClampGap
  <2>8. Beside(e, w)
    BY <1>21, <2>6, <2>7 DEF Beside
  <2>9. Off(e, w)
    <3>1. Far(Gap(g, w[1][1], w[3][1]), Gap(h, w[1][2], w[3][2]))
      BY <1>16, <2>4 DEF Off, GapOn
    <3>2. Gap(g, w[1][1], w[3][1]) \in Nat /\ Gap(h, w[1][2], w[3][2]) \in Nat
      BY <1>16, <2>3, GapType
    <3>3. Gap(Clamp(g, 1), w[1][1], w[3][1]) \in Nat /\ Gap(Clamp(h, 2), w[1][2], w[3][2]) \in Nat
      BY <1>22, <2>3, GapType
    <3>4. Far(Gap(Clamp(g, 1), w[1][1], w[3][1]), Gap(Clamp(h, 2), w[1][2], w[3][2]))
      BY <2>6, <2>7, <3>1, <3>2, <3>3, FarFacts
    <3> QED BY <1>21, <3>4 DEF Off, GapOn
  <2>10. Inside(e, 1)
    <3>1. /\ x + 1 <= Clamp(g, 1) /\ Clamp(g, 1) <= X - 1
          /\ y + 1 <= Clamp(h, 2) /\ Clamp(h, 2) <= Y - 1
      BY <1>6, <1>m, <1>22
    <3> QED BY <1>21, <3>1 DEF Inside, x, y, X, Y
  <2>11. ASSUME NEW i \in 1 .. N PROVE Off(e, Walls[i])
    <3>1. CASE i = j
      BY <2>9, <3>1 DEF w
    <3>2. CASE i # j
      <4>1. Placed(Walls[i])
        BY WallPlaced
      <4>2. \E k \in {1, 2} : \/ w[3][k] + 2 * Radius <= Walls[i][1][k]
                              \/ Walls[i][3][k] + 2 * Radius <= w[1][k]
        BY <3>2, WallPlaced DEF w
      <4> QED BY <1>6, <1>7, <1>23, <2>2, <2>8, <2>10, <4>1, <4>2, BesideOther
    <3> QED BY <3>1, <3>2
  <2>12. InTheOpen(e)
    BY <1>23, <2>11, OpenMap
  <2> QED BY <1>20, <1>23, <2>12 DEF c0
<1> QED BY <1>12, <1>24, <1>25 DEF After

(* A push leads from a point to a point.                                    *)
LEMMA WallType ==
  ASSUME NEW w, IsBox(w), NEW c \in Int \X Int
  PROVE  PushedByWall(c, w) \in Int \X Int
<1>1. PICK p \in Int, q \in Int : c = <<p, q>>
  OBVIOUS
<1>2. BoxIs(w, w[1][1], w[1][2], w[3][1], w[3][2])
  BY BoxCorners
<1>3. /\ w[1][1] \in Int /\ w[1][2] \in Int /\ w[3][1] \in Int /\ w[3][2] \in Int
  BY <1>2 DEF BoxIs
<1>4. PICK p1 \in Int, q1 \in Int, p2 \in Int, q2 \in Int :
        Way(p, q, p1, q1, p2, q2, w[1][1], w[3][1], w[1][2], w[3][2])
  BY <1>3, WayExists
<1>5. PushedByWall(<<p, q>>, w) =
        IF Near(Gap(p, w[1][1], w[3][1]), Gap(q, w[1][2], w[3][2])) THEN <<p2, q2>> ELSE <<p, q>>
  BY <1>2, <1>4, WallWay
<1> QED BY <1>1, <1>5

LEMMA BorderType ==
  ASSUME IsBox(Border), NEW c \in Int \X Int, NEW i \in 1 .. 4
  PROVE  OffBorder(c, BorderEdges(Border)[i]) \in Int \X Int
<1> DEFINE x == Border[1][1]
           y == Border[1][2]
           X == Border[3][1]
           Y == Border[3][2]
           e == BorderEdges(Border)[i]
<1>1. PICK p \in Int, q \in Int : c = <<p, q>>
  OBVIOUS
<1>2. BoxIs(Border, x, y, X, Y)
  BY BoxCorners
<1>3. \A j \in 1 .. 4 : BorderEdges(Border)[j] = Edges(Border)[j]
  BY BorderSides
<1> HIDE DEF x, y, X, Y
<1>4. x \in Int /\ y \in Int /\ X \in Int /\ Y \in Int /\ x < X /\ y < Y
  BY <1>2 DEF BoxIs
<1>5. /\ Edges(Border)[1] = <<<<x, y>>, <<X, y>>>> /\ Edges(Border)[2] = <<<<X, y>>, <<X, Y>>>>
      /\ Edges(Border)[3] = <<<<X, Y>>, <<x, Y>>>> /\ Edges(Border)[4] = <<<<x, Y>>, <<x, y>>>>
  BY <1>2 DEF BoxIs, Edges
<1>6. \A k \in Int : Radius - Abs(k) \in Int
  BY ArenaAssumption DEF Abs
<1>7. /\ Radius - Abs(q - y) \in Int /\ Radius - Abs(q - Y) \in Int
      /\ Radius - Abs(p - x) \in Int /\ Radius - Abs(p - X) \in Int
  BY <1>4, <1>6
<1>8. OffBorder(c, e) = c \/ OffBorder(c, e) = MoveAlongNormal(c, e[1], e[2])
  BY DEF OffBorder
<1>9. CASE i = 1
  <2>1. MoveAlongNormal(<<p, q>>, <<x, y>>, <<X, y>>) = <<p, q + (Radius - Abs(q - y))>>
    BY <1>4, MoveAcross
  <2>2. e[1] = <<x, y>> /\ e[2] = <<X, y>>
    BY <1>3, <1>5, <1>9
  <2> HIDE DEF e
  <2>3. MoveAlongNormal(c, e[1], e[2]) \in Int \X Int
    BY <1>1, <1>7, <2>1, <2>2
  <2> QED BY <1>8, <2>3 DEF e
<1>10. CASE i = 2
  <2>1. MoveAlongNormal(<<p, q>>, <<X, y>>, <<X, Y>>) = <<p - (Radius - Abs(p - X)), q>>
    BY <1>4, MoveUpright
  <2>2. e[1] = <<X, y>> /\ e[2] = <<X, Y>>
    BY <1>3, <1>5, <1>10
  <2> HIDE DEF e
  <2>3. MoveAlongNormal(c, e[1], e[2]) \in Int \X Int
    BY <1>1, <1>7, <2>1, <2>2
  <2> QED BY <1>8, <2>3 DEF e
<1>11. CASE i = 3
  <2>1. MoveAlongNormal(<<p, q>>, <<X, Y>>, <<x, Y>>) = <<p, q - (Radius - Abs(q - Y))>>
    BY <1>4, MoveAcross
  <2>2. e[1] = <<X, Y>> /\ e[2] = <<x, Y>>
    BY <1>3, <1>5, <1>11
  <2> HIDE DEF e
  <2>3. MoveAlongNormal(c, e[1], e[2]) \in Int \X Int
    BY <1>1, <1>7, <2>1, <2>2
  <2> QED BY <1>8, <2>3 DEF e
<1>12. CASE i = 4
  <2>1. MoveAlongNormal(<<p, q>>, <<x, Y>>, <<x, y>>) = <<p + (Radius - Abs(p - x)), q>>
    BY <1>4, MoveUpright
  <2>2. e[1] = <<x, Y>> /\ e[2] = <<x, y>>
    BY <1>3, <1>5, <1>12
  <2> HIDE DEF e
  <2>3. MoveAlongNormal(c, e[1], e[2]) \in Int \X Int
    BY <1>1, <1>7, <2>1, <2>2
  <2> QED BY <1>8, <2>3 DEF e
<1> QED BY <1>9, <1>10, <1>11, <1>12

LEMMA PushedType ==
  ASSUME Roomy, NEW c \in Int \X Int
  PROVE  Pushed(c, Border) \in Int \X Int
<1> DEFINE N == Len(Walls)
           Fails == {n \in Nat : n <= N /\ ByWalls(c)[n] \notin Int \X Int}
           e == BorderEdges(Border)
           d == ByWalls(c)[N]
<1>1. N \in Nat
  BY ArenaAssumption
<1>2. Fails = {}
  <2> SUFFICES ASSUME Fails # {} PROVE FALSE
    OBVIOUS
  <2>1. PICK n \in Fails : \A m \in Fails : n <= m
    BY Least
  <2>2. n \in Nat /\ n <= N /\ ByWalls(c)[n] \notin Int \X Int
    OBVIOUS
  <2>3. n # 0
    BY <2>2, ByWallsIs
  <2>4. n - 1 \in Nat /\ ~ n <= n - 1 /\ n - 1 <= N /\ n \in 1 .. N
    BY <1>1, <2>2, <2>3
  <2>5. ByWalls(c)[n - 1] \in Int \X Int
    BY <2>1, <2>4
  <2>6. PushedByWall(ByWalls(c)[n - 1], Walls[n]) \in Int \X Int
    BY <2>4, <2>5, WallPlaced, WallType DEF Placed
  <2>7. ByWalls(c)[n] = PushedByWall(ByWalls(c)[n - 1], Walls[n])
    BY <2>4, ByWallsIs
  <2> QED BY <2>2, <2>6, <2>7
<1>3. d \in Int \X Int
  BY <1>1, <1>2
<1>4. IsBox(Border)
  BY DEF Roomy
<1>5. Len(e) = 4
  BY <1>4, BorderSides
<1>6. Pushed(c, Border) = ByBorder(d, e)[4]
  BY <1>5 DEF Pushed
<1> HIDE DEF d
<1>7. ByBorder(d, e)[4] =
        OffBorder(OffBorder(OffBorder(OffBorder(d, e[1]), e[2]), e[3]), e[4])
  <2> HIDE DEF e
  <2> QED BY <1>5, ByBorderIs
<1>8. \A i \in 1 .. 4 : \A b \in Int \X Int : OffBorder(b, e[i]) \in Int \X Int
  BY <1>4, BorderType
<1> HIDE DEF e
<1>9. OffBorder(d, e[1]) \in Int \X Int
  BY <1>3, <1>8
<1>10. OffBorder(OffBorder(d, e[1]), e[2]) \in Int \X Int
  BY <1>8, <1>9
<1>11. OffBorder(OffBorder(OffBorder(d, e[1]), e[2]), e[3]) \in Int \X Int
  BY <1>8, <1>10
<1> QED BY <1>6, <1>7, <1>8, <1>11

-----------------------------------------------------------------------------
(* Shots.                                                                   *)

(* Not over the border, and in a wall at most on its edge.                  *)
Clear(c) ==
  /\ InMap(c, 0)
  /\ \A w \in Range(Walls) :
       InRectangle(c, w) => \E i \in 1 .. 4 : NearSegment(c, 0, Edges(w)[i][1], Edges(w)[i][2])

LEMMA OnEdge ==
  ASSUME NEW w, NEW x, NEW y, NEW X, NEW Y, BoxIs(w, x, y, X, Y),
         NEW p \in Int, NEW q \in Int, x <= p, p <= X, y <= q, q <= Y,
         p = x \/ p = X \/ q = y \/ q = Y
  PROVE  \E i \in 1 .. 4 : NearSegment(<<p, q>>, 0, Edges(w)[i][1], Edges(w)[i][2])
<1>1. x \in Int /\ y \in Int /\ X \in Int /\ Y \in Int
  BY DEF BoxIs
<1>2. Gap(p, x, X) = 0 /\ Gap(q, y, Y) = 0
  BY <1>1 DEF Gap
<1>3. Square(0) = 0 /\ p - p = 0 /\ q - q = 0
  BY DEF Square
<1>4. CASE q = y
  <2>1. NearSegment(<<p, q>>, 0, Edges(w)[1][1], Edges(w)[1][2]) <=>
          Square(Gap(p, x, X)) + Square(q - y) <= 0
    BY BoxEdges
  <2> QED BY <1>2, <1>3, <1>4, <2>1
<1>5. CASE p = X
  <2>1. NearSegment(<<p, q>>, 0, Edges(w)[2][1], Edges(w)[2][2]) <=>
          Square(p - X) + Square(Gap(q, y, Y)) <= 0
    BY BoxEdges
  <2> QED BY <1>2, <1>3, <1>5, <2>1
<1>6. CASE q = Y
  <2>1. NearSegment(<<p, q>>, 0, Edges(w)[3][1], Edges(w)[3][2]) <=>
          Square(Gap(p, x, X)) + Square(q - Y) <= 0
    BY BoxEdges
  <2> QED BY <1>2, <1>3, <1>6, <2>1
<1>7. CASE p = x
  <2>1. NearSegment(<<p, q>>, 0, Edges(w)[4][1], Edges(w)[4][2]) <=>
          Square(p - x) + Square(Gap(q, y, Y)) <= 0
    BY BoxEdges
  <2> QED BY <1>2, <1>3, <1>7, <2>1
<1> QED BY <1>4, <1>5, <1>6, <1>7

(* A shot fired from the open starts a radius away: at an edge of a wall or *)
(* before it, at a side of the border or before it.                         *)
LEMMA ShotFromOpen ==
  ASSUME Roomy, NEW c \in Int \X Int, InTheOpen(c), NEW d \in Unit
  PROVE  /\ Plus(c, Times(d, Radius)) \in Int \X Int
         /\ Clear(Plus(c, Times(d, Radius)))
<1>1. PICK p \in Int, q \in Int : c = <<p, q>>
  OBVIOUS
<1>2. Radius \in Nat
  BY ArenaAssumption
<1>3. PICK a \in Int, b \in Int :
        /\ Plus(c, Times(d, Radius)) = <<a, b>>
        /\ \/ a = p /\ (b = q + Radius \/ b = q - Radius)
           \/ b = q /\ (a = p + Radius \/ a = p - Radius)
  <2>1. Plus(c, Times(d, Radius)) = <<p + d[1] * Radius, q + d[2] * Radius>>
    BY <1>1 DEF Plus, Times
  <2>2. 1 * Radius = Radius /\ (-1) * Radius = - Radius /\ 0 * Radius = 0
    BY <1>2
  <2>3. CASE d = <<1, 0>>
    <3>1. d[1] = 1 /\ d[2] = 0
      BY <2>3
    <3>2. Plus(c, Times(d, Radius)) = <<p + Radius, q>>
      BY <1>2, <2>1, <2>2, <3>1
    <3> QED BY <1>2, <3>2
  <2>4. CASE d = <<-1, 0>>
    <3>1. d[1] = -1 /\ d[2] = 0
      BY <2>4
    <3>2. Plus(c, Times(d, Radius)) = <<p - Radius, q>>
      BY <1>2, <2>1, <2>2, <3>1
    <3> QED BY <1>2, <3>2
  <2>5. CASE d = <<0, 1>>
    <3>1. d[1] = 0 /\ d[2] = 1
      BY <2>5
    <3>2. Plus(c, Times(d, Radius)) = <<p, q + Radius>>
      BY <1>2, <2>1, <2>2, <3>1
    <3> QED BY <1>2, <3>2
  <2>6. CASE d = <<0, -1>>
    <3>1. d[1] = 0 /\ d[2] = -1
      BY <2>6
    <3>2. Plus(c, Times(d, Radius)) = <<p, q - Radius>>
      BY <1>2, <2>1, <2>2, <3>1
    <3> QED BY <1>2, <3>2
  <2> QED BY <2>3, <2>4, <2>5, <2>6 DEF Unit
<1>4. IsBox(Border) /\ \A i \in 1 .. Len(Walls) : IsBox(Walls[i])
  BY DEF Roomy
<1>5. Inside(c, Radius) /\ \A i \in 1 .. Len(Walls) : Off(c, Walls[i])
  BY OpenMap
<1> DEFINE x == Border[1][1]
           y == Border[1][2]
           X == Border[3][1]
           Y == Border[3][2]
<1>6. x \in Int /\ y \in Int /\ X \in Int /\ Y \in Int
  BY <1>4, BoxCorners DEF BoxIs
<1>7. x + Radius <= p /\ p <= X - Radius /\ y + Radius <= q /\ q <= Y - Radius
  BY <1>1, <1>5 DEF Inside
<1>8. Inside(<<a, b>>, 0)
  <2> HIDE DEF x, y, X, Y
  <2>1. x + 0 <= a /\ a <= X - 0 /\ y + 0 <= b /\ b <= Y - 0
    BY <1>2, <1>3, <1>6, <1>7
  <2> QED BY <2>1 DEF Inside, x, y, X, Y
<1>9. InMap(<<a, b>>, 0)
  BY <1>4, <1>8, InMapIs
<1>10. ASSUME NEW w \in Range(Walls), InRectangle(<<a, b>>, w)
       PROVE  \E i \in 1 .. 4 : NearSegment(<<a, b>>, 0, Edges(w)[i][1], Edges(w)[i][2])
  <2> DEFINE l == w[1][1]
             m == w[1][2]
             r == w[3][1]
             s == w[3][2]
  <2>1. PICK i \in 1 .. Len(Walls) : w = Walls[i]
    BY DEF Range
  <2>2. IsBox(w) /\ Off(c, w)
    BY <1>4, <1>5, <2>1
  <2>3. BoxIs(w, l, m, r, s)
    BY <2>2, BoxCorners
  <2>4. Far(Gap(p, l, r), Gap(q, m, s))
    BY <1>1, <2>2 DEF Off, GapOn
  <2> HIDE DEF l, m, r, s
  <2>5. l \in Int /\ m \in Int /\ r \in Int /\ s \in Int
    BY <2>3 DEF BoxIs
  <2>6. l <= a /\ a <= r /\ m <= b /\ b <= s
    BY <1>10, <2>3, InBox
  <2>7. Gap(p, l, r) \in Nat /\ Gap(q, m, s) \in Nat
    BY <2>5, GapType
  <2>8. /\ Gap(p, l, r) = 0 => Gap(q, m, s) >= Radius
        /\ Gap(q, m, s) = 0 => Gap(p, l, r) >= Radius
    BY <2>4, <2>7, FarFacts
  <2>9. /\ l <= p /\ p <= r => Gap(p, l, r) = 0
        /\ m <= q /\ q <= s => Gap(q, m, s) = 0
        /\ Gap(p, l, r) >= Radius => p <= l - Radius \/ p >= r + Radius \/ Radius = 0
        /\ Gap(q, m, s) >= Radius => q <= m - Radius \/ q >= s + Radius \/ Radius = 0
    BY <1>2, <2>5 DEF Gap
  <2>10. Radius # 0
    BY ArenaAssumption
  <2>11. a = l \/ a = r \/ b = m \/ b = s
    BY <1>2, <1>3, <2>5, <2>6, <2>8, <2>9, <2>10
  <2> QED BY <2>3, <2>6, <2>11, OnEdge
<1>11. Clear(<<a, b>>)
  BY <1>9, <1>10 DEF Clear
<1> QED BY <1>3, <1>11

(* A shot that is not stopped is in no wall, and has not left the border:   *)
(* a step over a side of it would end within the shot's radius of the side. *)
LEMMA NotStopped ==
  ASSUME Roomy, border = Border, NEW c \in Int \X Int, Clear(c), NEW v \in Unit,
         ~ Stopped(Plus(c, v))
  PROVE  /\ Plus(c, v) \in Int \X Int
         /\ Clear(Plus(c, v))
<1>1. PICK p \in Int, q \in Int : c = <<p, q>>
  OBVIOUS
<1>2. PICK a \in Int, b \in Int :
        /\ Plus(c, v) = <<a, b>>
        /\ \/ a = p /\ (b = q + 1 \/ b = q - 1)
           \/ b = q /\ (a = p + 1 \/ a = p - 1)
  <2>1. Plus(c, v) = <<p + v[1], q + v[2]>>
    BY <1>1 DEF Plus
  <2>2. CASE v = <<1, 0>>
    <3>1. v[1] = 1 /\ v[2] = 0
      BY <2>2
    <3>2. Plus(c, v) = <<p + 1, q>>
      BY <2>1, <3>1
    <3> QED BY <3>2
  <2>3. CASE v = <<-1, 0>>
    <3>1. v[1] = -1 /\ v[2] = 0
      BY <2>3
    <3>2. Plus(c, v) = <<p - 1, q>>
      BY <2>1, <3>1
    <3> QED BY <3>2
  <2>4. CASE v = <<0, 1>>
    <3>1. v[1] = 0 /\ v[2] = 1
      BY <2>4
    <3>2. Plus(c, v) = <<p, q + 1>>
      BY <2>1, <3>1
    <3> QED BY <3>2
  <2>5. CASE v = <<0, -1>>
    <3>1. v[1] = 0 /\ v[2] = -1
      BY <2>5
    <3>2. Plus(c, v) = <<p, q - 1>>
      BY <2>1, <3>1
    <3> QED BY <3>2
  <2> QED BY <2>2, <2>3, <2>4, <2>5 DEF Unit
<1> DEFINE x == Border[1][1]
           y == Border[1][2]
           X == Border[3][1]
           Y == Border[3][2]
           n == Square(ShotRadius)
<1>3. IsBox(Border)
  BY DEF Roomy
<1>4. BoxIs(Border, x, y, X, Y)
  BY <1>3, BoxCorners
<1>5. Inside(c, 0)
  BY <1>3, InMapIs DEF Clear
<1>6. /\ x + 0 <= p /\ p <= X - 0 /\ y + 0 <= q /\ q <= Y - 0
  BY <1>1, <1>5 DEF Inside
<1>7. /\ \A w \in Range(Walls) : ~ CircleRectangle(<<a, b>>, ShotRadius, w)
      /\ \A e \in Range(BorderEdges(Border)) : ~ CircleSegment(<<a, b>>, ShotRadius, e[1], e[2])
  BY <1>2 DEF Stopped
<1>8. \A i \in 1 .. 4 : ~ NearSegment(<<a, b>>, n, Edges(Border)[i][1], Edges(Border)[i][2])
  <2> SUFFICES ASSUME NEW i \in 1 .. 4
               PROVE  ~ NearSegment(<<a, b>>, n, Edges(Border)[i][1], Edges(Border)[i][2])
    OBVIOUS
  <2>1. Len(Border) = 4
    BY <1>4 DEF BoxIs
  <2>2. DOMAIN BorderEdges(Border) = 1 .. 4
    BY <2>1 DEF BorderEdges
  <2>3. BorderEdges(Border)[i] \in Range(BorderEdges(Border))
    BY <2>2 DEF Range
  <2>4. ~ CircleSegment(<<a, b>>, ShotRadius, BorderEdges(Border)[i][1], BorderEdges(Border)[i][2])
    BY <1>7, <2>3
  <2>5. BorderEdges(Border)[i] = Edges(Border)[i]
    BY <1>3, BorderSides
  <2> QED BY <2>4, <2>5 DEF CircleSegment
<1> HIDE DEF x, y, X, Y
<1>9. x \in Int /\ y \in Int /\ X \in Int /\ Y \in Int /\ x < X /\ y < Y
  BY <1>4 DEF BoxIs
<1>10. n \in Nat /\ n >= 1 /\ n >= 0
  <2>1. ShotRadius \in Nat /\ 1 \in Nat /\ 1 <= ShotRadius
    BY ArenaAssumption
  <2>2. Square(1) <= Square(ShotRadius)
    BY <2>1, SquareOrder
  <2>3. Square(ShotRadius) \in Nat
    BY <2>1, SquareType
  <2>4. Square(1) = 1
    BY DEF Square
  <2> QED BY <2>2, <2>3, <2>4
<1> HIDE DEF n
<1>11. Square(0) = 0 /\ Square(1) = 1 /\ Square(-1) = 1
  BY DEF Square
<1>12. /\ y <= b /\ b <= Y => Gap(b, y, Y) = 0
       /\ x <= a /\ a <= X => Gap(a, x, X) = 0
  BY <1>9 DEF Gap
<1>e. /\ NearSegment(<<a, b>>, n, Edges(Border)[1][1], Edges(Border)[1][2]) <=>
            Square(Gap(a, x, X)) + Square(b - y) <= n
      /\ NearSegment(<<a, b>>, n, Edges(Border)[2][1], Edges(Border)[2][2]) <=>
            Square(a - X) + Square(Gap(b, y, Y)) <= n
      /\ NearSegment(<<a, b>>, n, Edges(Border)[3][1], Edges(Border)[3][2]) <=>
            Square(Gap(a, x, X)) + Square(b - Y) <= n
      /\ NearSegment(<<a, b>>, n, Edges(Border)[4][1], Edges(Border)[4][2]) <=>
            Square(a - x) + Square(Gap(b, y, Y)) <= n
  BY <1>4, <1>10, BoxEdges
<1>13. x <= a
  <2> SUFFICES ASSUME ~ x <= a PROVE FALSE
    OBVIOUS
  <2>1. a - x = -1 /\ y <= b /\ b <= Y
    BY <1>2, <1>6, <1>9
  <2>2. Square(a - x) + Square(Gap(b, y, Y)) <= n
    BY <1>10, <1>11, <1>12, <2>1
  <2> QED BY <1>8, <1>e, <2>2
<1>14. a <= X
  <2> SUFFICES ASSUME ~ a <= X PROVE FALSE
    OBVIOUS
  <2>1. a - X = 1 /\ y <= b /\ b <= Y
    BY <1>2, <1>6, <1>9
  <2>2. Square(a - X) + Square(Gap(b, y, Y)) <= n
    BY <1>10, <1>11, <1>12, <2>1
  <2> QED BY <1>8, <1>e, <2>2
<1>15. y <= b
  <2> SUFFICES ASSUME ~ y <= b PROVE FALSE
    OBVIOUS
  <2>1. b - y = -1 /\ x <= a /\ a <= X
    BY <1>2, <1>6, <1>9
  <2>2. Square(Gap(a, x, X)) + Square(b - y) <= n
    BY <1>10, <1>11, <1>12, <2>1
  <2> QED BY <1>8, <1>e, <2>2
<1>16. b <= Y
  <2> SUFFICES ASSUME ~ b <= Y PROVE FALSE
    OBVIOUS
  <2>1. b - Y = 1 /\ x <= a /\ a <= X
    BY <1>2, <1>6, <1>9
  <2>2. Square(Gap(a, x, X)) + Square(b - Y) <= n
    BY <1>10, <1>11, <1>12, <2>1
  <2> QED BY <1>8, <1>e, <2>2
<1>17. Inside(<<a, b>>, 0)
  <2>1. x + 0 <= a /\ a <= X - 0 /\ y + 0 <= b /\ b <= Y - 0
    BY <1>9, <1>13, <1>14, <1>15, <1>16
  <2> QED BY <2>1 DEF Inside, x, y, X, Y
<1>18. InMap(<<a, b>>, 0)
  BY <1>3, <1>17, InMapIs
<1>19. \A w \in Range(Walls) : ~ InRectangle(<<a, b>>, w)
  BY <1>7 DEF CircleRectangle
<1>20. Clear(<<a, b>>)
  BY <1>18, <1>19 DEF Clear
<1> QED BY <1>2, <1>20

-----------------------------------------------------------------------------
(* The invariant: what MapInv says, types, and that a shot fired from the   *)
(* open is clear of the walls and within the border.                        *)

Shots ==
  {s \in [flying : {TRUE}, centre : Int \X Int, velocity : Unit, open : BOOLEAN] :
     s.open => Clear(s.centre)}

ArenaInv ==
  /\ MapInv
  /\ alive \in BOOLEAN
  /\ centre \in Int \X Int
  /\ velocity \in Unit \cup {<<0, 0>>}
  /\ shot \in {NoShot} \cup Shots

LEMMA PlusType ==
  ASSUME NEW c \in Int \X Int, NEW v \in Unit \cup {<<0, 0>>}
  PROVE  Plus(c, v) \in Int \X Int
<1>1. PICK p \in Int, q \in Int : c = <<p, q>>
  OBVIOUS
<1>2. v[1] \in Int /\ v[2] \in Int
  BY DEF Unit
<1> QED BY <1>1, <1>2 DEF Plus

LEMMA ShotFlies ==
  ASSUME Roomy, ArenaInv, border = Border, shot \in Shots
  PROVE  Flown(shot) \in {NoShot} \cup Shots
<1> DEFINE c == Plus(shot.centre, shot.velocity)
<1>1. /\ shot.centre \in Int \X Int /\ shot.velocity \in Unit
      /\ shot.flying = TRUE /\ shot.open \in BOOLEAN
      /\ shot \in [flying : {TRUE}, centre : Int \X Int, velocity : Unit, open : BOOLEAN]
      /\ shot.open => Clear(shot.centre)
  BY DEF Shots
<1>2. c \in Int \X Int
  BY <1>1, PlusType
<1>3. shot.open /\ ~ Stopped(c) => Clear(c)
  BY <1>1, NotStopped
<1>4. Flown(shot) = NoShot \/ Flown(shot) = shot
        \/ (~ Stopped(c) /\ Flown(shot) = [shot EXCEPT !.centre = c])
  BY DEF Flown
<1>5. ASSUME ~ Stopped(c) PROVE [shot EXCEPT !.centre = c] \in Shots
  <2> HIDE DEF c
  <2> DEFINE s == [shot EXCEPT !.centre = c]
  <2>1. s \in [flying : {TRUE}, centre : Int \X Int, velocity : Unit, open : BOOLEAN]
    BY <1>1, <1>2
  <2>2. s.centre = c /\ s.open = shot.open
    BY <1>1
  <2>3. s.open => Clear(s.centre)
    BY <1>3, <1>5, <2>2
  <2> HIDE DEF s
  <2> QED BY <2>1, <2>3 DEF Shots, s
<1> QED BY <1>4, <1>5

LEMMA ShotFired ==
  ASSUME Roomy, ArenaInv, NEW d \in Unit
  PROVE  [flying |-> TRUE, centre |-> Plus(centre, Times(d, Radius)),
          velocity |-> d, open |-> InTheOpen(centre)] \in Shots
<1> DEFINE c == Plus(centre, Times(d, Radius))
           s == [flying |-> TRUE, centre |-> c, velocity |-> d, open |-> InTheOpen(centre)]
<1>1. centre \in Int \X Int /\ InTheOpen(centre) \in BOOLEAN
  BY DEF ArenaInv, InTheOpen
<1>2. c \in Int \X Int
  <2>1. PICK p \in Int, q \in Int : centre = <<p, q>>
    BY <1>1
  <2>2. Radius \in Int /\ d[1] \in Int /\ d[2] \in Int
    BY ArenaAssumption DEF Unit
  <2>3. d[1] * Radius \in Int /\ d[2] * Radius \in Int
    BY <2>2
  <2> QED BY <2>1, <2>3 DEF Plus, Times
<1>3. InTheOpen(centre) => Clear(c)
  BY <1>1, ShotFromOpen
<1> HIDE DEF c
<1>4. s \in [flying : {TRUE}, centre : Int \X Int, velocity : Unit, open : BOOLEAN]
  BY <1>1, <1>2
<1>5. s.centre = c /\ s.open = InTheOpen(centre)
  OBVIOUS
<1>6. s.open => Clear(s.centre)
  BY <1>3, <1>5
<1> HIDE DEF s
<1>7. s \in Shots
  BY <1>4, <1>6 DEF Shots
<1> QED BY <1>7 DEF s, c

LEMMA ArenaInit == Init => ArenaInv
<1> SUFFICES ASSUME Init PROVE ArenaInv
  OBVIOUS
<1>1. MapInv
  BY DEF Init, MapInv, CrashesWithoutMap
<1>2. /\ alive = FALSE /\ centre = <<0, 0>> /\ velocity = <<0, 0>> /\ shot = NoShot
  BY DEF Init
<1>3. centre \in Int \X Int /\ velocity \in Unit \cup {<<0, 0>>} /\ shot \in {NoShot} \cup Shots
  BY <1>2
<1> QED BY <1>1, <1>2, <1>3 DEF ArenaInv

(* An update goes through only with a map.                                  *)
LEMMA UpdateIs ==
  ASSUME ArenaInv, Update
  PROVE  \/ UNCHANGED <<alive, centre, velocity, shot>>
         \/ /\ border = Border \/ (~ alive /\ ~ shot.flying)
            /\ UNCHANGED <<alive, velocity>>
            /\ \/ centre' = centre
               \/ alive /\ centre' = Pushed(Plus(centre, velocity), border)
            /\ shot' = IF shot.flying THEN Flown(shot) ELSE shot
<1>1. border \in {Border, <<>>}
  BY DEF ArenaInv, MapInv
<1>2. ReadsBeyond <=> border = <<>>
  BY <1>1, BoundWraps
<1>3. CASE ReadsBeyond /\ (alive \/ shot.flying)
  BY <1>3 DEF Update, player
<1>4. CASE ~ (ReadsBeyond /\ (alive \/ shot.flying))
  <2>1. /\ centre' = IF alive /\ Followed(centre)
                       THEN Pushed(Plus(centre, velocity), border) ELSE centre
        /\ shot' = IF shot.flying THEN Flown(shot) ELSE shot
        /\ UNCHANGED <<alive, velocity>>
    BY <1>4 DEF Update
  <2> QED BY <1>1, <1>2, <1>4, <2>1
<1> QED BY <1>3, <1>4

LEMMA ArenaStep ==
  ASSUME Roomy, ArenaInv, [Next]_vars
  PROVE  ArenaInv'
<1>m. MapInv'
  BY MapStep DEF ArenaInv
<1>t. /\ alive \in BOOLEAN
      /\ centre \in Int \X Int /\ velocity \in Unit \cup {<<0, 0>>}
      /\ border \in {Border, <<>>}
      /\ shot \in {NoShot} \cup Shots
  BY DEF ArenaInv, MapInv
<1>s. Shots' = Shots
  BY DEF Shots, Clear, InMap
<1> SUFFICES /\ alive' \in BOOLEAN /\ centre' \in Int \X Int
             /\ velocity' \in Unit \cup {<<0, 0>>}
             /\ shot' \in {NoShot} \cup Shots
  BY <1>m, <1>s DEF ArenaInv
<1>1. CASE Spawn
  <2>1. /\ centre' \in (TopLeft(1) .. BottomRight(1)) \X (TopLeft(2) .. BottomRight(2))
        /\ alive' = TRUE /\ UNCHANGED <<velocity, shot>>
    BY <1>1 DEF Spawn
  <2>2. \A k \in {1, 2} : TopLeft(k) \in Int /\ BottomRight(k) \in Int
    BY Corners DEF Roomy, TopLeft, BottomRight
  <2>3. centre' \in Int \X Int
    BY <2>1, <2>2
  <2> QED BY <1>t, <2>1, <2>3
<1>2. CASE Turn
  <2>1. PICK v \in Asked :
          velocity' = IF Square(v[1]) + Square(v[2]) <= 1 THEN v ELSE velocity
    BY <1>2 DEF Turn
  <2>2. velocity' \in Unit \cup {<<0, 0>>}
    <3>1. CASE v = <<1, 1>>
      <4>1. ~ Square(v[1]) + Square(v[2]) <= 1
        BY <3>1 DEF Square
      <4> QED BY <1>t, <2>1, <4>1
    <3>2. CASE v # <<1, 1>>
      BY <1>t, <2>1, <3>2 DEF Asked
    <3> QED BY <3>1, <3>2
  <2>3. UNCHANGED <<alive, centre, shot>>
    BY <1>2 DEF Turn
  <2> QED BY <1>t, <2>2, <2>3
<1>3. CASE Die
  BY <1>t, <1>3 DEF Die
<1>4. CASE Shoot
  <2>1. UNCHANGED <<alive, centre, velocity>>
    BY <1>4 DEF Shoot, player
  <2>2. PICK d \in Unit :
          shot' = [flying |-> TRUE, centre |-> Plus(centre, Times(d, Radius)),
                   velocity |-> d, open |-> InTheOpen(centre)]
    BY <1>4 DEF Shoot
  <2>3. shot' \in Shots
    BY <2>2, ShotFired
  <2> QED BY <1>t, <2>1, <2>3
<1>5. CASE Update
  <2>1. CASE UNCHANGED <<alive, centre, velocity, shot>>
    BY <1>t, <2>1
  <2>2. CASE /\ border = Border \/ (~ alive /\ ~ shot.flying)
             /\ UNCHANGED <<alive, velocity>>
             /\ \/ centre' = centre
                \/ alive /\ centre' = Pushed(Plus(centre, velocity), border)
             /\ shot' = IF shot.flying THEN Flown(shot) ELSE shot
    <3>1. centre' \in Int \X Int
      <4>1. border = Border => Pushed(Plus(centre, velocity), border) \in Int \X Int
        BY <1>t, PlusType, PushedType
      <4> QED BY <1>t, <2>2, <4>1
    <3>2. shot' \in {NoShot} \cup Shots
      <4>1. CASE shot.flying
        <5>1. shot \in Shots /\ border = Border
          BY <1>t, <2>2, <4>1 DEF NoShot
        <5> QED BY <2>2, <4>1, <5>1, ShotFlies
      <4>2. CASE ~ shot.flying
        BY <1>t, <2>2, <4>2
      <4> QED BY <4>1, <4>2
    <3> QED BY <1>t, <2>2, <3>1, <3>2
  <2> QED BY <1>5, <2>1, <2>2, UpdateIs
<1>6. CASE UNCHANGED vars
  BY <1>t, <1>6 DEF vars
<1> QED BY <1>1, <1>2, <1>3, <1>4, <1>5, <1>6 DEF Next

LEMMA OpenStep ==
  ASSUME Roomy, ArenaInv, [Next]_vars, alive, alive', InTheOpen(centre)
  PROVE  InTheOpen(centre')
<1>t. centre \in Int \X Int /\ velocity \in Unit \cup {<<0, 0>>}
  BY DEF ArenaInv
<1>1. CASE Update
  <2>1. CASE centre' = centre
    BY <2>1
  <2>2. CASE border = Border /\ centre' = Pushed(Plus(centre, velocity), border)
    BY <1>t, <2>2, MoveOpen
  <2> QED BY <1>1, <2>1, <2>2, UpdateIs
<1>2. CASE ~ Update
  <2>1. centre' = centre
    BY <1>2 DEF Next, Spawn, Turn, Die, Shoot, player, vars
  <2> QED BY <2>1
<1> QED BY <1>1, <1>2

(* OpenStaysOpen: on every roomy map, whatever the number of walls, no      *)
(* update takes a player from the open into a wall, over the border or      *)
(* nearer than a radius to either (game.cpp:383-424).                       *)
THEOREM PushesKeepOpen == ASSUME Roomy PROVE Spec => OpenStaysOpen
<1>1. ASSUME ArenaInv, [Next]_vars PROVE ArenaInv'
  BY <1>1, ArenaStep
<1>2. ASSUME ArenaInv, [Next]_vars
      PROVE  [alive /\ alive' /\ InTheOpen(centre) => InTheOpen(centre')]_vars
  BY <1>2, OpenStep
<1> QED BY <1>1, <1>2, ArenaInit, PTL DEF Spec, OpenStaysOpen

(* ShotsStopped: on every such map, a shot fired from the open never gets   *)
(* over the border or into a wall (game.cpp:426-456).                       *)
THEOREM OpenShotsStopped == ASSUME Roomy PROVE Spec => []ShotsStopped
<1>1. ASSUME ArenaInv, [Next]_vars PROVE ArenaInv'
  BY <1>1, ArenaStep
<1>2. ArenaInv => ShotsStopped
  <2> SUFFICES ASSUME ArenaInv, shot.flying, shot.open PROVE Clear(shot.centre)
    BY DEF ShotsStopped, Clear
  <2>1. shot \in Shots
    BY DEF ArenaInv, NoShot
  <2> QED BY <2>1 DEF Shots
<1> QED BY <1>1, <1>2, ArenaInit, PTL DEF Spec
=============================================================================
