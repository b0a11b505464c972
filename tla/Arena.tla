------------------------------- MODULE Arena -------------------------------
(***************************************************************************)
(* Movement and collisions (updatePositions, checkCollisions and           *)
(* moveAlongNormal of src/Host/game.cpp, src/Host/collisions.cpp) for one  *)
(* player and one projectile among walls and the border of the map.        *)
(*                                                                         *)
(* Coordinates are whole numbers and edges run along an axis: the heights, *)
(* normals and displacements are then whole numbers too, and the           *)
(* tolerances of the floating point code (0.01, 1e-10) decide nothing.     *)
(* Other players and round obstacles, which push along a line between two  *)
(* centres, are left out.                                                  *)
(***************************************************************************)
EXTENDS Integers, Sequences, SequencesExt

CONSTANTS
  Radius, ShotRadius,  (* player_radius and projectile_radius                *)
  Border,              (* the points of the map's border, in its order       *)
  Walls,               (* the walls, each a sequence of four points          *)
  Horizon,             (* a bound: what is further out is not followed on    *)
  SizeMax              (* what a size_t counts up to, plus one               *)

AlongAxis(a, b) == a # b /\ (a[1] = b[1] \/ a[2] = b[2])

ASSUME ArenaAssumption ==
  /\ Radius \in Nat \ {0} /\ ShotRadius \in Nat \ {0}
  /\ Border \in Seq(Int \X Int) \ {<<>>}
  /\ Walls \in Seq(Seq(Int \X Int))
  /\ SizeMax \in Nat /\ SizeMax > Len(Border) /\ Horizon \in Nat
  /\ \A w \in {Border} \cup Range(Walls) :
       \A i \in DOMAIN w : AlongAxis(w[i], w[IF i = Len(w) THEN 1 ELSE i + 1])

VARIABLES
  border,     (* game_map.borders: empty when no map file could be opened    *)
  crashed,    (* the vector was read beyond its end                          *)
  alive,      (* the player is in play                                       *)
  centre, velocity,
  shot        (* the projectile: none, or its centre and velocity, and       *)
              (* whether the player was in the open when it was fired        *)

player == <<alive, centre, velocity>>
vars   == <<border, crashed, alive, centre, velocity, shot>>

Unit == {<<1, 0>>, <<-1, 0>>, <<0, 1>>, <<0, -1>>}

NoShot == [flying |-> FALSE]

Points == {Border[i] : i \in DOMAIN Border}

(* Of both coordinates.                                                     *)
Lowest  == [k \in {1, 2} |-> CHOOSE n \in {p[k] : p \in Points} : \A p \in Points : n <= p[k]]
Highest == [k \in {1, 2} |-> CHOOSE n \in {p[k] : p \in Points} : \A p \in Points : n >= p[k]]

-----------------------------------------------------------------------------
(* collisions.cpp.                                                          *)

Plus(a, b)     == <<a[1] + b[1], a[2] + b[2]>>
Times(a, n)    == <<a[1] * n, a[2] * n>>
Dot(o, a, b)   == (a[1] - o[1]) * (b[1] - o[1]) + (a[2] - o[2]) * (b[2] - o[2])
Cross(o, a, b) == (a[1] - o[1]) * (b[2] - o[2]) - (a[2] - o[2]) * (b[1] - o[1])
Square(n)      == n * n
Abs(n)         == IF n < 0 THEN - n ELSE n
Sign(n)        == IF n < 0 THEN -1 ELSE IF n > 0 THEN 1 ELSE 0

Distance2(a, b)     == Square(a[1] - b[1]) + Square(a[2] - b[2])
TwiceArea(a, b, c)  == Abs(Cross(a, b, c))

(* An end of the segment, or the foot of the perpendicular when it is on    *)
(* the segment, is at most the root of n away.                              *)
NearSegment(c, n, a, b) ==
  LET length2 == Distance2(a, b)
      dot == Dot(a, c, b) IN
  \/ Distance2(c, a) <= n \/ Distance2(c, b) <= n
  \/ /\ 0 <= dot /\ dot <= length2
     /\ Distance2(a, c) * length2 - Square(dot) <= n * length2

CircleSegment(c, r, a, b) == NearSegment(c, Square(r), a, b)

(* The triangles over the four edges cover the rectangle, no more.          *)
InRectangle(c, w) ==
  TwiceArea(w[1], w[2], c) + TwiceArea(w[2], w[3], c) + TwiceArea(w[3], w[4], c)
    + TwiceArea(w[4], w[1], c)
  = TwiceArea(w[1], w[2], w[3]) + TwiceArea(w[3], w[4], w[1])

Edges(w) == [i \in 1 .. 4 |-> <<w[i], w[IF i = 4 THEN 1 ELSE i + 1]>>]

CircleRectangle(c, r, w) ==
  InRectangle(c, w) \/ \E i \in 1 .. 4 : CircleSegment(c, r, Edges(w)[i][1], Edges(w)[i][2])

-----------------------------------------------------------------------------
(* moveAlongNormal and checkCollisions for the player.                      *)

Normal(a, b) == <<- Sign(b[2] - a[2]), Sign(b[1] - a[1])>>
Height(c, a, b) == TwiceArea(c, a, b) \div Abs(b[1] - a[1] + b[2] - a[2])

MoveAlongNormal(c, a, b) == Plus(c, Times(Normal(a, b), Radius - Height(c, a, b)))

(* The mutated form of OutOfWall: the points are not swapped.               *)
IntoWall(c, e) ==
  IF CircleSegment(c, Radius, e[1], e[2]) THEN MoveAlongNormal(c, e[1], e[2]) ELSE c

(* A wall's normals point out of it, the border's into the map.             *)
OutOfWall(c, e) ==
  IF CircleSegment(c, Radius, e[1], e[2]) THEN MoveAlongNormal(c, e[2], e[1]) ELSE c

OffBorder(c, e) ==
  IF CircleSegment(c, Radius, e[1], e[2]) THEN MoveAlongNormal(c, e[1], e[2]) ELSE c

(* The mutated form of BorderEdges: the edge that closes it is left out.    *)
BorderEdgesOpen(b) == [i \in 1 .. Len(b) - 1 |-> <<b[i], b[i + 1]>>]

BorderEdges(b) ==
  [i \in 1 .. Len(b) |-> <<b[i], b[IF i = Len(b) THEN 1 ELSE i + 1]>>]

PushedByWall(c, w) ==
  IF CircleRectangle(c, Radius, w)
    THEN LET e == Edges(w) IN
         OutOfWall(OutOfWall(OutOfWall(OutOfWall(c, e[1]), e[2]), e[3]), e[4])
    ELSE c

(* The loop over the walls: where the player is after the first i of them.  *)
ByWalls(c) ==
  LET at[i \in 0 .. Len(Walls)] ==
        IF i = 0 THEN c ELSE PushedByWall(at[i - 1], Walls[i])
  IN  at

(* The loop over the edges e of the border.                                 *)
ByBorder(c, e) ==
  LET at[i \in 0 .. Len(e)] ==
        IF i = 0 THEN c ELSE OffBorder(at[i - 1], e[i])
  IN  at

Pushed(c, b) ==
  LET e == BorderEdges(b) IN ByBorder(ByWalls(c)[Len(Walls)], e)[Len(e)]

(* checkProjectileCollisions.                                               *)
Stopped(c) ==
  \/ \E w \in Range(Walls) : CircleRectangle(c, ShotRadius, w)
  \/ \E e \in Range(BorderEdges(border)) : CircleSegment(c, ShotRadius, e[1], e[2])

Followed(c) == Abs(c[1]) <= Horizon /\ Abs(c[2]) <= Horizon

Flown(s) ==
  LET c == Plus(s.centre, s.velocity) IN
  IF Stopped(c) THEN NoShot
  ELSE IF Followed(s.centre) THEN [s EXCEPT !.centre = c] ELSE s

(* The mutated form of ReadsBeyond: i <= borders.size() - 1.                *)
ReadsBeyondByOne == ((Len(border) - 1) % SizeMax) + 1 > Len(border) - 1

(* i < borders.size() - 1, a size_t, reads borders[i + 1].                  *)
ReadsBeyond == ((Len(border) - 1) % SizeMax) > Len(border) - 1

(* The border the instances use is a rectangle, as in the maps.             *)
InMap(c, margin) ==
  \A k \in {1, 2} : Lowest[k] + margin <= c[k] /\ c[k] <= Highest[k] - margin

(* The centre is in no wall, and no nearer to the border than a radius.     *)
OutsideWalls(c) == InMap(c, Radius) /\ \A w \in Range(Walls) : ~ InRectangle(c, w)

(* Inside the border, outside the walls, and nearer than a radius to none.  *)
InTheOpen(c) ==
  /\ InMap(c, Radius)
  /\ \A w \in Range(Walls) :
       /\ ~ InRectangle(c, w)
       /\ \A i \in 1 .. 4 :
            ~ NearSegment(c, Square(Radius) - 1, Edges(w)[i][1], Edges(w)[i][2])

-----------------------------------------------------------------------------
Init ==
  /\ border \in {Border, <<>>}
  /\ crashed = FALSE /\ alive = FALSE
  /\ centre = <<0, 0>> /\ velocity = <<0, 0>>
  /\ shot = NoShot

(* The corners of the map: its points' lowest and highest coordinates, the  *)
(* highest from numeric_limits<double>::min(), next to 0, upwards; both are *)
(* (0, 0) when there is no map.                                             *)
TopLeft(k)     == IF border = <<>> THEN 0 ELSE Lowest[k]
BottomRight(k) == IF border = <<>> \/ Highest[k] < 0 THEN 0 ELSE Highest[k]

(* Any point between them, in a wall or not; the velocity is kept. (Bound:  *)
(* there is no new life while a shot is followed.)                          *)
Spawn ==
  /\ ~ crashed /\ ~ alive /\ ~ shot.flying
  /\ centre' \in (TopLeft(1) .. BottomRight(1)) \X (TopLeft(2) .. BottomRight(2))
  /\ alive' = TRUE
  /\ UNCHANGED <<border, crashed, velocity, shot>>

Asked == Unit \cup {<<0, 0>>, <<1, 1>>}

(* changePlayerMovement: a velocity longer than one is ignored.             *)
Turn ==
  /\ ~ crashed
  /\ \E v \in Asked :
       velocity' = IF Square(v[1]) + Square(v[2]) <= 1 THEN v ELSE velocity
  /\ UNCHANGED <<border, crashed, alive, centre, shot>>

(* A projectile of another player ends this one's life.                     *)
Die ==
  /\ ~ crashed /\ alive
  /\ alive' = FALSE
  /\ UNCHANGED <<border, crashed, centre, velocity, shot>>

(* shootProjectile: from the edge of the player, the way it looks.          *)
Shoot ==
  /\ ~ crashed /\ alive /\ ~ shot.flying
  /\ \E d \in Unit :
       shot' = [flying |-> TRUE, centre |-> Plus(centre, Times(d, Radius)),
                velocity |-> d, open |-> InTheOpen(centre)]
  /\ UNCHANGED <<border, crashed, player>>

(* updatePositions and checkCollisions, under the mutex.                    *)
Update ==
  /\ ~ crashed
  /\ IF ReadsBeyond /\ (alive \/ shot.flying)
       THEN crashed' = TRUE /\ UNCHANGED <<player, shot>>
       ELSE /\ centre' = IF alive /\ Followed(centre)
                           THEN Pushed(Plus(centre, velocity), border) ELSE centre
            /\ shot' = IF shot.flying THEN Flown(shot) ELSE shot
            /\ UNCHANGED <<crashed, alive, velocity>>
  /\ UNCHANGED border

Next == Spawn \/ Turn \/ Die \/ Shoot \/ Update \/ (crashed /\ UNCHANGED vars)

Spec == Init /\ [][Next]_vars

-----------------------------------------------------------------------------
(* Four corners in the order of the maps, sides along the axes.             *)
IsBox(w) ==
  /\ w[1] \in Int \X Int /\ w[3] \in Int \X Int
  /\ w = <<w[1], <<w[3][1], w[1][2]>>, w[3], <<w[1][1], w[3][2]>>>>
  /\ w[1][1] < w[3][1] /\ w[1][2] < w[3][2]

(* What the proofs ask of a map: a step is shorter than the player's        *)
(* radius; and between two walls, and between a wall and a side of the      *)
(* border it is not flush with, the player fits.                            *)
Roomy ==
  /\ Radius > 1
  /\ IsBox(Border)
  /\ \A k \in {1, 2} : Border[3][k] - Border[1][k] >= 2 * Radius
  /\ \A i \in 1 .. Len(Walls) :
       /\ IsBox(Walls[i])
       /\ \A k \in {1, 2} :
            /\ Walls[i][1][k] = Border[1][k] \/ Walls[i][1][k] >= Border[1][k] + 2 * Radius
            /\ Walls[i][3][k] = Border[3][k] \/ Walls[i][3][k] <= Border[3][k] - 2 * Radius
       /\ \A j \in 1 .. Len(Walls) \ {i} : \E k \in {1, 2} :
            \/ Walls[i][3][k] + 2 * Radius <= Walls[j][1][k]
            \/ Walls[j][3][k] + 2 * Radius <= Walls[i][1][k]

(* No move, turn, shot, death or update takes a player that is in the open  *)
(* into a wall, over the border or nearer than a radius to one, whatever    *)
(* order the pushes come in (moveAlongNormal: walls push outwards, their    *)
(* edges taken backwards, the border inwards; the last pushes must not undo *)
(* the first). A player that spawned in a wall may stay there.              *)
OpenStaysOpen ==
  [][alive /\ alive' /\ InTheOpen(centre) => InTheOpen(centre')]_vars

(* "If players centre is outside then collision check will push him out"    *)
(* (game.cpp:326): when the next update takes the centre of a player to a   *)
(* place outside of every wall, a radius within the border, its pushes      *)
(* leave the player in the open, however near to a wall it was. (A wall     *)
(* much thinner than the radius would let it through; no map has one.)      *)
PushedOut ==
  alive /\ border # <<>> /\ OutsideWalls(Plus(centre, velocity)) =>
    InTheOpen(Pushed(Plus(centre, velocity), border))

(* A shot fired from the open never gets over the border or into a wall:    *)
(* checkProjectileCollisions takes it out before. (One fired by a player    *)
(* that is stuck in a wall, or was pushed out of the map, starts outside.)  *)
ShotsStopped ==
  shot.flying /\ shot.open =>
    InMap(shot.centre, 0) /\ \A w \in Range(Walls) :
      InRectangle(shot.centre, w) => \E i \in 1 .. 4 :
        NearSegment(shot.centre, 0, Edges(w)[i][1], Edges(w)[i][2])

(* borders.size() - 1 wraps when no map was read, and the first update with *)
(* a player in play reads beyond the vector, before anyone has moved; with  *)
(* a map none does.                                                         *)
CrashesWithoutMap ==
  /\ crashed => border = <<>>
  /\ border = <<>> => centre = <<0, 0>>
=============================================================================
