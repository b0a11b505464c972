------------------------- MODULE LinkedQueueProofs -------------------------
(***************************************************************************)
(* Proofs about LinkedQueue, for any number of nodes and elements: the     *)
(* nodes in use are always one path from first to last, so that nothing    *)
(* dangles or leaks, and the list is the sequence that Deque promises.     *)
(***************************************************************************)
EXTENDS LinkedQueue, FiniteSetTheorems, SequenceTheorems, WellFoundedInduction, TLAPS

(* The nodes that links knows are those of c, one after the other.          *)
Path(c, links, from, to) ==
  /\ c \in Seq(DOMAIN links)
  /\ \A n \in DOMAIN links : \E k \in DOMAIN c : c[k] = n
  /\ \A j, k \in DOMAIN c : c[j] = c[k] => j = k
  /\ c = <<>> => from = Null /\ to = Null
  /\ c # <<>> => from = c[1] /\ to = c[Len(c)]
  /\ \A k \in DOMAIN c :
       links[c[k]] = [previous |-> IF k = 1 THEN Null ELSE c[k - 1],
                      next     |-> IF k = Len(c) THEN Null ELSE c[k + 1]]

(* The elements that the nodes of c point at.                               *)
Content(c, data) == [k \in DOMAIN c |-> data[c[k]]]

Elements ==
  /\ DOMAIN heap \subseteq Nodes /\ DOMAIN element \subseteq Nodes
  /\ element \in [DOMAIN element -> Values]
  /\ heap = [n \in DOMAIN heap |-> heap[n]]
  /\ held \cap DOMAIN heap = {}
  /\ DOMAIN element = DOMAIN heap \cup held
  /\ out \in Values \cup {None}

ListInv == Elements /\ \E c : Path(c, heap, first, last)

-----------------------------------------------------------------------------
(* Every nonempty set of numbers has a least one: induction, in the form    *)
(* in which the provers can use it.                                         *)
LEMMA Least ==
  ASSUME NEW T \in SUBSET Nat, T # {}
  PROVE  \E n \in T : \A m \in T : n <= m
<1>1. \E x \in T : \A y \in T : ~ (<<y, x>> \in OpToRel(<, Nat))
  BY WFMin, NatLessThanWellFounded, Zenon
<1>2. PICK x \in T : \A y \in T : ~ (<<y, x>> \in OpToRel(<, Nat))
  BY <1>1
<1>3. \A y \in T : ~ (y < x)
  BY <1>2, Zenon DEF OpToRel
<1> QED BY <1>3

(* A path is as long as there are nodes.                                    *)
LEMMA PathLength ==
  ASSUME NEW links, NEW from, NEW to, NEW c, Path(c, links, from, to)
  PROVE  /\ Len(c) \in Nat /\ DOMAIN c = 1 .. Len(c)
         /\ c \in [1 .. Len(c) -> DOMAIN links]
         /\ IsFiniteSet(DOMAIN links) /\ Cardinality(DOMAIN links) = Len(c)
<1>1. Len(c) \in Nat /\ DOMAIN c = 1 .. Len(c) /\ c \in [1 .. Len(c) -> DOMAIN links]
  BY LenProperties DEF Path
<1>2. /\ \A j, k \in 1 .. Len(c) : c[j] = c[k] => j = k
      /\ \A n \in DOMAIN links : \E k \in 1 .. Len(c) : c[k] = n
  BY <1>1 DEF Path
<1>3. ExistsBijection(1 .. Len(c), DOMAIN links)
  BY <1>1, <1>2 DEF ExistsBijection, Bijection, Injection, Surjection, IsInjective
<1> QED BY <1>1, <1>3, FS_CountingElements, FS_NatBijection

(* What a path says of the links of its nodes and of the two ends.          *)
LEMMA OnPath ==
  ASSUME NEW h, NEW f, NEW l, NEW c, Path(c, h, f, l), Null \notin DOMAIN h
  PROVE  /\ Len(c) = 0 <=> f = Null
         /\ Len(c) = 0 <=> l = Null
         /\ Len(c) # 0 => Len(c) >= 1 /\ f = c[1] /\ l = c[Len(c)]
         /\ \A k \in 1 .. Len(c) :
              /\ c[k] \in DOMAIN h
              /\ h[c[k]] = [previous |-> IF k = 1 THEN Null ELSE c[k - 1],
                            next     |-> IF k = Len(c) THEN Null ELSE c[k + 1]]
              /\ c[k] = f <=> k = 1
              /\ c[k] = l <=> k = Len(c)
         /\ \A m \in DOMAIN h : \E k \in 1 .. Len(c) : c[k] = m
         /\ \A j, k \in 1 .. Len(c) : c[j] = c[k] => j = k
<1>1. Len(c) \in Nat /\ DOMAIN c = 1 .. Len(c) /\ c \in [1 .. Len(c) -> DOMAIN h]
  BY PathLength
<1>2. c = <<>> <=> Len(c) = 0
  BY EmptySeq DEF Path
<1>3. \A k \in 1 .. Len(c) : c[k] \in DOMAIN h
  BY <1>1
<1>4. Len(c) # 0 => Len(c) >= 1 /\ 1 \in 1 .. Len(c) /\ Len(c) \in 1 .. Len(c)
  BY <1>1
<1>5. Len(c) = 0 => f = Null /\ l = Null
  BY <1>2 DEF Path
<1>6. Len(c) # 0 => f = c[1] /\ l = c[Len(c)]
  BY <1>2 DEF Path
<1>7. Len(c) # 0 => f # Null /\ l # Null
  BY <1>3, <1>4, <1>6
<1>8. /\ \A m \in DOMAIN h : \E k \in 1 .. Len(c) : c[k] = m
      /\ \A j, k \in 1 .. Len(c) : c[j] = c[k] => j = k
  BY <1>1 DEF Path
<1>9. ASSUME NEW k \in 1 .. Len(c)
      PROVE  (c[k] = f <=> k = 1) /\ (c[k] = l <=> k = Len(c))
  <2>1. Len(c) # 0
    BY <1>1
  <2> QED BY <1>4, <1>6, <1>8, <2>1
<1>10. \A k \in 1 .. Len(c) :
         h[c[k]] = [previous |-> IF k = 1 THEN Null ELSE c[k - 1],
                    next     |-> IF k = Len(c) THEN Null ELSE c[k + 1]]
  BY <1>1, Zenon DEF Path
<1> QED BY <1>3, <1>4, <1>5, <1>6, <1>7, <1>8, <1>9, <1>10

(* The walk of Chain meets the nodes of the path, each once.                *)
LEMMA TheChain ==
  ASSUME NEW links, NEW from, NEW to, NEW c, Path(c, links, from, to)
  PROVE  Longest(Walks(from, links)) = c
<1> DEFINE N == Len(c)
           W == Walks(from, links)
           r == Longest(W)
<1>1. /\ N \in Nat /\ DOMAIN c = 1 .. N /\ c \in [1 .. N -> DOMAIN links]
      /\ Cardinality(DOMAIN links) = N
  BY PathLength
<1>2. c \in W
  <2>1. c \in UNION {[1 .. k -> DOMAIN links] : k \in 0 .. Cardinality(DOMAIN links)}
    BY <1>1
  <2>2. c # <<>> => c[1] = from
    BY DEF Path
  <2>3. ASSUME NEW k \in 1 .. Len(c) - 1 PROVE c[k + 1] = links[c[k]].next
    <3>0. N \in Nat /\ k \in 1 .. N - 1
      BY <1>1
    <3>1. k \in 1 .. N /\ k # N
      BY <3>0
    <3>3. k \in DOMAIN c /\ k # Len(c)
      BY <1>1, <3>1, Zenon
    <3>2. links[c[k]] = [previous |-> IF k = 1 THEN Null ELSE c[k - 1],
                         next     |-> IF k = Len(c) THEN Null ELSE c[k + 1]]
      BY <3>3, Zenon DEF Path
    <3> QED BY <3>2, <3>3
  <2> QED BY <2>1, <2>2, <2>3 DEF Walks
<1>3. ASSUME NEW t \in W
      PROVE  /\ Len(t) \in 0 .. N /\ t \in [1 .. Len(t) -> DOMAIN links]
             /\ Len(t) > 0 => t[1] = from
             /\ \A k \in 1 .. Len(t) - 1 : t[k + 1] = links[t[k]].next
  <2>1. PICK k \in 0 .. N : t \in [1 .. k -> DOMAIN links]
    BY <1>1 DEF Walks
  <2>2. t \in Seq(DOMAIN links) /\ Len(t) = k
    BY <1>1, <2>1
  <2>3. t # <<>> => t[1] = from
    BY DEF Walks
  <2>4. Len(t) > 0 => t # <<>>
    OBVIOUS
  <2> QED BY <2>1, <2>2, <2>3, <2>4 DEF Walks
<1>4. r \in W /\ \A t \in W : Len(t) <= Len(r)
  BY <1>1, <1>2, <1>3 DEF Longest
<1>5. Len(r) = N /\ r \in [1 .. N -> DOMAIN links]
  BY <1>1, <1>2, <1>3, <1>4
<1>6. /\ N > 0 => r[1] = from
      /\ \A k \in 1 .. N - 1 : r[k + 1] = links[r[k]].next
  BY <1>3, <1>4, <1>5
<1>7. /\ N > 0 => c[1] = from
      /\ \A k \in 1 .. N - 1 : c[k + 1] = links[c[k]].next
  BY <1>2, <1>3
<1> HIDE DEF N, W, r
<1>8. \A k \in 1 .. N : r[k] = c[k]
  <2> DEFINE T == {k \in 1 .. N : r[k] # c[k]}
  <2>1. SUFFICES ASSUME T # {} PROVE FALSE
    OBVIOUS
  <2>2. T \in SUBSET Nat
    BY <1>1
  <2>3. PICK n \in T : \A m \in T : n <= m
    BY <2>1, <2>2, Least
  <2>4. n # 1
    BY <1>1, <1>6, <1>7, <2>3
  <2>5. n - 1 \in 1 .. N /\ n - 1 \in 1 .. N - 1 /\ ~ (n <= n - 1)
    BY <1>1, <2>3, <2>4
  <2>6. r[n - 1] = c[n - 1]
    BY <2>3, <2>5
  <2>7. r[n - 1 + 1] = c[n - 1 + 1] /\ n - 1 + 1 = n
    BY <1>1, <1>6, <1>7, <2>3, <2>5, <2>6
  <2> QED BY <2>3, <2>7
<1> QED BY <1>1, <1>5, <1>8 DEF r, W

-----------------------------------------------------------------------------
(* The three changes of the links h to g: a node n behind the last one l, a *)
(* node before the first one f, and the first one taken away.               *)
LinksBack(h, l, n, g) ==
  /\ Null \notin DOMAIN h /\ n \notin DOMAIN h /\ n # Null
  /\ DOMAIN g = DOMAIN h \cup {n}
  /\ g[n] = [previous |-> l, next |-> Null]
  /\ l # Null => g[l] = [h[l] EXCEPT !.next = n]
  /\ \A m \in DOMAIN h : m # l => g[m] = h[m]

LinksFront(h, f, n, g) ==
  /\ Null \notin DOMAIN h /\ n \notin DOMAIN h /\ n # Null
  /\ DOMAIN g = DOMAIN h \cup {n}
  /\ g[n] = [previous |-> Null, next |-> f]
  /\ f # Null => g[f] = [h[f] EXCEPT !.previous = n]
  /\ \A m \in DOMAIN h : m # f => g[m] = h[m]

LinksTaken(h, f, l, g) ==
  /\ Null \notin DOMAIN h /\ f # Null
  /\ DOMAIN g = DOMAIN h \ {f}
  /\ f # l => g[h[f].next] = [h[h[f].next] EXCEPT !.previous = Null]
  /\ \A m \in DOMAIN h \ {f} : f = l \/ m # h[f].next => g[m] = h[m]

LEMMA PathGrowsBack ==
  ASSUME NEW h, NEW f, NEW l, NEW c, Path(c, h, f, l), NEW n, NEW g, LinksBack(h, l, n, g)
  PROVE  Path(Append(c, n), g, IF l = Null THEN n ELSE f, n)
<1> USE DEF LinksBack
<1> DEFINE N == Len(c)
           d == Append(c, n)
<1>1. N \in Nat /\ DOMAIN c = 1 .. N /\ c \in [1 .. N -> DOMAIN h]
  BY PathLength
<1>2. c \in Seq(DOMAIN g)
  BY <1>1
<1>3. /\ d \in Seq(DOMAIN g) /\ d # <<>>
      /\ DOMAIN d = 1 .. N + 1 /\ Len(d) = N + 1
      /\ \A k \in 1 .. N : d[k] = c[k]
      /\ d[N + 1] = n
  BY <1>1, <1>2
<1>4. /\ N = 0 <=> l = Null
      /\ N # 0 => N >= 1 /\ f = c[1] /\ l = c[N]
  BY OnPath
<1>5. \A k \in 1 .. N :
        /\ c[k] \in DOMAIN h
        /\ h[c[k]] = [previous |-> IF k = 1 THEN Null ELSE c[k - 1],
                      next     |-> IF k = N THEN Null ELSE c[k + 1]]
        /\ c[k] = l <=> k = N
  BY OnPath
<1>6. \A m \in DOMAIN h : \E k \in 1 .. N : c[k] = m
  BY OnPath
<1>7. \A j, k \in 1 .. N : c[j] = c[k] => j = k
  BY OnPath
<1> HIDE DEF d, N
<1>8. \A m \in DOMAIN g : \E k \in DOMAIN d : d[k] = m
  <2>1. \A m \in DOMAIN h : \E k \in 1 .. N : d[k] = m
    BY <1>3, <1>6
  <2>2. N + 1 \in DOMAIN d /\ \A k \in 1 .. N : k \in DOMAIN d
    BY <1>1, <1>3
  <2> QED BY <1>3, <2>1, <2>2
<1>9. \A j, k \in DOMAIN d : d[j] = d[k] => j = k
  <2>1. \A k \in DOMAIN d : k \in 1 .. N \/ k = N + 1
    BY <1>1, <1>3
  <2>2. \A k \in 1 .. N : d[k] # n
    BY <1>3, <1>5
  <2> QED BY <1>3, <1>7, <2>1, <2>2
<1>10. ASSUME NEW k \in DOMAIN d
       PROVE g[d[k]] = [previous |-> IF k = 1 THEN Null ELSE d[k - 1],
                        next     |-> IF k = N + 1 THEN Null ELSE d[k + 1]]
  <2>1. CASE k = N + 1
    <3>1. d[k] = n /\ l = IF k = 1 THEN Null ELSE d[k - 1]
      BY <1>1, <1>3, <1>4, <2>1
    <3> QED BY <2>1, <3>1
  <2>2. CASE k \in 1 .. N
    <3>1. /\ d[k] = c[k] /\ k # N + 1
          /\ k # 1 => d[k - 1] = c[k - 1]
          /\ k # N => d[k + 1] = c[k + 1]
      BY <1>1, <1>3, <2>2
    <3>2. CASE k = N
      <4>1. g[l] = [h[l] EXCEPT !.next = n] /\ c[k] = l
        BY <1>1, <1>4, <2>2, <3>2
      <4>2. h[l] = [previous |-> IF k = 1 THEN Null ELSE c[k - 1], next |-> Null]
        BY <1>5, <2>2, <3>2, <4>1
      <4>3. g[l] = [previous |-> IF k = 1 THEN Null ELSE c[k - 1], next |-> n]
        BY <4>1, <4>2
      <4> QED BY <1>3, <3>1, <3>2, <4>1, <4>3
    <3>3. CASE k # N
      <4>1. g[c[k]] = h[c[k]]
        BY <1>5, <2>2, <3>3
      <4> QED BY <1>5, <2>2, <3>1, <3>3, <4>1
    <3> QED BY <3>2, <3>3
  <2> QED BY <1>1, <1>3, <2>1, <2>2
<1>11. (IF l = Null THEN n ELSE f) = d[1] /\ n = d[Len(d)]
  <2>1. CASE N = 0
    BY <1>3, <1>4, <2>1
  <2>2. CASE N # 0
    <3>1. /\ 1 \in 1 .. N /\ N \in 1 .. N /\ N + 1 \in 2 .. N + 1 /\ N + 1 - 1 = N
      BY <1>1, <2>2
    <3> QED BY <1>3, <1>4, <2>2, <3>1
  <2> QED BY <2>1, <2>2
<1>12. Path(d, g, IF l = Null THEN n ELSE f, n)
  <2>1. \A k \in DOMAIN d : g[d[k]] = [previous |-> IF k = 1 THEN Null ELSE d[k - 1],
                                       next     |-> IF k = Len(d) THEN Null ELSE d[k + 1]]
    BY <1>3, <1>10, Zenon
  <2> QED BY <1>3, <1>8, <1>9, <1>11, <2>1 DEF Path
<1> QED BY <1>12 DEF d

LEMMA PathGrowsFront ==
  ASSUME NEW h, NEW f, NEW l, NEW c, Path(c, h, f, l), NEW n, NEW g, LinksFront(h, f, n, g)
  PROVE  Path(<<n>> \o c, g, n, IF f = Null THEN n ELSE l)
<1> USE DEF LinksFront
<1> DEFINE N == Len(c)
           d == <<n>> \o c
<1>1. N \in Nat /\ DOMAIN c = 1 .. N /\ c \in [1 .. N -> DOMAIN h]
  BY PathLength
<1>2. c \in Seq(DOMAIN g) /\ <<n>> \in Seq(DOMAIN g)
  BY <1>1
<1>3. /\ d \in Seq(DOMAIN g) /\ d # <<>>
      /\ DOMAIN d = 1 .. N + 1 /\ Len(d) = N + 1
      /\ \A k \in 2 .. N + 1 : d[k] = c[k - 1]
      /\ d[1] = n
  <2>1. d \in Seq(DOMAIN g)
    BY <1>2
  <2>2. Len(d) = N + 1 /\ d[1] = n
    BY <1>1, <1>2
  <2>3. \A k \in 2 .. N + 1 : d[k] = c[k - 1]
    BY <1>1, <1>2
  <2>4. DOMAIN d = 1 .. N + 1 /\ d # <<>>
    BY <1>1, <2>1, <2>2
  <2> QED BY <2>1, <2>2, <2>3, <2>4
<1>4. /\ N = 0 <=> f = Null
      /\ N # 0 => N >= 1 /\ f = c[1] /\ l = c[N]
  BY OnPath
<1>5. \A k \in 1 .. N :
        /\ c[k] \in DOMAIN h
        /\ h[c[k]] = [previous |-> IF k = 1 THEN Null ELSE c[k - 1],
                      next     |-> IF k = N THEN Null ELSE c[k + 1]]
        /\ c[k] = f <=> k = 1
  BY OnPath
<1>6. \A m \in DOMAIN h : \E k \in 1 .. N : c[k] = m
  BY OnPath
<1>7. \A j, k \in 1 .. N : c[j] = c[k] => j = k
  BY OnPath
<1> HIDE DEF d, N
<1>0. \A k \in DOMAIN d : k = 1 \/ (k - 1 \in 1 .. N /\ k \in 2 .. N + 1)
  <2>1. \A k \in 1 .. N + 1 : k = 1 \/ (k - 1 \in 1 .. N /\ k \in 2 .. N + 1)
    BY <1>1
  <2> QED BY <1>3, <2>1
<1>8. \A m \in DOMAIN g : \E k \in DOMAIN d : d[k] = m
  <2>1. \A k \in 1 .. N : k + 1 \in DOMAIN d /\ d[k + 1] = c[k]
    BY <1>1, <1>3
  <2>2. \A m \in DOMAIN h : \E k \in DOMAIN d : d[k] = m
    BY <1>6, <2>1
  <2>3. 1 \in DOMAIN d
    BY <1>1, <1>3
  <2> QED BY <1>3, <2>2, <2>3
<1>9. \A j, k \in DOMAIN d : d[j] = d[k] => j = k
  <2>1. ASSUME NEW k \in 2 .. N + 1 PROVE d[k] # n
    <3>1. k - 1 \in 1 .. N /\ d[k] = c[k - 1]
      BY <1>1, <1>3
    <3>2. c[k - 1] \in DOMAIN h
      BY <1>5, <3>1
    <3>3. n \notin DOMAIN h
      OBVIOUS
    <3> QED BY <3>1, <3>2, <3>3
  <2>2. ASSUME NEW j \in 2 .. N + 1, NEW k \in 2 .. N + 1, d[j] = d[k] PROVE j = k
    <3>1. /\ j - 1 \in 1 .. N /\ d[j] = c[j - 1] /\ k - 1 \in 1 .. N /\ d[k] = c[k - 1]
      BY <1>1, <1>3
    <3>2. j - 1 = k - 1
      BY <1>7, <2>2, <3>1
    <3> QED BY <1>1, <3>2
  <2> QED BY <1>0, <1>3, <2>1, <2>2
<1>10. ASSUME NEW k \in DOMAIN d
       PROVE g[d[k]] = [previous |-> IF k = 1 THEN Null ELSE d[k - 1],
                        next     |-> IF k = N + 1 THEN Null ELSE d[k + 1]]
  <2>1. CASE k = 1
    <3>1. d[k] = n /\ f = IF k = N + 1 THEN Null ELSE d[k + 1]
      BY <1>1, <1>3, <1>4, <2>1
    <3> QED BY <2>1, <3>1
  <2>2. CASE k \in 2 .. N + 1 /\ k - 1 \in 1 .. N /\ k # 1
    <3>0. /\ k # 2 => k - 1 \in 2 .. N + 1 /\ k - 1 - 1 = k - 2
          /\ k # N + 1 => k + 1 \in 2 .. N + 1 /\ k + 1 - 1 = k
      BY <1>1, <2>2
    <3>1. /\ d[k] = c[k - 1] /\ k - 1 \in 1 .. N
          /\ k # 2 => d[k - 1] = c[k - 2]
          /\ k = 2 => d[k - 1] = n
          /\ k # N + 1 => d[k + 1] = c[k]
      <4>1. d[k] = c[k - 1] /\ k - 1 \in 1 .. N
        BY <1>3, <2>2
      <4>2. k # 2 => d[k - 1] = c[k - 2]
        <5>1. k # 2 => d[k - 1] = c[k - 1 - 1]
          BY <1>3, <3>0
        <5> QED BY <3>0, <5>1
      <4>3. k = 2 => d[k - 1] = n
        BY <1>3
      <4>4. k # N + 1 => d[k + 1] = c[k]
        <5>1. k # N + 1 => d[k + 1] = c[k + 1 - 1]
          BY <1>3, <3>0
        <5> QED BY <3>0, <5>1
      <4> QED BY <4>1, <4>2, <4>3, <4>4
    <3>2. h[c[k - 1]] = [previous |-> IF k = 2 THEN Null ELSE c[k - 2],
                         next     |-> IF k = N + 1 THEN Null ELSE c[k]]
      <4>1. /\ h[c[k - 1]] = [previous |-> IF k - 1 = 1 THEN Null ELSE c[k - 1 - 1],
                              next     |-> IF k - 1 = N THEN Null ELSE c[k - 1 + 1]]
        BY <1>5, <3>1
      <4>2. k - 1 - 1 = k - 2 /\ k - 1 + 1 = k /\ (k - 1 = 1 <=> k = 2) /\ (k - 1 = N <=> k = N + 1)
        BY <1>1, <2>2
      <4> QED BY <4>1, <4>2
    <3>3. CASE k = 2
      <4>1. f # Null /\ c[k - 1] = f
        BY <1>1, <1>4, <3>1, <3>3
      <4>2. g[f] = [h[f] EXCEPT !.previous = n]
        BY <4>1
      <4>3. g[f] = [previous |-> n, next |-> IF k = N + 1 THEN Null ELSE c[k]]
        BY <3>2, <3>3, <4>1, <4>2
      <4> QED BY <2>2, <3>1, <3>3, <4>1, <4>3
    <3>4. CASE k # 2
      <4>1. c[k - 1] # f /\ c[k - 1] \in DOMAIN h
        <5>1. k - 1 # 1 /\ k - 1 \in 1 .. N
          BY <1>1, <2>2, <3>4
        <5> QED BY <1>5, <5>1
      <4>2. g[c[k - 1]] = h[c[k - 1]]
        BY <4>1
      <4> QED BY <2>2, <3>1, <3>2, <3>4, <4>2
    <3> QED BY <3>3, <3>4
  <2> QED BY <1>0, <2>1, <2>2
<1>11. n = d[1] /\ (IF f = Null THEN n ELSE l) = d[Len(d)]
  <2>1. CASE N = 0
    BY <1>3, <1>4, <2>1
  <2>2. CASE N # 0
    <3>1. /\ 1 \in 1 .. N /\ N \in 1 .. N /\ N + 1 \in 2 .. N + 1 /\ N + 1 - 1 = N
      BY <1>1, <2>2
    <3> QED BY <1>3, <1>4, <2>2, <3>1
  <2> QED BY <2>1, <2>2
<1>12. Path(d, g, n, IF f = Null THEN n ELSE l)
  <2>1. \A k \in DOMAIN d : g[d[k]] = [previous |-> IF k = 1 THEN Null ELSE d[k - 1],
                                       next     |-> IF k = Len(d) THEN Null ELSE d[k + 1]]
    BY <1>3, <1>10, Zenon
  <2> QED BY <1>3, <1>8, <1>9, <1>11, <2>1 DEF Path
<1> QED BY <1>12 DEF d

LEMMA PathShrinks ==
  ASSUME NEW h, NEW f, NEW l, NEW c, Path(c, h, f, l), NEW g, LinksTaken(h, f, l, g)
  PROVE  /\ Path(Tail(c), g, h[f].next, IF f = l THEN Null ELSE l)
         /\ c # <<>> /\ f = c[1]
         /\ f # l => h[f].next \in DOMAIN h \ {f}
<1> USE DEF LinksTaken
<1> DEFINE N == Len(c)
           d == Tail(c)
<1>1. /\ N \in Nat /\ DOMAIN c = 1 .. N /\ c \in [1 .. N -> DOMAIN h]
      /\ c # <<>> /\ f = c[1] /\ l = c[N] /\ N >= 1
  BY PathLength, OnPath, EmptySeq
<1>2. c \in Seq(DOMAIN h)
  BY DEF Path
<1>3. /\ d \in Seq(DOMAIN h)
      /\ DOMAIN d = 1 .. N - 1 /\ Len(d) = N - 1
      /\ \A k \in 1 .. N - 1 : d[k] = c[k + 1]
  BY <1>1, <1>2, HeadTailProperties, LenProperties
<1>4. \A k \in 1 .. N :
        /\ c[k] \in DOMAIN h
        /\ h[c[k]] = [previous |-> IF k = 1 THEN Null ELSE c[k - 1],
                      next     |-> IF k = N THEN Null ELSE c[k + 1]]
        /\ c[k] = f <=> k = 1
        /\ c[k] = l <=> k = N
  BY OnPath
<1>5. \A m \in DOMAIN h : \E k \in 1 .. N : c[k] = m
  BY OnPath
<1>6. \A j, k \in 1 .. N : c[j] = c[k] => j = k
  BY OnPath
<1>7. /\ f = l <=> N = 1
      /\ N = 1 => h[f].next = Null
      /\ N # 1 => h[f].next = c[2] /\ c[2] # f /\ c[2] \in DOMAIN h
  <2>1. 1 \in 1 .. N /\ N \in 1 .. N /\ (N # 1 => 2 \in 1 .. N)
    BY <1>1
  <2>2. f = l <=> N = 1
    BY <1>1, <1>4, <2>1
  <2>3. h[f].next = IF 1 = N THEN Null ELSE c[2]
    <3>1. h[c[1]] = [previous |-> IF 1 = 1 THEN Null ELSE c[1 - 1],
                     next     |-> IF 1 = N THEN Null ELSE c[1 + 1]]
      BY <1>4, <2>1, Zenon
    <3>2. h[c[1]].next = IF 1 = N THEN Null ELSE c[1 + 1]
      BY <3>1
    <3>3. 1 + 1 = 2
      OBVIOUS
    <3>4. h[c[1]].next = IF 1 = N THEN Null ELSE c[2]
      BY <3>2, <3>3, Zenon
    <3> QED BY <1>1, <3>4
  <2>4. ASSUME N # 1 PROVE c[2] # f /\ c[2] \in DOMAIN h
    <3>1. c[2] \in DOMAIN h /\ (c[2] = f <=> 2 = 1)
      BY <1>4, <2>1, <2>4, Zenon
    <3>2. 2 # 1
      OBVIOUS
    <3> QED BY <3>1, <3>2
  <2> QED BY <2>2, <2>3, <2>4
<1> HIDE DEF d, N
<1>8. \A k \in DOMAIN d : k \in 1 .. N - 1 /\ k + 1 \in 1 .. N /\ d[k] = c[k + 1] /\ d[k] \in DOMAIN g
  <2>0. \A k \in 1 .. N - 1 : k + 1 \in 1 .. N /\ k + 1 # 1
    BY <1>1
  <2>1. \A k \in DOMAIN d : k \in 1 .. N - 1 /\ k + 1 \in 1 .. N /\ d[k] = c[k + 1] /\ k + 1 # 1
    BY <1>3, <2>0
  <2>2. \A j \in 1 .. N : j # 1 => c[j] \in DOMAIN g
    BY <1>4
  <2> QED BY <2>1, <2>2
<1>9. d \in Seq(DOMAIN g)
  <2>1. \A k \in 1 .. Len(d) : d[k] \in DOMAIN g
    BY <1>3, <1>8
  <2> QED BY <1>3, <2>1
<1>10. \A m \in DOMAIN g : \E k \in DOMAIN d : d[k] = m
  <2>1. SUFFICES ASSUME NEW m \in DOMAIN g PROVE \E k \in DOMAIN d : d[k] = m
    OBVIOUS
  <2>2. PICK j \in 1 .. N : c[j] = m
    BY <1>5
  <2>3. j - 1 \in DOMAIN d /\ d[j - 1] = c[j - 1 + 1] /\ j - 1 + 1 = j
    BY <1>1, <1>3, <2>2
  <2> QED BY <2>2, <2>3
<1>11. \A j, k \in DOMAIN d : d[j] = d[k] => j = k
  BY <1>1, <1>6, <1>8
<1>12. ASSUME NEW k \in DOMAIN d
       PROVE g[d[k]] = [previous |-> IF k = 1 THEN Null ELSE d[k - 1],
                        next     |-> IF k = N - 1 THEN Null ELSE d[k + 1]]
  <2>1. /\ d[k] = c[k + 1] /\ N # 1 /\ d[k] \in DOMAIN g
        /\ k # 1 => d[k - 1] = c[k]
        /\ k # N - 1 => d[k + 1] = c[k + 2]
    BY <1>1, <1>3, <1>8
  <2>2. h[c[k + 1]] = [previous |-> c[k], next |-> IF k = N - 1 THEN Null ELSE c[k + 2]]
    <3>1. h[c[k + 1]] = [previous |-> IF k + 1 = 1 THEN Null ELSE c[k + 1 - 1],
                         next     |-> IF k + 1 = N THEN Null ELSE c[k + 1 + 1]]
      BY <1>4, <1>8
    <3>2. k + 1 # 1 /\ k + 1 - 1 = k /\ k + 1 + 1 = k + 2 /\ (k + 1 = N <=> k = N - 1)
      BY <1>1, <1>8
    <3> QED BY <3>1, <3>2
  <2>3. CASE k = 1
    <3>1. d[k] = h[f].next
      BY <1>7, <2>1, <2>3
    <3>2. g[d[k]] = [h[d[k]] EXCEPT !.previous = Null]
      BY <1>7, <2>1, <3>1
    <3>3. g[d[k]] = [previous |-> Null, next |-> IF k = N - 1 THEN Null ELSE c[k + 2]]
      BY <2>1, <2>2, <3>2
    <3> QED BY <2>1, <2>3, <3>3
  <2>4. CASE k # 1
    <3>1. 2 \in 1 .. N /\ k + 1 \in 1 .. N /\ k + 1 # 2
      BY <1>1, <1>8, <2>1, <2>4
    <3>2. c[k + 1] # c[2]
      BY <1>6, <3>1
    <3>3. g[c[k + 1]] = h[c[k + 1]]
      BY <1>7, <2>1, <3>2
    <3> QED BY <2>1, <2>2, <2>4, <3>3
  <2> QED BY <2>3, <2>4
<1>13. /\ d = <<>> => h[f].next = Null /\ (IF f = l THEN Null ELSE l) = Null
       /\ d # <<>> => h[f].next = d[1] /\ (IF f = l THEN Null ELSE l) = d[Len(d)]
  BY <1>1, <1>3, <1>7
<1> QED BY <1>1, <1>3, <1>7, <1>9, <1>10, <1>11, <1>12, <1>13 DEF Path, d

-----------------------------------------------------------------------------
(* The chain is the path, now and after a step.                             *)
LEMMA OneChain ==
  /\ \A c : Path(c, heap, first, last) => Chain = c
  /\ \A c : Path(c, heap', first', last') => Chain' = c
BY TheChain DEF Chain

LEMMA FreedAt ==
  ASSUME NEW f, NEW dead
  PROVE  /\ DOMAIN Freed(f, dead) = DOMAIN f \ dead
         /\ \A m \in DOMAIN f \ dead : Freed(f, dead)[m] = f[m]
BY DEF Freed

(* The new element is in nobody else's place.                               *)
LEMMA ElementsGrow ==
  ASSUME Elements, NEW n \in Nodes, NEW v \in Values, CreateNewNode(n, v),
         DOMAIN heap' = DOMAIN heap \cup {n}, heap' = [m \in DOMAIN heap' |-> heap'[m]],
         UNCHANGED <<held, out>>
  PROVE  /\ Elements'
         /\ element'[n] = v /\ \A m \in DOMAIN heap : element'[m] = element[m] /\ m # n
<1>1. n \notin DOMAIN heap /\ n \notin DOMAIN element /\ element' = Set(element, n, v)
  BY DEF CreateNewNode
<1>2. /\ DOMAIN element' = DOMAIN element \cup {n} /\ element'[n] = v
      /\ \A m \in DOMAIN element : element'[m] = element[m]
  BY <1>1 DEF Set
<1>3. element' \in [DOMAIN element' -> Values]
  BY <1>1 DEF Elements, Set
<1> QED BY <1>1, <1>2, <1>3 DEF Elements

LEMMA BackPushed ==
  ASSUME Elements, NEW c, Path(c, heap, first, last),
         NEW n \in Nodes, NEW v \in Values, PushBack(n, v)
  PROVE  /\ Elements' /\ Path(Append(c, n), heap', first', last')
         /\ Content(Append(c, n), element') = Append(Content(c, element), v)
<1> DEFINE linked == Set(heap, n, [previous |-> last, next |-> Null])
<1>1. /\ CreateNewNode(n, v) /\ UNCHANGED <<held, out>>
      /\ heap' = IF last = Null THEN linked ELSE [linked EXCEPT ![last].next = n]
      /\ last' = n /\ first' = IF last = Null THEN n ELSE first
  BY DEF PushBack
<1>2. Null \notin DOMAIN heap /\ n \notin DOMAIN heap /\ n # Null
  BY <1>1, NullAssumption DEF Elements, CreateNewNode
<1>3. /\ DOMAIN linked = DOMAIN heap \cup {n}
      /\ linked[n] = [previous |-> last, next |-> Null]
      /\ \A m \in DOMAIN heap : linked[m] = heap[m]
  BY <1>2 DEF Set
<1>4. last # Null => last \in DOMAIN heap
  BY <1>2, OnPath, PathLength
<1> HIDE DEF linked
<1>5. /\ DOMAIN heap' = DOMAIN heap \cup {n}
      /\ heap'[n] = [previous |-> last, next |-> Null]
      /\ last # Null => heap'[last] = [heap[last] EXCEPT !.next = n]
      /\ \A m \in DOMAIN heap : m # last => heap'[m] = heap[m]
  BY <1>1, <1>2, <1>3, <1>4
<1>9. heap' = [m \in DOMAIN heap' |-> heap'[m]]
  BY <1>1 DEF linked, Set
<1>6. Path(Append(c, n), heap', first', last')
  <2>1. Path(Append(c, n), heap', IF last = Null THEN n ELSE first, n)
    <3>1. LinksBack(heap, last, n, heap')
      BY <1>2, <1>5 DEF LinksBack
    <3> QED BY <3>1, PathGrowsBack
  <2> QED BY <1>1, <2>1, Zenon
<1>7. Elements' /\ element'[n] = v /\ \A m \in DOMAIN heap : element'[m] = element[m]
  BY <1>1, <1>5, <1>9, ElementsGrow
<1>8. Content(Append(c, n), element') = Append(Content(c, element), v)
  <2>1. /\ Len(c) \in Nat /\ DOMAIN c = 1 .. Len(c) /\ c \in [1 .. Len(c) -> DOMAIN heap]
    BY PathLength
  <2>2. /\ DOMAIN Append(c, n) = 1 .. Len(c) + 1
        /\ \A k \in 1 .. Len(c) : Append(c, n)[k] = c[k]
        /\ Append(c, n)[Len(c) + 1] = n
    BY <2>1
  <2> DEFINE s == Content(c, element)
  <2>3. s = [k \in 1 .. Len(c) |-> element[c[k]]]
    BY <2>1 DEF Content
  <2>4. s \in Seq(Values) /\ Len(s) = Len(c) /\ \A k \in 1 .. Len(c) : s[k] = element[c[k]]
    BY <2>1, <2>3 DEF Elements
  <2> HIDE DEF s
  <2>5. /\ DOMAIN Append(s, v) = 1 .. Len(c) + 1
        /\ \A k \in 1 .. Len(c) : Append(s, v)[k] = s[k]
        /\ Append(s, v)[Len(c) + 1] = v
        /\ Append(s, v) \in Seq(Values)
    BY <2>1, <2>4
  <2>6. \A k \in 1 .. Len(c) + 1 : k \in 1 .. Len(c) \/ k = Len(c) + 1
    BY <2>1
  <2>7. \A k \in 1 .. Len(c) + 1 : element'[Append(c, n)[k]] = Append(s, v)[k]
    <3>1. ASSUME NEW k \in 1 .. Len(c) PROVE element'[Append(c, n)[k]] = Append(s, v)[k]
      <4>1. c[k] \in DOMAIN heap /\ Append(c, n)[k] = c[k] /\ Append(s, v)[k] = s[k]
        BY <2>1, <2>2, <2>5
      <4> QED BY <1>7, <2>4, <4>1
    <3>2. element'[Append(c, n)[Len(c) + 1]] = Append(s, v)[Len(c) + 1]
      BY <1>7, <2>2, <2>5
    <3> QED BY <2>6, <3>1, <3>2
  <2>8. Append(s, v) = [k \in 1 .. Len(c) + 1 |-> Append(s, v)[k]]
    BY <2>5, LenProperties
  <2> QED BY <2>2, <2>7, <2>8 DEF Content, s
<1> QED BY <1>6, <1>7, <1>8

LEMMA FrontPushed ==
  ASSUME Elements, NEW c, Path(c, heap, first, last),
         NEW n \in Nodes, NEW v \in Values, PushFront(n, v)
  PROVE  /\ Elements' /\ Path(<<n>> \o c, heap', first', last')
         /\ Content(<<n>> \o c, element') = <<v>> \o Content(c, element)
<1> DEFINE linked == Set(heap, n, [previous |-> Null, next |-> first])
<1>1. /\ CreateNewNode(n, v) /\ UNCHANGED <<held, out>>
      /\ heap' = IF first = Null THEN linked ELSE [linked EXCEPT ![first].previous = n]
      /\ first' = n /\ last' = IF first = Null THEN n ELSE last
  BY DEF PushFront
<1>2. Null \notin DOMAIN heap /\ n \notin DOMAIN heap /\ n # Null
  BY <1>1, NullAssumption DEF Elements, CreateNewNode
<1>3. /\ DOMAIN linked = DOMAIN heap \cup {n}
      /\ linked[n] = [previous |-> Null, next |-> first]
      /\ \A m \in DOMAIN heap : linked[m] = heap[m]
  BY <1>2 DEF Set
<1>4. first # Null => first \in DOMAIN heap
  BY <1>2, OnPath, PathLength
<1> HIDE DEF linked
<1>5. /\ DOMAIN heap' = DOMAIN heap \cup {n}
      /\ heap'[n] = [previous |-> Null, next |-> first]
      /\ first # Null => heap'[first] = [heap[first] EXCEPT !.previous = n]
      /\ \A m \in DOMAIN heap : m # first => heap'[m] = heap[m]
  BY <1>1, <1>2, <1>3, <1>4
<1>9. heap' = [m \in DOMAIN heap' |-> heap'[m]]
  BY <1>1 DEF linked, Set
<1>6. Path(<<n>> \o c, heap', first', last')
  <2>1. Path(<<n>> \o c, heap', n, IF first = Null THEN n ELSE last)
    <3>1. LinksFront(heap, first, n, heap')
      BY <1>2, <1>5 DEF LinksFront
    <3> QED BY <3>1, PathGrowsFront
  <2> QED BY <1>1, <2>1, Zenon
<1>7. Elements' /\ element'[n] = v /\ \A m \in DOMAIN heap : element'[m] = element[m]
  BY <1>1, <1>5, <1>9, ElementsGrow
<1>8. Content(<<n>> \o c, element') = <<v>> \o Content(c, element)
  <2>1. /\ Len(c) \in Nat /\ DOMAIN c = 1 .. Len(c) /\ c \in [1 .. Len(c) -> DOMAIN heap]
    BY PathLength
  <2> DEFINE s == Content(c, element)
             d == <<n>> \o c
             t == <<v>> \o s
  <2>2. s = [k \in 1 .. Len(c) |-> element[c[k]]]
    BY <2>1 DEF Content
  <2>3. s \in Seq(Values) /\ Len(s) = Len(c) /\ \A k \in 1 .. Len(c) : s[k] = element[c[k]]
    BY <2>1, <2>2 DEF Elements
  <2> HIDE DEF s
  <2>4. /\ d \in Seq(DOMAIN heap \cup {n}) /\ Len(d) = Len(c) + 1 /\ d[1] = n
        /\ \A k \in 2 .. Len(c) + 1 : d[k] = c[k - 1]
    <3>1. c \in Seq(DOMAIN heap \cup {n})
      BY <2>1
    <3> QED BY <2>1, <3>1
  <2>5. /\ t \in Seq(Values) /\ Len(t) = Len(c) + 1 /\ t[1] = v
        /\ \A k \in 2 .. Len(c) + 1 : t[k] = s[k - 1]
    BY <2>1, <2>3
  <2> HIDE DEF d, t
  <2>6. DOMAIN d = 1 .. Len(c) + 1 /\ DOMAIN t = 1 .. Len(c) + 1
        /\ t = [k \in 1 .. Len(c) + 1 |-> t[k]]
    BY <2>1, <2>4, <2>5
  <2>7. \A k \in 1 .. Len(c) + 1 : k = 1 \/ (k \in 2 .. Len(c) + 1 /\ k - 1 \in 1 .. Len(c))
    BY <2>1
  <2>8. \A k \in 1 .. Len(c) + 1 : element'[d[k]] = t[k]
    <3>1. element'[d[1]] = t[1]
      BY <1>7, <2>4, <2>5
    <3>2. ASSUME NEW k \in 2 .. Len(c) + 1, k - 1 \in 1 .. Len(c) PROVE element'[d[k]] = t[k]
      <4>1. c[k - 1] \in DOMAIN heap /\ s[k - 1] = element[c[k - 1]]
        BY <2>1, <2>3, <3>2
      <4> QED BY <1>7, <2>4, <2>5, <4>1
    <3> QED BY <2>7, <3>1, <3>2
  <2>9. Content(d, element') = t
    BY <2>6, <2>8 DEF Content
  <2> QED BY <2>9 DEF d, t, s
<1> QED BY <1>6, <1>7, <1>8

LEMMA FrontPopped ==
  ASSUME Elements, NEW c, Path(c, heap, first, last), PopFront \/ PopCopyFront
  PROVE  /\ Elements' /\ Path(Tail(c), heap', first', last')
         /\ Content(c, element) # <<>>
         /\ out' = Head(Content(c, element))
         /\ Content(Tail(c), element') = Tail(Content(c, element))
<1> DEFINE next == heap[first].next
           rest == Freed(heap, {first})
<1>1. /\ first # Null /\ first' = next /\ out' = element[first]
      /\ \/ first = last /\ last' = Null /\ heap' = rest
         \/ /\ first # last /\ last' = last
            /\ heap' = [rest EXCEPT ![next].previous = Null]
  BY DEF PopFront, PopCopyFront, PopFrontNode
<1>2. Null \notin DOMAIN heap
  BY NullAssumption DEF Elements
<1>3. /\ DOMAIN rest = DOMAIN heap \ {first}
      /\ \A m \in DOMAIN heap \ {first} : rest[m] = heap[m]
  BY FreedAt
<1>0. /\ Len(c) \in Nat /\ DOMAIN c = 1 .. Len(c) /\ c \in [1 .. Len(c) -> DOMAIN heap]
      /\ Len(c) >= 1 /\ first = c[1] /\ last = c[Len(c)]
  BY <1>1, <1>2, PathLength, OnPath
<1>4. first # last => next \in DOMAIN heap \ {first}
  <2>1. ASSUME first # last PROVE next \in DOMAIN heap \ {first}
    <3>1. Len(c) # 1 /\ 1 \in 1 .. Len(c) /\ 1 + 1 = 2 /\ 2 \in 1 .. Len(c) /\ 2 # 1
      BY <1>0, <2>1
    <3>2. heap[c[1]] = [previous |-> IF 1 = 1 THEN Null ELSE c[1 - 1],
                        next     |-> IF 1 = Len(c) THEN Null ELSE c[1 + 1]]
      BY <1>0, <3>1, Zenon DEF Path
    <3>3. next = c[2]
      BY <1>0, <3>1, <3>2
    <3>4. c[2] # c[1] /\ c[2] \in DOMAIN heap
      BY <1>0, <3>1, Zenon DEF Path
    <3> QED BY <1>0, <3>3, <3>4
  <2> QED BY <2>1
<1> HIDE DEF next, rest
<1>5. /\ DOMAIN heap' = DOMAIN heap \ {first}
      /\ first # last => heap'[next] = [heap[next] EXCEPT !.previous = Null]
      /\ \A m \in DOMAIN heap \ {first} : first = last \/ m # next => heap'[m] = heap[m]
      /\ first' = next /\ last' = IF first = last THEN Null ELSE last
  BY <1>1, <1>3, <1>4
<1>10. heap' = [m \in DOMAIN heap' |-> heap'[m]]
  BY <1>1 DEF rest, Freed
<1>6. Path(Tail(c), heap', first', last') /\ c # <<>> /\ first = c[1]
  <2>1. /\ first # last => heap'[heap[first].next] = [heap[heap[first].next] EXCEPT !.previous = Null]
        /\ \A m \in DOMAIN heap \ {first} : first = last \/ m # heap[first].next => heap'[m] = heap[m]
    BY <1>5, Zenon DEF next
  <2>2. /\ Path(Tail(c), heap', heap[first].next, IF first = last THEN Null ELSE last)
        /\ c # <<>> /\ first = c[1]
    <3>1. LinksTaken(heap, first, last, heap')
      BY <1>1, <1>2, <1>5, <2>1 DEF LinksTaken
    <3> QED BY <3>1, PathShrinks
  <2> QED BY <1>5, <2>2, Zenon DEF next
<1>7. /\ \/ element' = element /\ held' = held \cup {first}
         \/ element' = Freed(element, {first}) /\ held' = held
      /\ out' \in Values
  <2>1. first \in DOMAIN element
    BY <1>0 DEF Elements
  <2> QED BY <1>1, <2>1 DEF PopFront, PopCopyFront, Elements
<1>8. /\ \A m \in DOMAIN heap \ {first} : element'[m] = element[m]
      /\ Elements'
  <2>0. first \in DOMAIN heap
    BY <1>0
  <2>1. CASE element' = element /\ held' = held \cup {first}
    BY <1>5, <1>7, <1>10, <2>0, <2>1 DEF Elements
  <2>2. CASE element' = Freed(element, {first}) /\ held' = held
    <3>1. /\ DOMAIN element' = DOMAIN element \ {first}
          /\ \A m \in DOMAIN element \ {first} : element'[m] = element[m]
      BY <2>2, FreedAt
    <3>2. element' \in [DOMAIN element' -> Values]
      BY <2>2 DEF Elements, Freed
    <3>3. first \notin held /\ first \in DOMAIN element
      BY <2>0 DEF Elements
    <3>4. DOMAIN heap' \subseteq Nodes /\ DOMAIN element' \subseteq Nodes
      BY <1>5, <3>1 DEF Elements
    <3>5. held' \cap DOMAIN heap' = {}
      BY <1>5, <2>2 DEF Elements
    <3>6. DOMAIN element' = DOMAIN heap' \cup held'
      BY <1>5, <2>2, <3>1, <3>3 DEF Elements
    <3>7. out' \in Values \cup {None}
      BY <1>7
    <3>8. Elements'
      BY <1>10, <3>2, <3>4, <3>5, <3>6, <3>7 DEF Elements
    <3>9. DOMAIN heap \subseteq DOMAIN element
      BY DEF Elements
    <3> QED BY <3>1, <3>8, <3>9
  <2> QED BY <1>7, <2>1, <2>2
<1>9. /\ Content(c, element) # <<>> /\ element[first] = Head(Content(c, element))
      /\ Content(Tail(c), element') = Tail(Content(c, element))
  <2> DEFINE s == Content(c, element)
             d == Tail(c)
  <2>1. s = [k \in 1 .. Len(c) |-> element[c[k]]]
    BY <1>0 DEF Content
  <2>2. s \in Seq(Values) /\ Len(s) = Len(c) /\ \A k \in 1 .. Len(c) : s[k] = element[c[k]]
    BY <1>0, <2>1 DEF Elements
  <2> HIDE DEF s
  <2>3. s # <<>> /\ DOMAIN s = 1 .. Len(c)
    BY <1>0, <2>2
  <2>4. /\ Head(s) = s[1] /\ Tail(s) \in Seq(Values) /\ Len(Tail(s)) = Len(c) - 1
        /\ DOMAIN Tail(s) = 1 .. Len(c) - 1
        /\ \A k \in 1 .. Len(c) - 1 : Tail(s)[k] = s[k + 1]
    BY <1>0, <2>2, <2>3, HeadTailProperties, LenProperties
  <2>5. c \in Seq(DOMAIN heap)
    BY DEF Path
  <2>6. /\ DOMAIN d = 1 .. Len(c) - 1
        /\ \A k \in 1 .. Len(c) - 1 : d[k] = c[k + 1]
    BY <1>0, <1>6, <2>5, HeadTailProperties, LenProperties
  <2> HIDE DEF d
  <2>7. \A k \in 1 .. Len(c) - 1 : k + 1 \in 1 .. Len(c) /\ k + 1 # 1 /\ 1 \in 1 .. Len(c)
    BY <1>0
  <2>8. \A k \in 1 .. Len(c) - 1 : c[k + 1] \in DOMAIN heap \ {first}
    <3>1. \A j \in 1 .. Len(c) : j # 1 => c[j] # c[1]
      BY <1>0 DEF Path
    <3> QED BY <1>0, <2>7, <3>1
  <2>9. ASSUME NEW k \in 1 .. Len(c) - 1 PROVE element'[d[k]] = Tail(s)[k]
    <3>1. d[k] = c[k + 1] /\ Tail(s)[k] = s[k + 1] /\ k + 1 \in 1 .. Len(c)
      BY <2>4, <2>6, <2>7
    <3>2. s[k + 1] = element[c[k + 1]] /\ element'[c[k + 1]] = element[c[k + 1]]
      BY <1>8, <2>2, <2>8, <3>1
    <3> QED BY <3>1, <3>2
  <2>10. Tail(s) = [k \in 1 .. Len(c) - 1 |-> Tail(s)[k]]
    BY <2>4, LenProperties
  <2>11. Content(d, element') = Tail(s)
    BY <2>6, <2>9, <2>10 DEF Content
  <2>12. 1 \in 1 .. Len(c) /\ s[1] = element[first]
    BY <1>0, <2>2
  <2> QED BY <2>3, <2>4, <2>11, <2>12 DEF d, s
<1> QED BY <1>1, <1>6, <1>8, <1>9

LEMMA ElementFreed ==
  ASSUME Elements, NEW c, Path(c, heap, first, last), NEW n, FreeElement(n)
  PROVE  /\ Elements' /\ Path(c, heap', first', last')
         /\ Content(c, element') = Content(c, element) /\ UNCHANGED out
<1>1. /\ n \in held /\ held' = held \ {n} /\ element' = Freed(element, {n})
      /\ UNCHANGED <<first, last, heap, out>>
  BY DEF FreeElement
<1>2. n \in DOMAIN element /\ n \notin DOMAIN heap
  BY <1>1 DEF Elements
<1>3. /\ DOMAIN element' = DOMAIN element \ {n}
      /\ \A m \in DOMAIN element \ {n} : element'[m] = element[m]
  BY <1>1, FreedAt
<1>4. element' \in [DOMAIN element' -> Values]
  BY <1>1 DEF Elements, Freed
<1>5. Elements'
  BY <1>1, <1>2, <1>3, <1>4 DEF Elements
<1>6. \A k \in DOMAIN c : c[k] \in DOMAIN heap
  BY PathLength
<1>7. \A k \in DOMAIN c : element'[c[k]] = element[c[k]]
  BY <1>2, <1>3, <1>6 DEF Elements
<1> QED BY <1>1, <1>5, <1>7 DEF Content

(* The walk meets every node: nothing is left when the list is cleared.     *)
LEMMA AllMet ==
  ASSUME NEW c, Path(c, heap, first, last)
  PROVE  Met = DOMAIN heap
<1>1. Chain = c
  BY OneChain
<1>2. \A k \in DOMAIN c : c[k] \in DOMAIN heap
  BY PathLength
<1>3. \A n \in DOMAIN heap : \E k \in DOMAIN c : c[k] = n
  BY DEF Path
<1>4. Met = {c[k] : k \in DOMAIN c}
  BY <1>1 DEF Met
<1> QED BY <1>2, <1>3, <1>4

(* Links that know no node have the empty path.                             *)
LEMMA EmptyPath ==
  ASSUME NEW links, DOMAIN links = {}
  PROVE  Path(<<>>, links, Null, Null)
BY EmptySeq DEF Path

LEMMA Cleared ==
  ASSUME Elements, NEW c, Path(c, heap, first, last), QueueClear
  PROVE  /\ Elements' /\ Path(<<>>, heap', first', last') /\ UNCHANGED out
<1>1. /\ first' = Null /\ last' = Null /\ UNCHANGED <<held, out>>
      /\ heap' = Freed(heap, DOMAIN heap) /\ element' = Freed(element, DOMAIN heap)
  BY AllMet DEF QueueClear
<1>2. DOMAIN heap' = {} /\ heap' = [m \in DOMAIN heap' |-> heap'[m]]
  BY <1>1 DEF Freed
<1>3. /\ DOMAIN element' = DOMAIN element \ DOMAIN heap
      /\ element' \in [DOMAIN element' -> Values]
  BY <1>1 DEF Elements, Freed
<1>4. Elements'
  BY <1>1, <1>2, <1>3 DEF Elements
<1>5. Path(<<>>, heap', Null, Null)
  BY <1>2, EmptyPath
<1> QED BY <1>1, <1>4, <1>5

-----------------------------------------------------------------------------
LEMMA ListInit == Init => ListInv /\ AsDeque!Init
<1> SUFFICES ASSUME Init PROVE ListInv /\ AsDeque!Init
  OBVIOUS
<1>1. Path(<<>>, heap, first, last)
  BY EmptyPath DEF Init
<1>2. Elements
  BY DEF Init, Elements
<1>3. Chain = <<>>
  BY <1>1, OneChain
<1>4. [k \in DOMAIN Chain |-> element[Chain[k]]] = <<>>
  BY <1>3
<1> QED BY <1>1, <1>2, <1>4 DEF ListInv, AsDeque!Init, Init

(* Each action keeps the invariant and does what Deque says.                *)
LEMMA ListStep ==
  ListInv /\ [Next]_vars => ListInv' /\ [AsDeque!Next]_(AsDeque!dequeVars)
<1> SUFFICES ASSUME ListInv, [Next]_vars
             PROVE  ListInv' /\ [AsDeque!Next]_(AsDeque!dequeVars)
  OBVIOUS
<1> DEFINE items == [k \in DOMAIN Chain |-> element[Chain[k]]]
<1>1. PICK c : Path(c, heap, first, last)
  BY DEF ListInv
<1>2. Elements
  BY DEF ListInv
<1>3. items = Content(c, element)
  BY <1>1, OneChain DEF Content
<1>4. ASSUME NEW d, Path(d, heap', first', last')
      PROVE  items' = Content(d, element')
  BY <1>4, OneChain DEF Content
<1> HIDE DEF items
<1>5. ASSUME NEW n \in Nodes, NEW v \in Values, PushBack(n, v)
      PROVE  ListInv' /\ [AsDeque!Next]_(AsDeque!dequeVars)
  <2>1. /\ Elements' /\ Path(Append(c, n), heap', first', last')
        /\ Content(Append(c, n), element') = Append(Content(c, element), v)
    BY <1>1, <1>2, <1>5, BackPushed
  <2>2. items' = Append(items, v) /\ UNCHANGED out
    BY <1>3, <1>4, <1>5, <2>1 DEF PushBack
  <2> QED BY <2>1, <2>2 DEF ListInv, AsDeque!Next, AsDeque!PushBack, items
<1>6. ASSUME NEW n \in Nodes, NEW v \in Values, PushFront(n, v)
      PROVE  ListInv' /\ [AsDeque!Next]_(AsDeque!dequeVars)
  <2>1. /\ Elements' /\ Path(<<n>> \o c, heap', first', last')
        /\ Content(<<n>> \o c, element') = <<v>> \o Content(c, element)
    BY <1>1, <1>2, <1>6, FrontPushed
  <2>2. items' = <<v>> \o items /\ UNCHANGED out
    BY <1>3, <1>4, <1>6, <2>1 DEF PushFront
  <2> QED BY <2>1, <2>2 DEF ListInv, AsDeque!Next, AsDeque!PushFront, items
<1>7. CASE PopFront \/ PopCopyFront
  <2>1. /\ Elements' /\ Path(Tail(c), heap', first', last')
        /\ Content(c, element) # <<>>
        /\ out' = Head(Content(c, element))
        /\ Content(Tail(c), element') = Tail(Content(c, element))
    BY <1>1, <1>2, <1>7, FrontPopped
  <2>2. items # <<>> /\ out' = Head(items) /\ items' = Tail(items)
    BY <1>3, <1>4, <2>1
  <2> QED BY <2>1, <2>2 DEF ListInv, AsDeque!Next, AsDeque!Pop, items
<1>8. CASE QueueClear
  <2>1. Elements' /\ Path(<<>>, heap', first', last') /\ UNCHANGED out
    BY <1>1, <1>2, <1>8, Cleared
  <2>2. items' = <<>>
    BY <1>4, <2>1 DEF Content
  <2> QED BY <2>1, <2>2 DEF ListInv, AsDeque!Next, AsDeque!Clear, items
<1>9. ASSUME NEW n \in Nodes, FreeElement(n)
      PROVE  ListInv' /\ [AsDeque!Next]_(AsDeque!dequeVars)
  <2>1. /\ Elements' /\ Path(c, heap', first', last')
        /\ Content(c, element') = Content(c, element) /\ UNCHANGED out
    BY <1>1, <1>2, <1>9, ElementFreed
  <2>2. items' = items
    BY <1>3, <1>4, <2>1
  <2> QED BY <2>1, <2>2 DEF ListInv, AsDeque!dequeVars, items
<1>10. CASE UNCHANGED vars
  <2>1. Elements' /\ Path(c, heap', first', last')
    BY <1>1, <1>2, <1>10 DEF vars, Elements
  <2>2. items' = items /\ UNCHANGED out
    BY <1>3, <1>4, <1>10, <2>1 DEF vars
  <2> QED BY <2>1, <2>2 DEF ListInv, AsDeque!dequeVars, items
<1> QED BY <1>5, <1>6, <1>7, <1>8, <1>9, <1>10 DEF Next

(* At every moment the nodes in use are one path from first to last.        *)
THEOREM Invariance == Spec => []ListInv
<1> QED BY ListInit, ListStep, PTL DEF Spec

(* No pointer dangles, previous and next agree and only the ends lack one,  *)
(* whatever is pushed at either end, popped, freed or cleared               *)
(* (server_queue.c).                                                        *)
THEOREM StaysWellLinked == Spec => []WellLinked
<1>1. ListInv => WellLinked
  <2> SUFFICES ASSUME ListInv PROVE WellLinked
    OBVIOUS
  <2>1. PICK c : Path(c, heap, first, last)
    BY DEF ListInv
  <2>2. Null \notin DOMAIN heap
    BY NullAssumption DEF ListInv, Elements
  <2> DEFINE N == Len(c)
  <2>3. N \in Nat /\ DOMAIN c = 1 .. N /\ \A k \in 1 .. N : c[k] \in DOMAIN heap
    BY <2>1, PathLength
  <2>4. /\ N = 0 <=> first = Null
        /\ N = 0 <=> last = Null
        /\ N # 0 => N >= 1 /\ first = c[1] /\ last = c[N]
        /\ \A m \in DOMAIN heap : \E k \in 1 .. N : c[k] = m
        /\ \A j, k \in 1 .. N : c[j] = c[k] => j = k
    BY <2>1, <2>2, OnPath
  <2>5. \A k \in 1 .. N :
          heap[c[k]] = [previous |-> IF k = 1 THEN Null ELSE c[k - 1],
                        next     |-> IF k = N THEN Null ELSE c[k + 1]]
    BY <2>1, <2>2, OnPath
  <2>6. \A k \in 1 .. N : (c[k] = first <=> k = 1) /\ (c[k] = last <=> k = N)
    BY <2>1, <2>2, OnPath
  <2> HIDE DEF N
  <2>7. \A k \in 1 .. N :
          /\ heap[c[k]] \in [previous : DOMAIN heap \cup {Null}, next : DOMAIN heap \cup {Null}]
          /\ heap[c[k]].next = (IF k = N THEN Null ELSE c[k + 1])
          /\ heap[c[k]].previous = (IF k = 1 THEN Null ELSE c[k - 1])
          /\ k # N => k + 1 \in 1 .. N /\ k + 1 # 1 /\ k + 1 - 1 = k /\ c[k + 1] \in DOMAIN heap
          /\ k # 1 => k - 1 \in 1 .. N /\ k - 1 # N /\ k - 1 + 1 = k /\ c[k - 1] \in DOMAIN heap
    <3> SUFFICES ASSUME NEW k \in 1 .. N
                 PROVE
          /\ heap[c[k]] \in [previous : DOMAIN heap \cup {Null}, next : DOMAIN heap \cup {Null}]
          /\ heap[c[k]].next = (IF k = N THEN Null ELSE c[k + 1])
          /\ heap[c[k]].previous = (IF k = 1 THEN Null ELSE c[k - 1])
          /\ k # N => k + 1 \in 1 .. N /\ k + 1 # 1 /\ k + 1 - 1 = k /\ c[k + 1] \in DOMAIN heap
          /\ k # 1 => k - 1 \in 1 .. N /\ k - 1 # N /\ k - 1 + 1 = k /\ c[k - 1] \in DOMAIN heap
      OBVIOUS
    <3>1. /\ k # N => k + 1 \in 1 .. N /\ k + 1 # 1 /\ k + 1 - 1 = k
          /\ k # 1 => k - 1 \in 1 .. N /\ k - 1 # N /\ k - 1 + 1 = k
      BY <2>3
    <3>2. (k # N => c[k + 1] \in DOMAIN heap) /\ (k # 1 => c[k - 1] \in DOMAIN heap)
      BY <2>3, <3>1
    <3>3. heap[c[k]] = [previous |-> IF k = 1 THEN Null ELSE c[k - 1],
                        next     |-> IF k = N THEN Null ELSE c[k + 1]]
      BY <2>5
    <3> QED BY <3>1, <3>2, <3>3
  <2>8. TypeOK
    <3>1. \A n \in DOMAIN heap :
            heap[n] \in [previous : DOMAIN heap \cup {Null}, next : DOMAIN heap \cup {Null}]
      BY <2>4, <2>7
    <3>3. heap \in [DOMAIN heap -> [previous : DOMAIN heap \cup {Null},
                                    next     : DOMAIN heap \cup {Null}]]
      BY <3>1 DEF ListInv, Elements
    <3>4. {first, last} \subseteq DOMAIN heap \cup {Null} /\ (first = Null <=> last = Null)
      BY <2>3, <2>4
    <3> QED BY <3>3, <3>4 DEF TypeOK, ListInv, Elements
  <2>9. ASSUME NEW n \in DOMAIN heap
        PROVE  /\ heap[n].next = Null <=> n = last
               /\ heap[n].previous = Null <=> n = first
               /\ \A m \in DOMAIN heap : heap[n].next = m <=> heap[m].previous = n
    <3>1. PICK k \in 1 .. N : c[k] = n
      BY <2>4
    <3>2. heap[n].next = Null <=> n = last
      BY <2>2, <2>6, <2>7, <3>1
    <3>3. heap[n].previous = Null <=> n = first
      BY <2>2, <2>6, <2>7, <3>1
    <3>4. ASSUME NEW m \in DOMAIN heap
          PROVE  heap[n].next = m <=> heap[m].previous = n
      <4>1. PICK j \in 1 .. N : c[j] = m
        BY <2>4
      <4>2. heap[n].next = m <=> k # N /\ k + 1 = j
        BY <2>2, <2>4, <2>7, <3>1, <4>1
      <4>3. heap[m].previous = n <=> j # 1 /\ j - 1 = k
        BY <2>2, <2>4, <2>7, <3>1, <4>1
      <4>4. (k # N /\ k + 1 = j) <=> (j # 1 /\ j - 1 = k)
        BY <2>3
      <4> QED BY <4>2, <4>3, <4>4
    <3> QED BY <3>2, <3>3, <3>4
  <2> QED BY <2>8, <2>9 DEF WellLinked
<1> QED BY <1>1, Invariance, PTL

(* Every node in use is reached from first and every element belongs to     *)
(* one or to a caller (queueSyncPopFront, queueSyncPopCopyFront,            *)
(* queueClear).                                                             *)
THEOREM NoLeak == Spec => []NothingLeaks
<1>1. ListInv => NothingLeaks
  BY AllMet DEF ListInv, Elements, NothingLeaks
<1> QED BY <1>1, Invariance, PTL

(* Every behaviour of the linked list is one of the abstract queue          *)
(* (server_queue.h).                                                        *)
THEOREM DequeImplemented == Spec => DequeSpec
<1>1. Init => AsDeque!Init
  BY ListInit
<1>2. ListInv /\ [Next]_vars => [AsDeque!Next]_(AsDeque!dequeVars)
  BY ListStep
<1> QED BY <1>1, <1>2, Invariance, PTL DEF Spec, DequeSpec, AsDeque!Spec
=============================================================================
