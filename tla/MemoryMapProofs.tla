-------------------------- MODULE MemoryMapProofs --------------------------
(***************************************************************************)
(* The properties of MemoryMap, for every set of disjoint ranges, every    *)
(* order in which they are mapped and every length of mappings[].  A tree  *)
(* is known by the set of nodes below each of its nodes: the sets make the *)
(* subtrees disjoint and sorted, and a rotation changes two of them.  With *)
(* them go the links to the parents, the way down that the new range       *)
(* takes, and one number for each node, its count of black nodes.  While   *)
(* fixup runs, the tree is a red-black tree but for one node.              *)
(***************************************************************************)
EXTENDS MemoryMap, TLAPS, FiniteSetTheorems, WellFoundedInduction

\* The types of struct memory_map.
Map == [kid : [Side -> [Node -> Int]], parent : [Node -> Int],
        red : [Node -> BOOLEAN], start : [Node -> Int], end : [Node -> Int],
        root : Int, next : Nat]

\* w is m but for one field of one node.
WithKid(w, m, s, n, x) ==
  /\ w \in Map
  /\ \A t \in Side, k \in Node :
       w.kid[t][k] = IF t = s /\ k = n THEN x ELSE m.kid[t][k]
  /\ w.parent = m.parent /\ w.red = m.red /\ w.start = m.start
  /\ w.end = m.end /\ w.root = m.root /\ w.next = m.next

WithParent(w, m, n, x) ==
  /\ w \in Map
  /\ \A k \in Node : w.parent[k] = IF k = n THEN x ELSE m.parent[k]
  /\ w.kid = m.kid /\ w.red = m.red /\ w.start = m.start
  /\ w.end = m.end /\ w.root = m.root /\ w.next = m.next

WithRed(w, m, n, x) ==
  /\ w \in Map
  /\ \A k \in Node : w.red[k] = IF k = n THEN x ELSE m.red[k]
  /\ w.kid = m.kid /\ w.parent = m.parent /\ w.start = m.start
  /\ w.end = m.end /\ w.root = m.root /\ w.next = m.next

\* What the assignments to one field leave.
LEMMA Assignments ==
  ASSUME NEW m \in Map, NEW n \in Node
  PROVE  /\ \A s \in Side, x \in Int : WithKid(SetKid(m, s, n, x), m, s, n, x)
         /\ \A x \in Int : WithParent(SetParent(m, n, x), m, n, x)
         /\ \A x \in BOOLEAN : WithRed(Paint(m, n, x), m, n, x)
<1>1. ASSUME NEW s \in Side, NEW x \in Int
      PROVE  WithKid(SetKid(m, s, n, x), m, s, n, x)
  BY DEF Map, SetKid, WithKid
<1>2. ASSUME NEW x \in Int
      PROVE  WithParent(SetParent(m, n, x), m, n, x)
  BY DEF Map, SetParent, WithParent
<1>3. ASSUME NEW x \in BOOLEAN
      PROVE  WithRed(Paint(m, n, x), m, n, x)
  BY DEF Map, Paint, WithRed
<1>4. QED
  BY <1>1, <1>2, <1>3

\* Left and right.
LEMMA Sides ==
  \A s \in Side : /\ Other(s) \in Side /\ Other(s) # s /\ Other(Other(s)) = s
                  /\ \A t \in Side : t = s \/ t = Other(s)
  BY DEF Side, Other

\* What the rotation at n, whose other child is y, leaves.
Rotated(w, m, n, s, y, b, p) ==
  /\ w \in Map
  /\ \A t \in Side, k \in Node :
       w.kid[t][k] = IF k = y /\ t = s THEN n
                     ELSE IF k = n /\ t = Other(s) THEN b
                     ELSE IF p # nil /\ k = p /\ m.kid[t][p] = n THEN y
                     ELSE m.kid[t][k]
  /\ \A k \in Node :
       w.parent[k] = IF k = n THEN y ELSE IF k = y THEN p
                     ELSE IF k = b /\ b # nil THEN n ELSE m.parent[k]
  /\ w.root = IF p = nil THEN y ELSE m.root
  /\ w.red = m.red /\ w.start = m.start /\ w.end = m.end /\ w.next = m.next

\* Rotate, field by field.
LEMMA RotateFields ==
  ASSUME NEW m \in Map, NEW n \in Node, NEW s \in Side, NEW y \in Node,
         NEW b \in Node, NEW p \in Node, nil \in Node,
         y = m.kid[Other(s)][n], b = m.kid[s][y], p = m.parent[n],
         n # y, p # n, p # y, b # y, b # n, n # nil, y # nil,
         p # nil => \E t \in Side : m.kid[t][p] = n /\ m.kid[Other(t)][p] # n
  PROVE  Rotated(Rotate(m, n, s), m, n, s, y, b, p)
<1> DEFINE o == Other(s)
           a == SetKid(m, o, n, b)
           moved == IF b # nil THEN SetParent(a, b, n) ELSE a
           up == SetParent(moved, y, p)
           d == IF n = m.kid["left"][p] THEN "left" ELSE "right"
           c == IF p = nil THEN [up EXCEPT !.root = y] ELSE SetKid(up, d, p, y)
           e == SetKid(c, s, y, n)
           w == SetParent(e, n, y)
<1>0. o \in Side /\ o # s /\ d \in Side /\ n \in Int /\ y \in Int /\ b \in Int
      /\ p \in Int
  BY Sides DEF Side, Node
<1>1. WithKid(a, m, o, n, b)
  BY <1>0, Assignments
<1>2. IF b # nil THEN WithParent(moved, a, b, n) ELSE moved = a
  <2>1. a \in Map
    BY <1>1 DEF WithKid
  <2> HIDE DEF a
  <2> QED BY <1>0, <2>1, Assignments
<1>a. moved \in Map
  BY <1>1, <1>2 DEF WithKid, WithParent
<1>3. WithParent(up, moved, y, p)
  <2> HIDE DEF moved
  <2> QED BY <1>0, <1>a, Assignments
<1>4. IF p = nil THEN c = [up EXCEPT !.root = y] ELSE WithKid(c, up, d, p, y)
  <2>1. up \in Map
    BY <1>3 DEF WithParent
  <2> HIDE DEF up, d
  <2> QED BY <1>0, <2>1, Assignments
<1>b. /\ c \in Map /\ c.parent = up.parent
      /\ \A t \in Side, k \in Node :
           c.kid[t][k] = IF p # nil /\ k = p /\ t = d THEN y ELSE up.kid[t][k]
      /\ c.red = up.red /\ c.start = up.start
      /\ c.end = up.end /\ c.next = up.next
      /\ c.root = IF p = nil THEN y ELSE up.root
  <2> HIDE DEF up, d, c
  <2>1. CASE p = nil
    <3>1. c = [up EXCEPT !.root = y] /\ up \in Map
      BY <1>3, <1>4, <2>1 DEF WithParent
    <3>2. QED
      BY <1>0, <2>1, <3>1 DEF Map
  <2>2. CASE p # nil
    BY <1>4, <2>2 DEF WithKid
  <2>3. QED
    BY <2>1, <2>2
<1>5. WithKid(e, c, s, y, n)
  <2> HIDE DEF c
  <2> QED BY <1>0, <1>b, Assignments
<1>6. WithParent(w, e, n, y)
  <2>1. e \in Map
    BY <1>5 DEF WithKid
  <2> HIDE DEF e
  <2> QED BY <1>0, <2>1, Assignments
<1>7. /\ moved.parent[n] = p
      /\ moved.kid["left"][p] = m.kid["left"][p]
  <2> HIDE DEF a, moved, o
  <2> QED BY <1>0, <1>1, <1>2 DEF Side, WithKid, WithParent
<1>8. Replace(moved, n, y) = c
  <2> HIDE DEF a, moved, o
  <2> QED BY <1>7 DEF Replace
<1>9. Rotate(m, n, s) = w
  BY <1>8 DEF Rotate
<1>10. \A t \in Side : p # nil => (t = d <=> m.kid[t][p] = n)
  BY Sides DEF Side, Other
<1> HIDE DEF o, a, moved, up, d, c, e, w
<1>11. \A t \in Side, k \in Node :
         w.kid[t][k] = IF k = y /\ t = s THEN n
                       ELSE IF k = n /\ t = o THEN b
                       ELSE IF p # nil /\ k = p /\ m.kid[t][p] = n THEN y
                       ELSE m.kid[t][k]
  <2>1. \A t \in Side, k \in Node : up.kid[t][k] = a.kid[t][k]
    BY <1>2, <1>3 DEF WithParent
  <2>2. \A t \in Side, k \in Node : w.kid[t][k] = e.kid[t][k]
    BY <1>6 DEF WithParent
  <2>3. \A t \in Side, k \in Node :
          e.kid[t][k] = IF t = s /\ k = y THEN n ELSE c.kid[t][k]
    BY <1>5 DEF WithKid
  <2>4. \A t \in Side, k \in Node :
          a.kid[t][k] = IF t = o /\ k = n THEN b ELSE m.kid[t][k]
    BY <1>1 DEF WithKid
  <2>5. QED
    BY <1>0, <1>b, <1>10, <2>1, <2>2, <2>3, <2>4
<1>12. \A k \in Node :
         w.parent[k] = IF k = n THEN y ELSE IF k = y THEN p
                       ELSE IF k = b /\ b # nil THEN n ELSE m.parent[k]
  <2>1. \A k \in Node : w.parent[k] = IF k = n THEN y ELSE e.parent[k]
    BY <1>6 DEF WithParent
  <2>2. e.parent = up.parent
    BY <1>5, <1>b DEF WithKid
  <2>3. \A k \in Node : up.parent[k] = IF k = y THEN p ELSE moved.parent[k]
    BY <1>3 DEF WithParent
  <2>4. \A k \in Node :
          moved.parent[k] = IF k = b /\ b # nil THEN n ELSE m.parent[k]
    BY <1>1, <1>2 DEF WithKid, WithParent
  <2>5. QED
    BY <2>1, <2>2, <2>3, <2>4
<1>13. w \in Map /\ w.root = IF p = nil THEN y ELSE m.root
  BY <1>1, <1>2, <1>3, <1>b, <1>5, <1>6 DEF WithKid, WithParent
<1>14. w.red = m.red /\ w.start = m.start /\ w.end = m.end /\ w.next = m.next
  BY <1>1, <1>2, <1>3, <1>b, <1>5, <1>6 DEF WithKid, WithParent
<1>15. QED
  BY <1>9, <1>11, <1>12, <1>13, <1>14 DEF Rotated, o

-----------------------------------------------------------------------------
(* The tree.                                                               *)

\* i is on side s of j.
Before(s, i, j) == IF s = "left" THEN i < j ELSE j < i

\* B[n] is the set of nodes of the subtree at n, sorted by start.
Sorted(m, B, n) ==
  \A s \in Side :
    /\ B[n] = {n} \cup B[m.kid[s][n]] \cup B[m.kid[Other(s)][n]]
    /\ n \notin B[m.kid[s][n]]
    /\ B[m.kid[s][n]] \cap B[m.kid[Other(s)][n]] = {}
    /\ \A c \in B[m.kid[s][n]] : Before(s, m.start[c], m.start[n])

\* Every node is linked once, and its two subtrees are apart.
Shape(m, B) ==
  /\ slots \in Nat /\ m.next \in Nat \ {0} /\ m.next <= slots
  /\ B \in [0 .. m.next - 1 -> SUBSET Used(m)] /\ B[nil] = {}
  /\ m.root \in 0 .. m.next - 1 /\ B[m.root] = Used(m)
  /\ \A n \in Used(m), s \in Side : m.kid[s][n] \in 0 .. m.next - 1
  /\ \A n \in Used(m) : Sorted(m, B, n)

\* The links to the parents, and with them each subtree closed under links.
Linked(m, B) ==
  /\ \A n \in Used(m) :
       IF n = m.root THEN m.parent[n] = nil
       ELSE m.parent[n] \in Used(m) /\ \E s \in Side : m.kid[s][m.parent[n]] = n
  /\ \A n \in Used(m), s \in Side :
       m.kid[s][n] # nil => m.parent[m.kid[s][n]] = n
  /\ \A x \in Used(m) : \A c \in B[x] :
       /\ c # x => m.parent[c] \in B[x]
       /\ \A s \in Side : m.kid[s][c] # nil => m.kid[s][c] \in B[x]

\* The nodes are indices of mappings[], and nil is not one of them.
LEMMA Indices ==
  ASSUME NEW m \in Map, NEW B, Shape(m, B)
  PROVE  /\ Used(m) \subseteq Node /\ nil \in Node /\ 0 .. m.next - 1 \subseteq Node
         /\ 0 .. m.next - 1 = Used(m) \cup {nil} /\ nil \notin Used(m)
         /\ \A n \in Used(m) : n \in B[n] /\ B[n] \subseteq Used(m)
         /\ \A n \in Used(m) : m.start[n] \in Int
<1>1. /\ Used(m) \subseteq Node /\ nil \in Node /\ 0 .. m.next - 1 \subseteq Node
      /\ 0 .. m.next - 1 = Used(m) \cup {nil} /\ nil \notin Used(m)
  BY DEF Shape, Used, Node, nil
<1>2. \A n \in Used(m) : n \in B[n] /\ B[n] \subseteq Used(m)
  BY <1>1 DEF Shape, Sorted, Side
<1>3. \A n \in Used(m) : m.start[n] \in Int
  BY <1>1 DEF Map
<1>4. QED
  BY <1>1, <1>2, <1>3

\* A child, the parent and the node itself are different nodes.
LEMMA Neighbours ==
  ASSUME NEW m \in Map, NEW B, Shape(m, B), Linked(m, B),
         NEW n \in Used(m), NEW s \in Side, m.kid[s][n] # nil
  PROVE  /\ m.kid[s][n] \in Used(m) /\ m.kid[s][n] \in B[m.kid[s][n]]
         /\ m.kid[s][n] # n /\ m.kid[s][n] # m.kid[Other(s)][n]
         /\ m.parent[m.kid[s][n]] = n /\ m.kid[s][n] # m.root
         /\ m.parent[n] # m.kid[s][n]
<1> DEFINE y == m.kid[s][n]
<1>1. y \in Used(m) /\ y \in B[y] /\ n \in B[n]
  BY Indices DEF Shape
<1>2. n \notin B[y] /\ B[y] \subseteq B[n]
  BY DEF Shape, Sorted
<1>3. y # n
  BY <1>1, <1>2
<1>4. y # m.kid[Other(s)][n]
  BY <1>1 DEF Shape, Sorted
<1>5. m.parent[y] = n
  BY DEF Linked
<1>6. y # m.root
  BY <1>1, <1>5, Indices DEF Linked
<1>7. m.parent[n] # y
  <2> SUFFICES ASSUME m.parent[n] = y PROVE FALSE
    OBVIOUS
  <2>1. PICK t \in Side : m.kid[t][y] = n
    BY <1>1, Indices DEF Linked
  <2>2. B[n] \subseteq B[y]
    BY <1>1, <2>1 DEF Shape, Sorted
  <2>3. QED
    BY <1>1, <1>2, <2>2
<1>8. QED
  BY <1>1, <1>3, <1>4, <1>5, <1>6, <1>7

\* The sets after a rotation: y takes over n's, n keeps what is left.
Turn2(m, B, n, s) ==
  LET y == m.kid[Other(s)][n]
  IN [B EXCEPT ![y] = B[n],
               ![n] = {n} \cup B[m.kid[s][n]] \cup B[m.kid[s][y]]]

\* A rotation keeps the tree a sorted one: only the sets of n and y change.
LEMMA RotateTree ==
  ASSUME NEW m \in Map, NEW B, Shape(m, B), Linked(m, B),
         NEW n \in Used(m), NEW s \in Side, m.kid[Other(s)][n] # nil
  PROVE  LET y == m.kid[Other(s)][n]
             b == m.kid[s][y]
             w == Rotate(m, n, s)
         IN /\ Rotated(w, m, n, s, y, b, m.parent[n])
            /\ Shape(w, Turn2(m, B, n, s))
            /\ Linked(w, Turn2(m, B, n, s))
<1> DEFINE o == Other(s)
           y == m.kid[o][n]
           a == m.kid[s][n]
           b == m.kid[s][y]
           c == m.kid[o][y]
           p == m.parent[n]
           w == Rotate(m, n, s)
           C == Turn2(m, B, n, s)
<1>1. o \in Side /\ o # s /\ Other(o) = s /\ \A t \in Side : t = s \/ t = o
  BY Sides
<1> HIDE DEF o
<1>2. /\ Used(m) \subseteq Node /\ nil \in Node /\ 0 .. m.next - 1 \subseteq Node
      /\ 0 .. m.next - 1 = Used(m) \cup {nil} /\ nil \notin Used(m)
      /\ \A k \in Used(m) : k \in B[k] /\ B[k] \subseteq Used(m)
      /\ \A k \in Used(m) : m.start[k] \in Int
  BY Indices
<1>3. /\ y \in Used(m) /\ y # n /\ y # a /\ m.parent[y] = n /\ y # m.root /\ p # y
  BY <1>1, Neighbours DEF o
<1>4. b # nil => b \in Used(m) /\ b # y /\ m.parent[b] = y /\ b # c /\ b # m.root
  BY <1>1, <1>3, Neighbours DEF o
<1>5. b # n
  BY <1>1, <1>2, <1>3, <1>4
<1>6. /\ p \in Used(m) \cup {nil} /\ (p = nil <=> n = m.root) /\ p # n
      /\ p # nil => \E t \in Side : m.kid[t][p] = n /\ m.kid[Other(t)][p] # n
  <2>1. CASE n = m.root
    BY <1>2, <2>1 DEF Linked
  <2>2. CASE n # m.root
    <3>1. p \in Used(m)
      BY <2>2 DEF Linked
    <3>2. PICK t \in Side : m.kid[t][p] = n
      BY <2>2 DEF Linked
    <3>3. m.kid[t][p] # nil
      BY <1>2, <3>2
    <3>4. n # p /\ m.kid[Other(t)][p] # n
      BY <3>1, <3>2, <3>3, Neighbours
    <3>5. QED
      BY <1>2, <2>2, <3>1, <3>2, <3>4
  <2>3. QED
    BY <2>1, <2>2
<1>7. Rotated(w, m, n, s, y, b, p)
  <2>1. b \in Node /\ p \in Node /\ n # nil /\ y # nil /\ y = m.kid[Other(s)][n]
    BY <1>2, <1>3, <1>4, <1>6 DEF o
  <2>2. n \in Node /\ y \in Node
    BY <1>2, <1>3
  <2>3. b # y
    BY <1>2, <1>3, <1>4
  <2> HIDE DEF y, b, p, w
  <2>4. Rotated(Rotate(m, n, s), m, n, s, y, b, p)
    BY <1>2, <1>3, <1>5, <1>6, <2>1, <2>2, <2>3, RotateFields DEF b, p
  <2>5. QED
    BY <2>4 DEF w
<1>8. /\ a \in 0 .. m.next - 1 /\ b \in 0 .. m.next - 1 /\ c \in 0 .. m.next - 1
      /\ B \in [0 .. m.next - 1 -> SUBSET Used(m)] /\ B[nil] = {}
  BY <1>1, <1>3 DEF Shape
<1>9. /\ B[n] = {n} \cup B[a] \cup B[y] /\ n \notin B[a] /\ n \notin B[y]
      /\ B[a] \cap B[y] = {}
      /\ \A k \in B[a] : Before(s, m.start[k], m.start[n])
      /\ \A k \in B[y] : Before(o, m.start[k], m.start[n])
  <2>1. Sorted(m, B, n)
    BY DEF Shape
  <2>2. QED
    BY <1>1, <2>1 DEF Sorted
<1>10. /\ B[y] = {y} \cup B[b] \cup B[c] /\ y \notin B[b] /\ y \notin B[c]
       /\ B[b] \cap B[c] = {}
       /\ \A k \in B[b] : Before(s, m.start[k], m.start[y])
       /\ \A k \in B[c] : Before(o, m.start[k], m.start[y])
  <2>1. Sorted(m, B, y)
    BY <1>3 DEF Shape
  <2>2. QED
    BY <1>1, <2>1 DEF Sorted
<1>11. /\ C \in [0 .. m.next - 1 -> SUBSET Used(m)]
       /\ C[y] = B[n] /\ C[n] = {n} \cup B[a] \cup B[b]
       /\ \A k \in 0 .. m.next - 1 : k # n /\ k # y => C[k] = B[k]
  BY <1>2, <1>3, <1>8, <1>9, <1>10 DEF Turn2, o
<1>12. /\ w.kid[s][y] = n /\ w.kid[o][y] = c /\ w.kid[s][n] = a /\ w.kid[o][n] = b
       /\ \A k \in Used(m), t \in Side : k # n /\ k # y =>
            w.kid[t][k] = IF m.kid[t][k] = n THEN y ELSE m.kid[t][k]
  <2>1. ASSUME NEW k \in Used(m), NEW t \in Side, m.kid[t][k] = n, k # n
        PROVE  k = p /\ p # nil
    BY <2>1, <1>2 DEF Linked
  <2>2. /\ p = y => FALSE
        /\ p = n => FALSE
    BY <1>3, <1>6
  <2> HIDE DEF w, y, b, p, a, c, C
  <2>3. s \in Side /\ y \in Node /\ n \in Node /\ Used(m) \subseteq Node
    BY <1>2, <1>3
  <2>4. w.kid[s][y] = n
    BY <1>1, <1>7, <2>3 DEF Rotated
  <2>5. w.kid[o][n] = b
    BY <1>1, <1>7, <1>3, <2>3 DEF Rotated, o
  <2>6. w.kid[o][y] = c
    BY <1>1, <1>7, <1>3, <2>2, <2>3 DEF Rotated, c, o
  <2>7. w.kid[s][n] = a
    BY <1>1, <1>7, <1>3, <2>2, <2>3 DEF Rotated, a, o
  <2>8. ASSUME NEW k \in Used(m), NEW t \in Side, k # n, k # y
        PROVE  w.kid[t][k] = IF m.kid[t][k] = n THEN y ELSE m.kid[t][k]
    BY <1>7, <2>1, <2>3, <2>8 DEF Rotated
  <2>9. QED
    BY <2>4, <2>5, <2>6, <2>7, <2>8
<1>13. /\ w.next = m.next /\ w.start = m.start /\ Used(w) = Used(m)
       /\ w.root = IF p = nil THEN y ELSE m.root
  BY <1>7 DEF Rotated, Used
<1>14. ASSUME NEW k \in Used(m), NEW t \in Side, k # n, k # y
       PROVE  /\ w.kid[t][k] \in 0 .. m.next - 1
              /\ C[w.kid[t][k]] = B[m.kid[t][k]]
  <2>1. m.kid[t][k] \in 0 .. m.next - 1
    BY DEF Shape
  <2>2. m.kid[t][k] # y
    BY <1>2, <1>3, <1>14 DEF Linked
  <2> HIDE DEF w, y, C
  <2>3. QED
    BY <1>2, <1>3, <1>11, <1>12, <1>14, <2>1, <2>2
<1>15. nil # n /\ nil # y /\ a # n /\ a # y /\ b # n /\ b # y /\ c # n /\ c # y
  <2>1. a # nil => a # n /\ a \in Used(m)
    BY <1>2, <1>8, <1>9
  <2>2. c # nil => c \in Used(m)
    BY <1>2, <1>8
  <2> HIDE DEF a, b, c, y
  <2>3. QED
    BY <1>2, <1>3, <1>4, <1>5, <1>9, <1>10, <2>1, <2>2
<1>16. C[a] = B[a] /\ C[b] = B[b] /\ C[c] = B[c] /\ C[nil] = {}
  <2> HIDE DEF a, b, c, y, C
  <2>1. QED
    BY <1>2, <1>8, <1>11, <1>15
<1>17. Shape(w, C)
  <2>1. ASSUME NEW k \in Used(m)
        PROVE  Sorted(w, C, k)
    <3>1. CASE k = y
      <4>1. \A i \in {n} \cup B[a] \cup B[b] : Before(s, m.start[i], m.start[y])
        <5>1. y \in B[y] /\ B[a] \subseteq Used(m)
          BY <1>3, <1>2, <1>9
        <5>2. Before(s, m.start[n], m.start[y])
          BY <1>1, <1>9, <5>1 DEF Before, Side, o, Other
        <5>3. \A i \in B[a] : Before(s, m.start[i], m.start[y])
          <6> HIDE DEF y, a
          <6> QED BY <1>2, <1>3, <1>9, <5>1, <5>2 DEF Before
        <5>4. QED
          BY <1>10, <5>2, <5>3
      <4>2. Sorted(w, C, y)
        <5>1. /\ C[y] = {y} \cup C[n] \cup C[c] /\ y \notin C[n] /\ y \notin C[c]
              /\ C[n] \cap C[c] = {}
          <6> HIDE DEF a, b, c, y, C
          <6> QED BY <1>3, <1>9, <1>10, <1>11, <1>16
        <5> HIDE DEF a, b, c, y, C, w
        <5>2. \A i \in C[n] : Before(s, w.start[i], w.start[y])
          BY <1>11, <1>13, <4>1
        <5>3. \A i \in C[c] : Before(o, w.start[i], w.start[y])
          BY <1>10, <1>13, <1>16
        <5>4. QED
          BY <1>1, <1>12, <5>1, <5>2, <5>3 DEF Sorted, o
      <4>3. QED
        BY <3>1, <4>2
    <3>2. CASE k = n
      <4>1. Sorted(w, C, n)
        <5> HIDE DEF a, b, c, y, C, w
        <5>1. /\ C[n] = {n} \cup C[a] \cup C[b] /\ n \notin C[a] /\ n \notin C[b]
              /\ C[a] \cap C[b] = {}
          BY <1>9, <1>10, <1>11, <1>16
        <5>2. \A i \in C[a] : Before(s, w.start[i], w.start[n])
          BY <1>9, <1>13, <1>16
        <5>3. \A i \in C[b] : Before(o, w.start[i], w.start[n])
          BY <1>9, <1>10, <1>13, <1>16
        <5>4. QED
          BY <1>1, <1>12, <5>1, <5>2, <5>3 DEF Sorted, o
      <4>2. QED
        BY <3>2, <4>1
    <3>3. CASE k # n /\ k # y
      <4>1. Sorted(m, B, k)
        BY DEF Shape
      <4>2. \A t \in Side : C[w.kid[t][k]] = B[m.kid[t][k]]
        BY <1>14, <3>3
      <4>3. C[k] = B[k]
        BY <1>2, <1>11, <3>3
      <4> HIDE DEF w, C
      <4>4. QED
        BY <1>13, <4>1, <4>2, <4>3, Sides DEF Sorted
    <3>4. QED
      BY <3>1, <3>2, <3>3
  <2>2. ASSUME NEW k \in Used(m), NEW t \in Side
        PROVE  w.kid[t][k] \in 0 .. m.next - 1
    <3> HIDE DEF a, b, c, y, w
    <3>1. CASE k # n /\ k # y
      BY <1>14, <3>1
    <3>2. CASE k = n \/ k = y
      BY <1>1, <1>2, <1>8, <1>12, <3>2
    <3>3. QED
      BY <3>1, <3>2
  <2>3. w.root \in 0 .. m.next - 1 /\ C[w.root] = Used(m)
    <3>1. m.root \in 0 .. m.next - 1 /\ B[m.root] = Used(m)
      BY DEF Shape
    <3> HIDE DEF y, p, w, C
    <3>2. QED
      BY <1>2, <1>3, <1>6, <1>11, <1>13, <3>1
  <2>4. slots \in Nat /\ m.next \in Nat \ {0} /\ m.next <= slots
    BY DEF Shape
  <2> HIDE DEF w, C
  <2>5. QED
    BY <1>11, <1>13, <1>16, <2>1, <2>2, <2>3, <2>4 DEF Shape
<1>18. /\ w.parent[n] = y /\ w.parent[y] = p /\ (b # nil => w.parent[b] = n)
       /\ \A k \in Used(m) : k # n /\ k # y /\ k # b => w.parent[k] = m.parent[k]
  <2> HIDE DEF w, y, b, p
  <2>1. QED
    BY <1>2, <1>3, <1>4, <1>15, <1>7 DEF Rotated
<1>19. ASSUME NEW k \in Used(w)
       PROVE  IF k = w.root THEN w.parent[k] = nil
              ELSE w.parent[k] \in Used(w) /\ \E t \in Side : w.kid[t][w.parent[k]] = k
  <2>1. CASE k = n
    <3> HIDE DEF w, y, b, p
    <3> QED BY <1>3, <1>6, <1>12, <1>13, <1>18, <2>1
  <2>2. CASE k = y
    <3>1. p # nil => p \in Used(m) /\ p # n /\ p # y /\ \E t \in Side : m.kid[t][p] = n
      BY <1>3, <1>6
    <3> HIDE DEF w, y, b, p
    <3>2. p # nil => \E t \in Side : w.kid[t][p] = y
      BY <1>12, <3>1
    <3>3. p # nil => m.root # y
      BY <1>3
    <3> QED BY <1>13, <1>18, <2>2, <3>1, <3>2, <3>3
  <2>3. CASE k = b
    <3> HIDE DEF w, y, b, p
    <3> QED BY <1>1, <1>2, <1>4, <1>12, <1>13, <1>15, <1>18, <2>3
  <2>4. CASE k # n /\ k # y /\ k # b
    <3>1. k = w.root <=> k = m.root
      BY <1>6, <1>13, <2>4
    <3>2. k # m.root => m.parent[k] \in Used(m) /\ \E t \in Side : m.kid[t][m.parent[k]] = k
      BY <1>13 DEF Linked
    <3>3. k = m.root => m.parent[k] = nil
      BY <1>13 DEF Linked
    <3>4. w.parent[k] = m.parent[k]
      BY <1>13, <1>18, <2>4
    <3>5. ASSUME NEW t \in Side, m.parent[k] \in Used(m), m.kid[t][m.parent[k]] = k
          PROVE  \E u \in Side : w.kid[u][m.parent[k]] = k
      <4> DEFINE q == m.parent[k]
      <4>1. CASE q # n /\ q # y
        <5> HIDE DEF w, y, b, p
        <5> QED BY <1>12, <2>4, <3>5, <4>1
      <4>2. CASE q = n
        <5>1. t = s
          BY <1>1, <2>4, <3>5, <4>2
        <5> QED BY <1>12, <3>5, <4>2, <5>1
      <4>3. CASE q = y
        <5>1. t = o
          BY <1>1, <2>4, <3>5, <4>3
        <5> QED BY <1>1, <1>12, <3>5, <4>3, <5>1
      <4>4. QED
        BY <4>1, <4>2, <4>3
    <3> HIDE DEF w
    <3>6. QED
      BY <1>13, <3>1, <3>2, <3>3, <3>4, <3>5
  <2>5. QED
    BY <2>1, <2>2, <2>3, <2>4
<1>20. ASSUME NEW k \in Used(w), NEW t \in Side, w.kid[t][k] # nil
       PROVE  w.parent[w.kid[t][k]] = k
  <2>1. /\ a # nil => a \in Used(m) /\ m.parent[a] = n /\ a # b
        /\ c # nil => c \in Used(m) /\ m.parent[c] = y /\ b # c
    <3>1. a # nil => a \in Used(m) /\ m.parent[a] = n
      BY <1>2, <1>8 DEF Linked
    <3>2. c # nil => c \in Used(m) /\ m.parent[c] = y
      BY <1>1, <1>2, <1>3, <1>8 DEF Linked
    <3>3. a # nil => a # b
      BY <1>3, <1>4, <3>1
    <3>4. c # nil => b # c
      BY <1>4
    <3>5. QED
      BY <3>1, <3>2, <3>3, <3>4
  <2>2. CASE k = n
    <3> HIDE DEF w, y, b, p, a, c
    <3> QED BY <1>1, <1>12, <1>15, <1>18, <1>20, <2>1, <2>2
  <2>3. CASE k = y
    <3> HIDE DEF w, y, b, p, a, c
    <3> QED BY <1>1, <1>12, <1>15, <1>18, <1>20, <2>1, <2>3
  <2>4. CASE k # n /\ k # y
    <3>1. CASE m.kid[t][k] = n
      <4>1. m.parent[n] = k
        BY <1>2, <1>13, <3>1 DEF Linked
      <4>2. w.kid[t][k] = y
        BY <1>12, <1>13, <2>4, <3>1
      <4> QED BY <1>18, <4>1, <4>2
    <3>2. CASE m.kid[t][k] # n
      <4>1. w.kid[t][k] = m.kid[t][k]
        BY <1>12, <1>13, <2>4, <3>2
      <4>2. m.parent[m.kid[t][k]] = k /\ m.kid[t][k] \in Used(m)
        BY <1>2, <1>13, <1>20, <4>1 DEF Linked, Shape
      <4>3. m.kid[t][k] # y /\ m.kid[t][k] # b
        BY <1>2, <1>3, <1>4, <2>4, <4>2
      <4> HIDE DEF w, y, b
      <4> QED BY <1>18, <3>2, <4>1, <4>2, <4>3
    <3>3. QED
      BY <3>1, <3>2
  <2>5. QED
    BY <2>2, <2>3, <2>4
<1>21. /\ \A x \in Used(m) : \A k \in B[x] : k # x => m.parent[k] \in B[x]
       /\ \A x \in Used(m) : \A k \in B[x] : \A t \in Side :
            m.kid[t][k] # nil => m.kid[t][k] \in B[x]
  BY DEF Linked
<1>22. \A x \in Used(m) : x \in B[x] /\ B[x] \subseteq Used(m)
  BY <1>2
<1>23. p # nil => p \notin B[n] /\ p \in Used(m)
  <2> SUFFICES ASSUME p # nil PROVE p \notin B[n]
    BY <1>6
  <2>1. PICK t \in Side : m.kid[t][p] = n
    BY <1>6
  <2>2. Sorted(m, B, p)
    BY <1>6 DEF Shape
  <2>3. QED
    BY <2>1, <2>2 DEF Sorted
<1>24. /\ y \in B[n] /\ (b # nil => b \in B[n] /\ b \in C[n])
       /\ n \in C[n] /\ y \notin C[n]
  <2>1. b # nil => b \in B[b] /\ b \in Used(m)
    BY <1>4, <1>22
  <2>2. y \in B[y]
    BY <1>3, <1>22
  <2> HIDE DEF a, b, c, y, C
  <2>3. QED
    BY <1>3, <1>9, <1>10, <1>11, <2>1, <2>2
<1>25. ASSUME NEW x \in Used(m), NEW k \in C[x], k # x
       PROVE  w.parent[k] \in C[x]
  <2>1. k \in Used(m)
    <3> HIDE DEF C
    <3> QED BY <1>11, <1>2
  <2>2. CASE x = y
    <3>1. k \in B[n] /\ C[x] = B[n]
      BY <1>11, <2>2
    <3>2. CASE k = n
      BY <1>18, <1>24, <3>1, <3>2
    <3>3. CASE k = b
      BY <1>2, <1>18, <1>22, <2>1, <3>1, <3>3
    <3>4. CASE k # n /\ k # b
      <4>1. w.parent[k] = m.parent[k]
        BY <1>18, <1>25, <2>1, <2>2, <3>4
      <4>2. QED
        BY <1>21, <3>1, <3>4, <4>1
    <3>5. QED
      BY <3>2, <3>3, <3>4
  <2>3. CASE x = n
    <3>1. C[x] = {n} \cup B[a] \cup B[b]
      BY <1>11, <2>3
    <3>2. CASE k = b
      BY <1>2, <1>18, <2>1, <3>1, <3>2
    <3>3. CASE k # b
      <4>1. k # y /\ k # n
        BY <1>24, <1>25, <2>3
      <4>2. w.parent[k] = m.parent[k]
        BY <1>18, <2>1, <3>3, <4>1
      <4>3. CASE k \in B[a]
        <5>1. a \in Used(m)
          BY <1>2, <1>8, <4>3
        <5>2. k = a => m.parent[k] = n
          BY <5>1, <1>2 DEF Linked
        <5>3. QED
          BY <1>21, <3>1, <4>2, <4>3, <5>1, <5>2
      <4>4. CASE k \in B[b]
        <5>1. b \in Used(m)
          BY <1>2, <1>8, <4>4
        <5>2. m.parent[k] \in B[b]
          BY <1>21, <3>3, <4>4, <5>1
        <5>3. QED
          BY <3>1, <4>2, <5>2
      <4>5. QED
        BY <1>25, <3>1, <4>1, <4>3, <4>4
    <3>4. QED
      BY <3>2, <3>3
  <2>4. CASE x # n /\ x # y
    <3>1. C[x] = B[x] /\ k \in B[x]
      <4> HIDE DEF C, y
      <4> QED BY <1>2, <1>11, <1>25, <2>4
    <3>2. n \in B[x] => y \in B[x] /\ p \in B[x]
      <4>1. n \in B[x] => p \in B[x]
        BY <1>21, <2>4
      <4>2. n \in B[x] => y \in B[x]
        BY <1>1, <1>2, <1>3, <1>21
      <4>3. QED
        BY <4>1, <4>2
    <3>3. y \in B[x] => n \in B[x]
      BY <1>3, <1>21, <2>4
    <3>4. CASE k = n
      BY <1>18, <3>1, <3>2, <3>4
    <3>5. CASE k = y
      BY <1>18, <3>1, <3>2, <3>3, <3>5
    <3>6. CASE k = b
      <4>1. y \in B[x]
        BY <1>2, <1>4, <1>21, <1>25, <2>1, <3>1, <3>6
      <4>2. QED
        BY <1>2, <1>18, <2>1, <3>1, <3>3, <3>6, <4>1
    <3>7. CASE k # n /\ k # y /\ k # b
      BY <1>18, <1>21, <1>25, <2>1, <3>1, <3>7
    <3>8. QED
      BY <3>4, <3>5, <3>6, <3>7
  <2>5. QED
    BY <2>2, <2>3, <2>4
<1>26. ASSUME NEW x \in Used(m), NEW k \in C[x], NEW t \in Side, w.kid[t][k] # nil
       PROVE  w.kid[t][k] \in C[x]
  <2>1. k \in Used(m) /\ C[x] \in SUBSET Used(m) /\ Sorted(w, C, k)
    <3>1. k \in Used(m) /\ C[x] \in SUBSET Used(m)
      <4> HIDE DEF C
      <4> QED BY <1>11, <1>2
    <3>2. QED
      BY <1>13, <1>17, <3>1 DEF Shape
  <2>2. CASE x = y
    <3>1. k \in B[n] /\ C[x] = B[n]
      BY <1>11, <2>2
    <3>2. CASE k = n \/ k = y
      <4>1. /\ a # nil => a \in B[n]
            /\ c # nil => c \in B[n]
        BY <1>1, <1>3, <1>21, <1>22, <1>24
      <4> HIDE DEF a, b, c, y, w, C
      <4> QED BY <1>1, <1>12, <1>22, <1>24, <1>26, <3>1, <3>2, <4>1
    <3>3. CASE k # n /\ k # y
      <4>1. m.kid[t][k] # nil => m.kid[t][k] \in B[n]
        BY <1>21, <3>1
      <4> HIDE DEF a, b, c, y, w, C
      <4> QED BY <1>12, <1>24, <1>26, <2>1, <3>1, <3>3, <4>1
    <3>4. QED
      BY <3>2, <3>3
  <2>3. CASE x = n
    <3>1. C[x] = {n} \cup B[a] \cup B[b] /\ k # y
      BY <1>11, <1>24, <1>26, <2>3
    <3>2. CASE k = n
      <4>1. a # nil => a \in B[a]
        BY <1>2, <1>8
      <4> HIDE DEF a, b, c, y, w, C
      <4> QED BY <1>1, <1>12, <1>24, <1>26, <2>3, <3>1, <3>2, <4>1
    <3>3. CASE k # n
      <4>1. w.kid[t][k] = IF m.kid[t][k] = n THEN y ELSE m.kid[t][k]
        BY <1>12, <2>1, <3>1, <3>3
      <4>2. k \in B[a] \/ k \in B[b]
        BY <1>26, <3>1, <3>3
      <4>3. \A z \in {a, b} : k \in B[z] /\ m.kid[t][k] # nil => m.kid[t][k] \in B[z]
        BY <1>2, <1>8, <1>21
      <4>4. n \notin B[a] /\ n \notin B[b]
        BY <1>9, <1>10
      <4> HIDE DEF a, b, c, y, w, C
      <4> QED BY <1>2, <1>26, <3>1, <4>1, <4>2, <4>3, <4>4
    <3>4. QED
      BY <3>2, <3>3
  <2>4. CASE x # n /\ x # y
    <3>1. C[x] = B[x] /\ k \in B[x]
      <4> HIDE DEF C, y
      <4> QED BY <1>2, <1>11, <1>26, <2>4
    <3>2. n \in B[x] => y \in B[x]
      BY <1>1, <1>2, <1>3, <1>21
    <3>3. y \in B[x] => n \in B[x]
      BY <1>3, <1>21, <2>4
    <3>4. \A u \in Side, i \in B[x] : m.kid[u][i] # nil => m.kid[u][i] \in B[x]
      BY <1>21
    <3>5. n \in B[x] => /\ (a # nil => a \in B[x]) /\ (c # nil => c \in B[x])
                        /\ (b # nil => b \in B[x])
      BY <1>1, <3>2, <3>4
    <3>6. CASE k = n \/ k = y
      <4> HIDE DEF a, b, c, y, w, C
      <4> QED BY <1>1, <1>12, <1>26, <3>1, <3>3, <3>5, <3>6
    <3>7. CASE k # n /\ k # y
      <4> HIDE DEF a, b, c, y, w, C
      <4> QED BY <1>2, <1>12, <1>26, <2>1, <3>1, <3>2, <3>4, <3>7
    <3>8. QED
      BY <3>6, <3>7
  <2>5. QED
    BY <2>2, <2>3, <2>4
<1>27. Linked(w, C)
  <2> HIDE DEF w, C
  <2>1. \A x \in Used(w) : \A k \in C[x] :
          /\ k # x => w.parent[k] \in C[x]
          /\ \A t \in Side : w.kid[t][k] # nil => w.kid[t][k] \in C[x]
    BY <1>13, <1>25, <1>26
  <2>2. QED
    BY <1>19, <1>20, <2>1 DEF Linked
<1>28. QED
  BY <1>7, <1>17, <1>27 DEF o

\* What linking a new node below n leaves.
Hung(w, m, n, t, r) ==
  LET new == m.next
  IN /\ w \in Map
     /\ \A s \in Side, k \in Node :
          w.kid[s][k] = IF k = new THEN nil
                        ELSE IF n # nil /\ k = n /\ s = t THEN new
                        ELSE m.kid[s][k]
     /\ \A k \in Node :
          /\ w.parent[k] = IF k = new THEN n ELSE m.parent[k]
          /\ w.red[k] = (k = new \/ m.red[k])
          /\ w.start[k] = IF k = new THEN r.start ELSE m.start[k]
          /\ w.end[k] = IF k = new THEN Top(r) ELSE m.end[k]
     /\ w.root = IF n = nil THEN new ELSE m.root
     /\ w.next = new + 1

\* Hang, field by field.
LEMMA HangFields ==
  ASSUME NEW m \in Map, NEW n \in Node, m.next \in Node,
         NEW r, r.start \in Nat, r.length \in Nat
  PROVE  Hung(Hang(m, n, r), m, n, Toward(m, n, r.start), r)
<1> DEFINE new == m.next
           t == Toward(m, n, r.start)
           hung == IF n = nil THEN [m EXCEPT !.root = new] ELSE SetKid(m, t, n, new)
           w == Hang(m, n, r)
<1>1. t \in Side /\ new \in Node /\ new \in Int /\ n \in Int
      /\ LastAddress(r) \in Int /\ LastAddress(r) = Top(r)
  BY DEF Toward, Side, Node, LastAddress, Top
<1>2. /\ hung \in Map
      /\ \A s \in Side, k \in Node :
           hung.kid[s][k] = IF n # nil /\ k = n /\ s = t THEN new ELSE m.kid[s][k]
      /\ hung.parent = m.parent /\ hung.red = m.red /\ hung.start = m.start
      /\ hung.end = m.end /\ hung.next = m.next
      /\ hung.root = IF n = nil THEN new ELSE m.root
  <2>1. CASE n = nil
    BY <1>1, <2>1 DEF Map
  <2>2. CASE n # nil
    <3>1. WithKid(hung, m, t, n, new)
      <4> HIDE DEF new, t
      <4> QED BY <1>1, <2>2, Assignments
    <3>2. QED
      BY <2>2, <3>1 DEF WithKid
  <2>3. QED
    BY <2>1, <2>2
<1>3. w = [hung EXCEPT !.next = @ + 1,
                !.kid["left"][new] = nil, !.kid["right"][new] = nil,
                !.parent[new] = n, !.red[new] = TRUE,
                !.start[new] = r.start, !.end[new] = LastAddress(r)]
  BY DEF Hang
<1> HIDE DEF new, t, hung, w
<1>4. /\ w \in Map
      /\ \A s \in Side, k \in Node :
           w.kid[s][k] = IF k = new THEN nil ELSE hung.kid[s][k]
  <2>1. w.kid = [[hung.kid EXCEPT !["left"][new] = nil]
                   EXCEPT !["right"][new] = nil]
    BY <1>1, <1>2, <1>3 DEF Map, Side
  <2>2. hung.kid \in [Side -> [Node -> Int]]
    BY <1>2 DEF Map
  <2>3. /\ w.kid \in [Side -> [Node -> Int]]
        /\ \A s \in Side, k \in Node :
             w.kid[s][k] = IF k = new THEN nil ELSE hung.kid[s][k]
    BY <1>1, <2>1, <2>2 DEF Side, nil
  <2>4. /\ w.parent \in [Node -> Int] /\ w.red \in [Node -> BOOLEAN]
        /\ w.start \in [Node -> Int] /\ w.end \in [Node -> Int]
        /\ w.root \in Int /\ w.next \in Nat
    BY <1>1, <1>2, <1>3 DEF Map
  <2>6. w \in Map
    <3>1. w = [kid |-> w.kid, parent |-> w.parent, red |-> w.red, start |-> w.start,
               end |-> w.end, root |-> w.root, next |-> w.next]
      BY <1>2, <1>3 DEF Map
    <3>2. QED
      BY <2>3, <2>4, <3>1 DEF Map
  <2>7. QED
    BY <2>3, <2>6
<1>5. \A k \in Node :
          /\ w.parent[k] = IF k = new THEN n ELSE hung.parent[k]
          /\ w.start[k] = IF k = new THEN r.start ELSE hung.start[k]
          /\ w.end[k] = IF k = new THEN LastAddress(r) ELSE hung.end[k]
  BY <1>1, <1>2, <1>3 DEF Map
<1>6. \A k \in Node : w.red[k] = (k = new \/ hung.red[k])
  BY <1>1, <1>2, <1>3 DEF Map
<1>7. w.root = hung.root /\ w.next = hung.next + 1
  BY <1>1, <1>2, <1>3 DEF Map
<1>8. QED
  BY <1>1, <1>2, <1>4, <1>5, <1>6, <1>7 DEF Hung, new, t, w

\* A new node under a free link is in its place, and on the way down to it.
LEMMA HangTree ==
  ASSUME NEW m \in Map, NEW B, Shape(m, B), Linked(m, B), m.next < slots,
         NEW n \in Used(m) \cup {nil}, NEW t \in Side, NEW r, r.start \in Int,
         NEW w, Hung(w, m, n, t, r),
         n = nil => m.root = nil,
         n # nil => m.kid[t][n] = nil /\ Before(t, r.start, m.start[n]),
         \A k \in Used(m), s \in Side :
           n \in B[m.kid[s][k]] => Before(s, r.start, m.start[k])
  PROVE  \E C : Shape(w, C) /\ Linked(w, C)
<1> DEFINE new == m.next
           C == [k \in 0 .. new |-> IF k = new THEN {new}
                                    ELSE IF n \in B[k] THEN B[k] \cup {new} ELSE B[k]]
<1>1. /\ Used(m) \subseteq Node /\ nil \in Node /\ 0 .. new - 1 \subseteq Node
      /\ 0 .. new - 1 = Used(m) \cup {nil} /\ nil \notin Used(m)
      /\ \A k \in Used(m) : k \in B[k] /\ B[k] \subseteq Used(m)
      /\ \A k \in Used(m) : m.start[k] \in Int
  BY Indices
<1>2. /\ new \in Nat \ {0} /\ new < slots /\ slots \in Nat
      /\ B \in [0 .. new - 1 -> SUBSET Used(m)] /\ B[nil] = {}
      /\ m.root \in 0 .. new - 1 /\ B[m.root] = Used(m)
      /\ \A k \in Used(m), s \in Side : m.kid[s][k] \in 0 .. new - 1
      /\ \A k \in Used(m) : Sorted(m, B, k)
  BY DEF Shape
<1>3. /\ w.next = new + 1 /\ new \in Node /\ new \notin Used(m) /\ new # nil
      /\ Used(w) = Used(m) \cup {new} /\ 0 .. new = Used(w) \cup {nil}
      /\ w.next \in Nat \ {0} /\ w.next <= slots /\ new \notin 0 .. new - 1
  BY <1>2 DEF Hung, Used, Node, nil
<1>4. n = nil => Used(m) = {}
  BY <1>2
<1>5. /\ C \in [0 .. w.next - 1 -> SUBSET Used(w)] /\ C[nil] = {} /\ C[new] = {new}
      /\ \A k \in 0 .. new - 1 : C[k] = IF n \in B[k] THEN B[k] \cup {new} ELSE B[k]
  <2>1. w.next - 1 = new
    BY <1>2, <1>3
  <2> HIDE DEF new
  <2>2. C \in [0 .. new -> SUBSET Used(w)]
    <3>1. ASSUME NEW k \in 0 .. new, k # new
          PROVE  B[k] \subseteq Used(w)
      BY <1>1, <1>2, <1>3, <3>1
    <3>2. QED
      BY <1>3, <3>1
  <2>3. C[nil] = {} /\ C[new] = {new}
    BY <1>1, <1>2, <1>3
  <2>4. \A k \in 0 .. new - 1 : C[k] = IF n \in B[k] THEN B[k] \cup {new} ELSE B[k]
    BY <1>1, <1>3
  <2>5. QED
    BY <2>1, <2>2, <2>3, <2>4
<1>6. /\ \A s \in Side : w.kid[s][new] = nil
      /\ \A k \in Used(m), s \in Side :
           w.kid[s][k] = IF k = n /\ s = t THEN new ELSE m.kid[s][k]
      /\ w.parent[new] = n /\ w.start[new] = r.start
      /\ \A k \in Used(m) : w.parent[k] = m.parent[k] /\ w.start[k] = m.start[k]
      /\ w.root = IF n = nil THEN new ELSE m.root
  BY <1>1, <1>3 DEF Hung
<1> HIDE DEF C, new
<1>7. ASSUME NEW k \in Used(w)
      PROVE  Sorted(w, C, k)
  <2>1. CASE k = new
    BY <1>1, <1>5, <1>6, <2>1, Sides DEF Sorted
  <2>2. CASE k = n /\ n # nil
    <3> DEFINE o == Other(t)
               d == m.kid[o][n]
    <3>1. n \in Used(m) /\ Sorted(m, B, n) /\ o \in Side /\ o # t /\ Other(o) = t
      BY <1>2, <2>2, Sides
    <3>2. d \in 0 .. new - 1 /\ n \notin B[d] /\ B[n] = {n} \cup B[d]
          /\ \A c \in B[d] : Before(o, m.start[c], m.start[n])
      BY <1>2, <2>2, <3>1 DEF Sorted
    <3>3. C[d] = B[d] /\ C[n] = {n} \cup {new} \cup C[d] /\ d # new
      BY <1>1, <1>3, <1>5, <3>1, <3>2
    <3>4. w.kid[t][n] = new /\ w.kid[o][n] = d
      BY <1>6, <3>1
    <3>5. B[d] \subseteq Used(m)
      BY <1>1, <1>2, <3>2
    <3> HIDE DEF o, d
    <3>6. \A c \in C[d] : Before(o, w.start[c], w.start[n])
      BY <1>6, <3>1, <3>2, <3>3, <3>5
    <3>7. \A c \in C[new] : Before(t, w.start[c], w.start[n])
      BY <1>5, <1>6, <2>2, <3>1
    <3>8. /\ n \notin C[d] /\ n \notin C[new] /\ C[new] \cap C[d] = {}
      BY <1>1, <1>3, <1>5, <3>1, <3>2, <3>3, <3>5
    <3>9. \A s \in Side : s = t \/ s = o
      BY Sides DEF o
    <3>10. Sorted(w, C, n)
      BY <1>5, <3>1, <3>3, <3>4, <3>6, <3>7, <3>8, <3>9 DEF Sorted, o
    <3>11. QED
      BY <2>2, <3>10
  <2>3. CASE k # n /\ k # new
    <3>1. k \in Used(m) /\ Sorted(m, B, k)
      BY <1>2, <1>3, <2>3
    <3>2. \A s \in Side : w.kid[s][k] = m.kid[s][k] /\ m.kid[s][k] \in 0 .. new - 1
      BY <1>2, <1>6, <2>3, <3>1
    <3>3. \A s \in Side : B[m.kid[s][k]] \subseteq Used(m)
      BY <1>1, <1>2, <3>2
    <3>4. \A s \in Side :
            C[w.kid[s][k]] = IF n \in B[m.kid[s][k]] THEN B[m.kid[s][k]] \cup {new}
                             ELSE B[m.kid[s][k]]
      BY <1>5, <3>2
    <3>5. C[k] = IF n \in B[k] THEN B[k] \cup {new} ELSE B[k]
      BY <1>1, <1>5, <3>1
    <3>6. ASSUME NEW s \in Side
          PROVE  /\ C[k] = {k} \cup C[w.kid[s][k]] \cup C[w.kid[Other(s)][k]]
                 /\ k \notin C[w.kid[s][k]]
                 /\ C[w.kid[s][k]] \cap C[w.kid[Other(s)][k]] = {}
                 /\ \A c \in C[w.kid[s][k]] : Before(s, w.start[c], w.start[k])
      <4> DEFINE x == m.kid[s][k]
                 y == m.kid[Other(s)][k]
      <4>1. /\ B[k] = {k} \cup B[x] \cup B[y] /\ k \notin B[x]
            /\ B[x] \cap B[y] = {}
            /\ \A c \in B[x] : Before(s, m.start[c], m.start[k])
        BY <3>1 DEF Sorted
      <4>2. /\ C[w.kid[s][k]] = IF n \in B[x] THEN B[x] \cup {new} ELSE B[x]
            /\ C[w.kid[Other(s)][k]] = IF n \in B[y] THEN B[y] \cup {new} ELSE B[y]
            /\ B[x] \subseteq Used(m) /\ B[y] \subseteq Used(m)
            /\ n \in B[x] => Before(s, r.start, m.start[k])
        BY <3>1, <3>3, <3>4, Sides
      <4> HIDE DEF x, y
      <4>3. /\ C[k] = {k} \cup C[w.kid[s][k]] \cup C[w.kid[Other(s)][k]]
            /\ k \notin C[w.kid[s][k]]
            /\ C[w.kid[s][k]] \cap C[w.kid[Other(s)][k]] = {}
        BY <1>3, <2>3, <3>5, <4>1, <4>2
      <4>4. \A c \in C[w.kid[s][k]] : Before(s, w.start[c], w.start[k])
        BY <1>6, <3>1, <4>1, <4>2
      <4>5. QED
        BY <4>3, <4>4
    <3>7. QED
      BY <3>6 DEF Sorted
  <2>4. QED
    BY <1>1, <1>3, <2>1, <2>2, <2>3
<1>8. ASSUME NEW k \in Used(w), NEW s \in Side
      PROVE  w.kid[s][k] \in 0 .. w.next - 1
  <2>1. 0 .. w.next - 1 = Used(w) \cup {nil}
    BY <1>2, <1>3
  <2>2. QED
    BY <1>1, <1>2, <1>3, <1>6, <2>1
<1>9. w.root \in 0 .. w.next - 1 /\ C[w.root] = Used(w)
  <2>1. 0 .. w.next - 1 = Used(w) \cup {nil}
    BY <1>2, <1>3
  <2>2. CASE n = nil
    BY <1>3, <1>4, <1>5, <1>6, <2>1, <2>2
  <2>3. CASE n # nil
    <3>1. w.root = m.root /\ m.root \in 0 .. new - 1 /\ n \in B[m.root]
      BY <1>2, <1>6, <2>3
    <3>2. C[m.root] = B[m.root] \cup {new}
      BY <1>5, <3>1
    <3>3. m.root \in 0 .. w.next - 1
      BY <1>1, <1>3, <2>1, <3>1
    <3>4. QED
      BY <1>2, <1>3, <3>1, <3>2, <3>3
  <2>4. QED
    BY <2>2, <2>3
<1>10. Shape(w, C)
  BY <1>2, <1>3, <1>5, <1>7, <1>8, <1>9 DEF Shape
<1>11. ASSUME NEW k \in Used(w)
       PROVE  IF k = w.root THEN w.parent[k] = nil
              ELSE w.parent[k] \in Used(w) /\ \E s \in Side : w.kid[s][w.parent[k]] = k
  <2>1. CASE k = new
    BY <1>2, <1>3, <1>6, <2>1
  <2>2. CASE k # new
    <3>1. k \in Used(m) /\ n # nil /\ w.root = m.root
      BY <1>3, <1>4, <1>6, <2>2
    <3>2. IF k = m.root THEN m.parent[k] = nil
          ELSE m.parent[k] \in Used(m) /\ \E s \in Side : m.kid[s][m.parent[k]] = k
      BY <3>1 DEF Linked
    <3>3. ASSUME NEW s \in Side, m.parent[k] \in Used(m), m.kid[s][m.parent[k]] = k
          PROVE  w.kid[s][m.parent[k]] = k
      BY <1>1, <1>6, <3>1, <3>3
    <3>4. QED
      BY <1>3, <1>6, <3>1, <3>2, <3>3
  <2>3. QED
    BY <2>1, <2>2
<1>12. ASSUME NEW k \in Used(w), NEW s \in Side, w.kid[s][k] # nil
       PROVE  w.parent[w.kid[s][k]] = k
  <2>1. k \in Used(m)
    BY <1>3, <1>6, <1>12
  <2>2. CASE k = n /\ s = t
    BY <1>6, <2>1, <2>2
  <2>3. CASE ~(k = n /\ s = t)
    <3>1. w.kid[s][k] = m.kid[s][k] /\ m.kid[s][k] \in Used(m)
      BY <1>1, <1>2, <1>6, <1>12, <2>1, <2>3
    <3>2. m.parent[m.kid[s][k]] = k
      BY <1>12, <2>1, <3>1 DEF Linked
    <3>3. QED
      BY <1>6, <3>1, <3>2
  <2>4. QED
    BY <2>2, <2>3
<1>13. /\ \A x \in Used(m) : \A k \in B[x] : k # x => m.parent[k] \in B[x]
       /\ \A x \in Used(m) : \A k \in B[x] : \A s \in Side :
            m.kid[s][k] # nil => m.kid[s][k] \in B[x]
  BY DEF Linked
<1>14. ASSUME NEW x \in Used(w), NEW k \in C[x]
       PROVE  /\ k # x => w.parent[k] \in C[x]
              /\ \A s \in Side : w.kid[s][k] # nil => w.kid[s][k] \in C[x]
  <2>1. CASE x = new
    BY <1>5, <1>6, <1>14, <2>1
  <2>2. CASE x # new
    <3>1. x \in Used(m) /\ C[x] = IF n \in B[x] THEN B[x] \cup {new} ELSE B[x]
      BY <1>1, <1>3, <1>5, <2>2
    <3>2. CASE k = new
      <4>1. n \in B[x]
        BY <1>1, <1>3, <1>14, <3>1, <3>2
      <4>2. QED
        BY <1>6, <3>1, <3>2, <4>1
    <3>3. CASE k # new
      <4>1. k \in B[x] /\ k \in Used(m)
        BY <1>1, <1>14, <3>1, <3>3
      <4>2. k # x => m.parent[k] \in B[x]
        BY <1>13, <3>1, <4>1
      <4>3. \A s \in Side : m.kid[s][k] # nil => m.kid[s][k] \in B[x]
        BY <1>13, <3>1, <4>1
      <4>4. QED
        BY <1>6, <3>1, <4>1, <4>2, <4>3
    <3>4. QED
      BY <3>2, <3>3
  <2>3. QED
    BY <2>1, <2>2
<1>15. Linked(w, C)
  BY <1>11, <1>12, <1>14 DEF Linked
<1>16. QED
  BY <1>10, <1>15

\* The way down to n that a range starting at x takes.
Path(m, B, n, x) ==
  \A k \in Used(m), s \in Side :
    n \in B[m.kid[s][k]] => Before(s, x, m.start[k])

\* The way down starts at the root.
LEMMA PathStarts ==
  ASSUME NEW m \in Map, NEW B, Shape(m, B), NEW x
  PROVE  Path(m, B, nil, x)
<1>1. \A k \in Used(m), s \in Side : nil \notin B[m.kid[s][k]]
  BY Indices DEF Shape
<1>2. QED
  BY <1>1 DEF Path

\* One step further, on the side of the range, it is still the way down.
LEMMA PathGoesOn ==
  ASSUME NEW m \in Map, NEW B, Shape(m, B), Linked(m, B),
         NEW n \in Used(m) \cup {nil}, NEW x \in Int, Path(m, B, n, x),
         n # nil => x # m.start[n],
         NEW c, c # nil,
         c = IF n = nil THEN m.root ELSE m.kid[Toward(m, n, x)][n]
  PROVE  c \in Used(m) /\ Path(m, B, c, x)
<1> DEFINE t == Toward(m, n, x)
<1>1. t \in Side
  BY DEF Toward, Side
<1>2. c \in Used(m)
  BY <1>1, Indices DEF Shape
<1>3. ASSUME NEW k \in Used(m), NEW s \in Side, c \in B[m.kid[s][k]]
      PROVE  Before(s, x, m.start[k])
  <2> DEFINE z == m.kid[s][k]
  <2>1. z \in Used(m)
    BY <1>3, Indices DEF Shape
  <2>2. m.parent[z] = k /\ z # m.root
    BY <2>1, Indices, Neighbours
  <2>3. c # z => m.parent[c] \in B[z]
    BY <1>3, <2>1 DEF Linked
  <2>4. CASE n = nil
    <3>1. c = m.root /\ m.parent[c] = nil
      BY <1>2, <2>4 DEF Linked
    <3>2. QED
      BY <2>1, <2>2, <2>3, <3>1, Indices
  <2>5. CASE n # nil
    <3>1. n \in Used(m) /\ c = m.kid[t][n] /\ m.parent[c] = n
      BY <1>1, <2>5 DEF Linked
    <3>2. Before(t, x, m.start[n])
      BY <2>5, <3>1, Indices DEF Before, Toward
    <3>3. CASE c = z
      <4>1. k = n
        BY <2>2, <3>1, <3>3
      <4>2. s = t
        <5>1. m.kid[t][n] # m.kid[Other(t)][n]
          BY <1>1, <3>1, Neighbours
        <5>2. m.kid[s][n] = m.kid[t][n]
          BY <3>1, <3>3, <4>1
        <5>3. QED
          BY <1>1, <5>1, <5>2, Sides
      <4>3. QED
        BY <3>2, <4>1, <4>2
    <3>4. CASE c # z
      BY <2>3, <3>1, <3>4 DEF Path
    <3>5. QED
      BY <3>3, <3>4
  <2>6. QED
    BY <2>4, <2>5
<1>4. QED
  BY <1>2, <1>3 DEF Path

-----------------------------------------------------------------------------
(* The colours.                                                            *)

\* The nodes in use form a sorted tree.
Tree(m) == \E B : Shape(m, B) /\ Linked(m, B)

\* h[n] is the number of black nodes on every way down from n.
Even(m, h) ==
  /\ h \in [0 .. m.next - 1 -> Nat] /\ h[nil] = 0
  /\ \A k \in Used(m), s \in Side :
       /\ m.red[k] => h[k] = h[m.kid[s][k]]
       /\ ~m.red[k] => h[k] = h[m.kid[s][k]] + 1

\* n only may be a red node under a red one.
Calm(m, n) ==
  /\ ~m.red[nil]
  /\ \A k \in Used(m), s \in Side :
       m.red[k] /\ m.red[m.kid[s][k]] => m.kid[s][k] = n

\* A red-black tree but for node n.
RedBlack(m, n) ==
  /\ m \in Map /\ Tree(m) /\ \E h : Even(m, h)
  /\ Calm(m, n)
  /\ m.red[m.root] => m.root = n

\* Colours do not matter to the tree.
LEMMA PaintTree ==
  ASSUME NEW m, NEW w, Tree(m), w.kid = m.kid, w.parent = m.parent,
         w.start = m.start, w.root = m.root, w.next = m.next
  PROVE  Tree(w)
<1>1. PICK B : Shape(m, B) /\ Linked(m, B)
  BY DEF Tree
<1>2. Used(w) = Used(m)
  BY DEF Used
<1>3. Shape(w, B)
  BY <1>1, <1>2 DEF Shape, Sorted
<1>4. Linked(w, B)
  BY <1>1, <1>2 DEF Linked
<1>5. QED
  BY <1>3, <1>4 DEF Tree

\* What the tree says of the links of one node.
LEMMA TreeLinks ==
  ASSUME NEW m \in Map, Tree(m)
  PROVE  /\ Used(m) \subseteq Node /\ nil \in Node /\ 0 .. m.next - 1 \subseteq Node
         /\ 0 .. m.next - 1 = Used(m) \cup {nil} /\ nil \notin Used(m)
         /\ m.root \in Used(m) \cup {nil}
         /\ \A k \in Used(m), s \in Side : m.kid[s][k] \in Used(m) \cup {nil}
         /\ \A k \in Used(m) :
              IF k = m.root THEN m.parent[k] = nil
              ELSE m.parent[k] \in Used(m) /\ \E s \in Side : m.kid[s][m.parent[k]] = k
         /\ \A k \in Used(m), s \in Side : m.kid[s][k] # nil =>
              /\ m.kid[s][k] # k /\ m.kid[s][k] # m.kid[Other(s)][k]
              /\ m.parent[m.kid[s][k]] = k /\ m.kid[s][k] # m.root
              /\ m.parent[k] # m.kid[s][k]
<1>1. PICK B : Shape(m, B) /\ Linked(m, B)
  BY DEF Tree
<1>2. /\ Used(m) \subseteq Node /\ nil \in Node /\ 0 .. m.next - 1 \subseteq Node
      /\ 0 .. m.next - 1 = Used(m) \cup {nil} /\ nil \notin Used(m)
  BY <1>1, Indices
<1>3. /\ m.root \in Used(m) \cup {nil}
      /\ \A k \in Used(m), s \in Side : m.kid[s][k] \in Used(m) \cup {nil}
  BY <1>1, <1>2 DEF Shape
<1>4. \A k \in Used(m) :
        IF k = m.root THEN m.parent[k] = nil
        ELSE m.parent[k] \in Used(m) /\ \E s \in Side : m.kid[s][m.parent[k]] = k
  BY <1>1 DEF Linked
<1>5. \A k \in Used(m), s \in Side : m.kid[s][k] # nil =>
        /\ m.kid[s][k] # k /\ m.kid[s][k] # m.kid[Other(s)][k]
        /\ m.parent[m.kid[s][k]] = k /\ m.kid[s][k] # m.root
        /\ m.parent[k] # m.kid[s][k]
  BY <1>1, Neighbours
<1>6. QED
  BY <1>2, <1>3, <1>4, <1>5

\* Where fixup finds itself when the parent is red as well.
Family(m, n, a, g, s, u) ==
  /\ n \in Used(m) /\ a \in Used(m) /\ g \in Used(m) /\ s \in Side
  /\ a = m.parent[n] /\ g = m.parent[a]
  /\ m.kid[s][g] = a /\ u = m.kid[Other(s)][g]
  /\ n # m.root /\ a # m.root /\ n # a /\ n # g /\ a # g
  /\ u \in Used(m) \cup {nil} /\ u # a /\ u # g /\ u # n
  /\ \E t \in Side : m.kid[t][a] = n
  /\ m.red[n] /\ m.red[a] /\ ~m.red[g] /\ ~m.red[m.root]

\* A red node under a red one has a grandparent, which is black.
LEMMA FamilyFound ==
  ASSUME NEW m, NEW n \in Used(m), RedBlack(m, n), m.red[n], m.red[m.parent[n]]
  PROVE  LET a == m.parent[n]
             g == m.parent[a]
             s == IF a = m.kid["left"][g] THEN "left" ELSE "right"
         IN Family(m, n, a, g, s, m.kid[Other(s)][g])
<1> DEFINE a == m.parent[n]
           g == m.parent[a]
           s == IF a = m.kid["left"][g] THEN "left" ELSE "right"
           u == m.kid[Other(s)][g]
<1>1. /\ nil \notin Used(m) /\ m.root \in Used(m) \cup {nil}
      /\ \A k \in Used(m), t \in Side : m.kid[t][k] \in Used(m) \cup {nil}
      /\ \A k \in Used(m) :
           IF k = m.root THEN m.parent[k] = nil
           ELSE m.parent[k] \in Used(m) /\ \E t \in Side : m.kid[t][m.parent[k]] = k
      /\ \A k \in Used(m), t \in Side : m.kid[t][k] # nil =>
           /\ m.kid[t][k] # k /\ m.kid[t][k] # m.kid[Other(t)][k]
           /\ m.parent[m.kid[t][k]] = k /\ m.kid[t][k] # m.root
           /\ m.parent[k] # m.kid[t][k]
  BY TreeLinks DEF RedBlack
<1>2. /\ ~m.red[nil] /\ (m.red[m.root] => m.root = n)
      /\ \A k \in Used(m), t \in Side :
           m.red[k] /\ m.red[m.kid[t][k]] => m.kid[t][k] = n
  BY DEF RedBlack, Calm
<1>3. n # m.root /\ a \in Used(m) /\ \E t \in Side : m.kid[t][a] = n
  BY <1>1, <1>2
<1>4. n # a /\ ~m.red[m.root] /\ a # m.root
  BY <1>1, <1>2, <1>3
<1>5. g \in Used(m) /\ \E t \in Side : m.kid[t][g] = a
  BY <1>1, <1>3, <1>4
<1>6. s \in Side /\ m.kid[s][g] = a
  BY <1>5 DEF Side
<1>7. a # g
  <2>1. a # nil /\ g \in Used(m)
    BY <1>1, <1>3, <1>5
  <2>2. m.kid[s][g] # nil => m.kid[s][g] # g
    BY ONLY <1>1, <1>6, <2>1
  <2>3. QED
    BY <1>6, <2>1, <2>2
<1>8. ~m.red[g] /\ n # g
  <2>1. m.red[a] /\ a # n
    BY <1>4
  <2>2. ~m.red[g]
    BY <1>2, <1>5, <1>6, <2>1
  <2>3. QED
    BY <2>2
<1> HIDE DEF s, g, a
<1>9. u \in Used(m) \cup {nil} /\ u # a /\ u # g /\ u # n
  <2>1. u \in Used(m) \cup {nil}
    BY <1>1, <1>5, <1>6, Sides
  <2>2. u # nil => u # g /\ m.parent[u] = g
    BY <1>1, <1>5, <1>6, Sides
  <2>3. a # u
    BY <1>1, <1>3, <1>5, <1>6
  <2>4. QED
    BY <1>1, <1>3, <1>5, <1>7, <2>1, <2>2, <2>3 DEF a
<1>10. QED
  BY <1>2, <1>3, <1>4, <1>5, <1>6, <1>7, <1>8, <1>9 DEF Family, s, a, g

\* What fixup leaves alone: the entries.
Kept(w, m) == w.start = m.start /\ w.end = m.end /\ w.next = m.next

\* Case 1 of fixup.
Recoloured(w, m, a, u, g) ==
  w = Paint(Paint(Paint(m, a, FALSE), u, FALSE), g, TRUE)

\* Case 1 moves the node that may be red under red two levels up.
LEMMA RecolourKeeps ==
  ASSUME NEW m, NEW n, RedBlack(m, n), NEW a, NEW g, NEW s, NEW u,
         Family(m, n, a, g, s, u), m.red[u], NEW w, Recoloured(w, m, a, u, g)
  PROVE  RedBlack(w, g) /\ w.red[g] /\ g \in Used(w) /\ Kept(w, m)
<1> DEFINE v == Paint(Paint(m, a, FALSE), u, FALSE)
<1>0. w = Paint(v, g, TRUE)
  BY DEF Recoloured
<1>1. /\ nil \notin Used(m) /\ Used(m) \subseteq Node /\ nil \in Node
      /\ 0 .. m.next - 1 = Used(m) \cup {nil}
      /\ \A k \in Used(m), t \in Side : m.kid[t][k] \in Used(m) \cup {nil}
      /\ \A k \in Used(m), t \in Side : m.kid[t][k] # nil =>
           m.kid[t][k] # k /\ m.parent[m.kid[t][k]] = k
  BY TreeLinks DEF RedBlack
<1>2. /\ n \in Used(m) /\ a \in Used(m) /\ g \in Used(m) /\ s \in Side
      /\ m.kid[s][g] = a /\ u = m.kid[Other(s)][g] /\ u \in Used(m)
      /\ a = m.parent[n] /\ n # a /\ n # g /\ a # g /\ u # a /\ u # g /\ u # n
      /\ m.red[a] /\ ~m.red[g] /\ ~m.red[m.root]
  BY DEF Family, RedBlack, Calm
<1>3. m.parent[a] = g /\ m.parent[u] = g
  BY <1>1, <1>2, Sides
<1>4. /\ w \in Map /\ w.kid = m.kid /\ w.parent = m.parent /\ w.start = m.start
      /\ w.root = m.root /\ w.next = m.next /\ Used(w) = Used(m) /\ w.end = m.end
      /\ \A k \in Node : w.red[k] <=> k = g \/ (k # u /\ k # a /\ m.red[k])
  <2>1. m \in Map /\ a \in Node /\ u \in Node /\ g \in Node
    BY <1>1, <1>2 DEF RedBlack
  <2>2. WithRed(Paint(m, a, FALSE), m, a, FALSE)
    BY <2>1, Assignments
  <2>3. WithRed(v, Paint(m, a, FALSE), u, FALSE)
    <3>1. Paint(m, a, FALSE) \in Map
      BY <2>2 DEF WithRed
    <3>2. QED
      BY <2>1, <3>1, Assignments
  <2>4. WithRed(w, v, g, TRUE)
    <3>1. v \in Map
      BY <2>3 DEF WithRed
    <3> HIDE DEF v
    <3>2. QED
      BY <1>0, <2>1, <3>1, Assignments
  <2> HIDE DEF v
  <2>5. QED
    BY <2>2, <2>3, <2>4 DEF WithRed, Used
<1> HIDE DEF v
<1>5. Tree(w)
  BY <1>4, PaintTree DEF RedBlack
<1>6. \E h : Even(w, h)
  <2>1. PICK h : Even(m, h)
    BY DEF RedBlack
  <2>2. /\ h \in [0 .. m.next - 1 -> Nat] /\ h[nil] = 0
        /\ \A k \in Used(m), t \in Side :
             /\ m.red[k] => h[k] = h[m.kid[t][k]]
             /\ ~m.red[k] => h[k] = h[m.kid[t][k]] + 1
    BY <2>1 DEF Even
  <2> DEFINE i == [k \in 0 .. m.next - 1 |-> IF k = a \/ k = u THEN h[k] + 1 ELSE h[k]]
  <2>3. /\ i \in [0 .. m.next - 1 -> Nat] /\ i[nil] = 0
        /\ \A k \in Used(m) \cup {nil} : i[k] = IF k = a \/ k = u THEN h[k] + 1 ELSE h[k]
    BY <1>1, <1>2, <2>2
  <2> HIDE DEF i
  <2>4. ASSUME NEW k \in Used(m), NEW t \in Side
        PROVE  /\ w.red[k] => i[k] = i[m.kid[t][k]]
               /\ ~w.red[k] => i[k] = i[m.kid[t][k]] + 1
    <3>1. /\ m.red[k] => h[k] = h[m.kid[t][k]]
          /\ ~m.red[k] => h[k] = h[m.kid[t][k]] + 1
      BY <2>2
    <3>2. h[k] \in Nat /\ h[m.kid[t][k]] \in Nat /\ m.kid[t][k] \in Used(m) \cup {nil}
      BY <1>1, <2>2
    <3>3. CASE k = g
      <4>1. m.kid[t][k] = a \/ m.kid[t][k] = u
        BY <1>2, <3>3, Sides
      <4>2. i[m.kid[t][k]] = h[m.kid[t][k]] + 1
        BY <2>3, <3>2, <4>1
      <4>3. i[k] = h[k]
        BY <1>2, <2>3, <3>3
      <4>4. w.red[k] /\ ~m.red[k]
        BY <1>1, <1>2, <1>4, <3>3
      <4>5. QED
        BY <3>1, <3>2, <4>2, <4>3, <4>4
    <3>4. CASE k # g
      <4>1. m.kid[t][k] # a /\ m.kid[t][k] # u
        BY <1>1, <1>2, <1>3, <3>4
      <4>2. i[m.kid[t][k]] = h[m.kid[t][k]]
        BY <2>3, <3>2, <4>1
      <4>3. i[k] = IF k = a \/ k = u THEN h[k] + 1 ELSE h[k]
        BY <2>3
      <4>4. w.red[k] <=> k # u /\ k # a /\ m.red[k]
        BY <1>1, <1>4, <3>4
      <4>5. (k = u \/ k = a) => m.red[k]
        BY <1>2
      <4>6. QED
        BY <3>1, <3>2, <4>2, <4>3, <4>4, <4>5
    <3>5. QED
      BY <3>3, <3>4
  <2>5. Even(w, i)
    BY <1>4, <2>3, <2>4 DEF Even
  <2>6. QED
    BY <2>5
<1>7. Calm(w, g)
  <2>1. /\ ~m.red[nil]
        /\ \A k \in Used(m), t \in Side :
             m.red[k] /\ m.red[m.kid[t][k]] => m.kid[t][k] = n
    BY DEF RedBlack, Calm
  <2>2. ~w.red[nil]
    BY <1>1, <1>2, <1>4, <2>1
  <2>3. ASSUME NEW k \in Used(m), NEW t \in Side, w.red[k], w.red[m.kid[t][k]],
               m.kid[t][k] # g
        PROVE  FALSE
    <3>1. m.kid[t][k] \in Used(m)
      BY <1>1, <2>2, <2>3
    <3>2. m.kid[t][k] # a /\ m.kid[t][k] # u /\ m.red[m.kid[t][k]]
      BY <1>1, <1>4, <2>3, <3>1
    <3>3. k # g
      BY <1>2, <3>2, Sides
    <3>4. m.red[k] /\ k # a
      BY <1>1, <1>4, <2>3, <3>3
    <3>5. m.kid[t][k] = n
      BY <2>1, <3>2, <3>4
    <3>6. QED
      BY <1>1, <1>2, <3>1, <3>4, <3>5
  <2>4. QED
    BY <1>4, <2>2, <2>3 DEF Calm
<1>8. w.red[w.root] => w.root = g
  <2>1. m.root \in Used(m) \cup {nil}
    BY TreeLinks DEF RedBlack
  <2>2. ASSUME m.root # g PROVE ~w.red[m.root]
    <3>1. m.root \in Node
      BY <1>1, <2>1
    <3>2. w.red[m.root] <=> m.root # u /\ m.root # a /\ m.red[m.root]
      BY <1>4, <2>2, <3>1
    <3>3. QED
      BY <1>2, <3>2
  <2>3. QED
    BY <1>4, <2>2
<1>9. w.red[g] /\ g \in Used(w)
  BY <1>1, <1>2, <1>4
<1>10. QED
  BY <1>4, <1>5, <1>6, <1>7, <1>8, <1>9 DEF RedBlack, Kept

\* The facts on colours that fixup's invariant holds.
LEMMA Colours ==
  ASSUME NEW m, NEW n, RedBlack(m, n)
  PROVE  /\ m \in Map /\ ~m.red[nil] /\ (m.red[m.root] => m.root = n)
         /\ \A k \in Used(m), t \in Side :
              m.red[k] /\ m.red[m.kid[t][k]] => m.kid[t][k] = n
         /\ \A k \in Node : m.red[k] \in BOOLEAN
  BY DEF RedBlack, Calm, Map

\* What there is to know of w, which is m turned at n, its other child being y.
TurnedAt(w, m, n, s, y) ==
  /\ Tree(w) /\ w \in Map /\ Used(w) = Used(m) /\ w.red = m.red
  /\ w.next = m.next /\ w.start = m.start /\ w.end = m.end
  /\ w.kid[s][y] = n /\ w.kid[Other(s)][y] = m.kid[Other(s)][y]
  /\ w.kid[s][n] = m.kid[s][n] /\ w.kid[Other(s)][n] = m.kid[s][y]
  /\ \A k \in Used(m), t \in Side : k # n /\ k # y =>
       w.kid[t][k] = IF m.kid[t][k] = n THEN y ELSE m.kid[t][k]
  /\ w.parent[n] = y /\ w.parent[y] = m.parent[n]
  /\ w.root = IF m.parent[n] = nil THEN y ELSE m.root

\* What a rotation leaves of a tree.
LEMMA RotateRedBlack ==
  ASSUME NEW m \in Map, Tree(m), NEW n \in Used(m), NEW s \in Side,
         m.kid[Other(s)][n] # nil
  PROVE  TurnedAt(Rotate(m, n, s), m, n, s, m.kid[Other(s)][n])
<1> DEFINE o == Other(s)
           y == m.kid[o][n]
           b == m.kid[s][y]
           p == m.parent[n]
           w == Rotate(m, n, s)
<1>1. PICK B : Shape(m, B) /\ Linked(m, B)
  BY DEF Tree
<1>2. /\ Rotated(w, m, n, s, y, b, p)
      /\ Shape(w, Turn2(m, B, n, s)) /\ Linked(w, Turn2(m, B, n, s))
  BY <1>1, RotateTree
<1>3. Tree(w)
  BY <1>2 DEF Tree
<1>4. /\ Used(m) \subseteq Node /\ nil \notin Used(m) /\ y \in Used(m) /\ y # n
      /\ p # y /\ p # n
      /\ \A k \in Used(m), t \in Side : m.kid[t][k] = n => k = p
      /\ nil \in Node
  <2>1. y \in Used(m) /\ y # n /\ p # y
    BY TreeLinks, Sides
  <2>2. p # n
    <3>1. IF n = m.root THEN p = nil ELSE \E t \in Side : m.kid[t][p] = n /\ p \in Used(m)
      BY TreeLinks
    <3>2. QED
      BY <3>1, TreeLinks
  <2>3. QED
    BY <2>1, <2>2, TreeLinks
<1>5. o \in Side /\ o # s
  BY Sides
<1> HIDE DEF w, b, p, y, o
<1>6. /\ w \in Map /\ w.red = m.red /\ w.next = m.next /\ w.start = m.start
      /\ w.end = m.end /\ Used(w) = Used(m)
      /\ w.root = IF p = nil THEN y ELSE m.root
      /\ w.parent[n] = y /\ w.parent[y] = p
  BY <1>2, <1>4 DEF Rotated, Used
<1>7. \A t \in Side, k \in Node :
        w.kid[t][k] = IF k = y /\ t = s THEN n
                     ELSE IF k = n /\ t = o THEN b
                     ELSE IF p # nil /\ k = p /\ m.kid[t][p] = n THEN y
                     ELSE m.kid[t][k]
  BY <1>2 DEF Rotated, o
<1>8. /\ w.kid[s][y] = n /\ w.kid[o][y] = m.kid[o][y]
      /\ w.kid[s][n] = m.kid[s][n] /\ w.kid[o][n] = b
  BY <1>4, <1>5, <1>7
<1>9. ASSUME NEW k \in Used(m), NEW t \in Side, k # n, k # y
      PROVE  w.kid[t][k] = IF m.kid[t][k] = n THEN y ELSE m.kid[t][k]
  BY <1>4, <1>7, <1>9
<1>10. QED
  BY <1>3, <1>6, <1>8, <1>9 DEF TurnedAt, w, b, p, y, o

\* The first of two rotations: node and parent change places.
LEMMA InnerTurn ==
  ASSUME NEW m, NEW n, RedBlack(m, n), NEW a, NEW g, NEW s, NEW u,
         Family(m, n, a, g, s, u), ~m.red[u], m.kid[Other(s)][a] = n
  PROVE  LET w == Rotate(m, a, s)
         IN /\ RedBlack(w, a) /\ Family(w, a, n, g, s, u) /\ w.kid[s][n] = a
            /\ w.red = m.red /\ Kept(w, m)
<1> DEFINE o == Other(s)
           b == m.kid[s][n]
           w == Rotate(m, a, s)
<1>1. /\ n \in Used(m) /\ a \in Used(m) /\ g \in Used(m) /\ s \in Side
      /\ a = m.parent[n] /\ g = m.parent[a]
      /\ m.kid[s][g] = a /\ u = m.kid[o][g]
      /\ n # m.root /\ a # m.root /\ n # a /\ n # g /\ a # g
      /\ u \in Used(m) \cup {nil} /\ u # a /\ u # g /\ u # n
      /\ m.red[n] /\ m.red[a] /\ ~m.red[g] /\ ~m.red[m.root]
  BY DEF Family
<1>2. /\ m \in Map /\ ~m.red[nil] /\ (m.red[m.root] => m.root = n)
      /\ \A k \in Used(m), t \in Side :
           m.red[k] /\ m.red[m.kid[t][k]] => m.kid[t][k] = n
  BY Colours
<1>3. /\ nil \notin Used(m) /\ Used(m) \subseteq Node /\ nil \in Node
      /\ 0 .. m.next - 1 = Used(m) \cup {nil}
      /\ \A k \in Used(m), t \in Side : m.kid[t][k] \in Used(m) \cup {nil}
      /\ \A k \in Used(m), t \in Side : m.kid[t][k] # nil =>
           /\ m.kid[t][k] # k /\ m.parent[m.kid[t][k]] = k
           /\ m.kid[t][k] # m.kid[Other(t)][k] /\ m.kid[t][k] # m.root
  BY TreeLinks DEF RedBlack
<1>4. o \in Side /\ o # s /\ \A t \in Side : t = s \/ t = o
  BY <1>1, Sides
<1>5. m.kid[o][a] = n /\ m.kid[o][a] # nil
  BY <1>1, <1>3
<1>6. /\ Tree(w) /\ w \in Map /\ Used(w) = Used(m) /\ w.red = m.red
      /\ w.next = m.next /\ w.start = m.start /\ w.end = m.end
      /\ w.kid[s][n] = a /\ w.kid[o][n] = m.kid[o][n]
      /\ w.kid[s][a] = m.kid[s][a] /\ w.kid[o][a] = b
      /\ \A k \in Used(m), t \in Side : k # a /\ k # n =>
           w.kid[t][k] = IF m.kid[t][k] = a THEN n ELSE m.kid[t][k]
      /\ w.parent[a] = n /\ w.parent[n] = g /\ w.root = m.root
  <2>1. m.parent[a] # nil
    BY <1>1, <1>3
  <2>2. Tree(m)
    BY DEF RedBlack
  <2>3. TurnedAt(w, m, a, s, n)
    BY <1>1, <1>2, <1>5, <2>2, RotateRedBlack
  <2> HIDE DEF w
  <2>4. QED
    BY <1>1, <2>1, <2>3 DEF TurnedAt, o, b
<1> HIDE DEF w, o
<1>7. w.kid[s][g] = n /\ w.kid[o][g] = u
  BY <1>1, <1>4, <1>6
<1>8. Family(w, a, n, g, s, u)
  BY <1>1, <1>6, <1>7, <1>4 DEF Family, o
<1>9. \E h : Even(w, h)
  <2>1. PICK h : Even(m, h)
    BY DEF RedBlack
  <2>2. /\ h \in [0 .. m.next - 1 -> Nat] /\ h[nil] = 0
        /\ \A k \in Used(m), t \in Side :
             /\ m.red[k] => h[k] = h[m.kid[t][k]]
             /\ ~m.red[k] => h[k] = h[m.kid[t][k]] + 1
    BY <2>1 DEF Even
  <2>3. /\ \A k \in Used(m) \cup {nil} : h[k] \in Nat
        /\ h[a] = h[n]
        /\ \A t \in Side : h[a] = h[m.kid[t][a]] /\ h[n] = h[m.kid[t][n]]
    <3>1. \A k \in Used(m) \cup {nil} : h[k] \in Nat
      BY <1>3, <2>2
    <3>2. \A t \in Side : h[a] = h[m.kid[t][a]] /\ h[n] = h[m.kid[t][n]]
      <4>1. a \in Used(m) /\ n \in Used(m) /\ m.red[a] /\ m.red[n]
        BY <1>1
      <4>2. QED
        BY <2>2, <4>1
    <3>3. QED
      BY <1>4, <1>5, <3>1, <3>2
  <2>4. ASSUME NEW k \in Used(m), NEW t \in Side
        PROVE  /\ w.red[k] => h[k] = h[w.kid[t][k]]
               /\ ~w.red[k] => h[k] = h[w.kid[t][k]] + 1
    <3>1. CASE k = n
      <4>1. h[w.kid[t][n]] = h[n]
        BY <1>4, <1>6, <2>3
      <4>2. QED
        BY <1>1, <1>6, <2>3, <3>1, <4>1
    <3>2. CASE k = a
      <4>1. h[w.kid[t][a]] = h[a]
        <5>1. h[m.kid[s][a]] = h[a] /\ h[b] = h[a]
          BY <1>1, <2>3
        <5>2. QED
          BY <1>4, <1>6, <5>1
      <4>2. QED
        BY <1>1, <1>6, <2>3, <3>2, <4>1
    <3>3. CASE k # a /\ k # n
      <4>1. h[w.kid[t][k]] = h[m.kid[t][k]]
        BY <1>6, <2>3, <3>3
      <4>2. QED
        BY <1>6, <2>2, <4>1
    <3>4. QED
      BY <3>1, <3>2, <3>3
  <2>5. Even(w, h)
    BY <1>6, <2>2, <2>4 DEF Even
  <2>6. QED
    BY <2>5
<1>10. Calm(w, a)
  <2>1. ASSUME NEW k \in Used(m), NEW t \in Side, m.red[k], m.red[w.kid[t][k]]
        PROVE  w.kid[t][k] = a
    <3>1. CASE k = n
      <4>1. w.kid[t][n] = a \/ w.kid[t][n] = m.kid[o][n]
        BY <1>4, <1>6
      <4>2. ~m.red[m.kid[o][n]]
        <5>1. m.kid[o][n] # n
          <6>1. n \in Used(m) /\ n # nil /\ o \in Side
            BY <1>1, <1>3, <1>4
          <6>2. m.kid[o][n] # nil => m.kid[o][n] # n
            BY ONLY <1>3, <6>1
          <6>3. QED
            BY <6>1, <6>2
        <5>2. QED
          BY <1>1, <1>2, <1>4, <5>1
      <4>3. QED
        BY <2>1, <3>1, <4>1, <4>2
    <3>2. CASE k = a
      <4>1. w.kid[t][a] = b \/ w.kid[t][a] = m.kid[s][a]
        BY <1>4, <1>6
      <4>2. ~m.red[m.kid[s][a]] /\ ~m.red[b]
        <5>1. m.kid[s][a] # n
          <6>1. a \in Used(m) /\ n # nil /\ s \in Side /\ Other(s) = o
            BY <1>1, <1>3 DEF o
          <6>2. m.kid[s][a] # nil => m.kid[s][a] # m.kid[Other(s)][a]
            BY ONLY <1>3, <6>1
          <6>3. QED
            BY <1>5, <6>1, <6>2
        <5>2. b # n
          <6>0. n \in Used(m) /\ s \in Side
            BY <1>1
          <6>1. n \in Used(m) /\ n # nil /\ s \in Side
            BY <6>0 DEF Used, nil
          <6>2. m.kid[s][n] # nil => m.kid[s][n] # n
            BY ONLY <1>3, <6>1
          <6>3. QED
            BY <6>1, <6>2 DEF b
        <5>3. m.red[n] /\ m.red[a] /\ n \in Used(m) /\ a \in Used(m) /\ s \in Side
          BY <1>1
        <5>4. QED
          BY <1>2, <5>1, <5>2, <5>3 DEF b
      <4>3. QED
        BY <2>1, <3>2, <4>1, <4>2
    <3>3. CASE k # a /\ k # n
      <4>1. CASE m.kid[t][k] = a
        <5>1. k = g
          <6>1. a # nil /\ m.parent[a] = g
            BY <1>1, <1>3
          <6>2. QED
            BY <1>3, <4>1, <6>1
        <5>2. ~m.red[g]
          BY <1>1
        <5>3. QED
          BY <2>1, <5>1, <5>2
      <4>2. CASE m.kid[t][k] # a
        <5>1. w.kid[t][k] = m.kid[t][k]
          BY <1>6, <3>3, <4>2
        <5>2. m.kid[t][k] = n
          BY <1>2, <2>1, <5>1
        <5>3. n # nil /\ m.parent[n] = a
          BY <1>1, <1>3
        <5>4. QED
          BY <1>3, <3>3, <5>2, <5>3
      <4>3. QED
        BY <4>1, <4>2
    <3>4. QED
      BY <3>1, <3>2, <3>3
  <2>2. QED
    BY <1>2, <1>6, <2>1 DEF Calm
<1>11. RedBlack(w, a)
  BY <1>1, <1>6, <1>9, <1>10 DEF RedBlack
<1>12. QED
  BY <1>6, <1>8, <1>11 DEF w, Kept

\* The last rotation: the red pair is shared out under a black node.
SharedOut(w, m, a, g, s) ==
  w = Rotate(Paint(Paint(m, a, FALSE), g, TRUE), g, Other(s))

LEMMA OuterTurn ==
  ASSUME NEW m, NEW n, RedBlack(m, n), NEW a, NEW g, NEW s, NEW u,
         Family(m, n, a, g, s, u), ~m.red[u], m.kid[s][a] = n,
         NEW w, SharedOut(w, m, a, g, s)
  PROVE  RedBlack(w, n) /\ w.red[n] /\ n \in Used(w) /\ Kept(w, m)
<1> DEFINE o == Other(s)
           b == m.kid[o][a]
           v == Paint(Paint(m, a, FALSE), g, TRUE)
<1>0. w = Rotate(v, g, o)
  BY DEF SharedOut
<1>1. /\ n \in Used(m) /\ a \in Used(m) /\ g \in Used(m) /\ s \in Side
      /\ a = m.parent[n] /\ g = m.parent[a]
      /\ m.kid[s][g] = a /\ u = m.kid[o][g]
      /\ n # m.root /\ a # m.root /\ n # a /\ n # g /\ a # g
      /\ u \in Used(m) \cup {nil} /\ u # a /\ u # g /\ u # n
      /\ m.red[n] /\ m.red[a] /\ ~m.red[g] /\ ~m.red[m.root]
  BY DEF Family
<1>2. /\ m \in Map /\ ~m.red[nil] /\ (m.red[m.root] => m.root = n)
      /\ \A k \in Used(m), t \in Side :
           m.red[k] /\ m.red[m.kid[t][k]] => m.kid[t][k] = n
  BY Colours
<1>3. /\ nil \notin Used(m) /\ Used(m) \subseteq Node /\ nil \in Node
      /\ 0 .. m.next - 1 = Used(m) \cup {nil} /\ m.root \in Used(m) \cup {nil}
      /\ \A k \in Used(m), t \in Side : m.kid[t][k] \in Used(m) \cup {nil}
      /\ \A k \in Used(m), t \in Side : m.kid[t][k] # nil =>
           /\ m.kid[t][k] # k /\ m.parent[m.kid[t][k]] = k
           /\ m.kid[t][k] # m.kid[Other(t)][k] /\ m.kid[t][k] # m.root
           /\ m.parent[k] # m.kid[t][k]
  BY TreeLinks DEF RedBlack
<1>4. o \in Side /\ o # s /\ Other(o) = s /\ \A t \in Side : t = s \/ t = o
  BY <1>1, Sides
<1>5. /\ v \in Map /\ v.kid = m.kid /\ v.parent = m.parent /\ v.start = m.start
      /\ v.end = m.end /\ v.root = m.root /\ v.next = m.next /\ Used(v) = Used(m)
      /\ \A k \in Node : v.red[k] <=> k = g \/ (k # a /\ m.red[k])
  <2>1. a \in Node /\ g \in Node
    BY <1>1, <1>3
  <2>2. WithRed(Paint(m, a, FALSE), m, a, FALSE)
    BY <1>2, <2>1, Assignments
  <2>3. WithRed(v, Paint(m, a, FALSE), g, TRUE)
    <3>1. Paint(m, a, FALSE) \in Map
      BY <2>2 DEF WithRed
    <3>2. QED
      BY <2>1, <3>1, Assignments
  <2> HIDE DEF v
  <2>4. QED
    BY <2>2, <2>3 DEF WithRed, Used
<1>6. Tree(v)
  <2> HIDE DEF v
  <2> QED BY <1>5, PaintTree DEF RedBlack
<1> HIDE DEF v, o
<1>7. /\ Tree(w) /\ w \in Map /\ Used(w) = Used(m) /\ w.red = v.red
      /\ w.next = m.next /\ w.start = m.start /\ w.end = m.end
      /\ w.kid[o][a] = g /\ w.kid[s][a] = n
      /\ w.kid[o][g] = u /\ w.kid[s][g] = b
      /\ \A k \in Used(m), t \in Side : k # g /\ k # a =>
           w.kid[t][k] = IF m.kid[t][k] = g THEN a ELSE m.kid[t][k]
      /\ w.root = IF m.parent[g] = nil THEN a ELSE m.root
  <2>1. v.kid[Other(o)][g] = a
    BY <1>1, <1>4, <1>5
  <2>2. a # nil /\ g \in Used(v)
    BY <1>1, <1>3, <1>5
  <2>3. TurnedAt(w, v, g, o, a)
    BY <1>0, <1>4, <1>5, <1>6, <2>1, <2>2, RotateRedBlack
  <2>4. QED
    <3>1. /\ Tree(w) /\ w \in Map /\ Used(w) = Used(v) /\ w.red = v.red
          /\ w.next = v.next /\ w.start = v.start /\ w.end = v.end
          /\ w.kid[o][a] = g /\ w.kid[Other(o)][a] = v.kid[Other(o)][a]
          /\ w.kid[o][g] = v.kid[o][g] /\ w.kid[Other(o)][g] = v.kid[o][a]
          /\ w.root = IF v.parent[g] = nil THEN a ELSE v.root
      BY <2>3 DEF TurnedAt
    <3>2. \A k \in Used(m), t \in Side : k # g /\ k # a =>
            w.kid[t][k] = IF m.kid[t][k] = g THEN a ELSE m.kid[t][k]
      BY <1>5, <2>3 DEF TurnedAt
    <3>3. /\ Used(v) = Used(m) /\ v.kid = m.kid /\ v.next = m.next
          /\ v.start = m.start /\ v.end = m.end /\ v.root = m.root
          /\ v.parent = m.parent /\ Other(o) = s
      BY <1>4, <1>5
    <3>4. m.kid[s][a] = n /\ m.kid[o][g] = u
      BY <1>1
    <3>5. QED
      BY <3>1, <3>2, <3>3, <3>4 DEF b
<1> HIDE DEF b
<1>8. b \in Used(m) \cup {nil} /\ b # n /\ b # a /\ b # g
  <2>1. b \in Used(m) \cup {nil}
    BY <1>1, <1>3, <1>4 DEF b
  <2>2. b # nil => b # a /\ b # m.kid[s][a] /\ b # m.parent[a]
    <3>1. a \in Used(m) /\ o \in Side /\ Other(o) = s
      BY <1>1, <1>4
    <3>2. QED
      BY <1>3, <3>1 DEF b
  <2>3. m.kid[s][a] = n /\ m.parent[a] = g /\ nil \notin {n, a, g}
    <3>1. m.kid[s][a] = n /\ m.parent[a] = g
      BY <1>1
    <3>2. n \in Used(m) /\ a \in Used(m) /\ g \in Used(m)
      BY <1>1
    <3>3. QED
      BY <3>1, <3>2 DEF Used, nil
  <2>4. QED
    BY <2>1, <2>2, <2>3
<1>9. \E h : Even(w, h)
  <2>1. PICK h : Even(m, h)
    BY DEF RedBlack
  <2>2. /\ h \in [0 .. m.next - 1 -> Nat] /\ h[nil] = 0
        /\ \A k \in Used(m), t \in Side :
             /\ m.red[k] => h[k] = h[m.kid[t][k]]
             /\ ~m.red[k] => h[k] = h[m.kid[t][k]] + 1
    BY <2>1 DEF Even
  <2>3. \A k \in Used(m) \cup {nil} : h[k] \in Nat
    BY <1>3, <2>2
  <2>4. h[a] = h[n] /\ h[a] = h[b] /\ h[g] = h[a] + 1 /\ h[u] = h[a]
    <3>1. h[a] = h[n] /\ h[a] = h[b]
      <4>1. a \in Used(m) /\ m.red[a] /\ m.kid[s][a] = n /\ s \in Side /\ o \in Side
        BY <1>1, <1>4
      <4>2. QED
        BY <2>2, <4>1 DEF b
    <3>2. h[g] = h[a] + 1 /\ h[g] = h[u] + 1
      <4>1. /\ g \in Used(m) /\ ~m.red[g] /\ m.kid[s][g] = a /\ m.kid[o][g] = u
            /\ s \in Side /\ o \in Side
        BY <1>1, <1>4
      <4>2. QED
        BY <2>2, <4>1
    <3>3. h[a] \in Nat /\ h[u] \in Nat
      BY <1>1, <2>3
    <3>4. QED
      BY <3>1, <3>2, <3>3
  <2> DEFINE i == [k \in 0 .. m.next - 1 |-> IF k = a THEN h[g]
                                             ELSE IF k = g THEN h[a] ELSE h[k]]
  <2>5. /\ i \in [0 .. m.next - 1 -> Nat] /\ i[nil] = 0
        /\ \A k \in Used(m) \cup {nil} :
             i[k] = IF k = a THEN h[g] ELSE IF k = g THEN h[a] ELSE h[k]
    <3>1. /\ 0 .. m.next - 1 = Used(m) \cup {nil} /\ nil # a /\ nil # g
          /\ h[a] \in Nat /\ h[g] \in Nat
      <4>1. a \in Used(m) /\ g \in Used(m)
        BY <1>1
      <4>2. QED
        BY <1>3, <2>3, <4>1
    <3>2. \A k \in Used(m) \cup {nil} :
             i[k] = IF k = a THEN h[g] ELSE IF k = g THEN h[a] ELSE h[k]
      BY <3>1
    <3>3. i \in [0 .. m.next - 1 -> Nat]
      BY <2>3, <3>1
    <3>4. QED
      BY <2>2, <3>1, <3>2, <3>3
  <2> HIDE DEF i
  <2>6. ASSUME NEW k \in Used(m), NEW t \in Side
        PROVE  /\ w.red[k] => i[k] = i[w.kid[t][k]]
               /\ ~w.red[k] => i[k] = i[w.kid[t][k]] + 1
    <3>1. CASE k = a
      <4>1. i[w.kid[t][a]] = h[a]
        <5>1. i[n] = h[a] /\ i[g] = h[a]
          BY <1>1, <2>4, <2>5
        <5>2. w.kid[t][a] = n \/ w.kid[t][a] = g
          BY <1>4, <1>7
        <5>3. QED
          BY <5>1, <5>2
      <4>2. ~w.red[a]
        BY <1>1, <1>3, <1>5, <1>7
      <4>3. i[a] = h[a] + 1
        <5>1. a \in Used(m) \cup {nil} /\ h[g] = h[a] + 1
          BY <1>1, <2>4
        <5>2. QED
          BY <2>5, <5>1
      <4>4. QED
        BY <3>1, <4>1, <4>2, <4>3
    <3>2. CASE k = g
      <4>1. i[w.kid[t][g]] = h[a]
        <5>1. i[u] = h[a] /\ i[b] = h[a]
          BY <1>1, <1>8, <2>4, <2>5
        <5>2. w.kid[t][g] = u \/ w.kid[t][g] = b
          BY <1>4, <1>7
        <5>3. QED
          BY <5>1, <5>2
      <4>2. w.red[g]
        BY <1>1, <1>3, <1>5, <1>7
      <4>3. i[g] = h[a]
        BY <1>1, <2>5
      <4>4. QED
        BY <3>2, <4>1, <4>2, <4>3
    <3>3. CASE k # a /\ k # g
      <4>1. m.kid[t][k] # a
        <5>1. m.parent[a] = g /\ a # nil
          <6>1. a \in Used(m) /\ m.parent[a] = g
            BY <1>1
          <6>2. QED
            BY <6>1 DEF Used, nil
        <5>2. m.kid[t][k] # nil => m.parent[m.kid[t][k]] = k
          BY <1>3
        <5>3. QED
          BY <3>3, <5>1, <5>2
      <4>2. i[w.kid[t][k]] = h[m.kid[t][k]]
        <5>1. w.kid[t][k] = IF m.kid[t][k] = g THEN a ELSE m.kid[t][k]
          BY <1>7, <3>3
        <5>2. m.kid[t][k] \in Used(m) \cup {nil} /\ i[a] = h[g]
          BY <1>1, <1>3, <2>5
        <5>3. QED
          BY <2>5, <4>1, <5>1, <5>2
      <4>3. (w.red[k] <=> m.red[k]) /\ i[k] = h[k]
        BY <1>3, <1>5, <1>7, <2>5, <3>3
      <4>4. QED
        BY <2>2, <4>2, <4>3
    <3>4. QED
      BY <3>1, <3>2, <3>3
  <2>7. Even(w, i)
    BY <1>7, <2>5, <2>6 DEF Even
  <2>8. QED
    BY <2>7
<1>10. ~w.red[nil] /\ ~w.red[a] /\ \A k \in Node : k # a /\ k # g => (w.red[k] <=> m.red[k])
  BY <1>1, <1>2, <1>3, <1>5, <1>7
<1>11. ~m.red[b]
  BY <1>1, <1>2, <1>4, <1>8 DEF b
<1>12. Calm(w, n)
  <2>1. ASSUME NEW k \in Used(m), NEW t \in Side, w.red[k], w.red[w.kid[t][k]]
        PROVE  w.kid[t][k] = n
    <3>1. k # a
      BY <1>10, <2>1
    <3>2. CASE k = g
      <4>1. w.kid[t][g] = u \/ w.kid[t][g] = b
        BY <1>4, <1>7
      <4>2. ~w.red[u] /\ ~w.red[b]
        <5>1. /\ u \in Node /\ u # a /\ u # g /\ ~m.red[u]
              /\ b \in Node /\ b # a /\ b # g /\ ~m.red[b]
          <6>0. u \in Used(m) \cup {nil} /\ u # a /\ u # g
            BY <1>1
          <6>1. u \in Node /\ u # a /\ u # g /\ ~m.red[u]
            BY <1>3, <6>0
          <6>2. b \in Node /\ b # a /\ b # g
            BY <1>3, <1>8
          <6>3. QED
            BY <1>11, <6>1, <6>2
        <5>2. QED
          BY <1>10, <5>1
      <4>3. QED
        BY <2>1, <3>2, <4>1, <4>2
    <3>3. CASE k # g
      <4>1. m.kid[t][k] # a
        <5>1. m.parent[a] = g /\ a # nil
          <6>1. a \in Used(m) /\ m.parent[a] = g
            BY <1>1
          <6>2. QED
            BY <6>1 DEF Used, nil
        <5>2. m.kid[t][k] # nil => m.parent[m.kid[t][k]] = k
          BY <1>3
        <5>3. QED
          BY <3>3, <5>1, <5>2
      <4>2. CASE m.kid[t][k] = g
        BY <1>7, <1>10, <2>1, <3>1, <3>3, <4>2
      <4>3. CASE m.kid[t][k] # g
        <5>1. w.kid[t][k] = m.kid[t][k] /\ m.kid[t][k] \in Node
          BY <1>3, <1>7, <3>1, <3>3, <4>3
        <5>2. m.red[k] /\ m.red[m.kid[t][k]]
          BY <1>3, <1>10, <2>1, <3>1, <3>3, <4>1, <4>3, <5>1
        <5>3. QED
          BY <1>2, <5>1, <5>2
      <4>4. QED
        BY <4>2, <4>3
    <3>4. QED
      BY <3>2, <3>3
  <2>2. QED
    BY <1>7, <1>10, <2>1 DEF Calm
<1>13. ~w.red[w.root]
  <2>1. CASE m.parent[g] = nil
    BY <1>7, <1>10, <2>1
  <2>2. CASE m.parent[g] # nil
    <3>1. m.root # g
      <4>1. g \in Used(m) /\ m \in Map /\ Tree(m)
        BY <1>1 DEF RedBlack
      <4>2. IF g = m.root THEN m.parent[g] = nil ELSE m.parent[g] \in Used(m)
        BY <4>1, TreeLinks
      <4>3. QED
        BY <2>2, <4>2
    <3>2. w.root = m.root /\ m.root \in Node /\ m.root # a /\ ~m.red[m.root]
      <4>1. w.root = m.root
        BY <1>7, <2>2
      <4>2. m.root # a /\ ~m.red[m.root]
        BY <1>1
      <4>3. m.root \in Node
        BY <1>3
      <4>4. QED
        BY <4>1, <4>2, <4>3
    <3>3. QED
      <4>1. w.red[m.root] <=> m.red[m.root]
        BY <1>10, <3>1, <3>2
      <4>2. QED
        BY <3>2, <4>1
  <2>3. QED
    BY <2>1, <2>2
<1>14. RedBlack(w, n)
  BY <1>7, <1>9, <1>12, <1>13 DEF RedBlack
<1>15. w.red[n] /\ n \in Used(w)
  BY <1>1, <1>3, <1>7, <1>10
<1>16. QED
  BY <1>7, <1>14, <1>15 DEF Kept

\* A black parent, and the root painted black: a red-black tree.
LEMMA FinishKeeps ==
  ASSUME NEW m, NEW n \in Used(m), RedBlack(m, n), ~m.red[m.parent[n]]
  PROVE  LET w == Paint(m, m.root, FALSE)
         IN RedBlack(w, nil) /\ Kept(w, m)
<1> DEFINE w == Paint(m, m.root, FALSE)
<1>1. /\ m \in Map /\ ~m.red[nil]
      /\ \A k \in Used(m), t \in Side :
           m.red[k] /\ m.red[m.kid[t][k]] => m.kid[t][k] = n
  BY Colours
<1>2. /\ nil \notin Used(m) /\ Used(m) \subseteq Node /\ nil \in Node
      /\ 0 .. m.next - 1 = Used(m) \cup {nil} /\ m.root \in Used(m) \cup {nil}
      /\ \A k \in Used(m), t \in Side : m.kid[t][k] \in Used(m) \cup {nil}
      /\ \A k \in Used(m), t \in Side : m.kid[t][k] # nil =>
           m.parent[m.kid[t][k]] = k /\ m.kid[t][k] # m.root
  BY TreeLinks DEF RedBlack
<1>3. WithRed(w, m, m.root, FALSE)
  BY <1>1, <1>2, Assignments
<1> HIDE DEF w
<1>4. /\ w \in Map /\ w.kid = m.kid /\ w.parent = m.parent /\ w.start = m.start
      /\ w.root = m.root /\ w.next = m.next /\ Used(w) = Used(m) /\ w.end = m.end
      /\ \A k \in Node : w.red[k] <=> k # m.root /\ m.red[k]
  BY <1>3 DEF WithRed, Used
<1>5. Tree(w)
  BY <1>4, PaintTree DEF RedBlack
<1>6. \A k \in Used(m), t \in Side : ~(m.red[k] /\ m.red[m.kid[t][k]])
  <2> SUFFICES ASSUME NEW k \in Used(m), NEW t \in Side, m.red[k], m.red[m.kid[t][k]]
               PROVE  FALSE
    OBVIOUS
  <2>1. m.kid[t][k] = n /\ n # nil
    BY <1>1, <1>2
  <2>2. m.parent[n] = k
    BY <1>2, <2>1
  <2>3. QED
    BY <2>2
<1>7. Calm(w, nil) /\ ~w.red[w.root]
  <2>1. ~w.red[nil] /\ ~w.red[w.root]
    BY <1>1, <1>2, <1>4
  <2>2. ASSUME NEW k \in Used(m), NEW t \in Side, w.red[k], w.red[m.kid[t][k]]
        PROVE  FALSE
    <3>1. m.kid[t][k] \in Node
      BY <1>2
    <3>2. m.red[k] /\ m.red[m.kid[t][k]]
      BY <1>2, <1>4, <2>2, <3>1
    <3>3. QED
      BY <1>6, <3>2
  <2>3. QED
    BY <1>4, <2>1, <2>2 DEF Calm
<1>8. \E h : Even(w, h)
  <2>1. PICK h : Even(m, h)
    BY DEF RedBlack
  <2>2. /\ h \in [0 .. m.next - 1 -> Nat] /\ h[nil] = 0
        /\ \A k \in Used(m), t \in Side :
             /\ m.red[k] => h[k] = h[m.kid[t][k]]
             /\ ~m.red[k] => h[k] = h[m.kid[t][k]] + 1
    BY <2>1 DEF Even
  <2> DEFINE i == [k \in 0 .. m.next - 1 |->
                     IF k = m.root /\ m.red[k] THEN h[k] + 1 ELSE h[k]]
  <2>3. /\ i \in [0 .. m.next - 1 -> Nat] /\ i[nil] = 0
        /\ \A k \in Used(m) \cup {nil} :
             i[k] = IF k = m.root /\ m.red[k] THEN h[k] + 1 ELSE h[k]
    BY <1>1, <1>2, <2>2
  <2> HIDE DEF i
  <2>4. ASSUME NEW k \in Used(m), NEW t \in Side
        PROVE  /\ w.red[k] => i[k] = i[m.kid[t][k]]
               /\ ~w.red[k] => i[k] = i[m.kid[t][k]] + 1
    <3>1. /\ m.red[k] => h[k] = h[m.kid[t][k]]
          /\ ~m.red[k] => h[k] = h[m.kid[t][k]] + 1
      BY <2>2
    <3>2. h[k] \in Nat /\ h[m.kid[t][k]] \in Nat /\ m.kid[t][k] \in Used(m) \cup {nil}
      BY <1>2, <2>2
    <3>3. i[m.kid[t][k]] = h[m.kid[t][k]]
      BY <1>1, <1>2, <2>3, <3>2
    <3>4. i[k] = IF k = m.root /\ m.red[k] THEN h[k] + 1 ELSE h[k]
      BY <2>3
    <3>5. w.red[k] <=> k # m.root /\ m.red[k]
      BY <1>2, <1>4
    <3>6. QED
      BY <3>1, <3>2, <3>3, <3>4, <3>5
  <2>5. Even(w, i)
    BY <1>4, <2>3, <2>4 DEF Even
  <2>6. QED
    BY <2>5
<1>9. QED
  BY <1>4, <1>5, <1>7, <1>8 DEF RedBlack, Kept, w

\* A red node hung on a red-black tree is the only one that may be out of order.
LEMMA HangKeeps ==
  ASSUME NEW m, RedBlack(m, nil), m.next \in Node, NEW w, Tree(w),
         NEW n \in Used(m) \cup {nil}, NEW t \in Side, NEW r, Hung(w, m, n, t, r),
         n # nil => m.kid[t][n] = nil
  PROVE  RedBlack(w, m.next) /\ w.red[m.next] /\ m.next \in Used(w)
<1> DEFINE new == m.next
<1>1. /\ m \in Map /\ ~m.red[nil] /\ (m.red[m.root] => m.root = nil)
      /\ \A k \in Used(m), s \in Side :
           m.red[k] /\ m.red[m.kid[s][k]] => m.kid[s][k] = nil
  BY Colours
<1>2. /\ nil \notin Used(m) /\ Used(m) \subseteq Node /\ nil \in Node
      /\ 0 .. new - 1 = Used(m) \cup {nil} /\ m.root \in Used(m) \cup {nil}
      /\ \A k \in Used(m), s \in Side : m.kid[s][k] \in Used(m) \cup {nil}
  BY TreeLinks DEF RedBlack
<1>3. /\ w.next = new + 1 /\ new \notin Used(m) /\ new # nil
      /\ Used(w) = Used(m) \cup {new} /\ 0 .. w.next - 1 = Used(w) \cup {nil}
      /\ new \notin 0 .. new - 1
  <2>1. PICK B : Shape(m, B)
    BY DEF RedBlack, Tree
  <2>2. QED
    BY <2>1 DEF Shape, Hung, Used, Node, nil
<1>4. /\ w \in Map /\ \A s \in Side : w.kid[s][new] = nil
      /\ \A k \in Used(m), s \in Side :
           w.kid[s][k] = IF k = n /\ s = t THEN new ELSE m.kid[s][k]
      /\ w.red[new] /\ \A k \in Used(m) \cup {nil} : w.red[k] <=> m.red[k]
      /\ w.root = IF n = nil THEN new ELSE m.root
  <2>1. /\ new \in Node /\ w \in Map /\ \A s \in Side : w.kid[s][new] = nil
        /\ w.root = IF n = nil THEN new ELSE m.root
    BY DEF Hung
  <2>2. \A k \in Node : w.red[k] <=> (k = new \/ m.red[k])
    BY DEF Hung
  <2>3. ASSUME NEW k \in Used(m), NEW s \in Side
        PROVE  w.kid[s][k] = IF k = n /\ s = t THEN new ELSE m.kid[s][k]
    <3>1. k \in Node /\ k # new /\ k # nil
      BY <1>2, <1>3
    <3>2. QED
      BY <3>1 DEF Hung
  <2>4. \A k \in Used(m) \cup {nil} : k \in Node /\ k # new
    BY <1>2, <1>3
  <2> HIDE DEF new
  <2>5. QED
    BY <2>1, <2>2, <2>3, <2>4
<1> HIDE DEF new
<1>5. \E h : Even(w, h)
  <2>1. PICK h : Even(m, h)
    BY DEF RedBlack
  <2>2. /\ h \in [0 .. new - 1 -> Nat] /\ h[nil] = 0
        /\ \A k \in Used(m), s \in Side :
             /\ m.red[k] => h[k] = h[m.kid[s][k]]
             /\ ~m.red[k] => h[k] = h[m.kid[s][k]] + 1
    BY <2>1 DEF Even, new
  <2> DEFINE i == [k \in 0 .. w.next - 1 |-> IF k = new THEN 0 ELSE h[k]]
  <2>3. /\ i \in [0 .. w.next - 1 -> Nat] /\ i[nil] = 0 /\ i[new] = 0
        /\ \A k \in Used(m) \cup {nil} : i[k] = h[k]
    <3>1. \A k \in 0 .. w.next - 1 : k # new => h[k] \in Nat /\ k \in Used(m) \cup {nil}
      BY <1>2, <1>3, <2>2
    <3>2. QED
      BY <1>2, <1>3, <2>2, <3>1
  <2> HIDE DEF i
  <2>4. ASSUME NEW k \in Used(w), NEW s \in Side
        PROVE  /\ w.red[k] => i[k] = i[w.kid[s][k]]
               /\ ~w.red[k] => i[k] = i[w.kid[s][k]] + 1
    <3>1. CASE k = new
      BY <1>4, <2>3, <3>1
    <3>2. CASE k \in Used(m)
      <4>1. i[w.kid[s][k]] = h[m.kid[s][k]]
        BY <1>2, <1>4, <2>2, <2>3, <3>2
      <4>2. QED
        BY <1>4, <2>2, <2>3, <3>2, <4>1
    <3>3. QED
      BY <1>3, <3>1, <3>2
  <2>5. Even(w, i)
    BY <2>3, <2>4 DEF Even
  <2>6. QED
    BY <2>5
<1>6. Calm(w, new)
  <2>1. ASSUME NEW k \in Used(w), NEW s \in Side, w.red[k], w.red[w.kid[s][k]]
        PROVE  w.kid[s][k] = new
    <3>1. ~w.red[nil]
      BY <1>1, <1>4
    <3>2. k \in Used(m)
      BY <1>3, <1>4, <2>1, <3>1
    <3>3. ASSUME w.kid[s][k] # new PROVE FALSE
      <4>1. w.kid[s][k] = m.kid[s][k] /\ m.kid[s][k] \in Used(m) \cup {nil}
        BY <1>2, <1>4, <3>2, <3>3
      <4>2. QED
        BY <1>1, <1>4, <2>1, <3>2, <4>1
    <3>4. QED
      BY <3>3
  <2>2. QED
    BY <1>1, <1>4, <2>1 DEF Calm
<1>7. w.red[w.root] => w.root = new
  BY <1>1, <1>2, <1>4
<1>8. QED
  BY <1>3, <1>4, <1>5, <1>6, <1>7 DEF RedBlack, new

\* The entries are the ranges given.
Mapped(m, ranges) ==
  /\ \A n \in Used(m) : \E r \in ranges : m.start[n] = r.start /\ m.end[n] = Top(r)
  /\ \A r \in ranges : \E n \in Used(m) : m.start[n] = r.start /\ m.end[n] = Top(r)
  /\ \A i, j \in Used(m) : m.start[i] = m.start[j] => i = j

\* Going down, the range still belongs below cur.
Searching ==
  /\ range \in Ranges \ given /\ map.next < num_mappings
  /\ cur \in Used(map) \cup {nil}
  /\ check = IF cur = nil THEN map.root ELSE map.kid[Toward(map, cur, range.start)][cur]
  /\ \E B : Shape(map, B) /\ Linked(map, B) /\ Path(map, B, cur, range.start)

\* The inductive invariant.
Inv ==
  /\ slots \in Nat \ {0} /\ given \subseteq Ranges
  /\ at \in {"idle", "descend", "fixup"}
  /\ RedBlack(map, node) /\ Mapped(map, given)
  /\ at = "descend" => Searching
  /\ IF at = "fixup" THEN node \in Used(map) /\ map.red[node] ELSE node = nil

\* Turning the tree leaves the entries alone.
LEMMA MappedKept ==
  ASSUME NEW m, NEW w, NEW G, Mapped(m, G),
         Kept(w, m)
  PROVE  Mapped(w, G)
  BY DEF Mapped, Used, Kept

\* Two disjoint ranges do not start together.
LEMMA StartsDiffer ==
  ASSUME NEW r \in Ranges, NEW q \in Ranges, r # q
  PROVE  r.start # q.start /\ r.start \in Nat /\ r.length \in Nat
  BY RangesAssumption DEF Top

\* The empty map satisfies the invariant.
LEMMA InitInv == Init => Inv
<1> SUFFICES ASSUME Init PROVE Inv
  OBVIOUS
<1> DEFINE B == [k \in 0 .. 0 |-> {}]
           h == [k \in 0 .. 0 |-> 0]
<1>1. slots \in Nat \ {0} /\ 0 \in Node /\ Used(map) = {}
  BY SlotsAssumption DEF Init, Node, Used
<1>2. /\ map.next = 1 /\ map.root = nil /\ ~map.red[nil] /\ nil = 0
  BY <1>1 DEF Init, nil
<1>3. map \in Map
  BY DEF Init, Map, nil, NULL
<1>4. Shape(map, B) /\ Linked(map, B)
  BY <1>1, <1>2 DEF Shape, Linked
<1>5. Even(map, h)
  BY <1>1, <1>2 DEF Even
<1>6. Calm(map, nil)
  BY <1>1, <1>2 DEF Calm
<1>7. RedBlack(map, nil)
  BY <1>2, <1>3, <1>4, <1>5, <1>6 DEF RedBlack, Tree
<1>8. Mapped(map, given)
  BY <1>1 DEF Mapped, Init
<1>9. QED
  BY <1>1, <1>7, <1>8 DEF Inv, Init

\* The length of mappings[] does not change.
LEMMA Primed ==
  ASSUME slots' = slots
  PROVE  /\ RedBlack(map', node') => RedBlack(map, node)'
         /\ Mapped(map', given') => Mapped(map, given)'
         /\ \A B : Shape(map', B) => Shape(map, B)'
         /\ \A B : Linked(map', B) => Linked(map, B)'
         /\ \A B : Path(map', B, cur', range'.start) => Path(map, B, cur, range.start)'
<1>1. Node' = Node
  BY DEF Node
<1>2. (map \in Map)' <=> map' \in Map
  BY <1>1 DEF Map
<1>3. \A B : Shape(map', B) => Shape(map, B)'
  BY DEF Shape, Sorted, Used
<1>4. \A B : Linked(map', B) => Linked(map, B)'
  BY DEF Linked, Used
<1>5. \A B : Path(map', B, cur', range'.start) => Path(map, B, cur, range.start)'
  BY DEF Path, Used
<1>6. Mapped(map', given') => Mapped(map, given)'
  BY DEF Mapped, Used
<1>7. Tree(map') => Tree(map)'
  BY <1>3, <1>4 DEF Tree
<1>8. (\E h : Even(map', h)) => (\E h : Even(map, h))'
  BY DEF Even, Used
<1>9. Calm(map', node') => Calm(map, node)'
  BY DEF Calm, Used
<1>10. RedBlack(map', node') => RedBlack(map, node)'
  BY <1>2, <1>7, <1>8, <1>9 DEF RedBlack
<1>11. QED
  BY <1>3, <1>4, <1>5, <1>6, <1>10

\* What an action has to establish.
LEMMA InvAfter ==
  ASSUME slots' = slots, Inv, given' \subseteq Ranges,
         RedBlack(map', node'), Mapped(map', given'),
         \/ at' = "idle" /\ node' = nil
         \/ at' = "fixup" /\ node' \in Used(map') /\ map'.red[node']
         \/ /\ at' = "descend" /\ node' = nil
            /\ range' \in Ranges \ given' /\ map'.next < slots - 1
            /\ cur' \in Used(map') \cup {nil}
            /\ check' = IF cur' = nil THEN map'.root
                        ELSE map'.kid[Toward(map', cur', range'.start)][cur']
            /\ \E B : /\ Shape(map', B) /\ Linked(map', B)
                      /\ Path(map', B, cur', range'.start)
  PROVE  Inv'
<1>1. RedBlack(map, node)' /\ Mapped(map, given)'
  BY Primed
<1>2. ASSUME at' = "descend" PROVE Searching'
  <2>1. PICK B : /\ Shape(map', B) /\ Linked(map', B)
                 /\ Path(map', B, cur', range'.start)
    BY <1>2
  <2>2. Shape(map, B)' /\ Linked(map, B)' /\ Path(map, B, cur, range.start)'
    BY <2>1, Primed
  <2>3. /\ (range \in Ranges \ given)' /\ (map.next < num_mappings)'
        /\ (cur \in Used(map) \cup {nil})'
        /\ (check = IF cur = nil THEN map.root
                     ELSE map.kid[Toward(map, cur, range.start)][cur])'
    BY <1>2 DEF num_mappings, Used, Toward, nil
  <2>4. QED
    BY <2>2, <2>3 DEF Searching
<1>3. (IF at = "fixup" THEN node \in Used(map) /\ map.red[node] ELSE node = nil)'
  BY DEF Used, nil
<1>4. QED
  BY <1>1, <1>2, <1>3 DEF Inv

\* The search starts at the root.
LEMMA BeginInv == Inv /\ Begin => Inv'
<1> SUFFICES ASSUME Inv, Begin PROVE Inv'
  OBVIOUS
<1>1. /\ at = "idle" /\ map.next < num_mappings /\ range' \in Ranges \ given
      /\ at' = "descend" /\ check' = map.root /\ cur' = nil
      /\ UNCHANGED <<slots, map, node, given>>
  BY DEF Begin
<1>2. PICK B : Shape(map, B) /\ Linked(map, B)
  BY DEF Inv, RedBlack, Tree
<1>3. Path(map, B, nil, range'.start)
  BY <1>2, PathStarts DEF Inv, RedBlack
<1>4. Inv'
  BY <1>1, <1>2, <1>3, InvAfter DEF Inv, num_mappings
<1>5. QED
  BY <1>4

\* It goes on below the node it was at.
LEMMA DescendInv == Inv /\ Descend => Inv'
<1> SUFFICES ASSUME Inv, Descend PROVE Inv'
  OBVIOUS
<1>1. /\ at = "descend" /\ check # nil /\ cur' = check
      /\ check' = map.kid[Toward(map, check, range.start)][check]
      /\ UNCHANGED <<slots, map, at, range, node, given, refused>>
  BY DEF Descend
<1>2. Searching /\ RedBlack(map, node) /\ Mapped(map, given) /\ given \subseteq Ranges
      /\ node = nil
  BY <1>1 DEF Inv
<1>3. PICK B : Shape(map, B) /\ Linked(map, B) /\ Path(map, B, cur, range.start)
  BY <1>2 DEF Searching
<1>4. range \in Ranges \ given /\ range.start \in Nat
  BY <1>2, RangesAssumption DEF Searching
<1>5. cur # nil => range.start # map.start[cur]
  BY <1>2, <1>4, StartsDiffer DEF Searching, Mapped
<1>6. check \in Used(map) /\ Path(map, B, check, range.start)
  BY <1>1, <1>2, <1>3, <1>4, <1>5, PathGoesOn DEF Searching, RedBlack
<1>7. nil \notin Used(map)
  BY DEF Used, nil
<1>8. map.next < slots - 1
  BY <1>2 DEF Searching, num_mappings
<1>9. QED
  BY <1>1, <1>2, <1>3, <1>4, <1>6, <1>7, <1>8, InvAfter

\* The new entry takes the free link the search ended at.
LEMMA LinkInv == Inv /\ Link => Inv'
<1> SUFFICES ASSUME Inv, Link PROVE Inv'
  OBVIOUS
<1> DEFINE t == Toward(map, cur, range.start)
           w == Hang(map, cur, range)
<1>1. /\ at = "descend" /\ check = nil
      /\ map' = w /\ node' = map.next /\ given' = given \cup {range}
      /\ at' = "fixup" /\ slots' = slots
  BY DEF Link
<1>2. Searching /\ RedBlack(map, nil) /\ Mapped(map, given) /\ given \subseteq Ranges
  BY <1>1 DEF Inv
<1>3. PICK B : Shape(map, B) /\ Linked(map, B) /\ Path(map, B, cur, range.start)
  BY <1>2 DEF Searching
<1>4. range \in Ranges \ given /\ range.start \in Nat /\ range.length \in Nat
      /\ map \in Map /\ cur \in Used(map) \cup {nil} /\ t \in Side
  BY <1>2, RangesAssumption DEF Searching, RedBlack, Toward, Side
<1>5. map.next < slots /\ map.next \in Node /\ cur \in Node
  <2>1. map.next < slots - 1 /\ map.next \in Nat /\ slots \in Nat
    BY <1>2, <1>3 DEF Searching, num_mappings, Shape
  <2>2. QED
    BY <1>3, <1>4, <2>1, Indices DEF Node
<1>6. Hung(w, map, cur, t, range)
  BY <1>4, <1>5, HangFields
<1>7. /\ cur = nil => map.root = nil
      /\ cur # nil => map.kid[t][cur] = nil
  BY <1>1, <1>2 DEF Searching
<1>8. cur # nil => Before(t, range.start, map.start[cur])
  <2>1. ASSUME cur # nil PROVE Before(t, range.start, map.start[cur])
    <3>1. range.start # map.start[cur]
      BY <1>2, <1>4, <2>1, StartsDiffer DEF Mapped
    <3>2. map.start[cur] \in Int
      BY <1>3, <1>4, <2>1, Indices
    <3>3. QED
      BY <1>4, <3>1, <3>2 DEF Before, Toward
  <2>2. QED
    BY <2>1
<1>9. Tree(w)
  <2> HIDE DEF w, t
  <2>1. \A k \in Used(map), s \in Side :
          cur \in B[map.kid[s][k]] => Before(s, range.start, map.start[k])
    BY <1>3 DEF Path
  <2>2. \E C : Shape(w, C) /\ Linked(w, C)
    <3>1. /\ map \in Map /\ Shape(map, B) /\ Linked(map, B) /\ map.next < slots
          /\ cur \in Used(map) \cup {nil} /\ t \in Side /\ range.start \in Int
          /\ Hung(w, map, cur, t, range)
          /\ cur = nil => map.root = nil
          /\ cur # nil => map.kid[t][cur] = nil /\ Before(t, range.start, map.start[cur])
      BY <1>3, <1>4, <1>5, <1>6, <1>7, <1>8
    <3>2. QED
      BY ONLY <2>1, <3>1, HangTree
  <2>3. QED
    BY <2>2 DEF Tree
<1> HIDE DEF w, t
<1>10. RedBlack(w, map.next) /\ w.red[map.next] /\ map.next \in Used(w)
  BY <1>2, <1>4, <1>5, <1>6, <1>7, <1>9, HangKeeps
<1>11. Mapped(w, given \cup {range})
  <2>1. /\ Used(w) = Used(map) \cup {map.next} /\ Used(map) \subseteq Node
        /\ map.next \notin Used(map)
    <3>1. map.next \in Nat \ {0} /\ w.next = map.next + 1
      BY <1>3, <1>6 DEF Hung, Shape
    <3>2. Used(map) \subseteq Node
      BY <1>3, <1>4, Indices
    <3>3. QED
      BY <3>1, <3>2 DEF Used
  <2>2. /\ w.start[map.next] = range.start /\ w.end[map.next] = Top(range)
        /\ \A k \in Used(map) : w.start[k] = map.start[k] /\ w.end[k] = map.end[k]
    BY <1>5, <1>6, <2>1 DEF Hung
  <2>3. \A k \in Used(map) : map.start[k] # range.start
    BY <1>2, <1>4, StartsDiffer DEF Mapped
  <2>4. \A i, j \in Used(w) : w.start[i] = w.start[j] => i = j
    BY <1>2, <2>1, <2>2, <2>3 DEF Mapped
  <2>5. QED
    BY <1>2, <2>1, <2>2, <2>4 DEF Mapped
<1>12. QED
  BY <1>1, <1>2, <1>4, <1>10, <1>11, InvAfter

\* An iteration of fixup, and its end.
LEMMA FixupInv == Inv /\ (Recolour \/ Turn \/ Finish) => Inv'
<1> SUFFICES ASSUME Inv, Recolour \/ Turn \/ Finish PROVE Inv'
  OBVIOUS
<1>1. /\ at = "fixup" /\ slots' = slots /\ given' = given
  BY DEF Recolour, Turn, Finish
<1>2. /\ RedBlack(map, node) /\ node \in Used(map) /\ map.red[node]
      /\ Mapped(map, given) /\ given \subseteq Ranges /\ map \in Map
  BY <1>1 DEF Inv, RedBlack
<1>3. map.red[above] => Family(map, node, above, top, side, uncle)
  BY <1>2, FamilyFound DEF above, top, side, uncle
<1>4. CASE Recolour
  <2>1. /\ map.red[above] /\ map.red[uncle] /\ node' = top /\ at' = at
        /\ map' = Paint(Paint(Paint(map, above, FALSE), uncle, FALSE), top, TRUE)
    BY <1>4 DEF Recolour
  <2>2. RedBlack(map', top) /\ map'.red[top] /\ top \in Used(map') /\ Kept(map', map)
    <3>1. Family(map, node, above, top, side, uncle)
      BY <1>3, <2>1
    <3>2. Recoloured(map', map, above, uncle, top)
      BY <2>1 DEF Recoloured
    <3>3. QED
      BY <1>2, <2>1, <3>1, <3>2, RecolourKeeps
  <2>3. Mapped(map', given)
    BY <1>2, <2>2, MappedKept
  <2>4. QED
    BY <1>1, <1>2, <2>1, <2>2, <2>3, InvAfter
<1>5. CASE Turn
  <2> DEFINE o == Other(side)
             p == Turned.parent[node']
             g == Turned.parent[p]
  <2>1. /\ map.red[above] /\ ~map.red[uncle] /\ at' = at
        /\ node' = IF node = map.kid[o][above] THEN above ELSE node
        /\ map' = Rotate(Paint(Paint(Turned, p, FALSE), g, TRUE), g, o)
    BY <1>5 DEF Turn
  <2>2. Family(map, node, above, top, side, uncle)
    BY <1>3, <2>1
  <2>3. /\ RedBlack(Turned, node') /\ Family(Turned, node', p, g, side, uncle)
        /\ ~Turned.red[uncle] /\ Turned.kid[side][p] = node'
        /\ Kept(Turned, map)
    <3>1. CASE node = map.kid[o][above]
      <4>1. /\ RedBlack(Turned, above) /\ Family(Turned, above, node, top, side, uncle)
            /\ Turned.kid[side][node] = above
            /\ Turned.red = map.red /\ Kept(Turned, map)
        BY <1>2, <2>1, <2>2, <3>1, InnerTurn DEF Turned
      <4>2. node' = above /\ p = node /\ g = top
        BY <2>1, <3>1, <4>1 DEF Family
      <4>3. QED
        BY <2>1, <4>1, <4>2
    <3>2. CASE node # map.kid[o][above]
      <4>1. Turned = map /\ node' = node /\ p = above /\ g = top
        BY <2>1, <3>2 DEF Turned, above, top
      <4>2. map.kid[side][above] = node
        BY <2>2, <3>2, Sides DEF Family
      <4>3. QED
        BY <1>2, <2>1, <2>2, <4>1, <4>2 DEF Kept
    <3>3. QED
      BY <3>1, <3>2
  <2> HIDE DEF p, g
  <2>4. /\ RedBlack(map', node') /\ map'.red[node'] /\ node' \in Used(map')
        /\ Kept(map', Turned)
    <3>1. SharedOut(map', Turned, p, g, side)
      BY <2>1 DEF SharedOut
    <3>2. QED
      BY <2>3, <3>1, OuterTurn
  <2>5. Mapped(map', given)
    BY <1>2, <2>3, <2>4, MappedKept
  <2>6. QED
    BY <1>1, <1>2, <2>1, <2>4, <2>5, InvAfter
<1>6. CASE Finish
  <2>1. ~map.red[above] /\ map' = Paint(map, map.root, FALSE) /\ at' = "idle" /\ node' = nil
    BY <1>6 DEF Finish
  <2>2. RedBlack(map', nil) /\ Kept(map', map)
    BY <1>2, <2>1, FinishKeeps DEF above
  <2>3. Mapped(map', given)
    BY <1>2, <2>2, MappedKept
  <2>4. QED
    BY <1>1, <1>2, <2>1, <2>2, <2>3, InvAfter
<1>7. QED
  BY <1>4, <1>5, <1>6

\* A refused call and the end of bus_init change nothing of the map.
LEMMA StutterInv ==
  Inv /\ UNCHANGED <<slots, map, at, range, check, cur, node, given>> => Inv'
<1> SUFFICES ASSUME Inv, UNCHANGED <<slots, map, at, range, check, cur, node, given>>
             PROVE  Inv'
  OBVIOUS
<1>1. RedBlack(map', node') /\ Mapped(map', given') /\ given' \subseteq Ranges
  BY DEF Inv
<1>2. at = "descend" => Searching
  BY DEF Inv
<1>3. at = "idle" \/ at = "fixup" \/ at = "descend"
  BY DEF Inv
<1>4. IF at = "fixup" THEN node \in Used(map) /\ map.red[node] ELSE node = nil
  BY DEF Inv
<1>5. QED
  BY <1>1, <1>2, <1>3, <1>4, InvAfter DEF Searching, num_mappings

\* The invariant holds in every state.
LEMMA Invariance == Spec => []Inv
<1>1. Init => Inv
  BY InitInv
<1>2. Inv /\ [Next]_vars => Inv'
  <2>1. Inv /\ MapRefused => Inv'
    BY StutterInv DEF MapRefused
  <2>2. Inv /\ AllAsked => Inv'
    BY StutterInv DEF AllAsked, vars
  <2>3. Inv /\ UNCHANGED vars => Inv'
    BY StutterInv DEF vars
  <2>4. QED
    BY <2>1, <2>2, <2>3, BeginInv, DescendInv, LinkInv, FixupInv DEF Next
<1>3. QED
  BY <1>1, <1>2, PTL DEF Spec

\* What holds of a node when it holds of its children holds of all nodes.
LEMMA TreeInduction ==
  ASSUME NEW m \in Map, Tree(m), NEW P, nil \in P,
         \A n \in Used(m) : (\A s \in Side : m.kid[s][n] \in P) => n \in P
  PROVE  Used(m) \subseteq P
<1>1. PICK B : Shape(m, B) /\ Linked(m, B)
  BY DEF Tree
<1> DEFINE Bad == Used(m) \ P
           sizes == {Cardinality(B[n]) : n \in Bad}
<1> SUFFICES ASSUME Bad # {} PROVE FALSE
  OBVIOUS
<1>2. \A n \in Used(m) : /\ IsFiniteSet(B[n]) /\ Cardinality(B[n]) \in Nat
                         /\ B[n] \subseteq Used(m)
  <2>1. IsFiniteSet(Used(m))
    <3>1. 1 \in Int /\ m.next - 1 \in Int
      BY <1>1 DEF Shape
    <3>2. QED
      BY <3>1, FS_Interval DEF Used
  <2>2. QED
    BY <1>1, <2>1, Indices, FS_Subset, FS_CardinalityType
<1>3. sizes \subseteq Nat /\ sizes # {}
  BY <1>2
<1>4. PICK i \in sizes : \A j \in sizes : ~(<<j, i>> \in OpToRel(<, Nat))
  <2> HIDE DEF sizes
  <2> QED BY <1>3, NatLessThanWellFounded, WFMin
<1>5. \A j \in sizes : ~(j < i)
  BY <1>3, <1>4 DEF OpToRel
<1>6. PICK n \in Bad : i = Cardinality(B[n])
  BY <1>4
<1>7. ASSUME NEW s \in Side
      PROVE  m.kid[s][n] \in P
  <2> DEFINE k == m.kid[s][n]
  <2> SUFFICES ASSUME k \notin P PROVE FALSE
    OBVIOUS
  <2>1. k \in Used(m)
    <3>1. k \in 0 .. m.next - 1
      BY <1>1, <1>6 DEF Shape
    <3>2. 0 .. m.next - 1 = Used(m) \cup {nil}
      BY <1>1, Indices
    <3>3. QED
      BY <3>1, <3>2
  <2>2. B[k] \subseteq B[n] /\ n \notin B[k] /\ n \in B[n]
    BY <1>1, <1>6, Indices DEF Shape, Sorted
  <2>3. Cardinality(B[k]) < Cardinality(B[n])
    <3>1. B[k] # B[n]
      BY <2>2
    <3>2. Cardinality(B[k]) <= Cardinality(B[n]) /\ Cardinality(B[k]) # Cardinality(B[n])
      BY <1>2, <1>6, <2>2, <3>1, FS_Subset
    <3>3. QED
      BY <1>2, <1>6, <2>1, <3>2
  <2>4. Cardinality(B[k]) \in sizes
    BY <2>1
  <2>5. QED
    BY <1>5, <1>6, <2>3, <2>4
<1>8. QED
  BY <1>6, <1>7

\* The recursion in BlackHeights has one solution: a node's height.
LEMMA HeightsFound ==
  ASSUME map \in Map, Tree(map), NEW h, Even(map, h)
  PROVE  \A n \in Used(map) : BlackHeights[n] = {h[n]}
<1> DEFINE D == 0 .. map.next - 1
           own(n) == IF map.red[n] THEN 0 ELSE 1
           Step(f) == [n \in D |->
             IF n = nil THEN {0}
             ELSE {i + own(n) : i \in UNION {f[map.kid[s][n]] : s \in Side}}]
           G == [n \in D |-> {h[n]}]
<1>1. D = Used(map) \cup {nil} /\ nil \notin Used(map)
      /\ \A n \in Used(map), s \in Side : map.kid[s][n] \in D
  BY TreeLinks
<1>2. BlackHeights = CHOOSE f : f = Step(f)
  BY DEF BlackHeights
<1>3. /\ h[nil] = 0 /\ \A n \in D : h[n] \in Nat
      /\ \A n \in Used(map), s \in Side : h[map.kid[s][n]] + own(n) = h[n]
  <2>1. /\ h \in [D -> Nat] /\ h[nil] = 0
        /\ \A n \in Used(map), s \in Side :
             /\ map.red[n] => h[n] = h[map.kid[s][n]]
             /\ ~map.red[n] => h[n] = h[map.kid[s][n]] + 1
    BY DEF Even
  <2>2. \A n \in D : h[n] \in Nat
    BY <2>1
  <2>3. ASSUME NEW n \in Used(map), NEW s \in Side
        PROVE  h[map.kid[s][n]] + own(n) = h[n]
    <3>1. h[n] \in Nat /\ h[map.kid[s][n]] \in Nat
      BY <1>1, <2>2
    <3>2. QED
      BY <2>1, <3>1
  <2>4. QED
    BY <2>1, <2>2, <2>3
<1> HIDE DEF own
<1> DEFINE sum(f, n) == {i + own(n) : i \in UNION {f[map.kid[s][n]] : s \in Side}}
<1>4. ASSUME NEW f, NEW n \in Used(map), \A s \in Side : f[map.kid[s][n]] = {h[map.kid[s][n]]}
      PROVE  sum(f, n) = {h[n]}
  <2>1. \A i : i \in UNION {f[map.kid[s][n]] : s \in Side} <=>
                 \E s \in Side : i = h[map.kid[s][n]]
    BY <1>4
  <2>2. "left" \in Side
    BY DEF Side
  <2>3. \E i \in UNION {f[map.kid[s][n]] : s \in Side} : i + own(n) = h[n]
    <3>1. h[map.kid["left"][n]] \in UNION {f[map.kid[s][n]] : s \in Side}
      BY <2>1, <2>2
    <3>2. h[map.kid["left"][n]] + own(n) = h[n]
      BY <1>3, <2>2
    <3>3. QED
      BY <3>1, <3>2
  <2>4. \A i \in UNION {f[map.kid[s][n]] : s \in Side} : i + own(n) = h[n]
    BY <1>3, <2>1
  <2>5. QED
    BY <2>3, <2>4
<1>5. \A f : Step(f) = [n \in D |-> IF n = nil THEN {0} ELSE sum(f, n)]
  OBVIOUS
<1> HIDE DEF sum, Step
<1>6. \A n \in Used(map) : sum(G, n) = {h[n]}
  <2> SUFFICES ASSUME NEW n \in Used(map) PROVE sum(G, n) = {h[n]}
    OBVIOUS
  <2>1. \A s \in Side : G[map.kid[s][n]] = {h[map.kid[s][n]]}
    BY <1>1
  <2> HIDE DEF G
  <2>2. QED
    BY <1>4, <2>1
<1>7. G = Step(G)
  <2>1. \A n \in D : (IF n = nil THEN {0} ELSE sum(G, n)) = {h[n]}
    BY <1>1, <1>3, <1>6
  <2>2. Step(G) = [n \in D |-> IF n = nil THEN {0} ELSE sum(G, n)]
    BY <1>5
  <2>3. Step(G) = [n \in D |-> {h[n]}]
    <3> HIDE DEF G
    <3> QED BY <2>1, <2>2
  <2>4. QED
    BY <2>3
<1> HIDE DEF G
<1>8. BlackHeights = Step(BlackHeights)
  BY <1>2, <1>7
<1>9. /\ BlackHeights[nil] = {0}
      /\ \A n \in Used(map) : BlackHeights[n] = sum(BlackHeights, n)
  <2>1. BlackHeights = [n \in D |-> IF n = nil THEN {0} ELSE sum(BlackHeights, n)]
    BY <1>5, <1>8
  <2>2. QED
    BY <1>1, <2>1
<1> DEFINE P == {n \in D : BlackHeights[n] = {h[n]}}
<1>10. nil \in P
  BY <1>1, <1>3, <1>9
<1>11. ASSUME NEW n \in Used(map), \A s \in Side : map.kid[s][n] \in P
       PROVE  n \in P
  <2>1. sum(BlackHeights, n) = {h[n]}
    BY <1>4, <1>11
  <2>2. QED
    BY <1>1, <1>9, <2>1
<1>12. Used(map) \subseteq P
  <2> HIDE DEF P
  <2> QED BY <1>10, <1>11, TreeInduction
<1>13. QED
  BY <1>12

\* Entry n holds address a.
Holds(m, n, a) == m.start[n] <= a /\ a <= m.end[n]

\* One address is in one entry, and entries come in the order of their starts.
LEMMA EntriesApart ==
  ASSUME NEW m \in Map, Tree(m), NEW G \in SUBSET Ranges, Mapped(m, G), NEW a \in Int
  PROVE  /\ \A n \in Used(m) : m.start[n] \in Int /\ m.end[n] \in Int
         /\ \A n, k \in Used(m) : Holds(m, n, a) /\ Holds(m, k, a) => n = k
         /\ \A n, k \in Used(m) : m.start[k] < m.start[n] => m.end[k] < m.start[n]
<1>1. \A n \in Used(m) : m.start[n] \in Int /\ m.end[n] \in Int
  BY TreeLinks DEF Map
<1>2. ASSUME NEW n \in Used(m), NEW k \in Used(m)
      PROVE  \/ m.start[n] = m.start[k] /\ n = k
             \/ m.start[n] <= m.end[n] /\ m.end[n] < m.start[k]
             \/ m.start[k] <= m.end[k] /\ m.end[k] < m.start[n]
  <2>1. PICK r \in G : m.start[n] = r.start /\ m.end[n] = Top(r)
    BY DEF Mapped
  <2>2. PICK q \in G : m.start[k] = q.start /\ m.end[k] = Top(q)
    BY DEF Mapped
  <2>3. /\ r.start \in Nat /\ r.length \in Nat \ {0}
        /\ q.start \in Nat /\ q.length \in Nat \ {0}
        /\ r = q \/ Top(r) < q.start \/ Top(q) < r.start
    BY RangesAssumption
  <2>4. Top(r) >= r.start /\ Top(q) >= q.start /\ Top(r) \in Int /\ Top(q) \in Int
    BY <2>3 DEF Top
  <2>5. CASE r = q
    BY <2>1, <2>2, <2>5 DEF Mapped
  <2>6. CASE Top(r) < q.start \/ Top(q) < r.start
    BY <2>1, <2>2, <2>3, <2>4, <2>6
  <2>7. QED
    BY <2>3, <2>5, <2>6
<1>3. ASSUME NEW n \in Used(m), NEW k \in Used(m), Holds(m, n, a), Holds(m, k, a)
      PROVE  n = k
  <2>1. /\ m.start[n] <= a /\ a <= m.end[n] /\ m.start[n] \in Int /\ m.end[n] \in Int
        /\ m.start[k] <= a /\ a <= m.end[k] /\ m.start[k] \in Int /\ m.end[k] \in Int
    BY <1>1, <1>3 DEF Holds
  <2>2. QED
    BY <1>2, <2>1
<1>4. ASSUME NEW n \in Used(m), NEW k \in Used(m), m.start[k] < m.start[n]
      PROVE  m.end[k] < m.start[n]
  <2>1. /\ m.start[n] \in Int /\ m.end[n] \in Int
        /\ m.start[k] \in Int /\ m.end[k] \in Int
    BY <1>1
  <2>2. QED
    BY <1>2, <1>4, <2>1
<1>5. QED
  BY <1>1, <1>3, <1>4

\* The recursion in resolve_mapped_address has one solution: the entry below
\* the node that holds the address.
LEMMA SearchFinds ==
  ASSUME NEW m \in Map, Tree(m), NEW G \in SUBSET Ranges, Mapped(m, G),
         NEW a \in Int, m.root # nil
  PROVE  LET k == resolve_mapped_address(m, a)
         IN IF \E n \in Used(m) : Holds(m, n, a) THEN k \in Used(m) /\ Holds(m, k, a)
            ELSE k = NULL
<1> DEFINE on(n) == m.kid[IF a < m.start[n] THEN "left" ELSE "right"][n]
           Body(f) == [n \in Used(m) |->
             IF a < m.start[n] \/ a > m.end[n]
               THEN IF on(n) = nil THEN NULL ELSE f[on(n)]
               ELSE n]
           S == CHOOSE f : f = Body(f)
<1>1. resolve_mapped_address(m, a) = S[m.root]
  BY DEF resolve_mapped_address
<1>2. PICK B : Shape(m, B) /\ Linked(m, B)
  BY DEF Tree
<1>3. /\ 0 .. m.next - 1 = Used(m) \cup {nil} /\ nil \notin Used(m)
      /\ \A n \in Used(m) : n \in B[n] /\ B[n] \subseteq Used(m)
      /\ \A n \in Used(m), s \in Side : m.kid[s][n] \in Used(m) \cup {nil}
      /\ m.root \in Used(m) /\ B[m.root] = Used(m) /\ B[nil] = {}
  <2>1. /\ 0 .. m.next - 1 = Used(m) \cup {nil} /\ nil \notin Used(m)
        /\ \A n \in Used(m) : n \in B[n] /\ B[n] \subseteq Used(m)
    BY <1>2, Indices
  <2>2. QED
    BY <1>2, <2>1 DEF Shape
<1>4. /\ \A n \in Used(m) : m.start[n] \in Int /\ m.end[n] \in Int
      /\ \A n, k \in Used(m) : Holds(m, n, a) /\ Holds(m, k, a) => n = k
      /\ \A n, k \in Used(m) : m.start[k] < m.start[n] => m.end[k] < m.start[n]
  BY EntriesApart
<1>5. \A n \in Used(m) : (a < m.start[n] \/ a > m.end[n]) <=> ~Holds(m, n, a)
  BY <1>4 DEF Holds
<1>6. \A n \in Used(m) : on(n) \in Used(m) \cup {nil} /\ B[on(n)] \subseteq B[n]
  <2> SUFFICES ASSUME NEW n \in Used(m)
               PROVE  on(n) \in Used(m) \cup {nil} /\ B[on(n)] \subseteq B[n]
    OBVIOUS
  <2>1. \A s \in Side : B[m.kid[s][n]] \subseteq B[n]
    BY <1>2 DEF Shape, Sorted
  <2>2. QED
    BY <1>3, <2>1 DEF Side
<1>7. ASSUME NEW n \in Used(m), ~Holds(m, n, a), NEW k \in B[n], Holds(m, k, a)
      PROVE  k \in B[on(n)]
  <2> DEFINE l == m.kid["left"][n]
             r == m.kid["right"][n]
  <2>1. /\ B[n] = {n} \cup B[l] \cup B[r]
        /\ \A c \in B[l] : m.start[c] < m.start[n]
        /\ \A c \in B[r] : m.start[n] < m.start[c]
    <3>1. Sorted(m, B, n)
      BY <1>2 DEF Shape
    <3>2. QED
      BY <3>1 DEF Sorted, Side, Other, Before
  <2>2. k \in Used(m) /\ k # n
    BY <1>3, <1>7
  <2>3. CASE a < m.start[n]
    <3>1. k \notin B[r]
      BY <1>4, <1>7, <2>1, <2>2, <2>3 DEF Holds
    <3>2. QED
      BY <1>7, <2>1, <2>2, <2>3, <3>1
  <2>4. CASE ~(a < m.start[n])
    <3>1. k \notin B[l]
      BY <1>4, <1>7, <2>1, <2>2, <2>4 DEF Holds
    <3>2. QED
      BY <1>7, <2>1, <2>2, <2>4, <3>1
  <2>5. QED
    BY <2>3, <2>4
<1> DEFINE In(n) == \E k \in B[n] : Holds(m, k, a)
           Answer == [n \in Used(m) |->
                        IF In(n) THEN CHOOSE k \in B[n] : Holds(m, k, a) ELSE NULL]
<1>8. \A n \in Used(m) :
        IF In(n) THEN Answer[n] \in B[n] /\ Holds(m, Answer[n], a) ELSE Answer[n] = NULL
  OBVIOUS
<1>9. Body(Answer) = Answer
  <2>1. ASSUME NEW n \in Used(m)
        PROVE  (IF a < m.start[n] \/ a > m.end[n]
                THEN IF on(n) = nil THEN NULL ELSE Answer[on(n)]
                ELSE n) = Answer[n]
    <3> HIDE DEF Answer, on
    <3>1. CASE Holds(m, n, a)
      BY <1>3, <1>4, <1>5, <1>8, <3>1
    <3>2. CASE ~Holds(m, n, a) /\ on(n) = nil
      <4>1. ~In(n)
        BY <1>3, <1>7, <3>2
      <4>2. QED
        BY <1>5, <1>8, <3>2, <4>1
    <3>3. CASE ~Holds(m, n, a) /\ on(n) # nil
      <4>1. on(n) \in Used(m) /\ B[on(n)] \subseteq B[n] /\ B[n] \subseteq Used(m)
        BY <1>3, <1>6, <3>3
      <4>2. In(n) <=> In(on(n))
        BY <1>7, <3>3, <4>1
      <4>3. Answer[on(n)] = Answer[n]
        <5>1. CASE In(n)
          <6>1. /\ Answer[n] \in Used(m) /\ Holds(m, Answer[n], a)
                /\ Answer[on(n)] \in Used(m) /\ Holds(m, Answer[on(n)], a)
            BY <1>8, <4>1, <4>2, <5>1
          <6>2. QED
            BY <1>4, <6>1
        <5>2. CASE ~In(n)
          BY <1>8, <4>1, <4>2, <5>2
        <5>3. QED
          BY <5>1, <5>2
      <4>4. QED
        BY <1>5, <3>3, <4>3
    <3>4. QED
      BY <3>1, <3>2, <3>3
  <2>2. QED
    BY <2>1
<1>10. S = Body(S)
  <2> HIDE DEF Body, Answer
  <2> QED BY <1>9
<1>11. \A n \in Used(m) :
         S[n] = IF a < m.start[n] \/ a > m.end[n]
                THEN IF on(n) = nil THEN NULL ELSE S[on(n)]
                ELSE n
  <2> HIDE DEF S, on
  <2>1. S = [n \in Used(m) |->
             IF a < m.start[n] \/ a > m.end[n]
               THEN IF on(n) = nil THEN NULL ELSE S[on(n)]
               ELSE n]
    BY <1>10
  <2>2. QED
    BY <2>1
<1>12. \A n \in Used(m) :
         Answer[n] = IF a < m.start[n] \/ a > m.end[n]
                THEN IF on(n) = nil THEN NULL ELSE Answer[on(n)]
                ELSE n
  <2> HIDE DEF Answer, on
  <2>1. Answer = [n \in Used(m) |->
             IF a < m.start[n] \/ a > m.end[n]
               THEN IF on(n) = nil THEN NULL ELSE Answer[on(n)]
               ELSE n]
    BY <1>9
  <2>2. QED
    BY <2>1
<1> DEFINE P == {n \in 0 .. m.next - 1 : n = nil \/ S[n] = Answer[n]}
<1>13. Used(m) \subseteq P
  <2>1. nil \in P
    BY <1>3
  <2>2. ASSUME NEW n \in Used(m), \A s \in Side : m.kid[s][n] \in P
        PROVE  n \in P
    <3>1. on(n) \in P
      BY <2>2 DEF Side
    <3> HIDE DEF S, Answer, on
    <3>2. QED
      BY <1>3, <1>11, <1>12, <3>1
  <2> HIDE DEF P
  <2>3. QED
    BY <2>1, <2>2, TreeInduction
<1>14. S[m.root] = Answer[m.root]
  BY <1>3, <1>13
<1>15. QED
  <2> HIDE DEF S, Answer
  <2> QED BY <1>1, <1>3, <1>8, <1>14

-----------------------------------------------------------------------------
(* The theorems.                                                           *)

\* Every address leads to the device that was given it, and every other
\* address to none, for any set of disjoint ranges mapped in any order and any
\* length of mappings[] (map_address_range, resolve_mapped_address).
THEOREM LookupsFind == Spec => []Resolves
<1>1. Inv => Resolves
  <2> SUFFICES ASSUME Inv, at = "idle", given # {}, NEW a \in Probed
               PROVE  LET n == resolve_mapped_address(map, a)
                          to == {r \in given : r.start <= a /\ a <= Top(r)}
                      IN IF to = {} THEN n = NULL
                         ELSE \E r \in to : /\ n # NULL /\ map.start[n] = r.start
                                            /\ map.end[n] = Top(r)
    BY DEF Resolves
  <2> DEFINE n == resolve_mapped_address(map, a)
             to == {r \in given : r.start <= a /\ a <= Top(r)}
  <2>1. /\ map \in Map /\ Tree(map) /\ Mapped(map, given) /\ given \in SUBSET Ranges
        /\ a \in Int
    BY DEF Inv, RedBlack, Probed
  <2>2. map.root # nil
    <3>1. PICK B : Shape(map, B) /\ Linked(map, B)
      BY <2>1 DEF Tree
    <3>2. Used(map) # {}
      BY <2>1 DEF Mapped
    <3>3. QED
      BY <3>1, <3>2 DEF Shape
  <2>3. IF \E k \in Used(map) : Holds(map, k, a)
          THEN n \in Used(map) /\ Holds(map, n, a) ELSE n = NULL
    BY <2>1, <2>2, SearchFinds
  <2> HIDE DEF n
  <2>4. (\E k \in Used(map) : Holds(map, k, a)) <=> to # {}
    BY <2>1 DEF Mapped, Holds
  <2>5. n \in Used(map) => n # NULL
    BY DEF Used, NULL
  <2>6. CASE to = {}
    BY <2>3, <2>4, <2>6 DEF n
  <2>7. CASE to # {}
    <3>1. n \in Used(map) /\ Holds(map, n, a)
      BY <2>3, <2>4, <2>7
    <3>2. PICK r \in given : map.start[n] = r.start /\ map.end[n] = Top(r)
      BY <2>1, <3>1 DEF Mapped
    <3>3. r \in to
      BY <3>1, <3>2 DEF Holds
    <3>4. QED
      BY <2>5, <2>7, <3>1, <3>2, <3>3 DEF n
  <2>8. QED
    BY <2>6, <2>7
<1>2. QED
  BY <1>1, Invariance, PTL

\* Between two calls the map is a red-black tree, for any set of disjoint ranges
\* mapped in any order and any length of mappings[] (fixup and the rotations).
THEOREM TreeIsBalanced == Spec => []Balanced
<1>1. Inv => Balanced
  <2> SUFFICES ASSUME Inv, at = "idle" PROVE Balanced
    BY DEF Balanced
  <2>1. RedBlack(map, nil)
    BY DEF Inv
  <2>2. PICK h : Even(map, h)
    BY <2>1 DEF RedBlack
  <2>3. \A n \in Used(map) : Cardinality(BlackHeights[n]) = 1
    <3>1. map \in Map /\ Tree(map)
      BY <2>1 DEF RedBlack
    <3>2. \A n \in Used(map) : BlackHeights[n] = {h[n]}
      BY <2>2, <3>1, HeightsFound
    <3>3. QED
      BY <3>2, FS_Singleton
  <2>4. ~map.red[nil] /\ ~map.red[map.root]
    BY <2>1 DEF RedBlack, Calm
  <2>5. \A n \in Used(map), s \in Side : map.red[n] => ~map.red[map.kid[s][n]]
    BY <2>1 DEF RedBlack, Calm
  <2>6. \A n \in Used(map) :
          IF n = map.root THEN map.parent[n] = nil
          ELSE \E s \in Side : n = map.kid[s][map.parent[n]]
    BY <2>1, TreeLinks DEF RedBlack
  <2>7. QED
    BY <2>3, <2>4, <2>5, <2>6 DEF Balanced
<1>2. QED
  BY <1>1, Invariance, PTL
=============================================================================
