----------------------------- MODULE MemoryMap -----------------------------
(***************************************************************************)
(* The bus's table of devices (src/bus/memorymap.c): a red-black tree of   *)
(* address ranges in a fixed array of nodes, node 0 being nil.  Devices    *)
(* are mapped one after the other; every bus access outside the memory     *)
(* looks its address up.  One iteration of a loop of map_address_range is  *)
(* one action; nobody looks into the tree between two of them.             *)
(***************************************************************************)
EXTENDS Integers, FiniteSets

CONSTANTS
  Slots,    \* the lengths of mappings[] to look at, nil included (3 in the code)
  Ranges    \* what may be mapped: [start, length]

Top(r) == r.start + r.length - 1

ASSUME SlotsAssumption == Slots \subseteq Nat \ {0} /\ Slots # {}
ASSUME RangesAssumption ==
  /\ \A r \in Ranges : r.start \in Nat /\ r.length \in Nat \ {0}
  /\ \A r, s \in Ranges : r = s \/ Top(r) < s.start \/ Top(s) < r.start

VARIABLES
  slots,    \* the length of mappings[]
  map,      \* struct memory_map, as one function per field of its nodes
  at,       \* "idle", or the loop of map_address_range that is running
  range,    \* its argument
  check, cur, node,   \* its local variables and fixup's
  given,    \* history: the ranges map_address_range accepted
  refused   \* history: the ranges it did not

vars == <<slots, map, at, range, check, cur, node, given, refused>>

nil == 0
NULL == -1
Node == 0 .. slots - 1
Used(m) == 1 .. m.next - 1
NoRange == [start |-> 0, length |-> 0]

\* The fields `left' and `right' of a node.
Side == {"left", "right"}
Other(s) == IF s = "left" THEN "right" ELSE "left"

-----------------------------------------------------------------------------
(* The tree.                                                               *)

SetKid(m, s, n, x) == [m EXCEPT !.kid[s][n] = x]
SetParent(m, n, x) == [m EXCEPT !.parent[n] = x]
Paint(m, n, red) == [m EXCEPT !.red[n] = red]

\* y takes the place of n under n's parent.
Replace(m, n, y) ==
  LET p == m.parent[n]
      up == SetParent(m, y, p)
  IN IF p = nil THEN [up EXCEPT !.root = y]
     ELSE SetKid(up, IF n = m.kid["left"][p] THEN "left" ELSE "right", p, y)

\* Mutant of Rotate: the subtree that moves keeps its old parent.
RotateOrphan(m, n, s) ==
  LET y == m.kid[Other(s)][n]
      a == SetKid(m, Other(s), n, m.kid[s][y])
      b == Replace(a, n, y)
  IN SetParent(SetKid(b, s, y, n), n, y)

\* rotate_left, for s = "left", and its mirror image rotate_right.
Rotate(m, n, s) ==
  LET y == m.kid[Other(s)][n]
      a == SetKid(m, Other(s), n, m.kid[s][y])
      moved == IF m.kid[s][y] # nil THEN SetParent(a, m.kid[s][y], n) ELSE a
      b == Replace(moved, n, y)
  IN SetParent(SetKid(b, s, y, n), n, y)

\* Where a range that begins at `start' goes from node n.
Toward(m, n, start) == IF start < m.start[n] THEN "left" ELSE "right"

\* Mutant of LastAddress: one address too many.
LastAddressPast(r) == r.start + r.length

LastAddress(r) == r.start + r.length - 1

\* The new node below n, or at the root.
Hang(m, n, r) ==
  LET new == m.next
      hung == IF n = nil THEN [m EXCEPT !.root = new]
              ELSE SetKid(m, Toward(m, n, r.start), n, new)
  IN [hung EXCEPT !.next = @ + 1,
                  !.kid["left"][new] = nil, !.kid["right"][new] = nil,
                  !.parent[new] = n, !.red[new] = TRUE,
                  !.start[new] = r.start, !.end[new] = LastAddress(r)]

-----------------------------------------------------------------------------
(* map_address_range.                                                      *)

\* bus_init clears the controller; create_memory_map sets nil, root and next.
Init ==
  /\ slots \in Slots
  /\ map = [ kid |-> [s \in Side |-> [n \in Node |-> NULL]],
             parent |-> [n \in Node |-> NULL], red |-> [n \in Node |-> FALSE],
             start |-> [n \in Node |-> 0], end |-> [n \in Node |-> 0],
             root |-> nil, next |-> 1 ]
  /\ at = "idle" /\ range = NoRange
  /\ check = nil /\ cur = nil /\ node = nil
  /\ given = {} /\ refused = {}

\* num_mappings: one less than the array, which holds nil as well.
num_mappings == slots - 1

\* The call finds a free slot.
Begin ==
  /\ at = "idle" /\ map.next < num_mappings
  /\ range' \in Ranges \ given
  /\ at' = "descend" /\ check' = map.root /\ cur' = nil
  /\ UNCHANGED <<slots, map, node, given, refused>>

\* It finds none and returns 1, which bus_init ignores.
MapRefused ==
  /\ at = "idle" /\ map.next >= num_mappings
  /\ \E r \in Ranges \ (given \cup refused) : refused' = refused \cup {r}
  /\ UNCHANGED <<slots, map, at, range, check, cur, node, given>>

\* One node further down the tree.
Descend ==
  /\ at = "descend" /\ check # nil
  /\ cur' = check
  /\ check' = map.kid[Toward(map, check, range.start)][check]
  /\ UNCHANGED <<slots, map, at, range, node, given, refused>>

\* The entry is inserted, red.
Link ==
  /\ at = "descend" /\ check = nil
  /\ map' = Hang(map, cur, range)
  /\ node' = map.next
  /\ given' = given \cup {range}
  /\ at' = "fixup" /\ range' = NoRange /\ cur' = nil
  /\ UNCHANGED <<slots, check, refused>>

-----------------------------------------------------------------------------
(* fixup.  The two halves of its loop's body are mirror images.            *)

above == map.parent[node]
top == map.parent[above]
side == IF above = map.kid["left"][top] THEN "left" ELSE "right"
uncle == map.kid[Other(side)][top]

\* Case 1.
Recolour ==
  /\ at = "fixup" /\ map.red[above] /\ map.red[uncle]
  /\ map' = Paint(Paint(Paint(map, above, FALSE), uncle, FALSE), top, TRUE)
  /\ node' = top
  /\ UNCHANGED <<slots, at, range, check, cur, given, refused>>

\* The first rotation makes an inner grandchild an outer one.
Turned == IF node = map.kid[Other(side)][above] THEN Rotate(map, above, side)
          ELSE map

\* Cases 2 and 3.
Turn ==
  /\ at = "fixup" /\ map.red[above] /\ ~map.red[uncle]
  /\ node' = IF node = map.kid[Other(side)][above] THEN above ELSE node
  /\ LET p == Turned.parent[node']
         g == Turned.parent[p]
     IN map' = Rotate(Paint(Paint(Turned, p, FALSE), g, TRUE), g, Other(side))
  /\ UNCHANGED <<slots, at, range, check, cur, given, refused>>

\* The loop ends and the root is painted black.
Finish ==
  /\ at = "fixup" /\ ~map.red[above]
  /\ map' = Paint(map, map.root, FALSE)
  /\ at' = "idle" /\ node' = nil
  /\ UNCHANGED <<slots, range, check, cur, given, refused>>

\* Every range has been asked for: the devices are all there.
AllAsked ==
  at = "idle" /\ Ranges \subseteq given \cup refused /\ UNCHANGED vars

Next == \/ Begin \/ MapRefused \/ Descend \/ Link
        \/ Recolour \/ Turn \/ Finish \/ AllAsked

Spec == Init /\ [][Next]_vars

-----------------------------------------------------------------------------
(* Lookups.                                                                *)

\* resolve_mapped_address: the node whose range holds the address, or NULL.
\* On an empty map the code would read the fields of nil.
resolve_mapped_address(m, address) ==
  LET Search[n \in Used(m)] ==
        IF address < m.start[n] \/ address > m.end[n]
          THEN LET on == m.kid[IF address < m.start[n] THEN "left" ELSE "right"][n]
               IN IF on = nil THEN NULL ELSE Search[on]
          ELSE n
  IN Search[m.root]

-----------------------------------------------------------------------------
(* Properties.                                                             *)

\* The addresses in the ranges and next to them.
Probed == Nat \cap UNION {r.start - 1 .. Top(r) + 1 : r \in Ranges}

\* Whatever order the devices are mapped in, and however the tree has been
\* turned, each address leads to the device that was given it and every other
\* address to none (on which bus_read_word and bus_write_word abort); a call
\* that was refused has changed nothing.
Resolves ==
  at = "idle" /\ given # {} => \A a \in Probed :
    LET n == resolve_mapped_address(map, a)
        to == {r \in given : r.start <= a /\ a <= Top(r)}
    IN IF to = {} THEN n = NULL
       ELSE \E r \in to : n # NULL /\ map.start[n] = r.start /\ map.end[n] = Top(r)

\* The numbers of black nodes on the ways down from each node.
BlackHeights ==
  LET heights[n \in 0 .. map.next - 1] ==
        IF n = nil THEN {0}
        ELSE {h + IF map.red[n] THEN 0 ELSE 1 :
                h \in UNION {heights[map.kid[s][n]] : s \in Side}}
  IN heights

\* The tree stays a red-black tree, which is what keeps its lookups short: a
\* black root, no red node under a red one, as many black nodes on every way
\* down, nil black, and every node linked from the parent it names.
Balanced ==
  at = "idle" =>
    /\ ~map.red[nil] /\ ~map.red[map.root]
    /\ \A n \in Used(map) :
         /\ Cardinality(BlackHeights[n]) = 1
         /\ map.red[n] => \A s \in Side : ~map.red[map.kid[s][n]]
         /\ IF n = map.root THEN map.parent[n] = nil
            ELSE \E s \in Side : n = map.kid[s][map.parent[n]]
=============================================================================
