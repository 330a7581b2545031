------------------------------ MODULE DirtyRects ------------------------------
(***************************************************************************)
(* How changed blocks of the screen become rectangles                      *)
(* (agent/capture/diff.go, mergeBlocksToRects): a scan over the grid, a    *)
(* breadth-first search from each changed block that is not yet visited,   *)
(* the bounds of what the search finds, and a clamp to the frame.          *)
(***************************************************************************)
EXTENDS Naturals, Sequences, SequencesExt

CONSTANTS BlockSize, Width, Height   \* the frame, in pixels

ASSUME RectsAssumption == {BlockSize, Width, Height} \subseteq Nat \ {0}

VARIABLES
  dirty,   \* the changed blocks of the grid
  scan,    \* the next block of the scan, as an index
  visited, \* the blocks the searches have reached
  queue,   \* the search's queue, and the bounds of what it has taken from it
  bounds,
  rects    \* what has been found, in pixels

rectVars == <<dirty, scan, visited, queue, bounds, rects>>

GridW == (Width + BlockSize - 1) \div BlockSize
GridH == (Height + BlockSize - 1) \div BlockSize
Grid  == (0 .. GridW - 1) \X (0 .. GridH - 1)
Block(i) == <<i % GridW, i \div GridW>>

Least(a, b)    == IF a < b THEN a ELSE b
Greatest(a, b) == IF a > b THEN a ELSE b
BoundsOf(b)    == [minX |-> b[1], maxX |-> b[1], minY |-> b[2], maxY |-> b[2]]

\* Mutant of Expanded: the upper bounds are those of the last block.
ExpandedToLast(r, b) ==
  [minX |-> Least(r.minX, b[1]), maxX |-> b[1], minY |-> Least(r.minY, b[2]), maxY |-> b[2]]

Expanded(r, b) ==
  [minX |-> Least(r.minX, b[1]), maxX |-> Greatest(r.maxX, b[1]),
   minY |-> Least(r.minY, b[2]), maxY |-> Greatest(r.maxY, b[2])]

Adjacent(a, b) ==
  \/ a[2] = b[2] /\ (a[1] = b[1] + 1 \/ b[1] = a[1] + 1)
  \/ a[1] = b[1] /\ (a[2] = b[2] + 1 \/ b[2] = a[2] + 1)

\* A rectangle in pixels, no larger than the frame.
Pixels(r) ==
  LET x == Least(r.minX * BlockSize, Width)
      y == Least(r.minY * BlockSize, Height)
  IN  [x |-> x, w |-> Least((r.maxX - r.minX + 1) * BlockSize, Width - x),
       y |-> y, h |-> Least((r.maxY - r.minY + 1) * BlockSize, Height - y)]

RectsInit ==
  /\ dirty \in SUBSET Grid /\ scan = 0 /\ visited = {}
  /\ queue = << >> /\ bounds = BoundsOf(<<0, 0>>) /\ rects = {}

Scanned == scan = GridW * GridH

\* A block that is unchanged, or was reached by an earlier search.
Pass ==
  /\ queue = << >> /\ ~Scanned /\ Block(scan) \notin dirty \ visited
  /\ scan' = scan + 1 /\ UNCHANGED <<dirty, visited, queue, bounds, rects>>

Begin ==
  /\ queue = << >> /\ ~Scanned /\ Block(scan) \in dirty \ visited
  /\ queue' = <<Block(scan)>> /\ visited' = visited \cup {Block(scan)}
  /\ bounds' = BoundsOf(Block(scan)) /\ UNCHANGED <<dirty, scan, rects>>

\* One round of the search; the last one appends the rectangle.
Search ==
  /\ queue # << >>
  /\ LET b    == Head(queue)
         next == {n \in dirty \ visited : Adjacent(n, b)}
     IN  /\ bounds' = Expanded(bounds, b)
         /\ visited' = visited \cup next
         /\ queue' = Tail(queue) \o SetToSeq(next)
         /\ rects' = IF queue' = << >> THEN rects \cup {Pixels(bounds')} ELSE rects
  /\ UNCHANGED <<dirty, scan>>

RectsNext == Pass \/ Begin \/ Search

RectsSpec == RectsInit /\ [][RectsNext]_rectVars

-----------------------------------------------------------------------------
RectsTypeOK ==
  /\ dirty \subseteq Grid /\ visited \subseteq dirty /\ scan \in 0 .. GridW * GridH
  /\ \A i \in DOMAIN queue : queue[i] \in visited
  /\ \A r \in rects : r.x + r.w <= Width /\ r.y + r.h <= Height /\ r.w > 0 /\ r.h > 0

\* The reference: the connected parts of the changed blocks, each as a set.
Linked(S) == \A T \in SUBSET S :
  T # {} /\ T # S => \E a \in T, b \in S \ T : Adjacent(a, b)
Parts == {S \in SUBSET dirty : S # {} /\ Linked(S)
                              /\ ~ \E a \in S, b \in dirty \ S : Adjacent(a, b)}
BoxOf(S) ==
  LET xs == {b[1] : b \in S}
      ys == {b[2] : b \in S}
      low(N) == CHOOSE n \in N : \A m \in N : n <= m
      top(N) == CHOOSE n \in N : \A m \in N : n >= m
  IN  [minX |-> low(xs), maxX |-> top(xs), minY |-> low(ys), maxY |-> top(ys)]

\* The rectangles found are the boxes of the connected parts of what changed, cut to the
\* frame: no part is missed, split or joined to another (diff.go, mergeBlocksToRects).
RectsAreParts == Scanned => rects = {Pixels(BoxOf(S)) : S \in Parts}
=============================================================================
