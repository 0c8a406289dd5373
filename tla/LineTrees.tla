------------------------------ MODULE LineTrees ------------------------------
(***************************************************************************)
(* The line tree of a wire: the lines of its segments in the order and the *)
(* direction in which they are met from the input.  The simulation takes   *)
(* the delays of a wire from it, the renderer what a wire shows.           *)
(*                                                                         *)
(* core/line_tree.cpp with component/line_tree, the graph and the search   *)
(* it is built with, and the checks of core/tree_normalization.cpp and     *)
(* core/line_tree_generation.cpp.  The segments of a wire are a function   *)
(* lines from keys; a line of a tree is a pair of points in either order.  *)
(***************************************************************************)
EXTENDS Wires

LinesOf(c, keys)      == [k \in keys |-> c.segments[k].line]
LinesOfWire(c, w)     == LinesOf(c, KeysOfWire(c, w))
PointsOfLines(lines)  == UNION {Ends(lines[k]) : k \in DOMAIN lines}
EndingIn(lines, p)    == {k \in DOMAIN lines : p \in Ends(lines[k])}

------------------------------------------------------------------------------
(* The graph of some lines, and the depth first search in it                 *)

Neighbors(lines, p) == UNION {Ends(lines[k]) : k \in EndingIn(lines, p)} \ {p}
\* A duplicate, or a point with more than four neighbors, throws.
IsGraph(lines) ==
    /\ \A j, k \in DOMAIN lines : Ends(lines[j]) = Ends(lines[k]) => j = k
    /\ \A p \in PointsOfLines(lines) : Cardinality(EndingIn(lines, p)) <= 4
IsLeaf(lines, p)   == Cardinality(EndingIn(lines, p)) = 1
IsCorner(lines, p) ==
    /\ Cardinality(EndingIn(lines, p)) = 2
    /\ \E j, k \in EndingIn(lines, p) : IsHorizontal(lines[j]) # IsHorizontal(lines[k])

\* The neighbors are visited in ascending order: the lowest is on top of the stack.
EdgesFrom(lines, p, parent) ==
    LET order == SetToSortSeq(Neighbors(lines, p) \ parent, LAMBDA q, r : PointBefore(r, q))
    IN [i \in DOMAIN order |-> <<p, order[i]>>]
VisitEdge(lines, s) ==
    LET edge == Last(s.stack)
    IN CASE s.loop \/ s.stack = <<>> -> s
         [] ~s.loop /\ s.stack # <<>> /\ edge[2] \in s.visited -> [s EXCEPT !.loop = TRUE]
         [] OTHER -> [s EXCEPT !.visited = @ \cup {edge[2]}, !.edges = Append(@, edge),
                               !.stack = Front(@) \o EdgesFrom(lines, edge[2], {edge[1]})]
\* Every step but the last one visits a point.
DepthFirstSearch(lines, root) ==
    LET count == Cardinality(PointsOfLines(lines))
        search[i \in 0 .. count] ==
            IF i = 0 THEN [stack |-> EdgesFrom(lines, root, {}), visited |-> {root},
                           edges |-> <<>>, loop |-> FALSE]
            ELSE VisitEdge(lines, search[i - 1])
    IN search[count]
IsSuccess(lines, s) == ~s.loop /\ s.visited = PointsOfLines(lines)

------------------------------------------------------------------------------
(* The lines of a tree with the lengths at which they start, and its leaves  *)

NoTree == [lines |-> <<>>, starts |-> <<>>, leaves |-> <<>>, failed |-> FALSE]
LineLength(line)    == Max({line[2][1] - line[1][1], line[1][1] - line[2][1],
                            line[2][2] - line[1][2], line[1][2] - line[2][2]})
EndLength(tree, i)  == tree.starts[i] + LineLength(tree.lines[i])
Previous(tree, p)   == {i \in DOMAIN tree.lines : tree.lines[i][2] = p}

\* Fault: a branch starts where the last line ends.
AddLineToLast(tree, line, previous) ==
    [tree EXCEPT !.lines = Append(@, line), !.starts = Append(@, EndLength(tree, Len(tree.lines))),
                 !.leaves = Append(IF previous = Len(tree.lines) THEN Front(@) ELSE @,
                                   Len(tree.lines) + 1)]
AddNextLine(tree, line, previous) ==
    [tree EXCEPT !.lines = Append(@, line), !.starts = Append(@, EndLength(tree, previous)),
                 !.leaves = Append(IF previous = Len(tree.lines) THEN Front(@) ELSE @,
                                   Len(tree.lines) + 1)]
IsNextLine(tree, line, previous) ==
    /\ previous = Len(tree.lines) \/ previous \notin Range(tree.leaves)
    /\ line[2] \notin {tree.lines[i][2] : i \in DOMAIN tree.lines}
\* The line that ends where this one starts was added before; the root has none.
AddLine(tree, line) ==
    CASE tree.failed -> tree
      [] ~tree.failed /\ tree.lines = <<>> ->
           [tree EXCEPT !.lines = <<line>>, !.starts = <<0>>, !.leaves = <<1>>]
      [] OTHER ->
           IF \E i \in Previous(tree, line[1]) : IsNextLine(tree, line, i)
           THEN AddNextLine(tree, line, Min(Previous(tree, line[1])))
           ELSE [tree EXCEPT !.failed = TRUE]

TreeOfSearch(lines, s) ==
    LET tree[i \in 0 .. Len(s.edges)] ==
            IF i = 0 THEN NoTree ELSE AddLine(tree[i - 1], s.edges[i])
    IN IF IsSuccess(lines, s) THEN tree[Len(s.edges)] ELSE [NoTree EXCEPT !.failed = TRUE]
ToLineTree(lines, root) ==
    IF IsGraph(lines) THEN TreeOfSearch(lines, DepthFirstSearch(lines, root))
                      ELSE [NoTree EXCEPT !.failed = TRUE]

InputPosition(c, w) == CHOOSE p \in Grid :
    \E k \in KeysOfWire(c, w) : p \in Ends(c.segments[k].line) /\ TypeAt(c.segments[k], p) = "input"
\* A wire without input has no line tree.
GenerateLineTree(c, w) ==
    IF WireInputCount(c, w) = 0 THEN NoTree
    ELSE ToLineTree(LinesOfWire(c, w), GraphPoint(c, w, InputPosition(c, w)))

StartsNewSubtree(tree, i)  == i > 1 /\ tree.lines[i - 1][2] # tree.lines[i][1]
OutputPosition(tree, x)    == tree.lines[tree.leaves[x]][2]
OutputLength(tree, x)      == EndLength(tree, tree.leaves[x])

------------------------------------------------------------------------------
(* What is asserted of a line tree                                           *)

TreeCrossPoints(tree) ==
    {tree.lines[i][1] : i \in {j \in DOMAIN tree.lines : StartsNewSubtree(tree, j)}}
TreeCorners(tree) ==
    {tree.lines[i][1] : i \in {j \in DOMAIN tree.lines : j > 1 /\ ~StartsNewSubtree(tree, j)}}
        \ TreeCrossPoints(tree)
EndsOfType(c, w, type) ==
    {<<k, p>> \in KeysOfWire(c, w) \X Grid :
        p \in Ends(c.segments[k].line) /\ TypeAt(c.segments[k], p) = type}
\* The ends with a type are at these points, one at each of them.
AreEndsAt(c, w, types, points) ==
    LET ends == UNION {EndsOfType(c, w, type) : type \in types}
    IN Cardinality(ends) = Cardinality(points) /\ {e[2] : e \in ends} = points

Ordered(line) == IF PointBefore(line[1], line[2]) THEN line ELSE <<line[2], line[1]>>
HasSameSegments(c, w, tree) ==
    /\ Len(tree.lines) = Cardinality(KeysOfWire(c, w))
    /\ {Ordered(tree.lines[i]) : i \in DOMAIN tree.lines} = Range(LinesOfWire(c, w))
IsEquivalent(c, w, tree) ==
    /\ HasSameSegments(c, w, tree)
    /\ AreEndsAt(c, w, {"cross"}, TreeCrossPoints(tree))
    /\ {e[2] : e \in EndsOfType(c, w, "corner")} = TreeCorners(tree)
    /\ tree.lines[1][1] = InputPosition(c, w)
    /\ AreEndsAt(c, w, {"output"}, {OutputPosition(tree, x) : x \in DOMAIN tree.leaves})

------------------------------------------------------------------------------
(* What is asserted of the segments of a wire                                *)

\* Lines in one row or column that touch or overlap become one.
UnitLines(line) == {SubLine(line, o, o + 1) : o \in Units(0, Length(line))}
Covered(lines)  == UNION {UnitLines(lines[k]) : k \in DOMAIN lines}
Rows            == {<<<<0, y>>, <<Width, y>>>> : y \in 0 .. Height}
Columns         == {<<<<x, 0>>, <<x, Height>>>> : x \in 0 .. Width}
MergedIn(row, covered) ==
    LET runs == Runs({o \in Units(0, Length(row)) : SubLine(row, o, o + 1) \in covered})
    IN {SubLine(row, runs[i].begin, runs[i].end) : i \in DOMAIN runs}
MergeSplitSegments(lines) == UNION {MergedIn(row, Covered(lines)) : row \in Rows \cup Columns}

SplitLine(line, points) ==
    LET offsets == {0, Length(line)} \cup {OffsetOf(line, p) : p \in points \cap Inner(line)}
    IN {SubLine(line, o, Min({e \in offsets : e > o})) : o \in offsets \ {Length(line)}}
SplitLines(lines, points) == UNION {SplitLine(line, points) : line \in lines}
PointsWithBothOrientations(lines) ==
    LET EndsWhere(horizontal) == UNION {Ends(l) : l \in {m \in lines : IsHorizontal(m) = horizontal}}
    IN EndsWhere(TRUE) \cap EndsWhere(FALSE)

\* Fault: lines that are cut where another line only passes are normal.
NormalizeSegmentsAnyCut(lines) == SplitLines(MergeSplitSegments(lines), PointsOfLines(lines))
NormalizeSegments(lines) ==
    LET merged == MergeSplitSegments(lines)
    IN SplitLines(merged, PointsWithBothOrientations(SplitLines(merged, PointsOfLines(lines))))

FirstLeaf(lines) ==
    LET leaves == {p \in PointsOfLines(lines) : IsLeaf(lines, p)}
    IN CHOOSE p \in leaves : \A q \in leaves : ~PointBefore(q, p)
IsConnectedTree(lines) ==
    /\ \E p \in PointsOfLines(lines) : IsLeaf(lines, p)
    /\ IsSuccess(lines, DepthFirstSearch(lines, FirstLeaf(lines)))
IsContiguousTree(lines) ==
    /\ DOMAIN lines # {} /\ IsGraph(lines) /\ IsConnectedTree(lines)
    /\ NormalizeSegments(lines) = Range(lines)

HasCorrectEndpoints(c, w) ==
    LET lines  == LinesOfWire(c, w)
        points == PointsOfLines(lines)
        Where(Is(_)) == {p \in points : Is(p)}
        IsMeeting(p) == Cardinality(EndingIn(lines, p)) >= 3
    IN /\ AreEndsAt(c, w, {"input", "output"}, Where(LAMBDA p : IsLeaf(lines, p)))
       /\ AreEndsAt(c, w, {"cross"}, Where(IsMeeting))
       /\ AreEndsAt(c, w, {"corner"}, Where(LAMBDA p : IsCorner(lines, p)))
       /\ \A e \in EndsOfType(c, w, "shadow") : IsCorner(lines, e[2]) \/ IsMeeting(e[2])

------------------------------------------------------------------------------
(* Properties                                                                *)

\* Lines form a wire if they hang together without a loop, and are cut where
\* one of them ends and nowhere else.
Grow(lines, keys) == {k \in DOMAIN lines : \E j \in keys : Ends(lines[j]) \cap Ends(lines[k]) # {}}
IsTree(lines) ==
    LET points == PointsOfLines(lines)
        grown[i \in Nat] == IF i = 0 THEN {Min(DOMAIN lines)} ELSE Grow(lines, grown[i - 1])
        Toward(p) == {OrientationAt(lines[k], p) : k \in EndingIn(lines, p)}
    IN /\ DOMAIN lines # {} /\ grown[Cardinality(DOMAIN lines)] = DOMAIN lines
       /\ Cardinality(points) = Cardinality(DOMAIN lines) + 1
       /\ \A k \in DOMAIN lines : Inner(lines[k]) \cap points = {}
       /\ \A p \in points : /\ Toward(p) \notin {{"left", "right"}, {"up", "down"}}
                            /\ Cardinality(Toward(p)) = Cardinality(EndingIn(lines, p))

\* The check that guards the edits of wires accepts exactly the trees, whichever
\* lines it is given (segments_are_contiguous_tree); it holds of every inserted
\* wire with its end points (edit_wire.cpp:236), and what is generated from the
\* wire is equivalent to it (line_tree_generation.cpp:27).
LineTreesEquivalent ==
    /\ \A keys \in SUBSET Keys(circuit) :
         LET lines == LinesOf(circuit, keys) IN IsContiguousTree(lines) <=> IsTree(lines)
    /\ \A w \in InsertedWires :
         LET tree == GenerateLineTree(circuit, w)
         IN /\ IsContiguousTree(LinesOfWire(circuit, w)) /\ HasCorrectEndpoints(circuit, w)
            /\ WireInputCount(circuit, w) > 0 => ~tree.failed /\ IsEquivalent(circuit, w, tree)
==============================================================================
