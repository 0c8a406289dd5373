------------------------- MODULE SchematicGeneration -------------------------
(***************************************************************************)
(* How a layout becomes the schematic that a simulation runs:              *)
(* core/schematic_generation.cpp, with add_element and connect of          *)
(* core/schematic.cpp; and how the wires of a layout are saved and loaded: *)
(* core/serialize.cpp.                                                     *)
(*                                                                         *)
(* Logic items become the first elements, wires the next ones, and outputs *)
(* of items that nothing is connected to get placeholders.  A schematic is *)
(* a record of the constants of module Schematic, while it is built.       *)
(***************************************************************************)
EXTENDS LineTrees

CONSTANTS
    LogicItems,      \* the items of the layout, the first has id 0: type; inserted, or still
                     \* temporary or colliding; inputInverters and outputInverters, one for
                     \* each input and output; inputs and outputs, the points of those that
                     \* have one; delays of the outputs
    WireDelays       \* wire_delay_per_distance

ItemIds      == 0 .. Len(LogicItems) - 1
Item(i)      == LogicItems[i + 1]
InsertedItems == {i \in ItemIds : Item(i).inserted}
\* A point with an output or input of an inserted item: the item and the id.
OutputsAt(p) == {<<i, j>> \in InsertedItems \X (0 .. 9) :
                    j \in DOMAIN Item(i).outputs /\ Item(i).outputs[j] = p}
InputsAt(p)  == {<<i, j>> \in InsertedItems \X (0 .. 9) :
                    j \in DOMAIN Item(i).inputs /\ Item(i).inputs[j] = p}

\* The connections of inserted items are where the collision index has them,
\* and no two of them are at one point.
ASSUME LogicItemsValid ==
    /\ \A p \in Grid : /\ Cardinality(OutputsAt(p)) = IF p \in DOMAIN ItemOutputs THEN 1 ELSE 0
                       /\ Cardinality(InputsAt(p)) = IF p \in DOMAIN ItemInputs THEN 1 ELSE 0
    /\ DOMAIN ItemOutputs \cap DOMAIN ItemInputs = {}
    /\ \A i \in ItemIds : /\ DOMAIN Item(i).outputs \subseteq DOMAIN Item(i).outputInverters
                          /\ DOMAIN Item(i).inputs \subseteq DOMAIN Item(i).inputInverters
                          /\ DOMAIN Item(i).delays = DOMAIN Item(i).outputInverters
    /\ WireDelays \subseteq Nat

Epsilon   == 1
NullInput == <<-1, -1>>
Compatible(a, b) == "undirected" \in {a, b} \/ a = Opposite[b]

------------------------------------------------------------------------------
(* Elements and connections                                                  *)

EmptySchematic == [count |-> 0, type |-> <<>>, inputCount |-> <<>>, outputCount |-> <<>>,
                   sink |-> <<>>, inverted |-> <<>>, delay |-> <<>>, history |-> <<>>,
                   failed |-> FALSE]
\* The constants of module Schematic that a simulation of the schematic gets.
Simulated(s) == INSTANCE Schematic WITH
    ElementCount <- s.count, Type <- s.type, InputCount <- s.inputCount,
    OutputCount <- s.outputCount, Sink <- s.sink, Inverted <- s.inverted,
    Delay <- s.delay, HistoryLength <- s.history

OfElement(e, values) == [o \in {e} \X DOMAIN values |-> values[o[2]]]
IsElementValid(s, new) ==
    /\ \A j \in DOMAIN new.delays : new.delays[j] > 0
    /\ new.history >= 0
    /\ Simulated(s)!CountsValid(new.type, Cardinality(DOMAIN new.inverters),
                                Cardinality(DOMAIN new.delays))
AddElement(s, new) ==
    LET e == s.count
        Nothing == [j \in DOMAIN new.delays |-> NullInput]
    IN IF s.failed \/ ~IsElementValid(s, new) THEN [s EXCEPT !.failed = TRUE]
       ELSE [s EXCEPT !.count = e + 1, !.type = @ @@ (e :> new.type),
                      !.inputCount  = @ @@ (e :> Cardinality(DOMAIN new.inverters)),
                      !.outputCount = @ @@ (e :> Cardinality(DOMAIN new.delays)),
                      !.sink = @ @@ OfElement(e, Nothing), !.delay = @ @@ OfElement(e, new.delays),
                      !.inverted = @ @@ OfElement(e, new.inverters),
                      !.history = @ @@ (e :> new.history)]
AddElements(s, new) ==
    LET added[i \in 0 .. Len(new)] == IF i = 0 THEN s ELSE AddElement(added[i - 1], new[i])
    IN added[Len(new)]

\* What was connected to the input or the output is connected no more.
Connect(s, output, input) ==
    [s EXCEPT !.sink = [o \in DOMAIN @ |-> CASE o = output -> input
                                              [] o # output /\ @[o] = input -> NullInput
                                              [] OTHER -> @[o]]]
ConnectAll(s, pairs) ==
    LET connected[i \in 0 .. Len(pairs)] ==
            IF i = 0 THEN s ELSE Connect(connected[i - 1], pairs[i][1], pairs[i][2])
    IN connected[Len(pairs)]

------------------------------------------------------------------------------
(* The elements of a layout                                                  *)

Ids(count) == 0 .. count - 1
All(count, value) == [j \in Ids(count) |-> value]
UnusedElement == [type |-> "unused", inverters |-> <<>>, delays |-> <<>>, history |-> 0]
PlaceholderElement ==
    [type |-> "placeholder", inverters |-> All(1, FALSE), delays |-> <<>>, history |-> 0]
ItemElement(item) ==
    IF item.inserted THEN [type |-> item.type, inverters |-> item.inputInverters,
                           delays |-> item.delays, history |-> 0]
    ELSE UnusedElement

OutputDelays(tree, wireDelay) ==
    [x \in Ids(Len(tree.leaves)) |-> wireDelay * OutputLength(tree, x + 1)]
\* Wires without delay have the shortest one, and no history.
WireWithInput(tree, wireDelay) ==
    [type |-> "wire", inverters |-> All(1, FALSE),
     delays |-> IF wireDelay = 0 THEN All(Len(tree.leaves), Epsilon)
                ELSE OutputDelays(tree, wireDelay),
     history |-> IF wireDelay = 0 THEN 0 ELSE Max(Range(OutputDelays(tree, wireDelay)))]
WireWithoutInput(c, w) ==
    [type |-> "wire", inverters |-> <<>>,
     delays |-> All(Cardinality(EndsOfType(c, w, "output")), Epsilon), history |-> 0]
WireElement(c, w, tree, wireDelay) ==
    IF tree.lines = <<>> THEN WireWithoutInput(c, w) ELSE WireWithInput(tree, wireDelay)

\* The size of the wire store: wires that are not inserted count if one is in use.
WireStoreSize(c) ==
    CASE c.wires > 0 -> c.wires + FirstInserted
      [] c.wires = 0 /\ KeysOfWire(c, CollidingWire) # {} -> CollidingWire + 1
      [] OTHER -> IF KeysOfWire(c, TemporaryWire) # {} THEN TemporaryWire + 1 ELSE 0
InsertedWire(i) == FirstInserted + i - 1
LayoutElements(c, trees, wireDelay) ==
    [i \in 1 .. Len(LogicItems) |-> ItemElement(LogicItems[i])]
    \o [w \in 1 .. Min({WireStoreSize(c), FirstInserted}) |-> UnusedElement]
    \o [i \in 1 .. c.wires |-> WireElement(c, InsertedWire(i), trees[InsertedWire(i)], wireDelay)]
WireElementId(w) == Len(LogicItems) + w

------------------------------------------------------------------------------
(* Connections                                                               *)

TheOne(set) == CHOOSE x \in set : TRUE
InternalConnections(i) ==
    IF Item(i).inserted /\ Item(i).type = "clock_generator"
    THEN <<<<<<i, 1>>, <<i, 1>>>>, <<<<i, 2>>, <<i, 2>>>>>> ELSE <<>>

InputConnections(w, tree) ==
    LET p == tree.lines[1][1]
    IN IF OutputsAt(p) = {} THEN <<>>
       ELSE <<<<TheOne(OutputsAt(p)), <<WireElementId(w), 0>>>>>>
OutputConnections(w, positions) ==
    LET entries == [x \in DOMAIN positions |-> [at |-> positions[x], id |-> x - 1]]
        connected == SelectSeq(entries, LAMBDA entry : InputsAt(entry.at) # {})
    IN [x \in DOMAIN connected |->
            <<<<WireElementId(w), connected[x].id>>, TheOne(InputsAt(connected[x].at))>>]
TreeConnections(w, tree) ==
    InputConnections(w, tree)
    \o OutputConnections(w, [x \in DOMAIN tree.leaves |-> OutputPosition(tree, x)])
\* Without input, the outputs are numbered as their ends meet an item.
EndConnections(c, w) ==
    OutputConnections(w, SetToSeq({e[2] : e \in {d \in EndsOfType(c, w, "output") :
                                                    InputsAt(d[2]) # {}}}))
WireConnections(c, w, tree) ==
    IF tree.lines = <<>> THEN EndConnections(c, w) ELSE TreeConnections(w, tree)

\* An end that meets an item sideways throws.
IsItemMetSideways(c, w) ==
    \E k \in KeysOfWire(c, w) : \E p \in Ends(c.segments[k].line) :
        LET o == OrientationAt(c.segments[k].line, p)
        IN \/ /\ TypeAt(c.segments[k], p) = "input" /\ p \in DOMAIN ItemOutputs
              /\ ~Compatible(ItemOutputs[p], o)
           \/ /\ TypeAt(c.segments[k], p) = "output" /\ p \in DOMAIN ItemInputs
              /\ ~Compatible(ItemInputs[p], o)

Concatenated(seqs) ==
    LET joined[i \in 0 .. Len(seqs)] == IF i = 0 THEN <<>> ELSE joined[i - 1] \o seqs[i]
    IN joined[Len(seqs)]
CreateConnections(s, c, trees) ==
    ConnectAll(s, Concatenated([i \in 1 .. Len(LogicItems) |-> InternalConnections(i - 1)])
                  \o Concatenated([i \in 1 .. c.wires |->
                        WireConnections(c, InsertedWire(i), trees[InsertedWire(i)])]))

ItemOutputIds == SetToSortSeq({<<i, j>> \in InsertedItems \X (0 .. 9) : j \in DOMAIN Item(i).delays},
                              PointBefore)
AddPlaceholder(s, output) ==
    IF s.failed \/ s.sink[output] # NullInput THEN s
    ELSE Connect(AddElement(s, PlaceholderElement), output, <<s.count, 0>>)
AddMissingPlaceholders(s) ==
    LET added[i \in 0 .. Len(ItemOutputIds)] ==
            IF i = 0 THEN s ELSE AddPlaceholder(added[i - 1], ItemOutputIds[i])
    IN added[Len(ItemOutputIds)]

\* An inverted output inverts the input that it drives.
InvertedSinks(s) == {s.sink[o] : o \in {p \in Range(ItemOutputIds) : Item(p[1]).outputInverters[p[2]]}}
SetOutputInverters(s) ==
    IF s.failed THEN s
    ELSE [s EXCEPT !.inverted = [p \in DOMAIN @ |-> @[p] \/ p \in InvertedSinks(s)]]

GenerateSchematic(c, wireDelay) ==
    LET wires == FirstInserted .. LastWire(c)
        trees == [w \in wires |-> GenerateLineTree(c, w)]
        elements == AddElements(EmptySchematic, LayoutElements(c, trees, wireDelay))
    IN IF \E w \in wires : trees[w].failed \/ IsItemMetSideways(c, w)
       THEN [EmptySchematic EXCEPT !.failed = TRUE]
       ELSE SetOutputInverters(AddMissingPlaceholders(CreateConnections(elements, c, trees)))

------------------------------------------------------------------------------
(* Saved wires                                                               *)

\* The wires one by one; the segments of a wire are in an order that depends on
\* how it was drawn.
SegmentsInOrder(c, w, order) ==
    LET keys == SetToSortSeq(KeysOfWire(c, w),
                             LAMBDA j, k : IF order = "low_first" THEN j < k ELSE k < j)
    IN [i \in DOMAIN keys |-> c.segments[keys[i]].line]
SavedLines(c, order) ==
    Concatenated([i \in 1 .. c.wires |-> SegmentsInOrder(c, InsertedWire(i), order)])
\* Fault: what is loaded stays marked as just inserted.
LoadSavedMarked(lines) ==
    LET added[i \in 0 .. Len(lines)] == IF i = 0 THEN EmptyCircuit
            ELSE AddWireSegment(added[i - 1], lines[i], "collisions")
    IN added[Len(lines)]
LoadSaved(lines) == AddLines(EmptyCircuit, lines)

------------------------------------------------------------------------------
(* Layouts: lines that are added and drawn, crossings that are connected     *)

DrawingNext ==
    \/ DoAddWireSegment \/ DoDrawWire \/ DoDrawNothing \/ DoRetractWire \/ DoToggleCrosspoint
    \/ DoFinishUndoGroup \/ DoUndoGroup
DrawingSpec == Init /\ [][DrawingNext]_circuit

------------------------------------------------------------------------------
(* Properties                                                                *)

\* The points that hang together with p, with their distance along the lines:
\* lines are connected where they end, never where they cross.
Distances(c, p) ==
    LET Lines  == {c.segments[k].line : k \in {j \in Keys(c) : IsInserted(c.segments[j])}}
        Other(line, q) == IF q = line[1] THEN line[2] ELSE line[1]
        Along(reached) == {<<l, r>> \in Lines \X reached : r[1] \in Ends(l)}
        Step(reached)  == {<<Other(a[1], a[2][1]), a[2][2] + Length(a[1])>> : a \in Along(reached)}
        Extend(reached)  == reached \cup {s \in Step(reached) : \A r \in reached : r[1] # s[1]}
        grown[i \in Nat] == IF i = 0 THEN {<<p, 0>>} ELSE Extend(grown[i - 1])
    IN grown[Cardinality(Lines)]
DistancesTo(c, p, q) == {r[2] : r \in {t \in Distances(c, p) : t[1] = q}}

ItemOutputPoints == [o \in UNION {OutputsAt(p) : p \in Grid} |-> Item(o[1]).outputs[o[2]]]
ItemInputPoints  == [i \in UNION {InputsAt(p) : p \in Grid} |-> Item(i[1]).inputs[i[2]]]
WireDelayOf(distance, wireDelay) == IF wireDelay = 0 THEN Epsilon ELSE wireDelay * distance
\* The delays on the way from an output over a wire to an input.
DelaysBetween(s, o, i) ==
    {s.delay[x] : x \in {y \in DOMAIN s.sink : /\ s.sink[y] = i
                                                /\ s.type[y[1]] = "wire"
                                                /\ s.sink[o] = <<y[1], 0>>}}

ItemsAreConnected(c, s, wireDelay) ==
    /\ \A o \in DOMAIN ItemOutputPoints, i \in DOMAIN ItemInputPoints :
         DelaysBetween(s, o, i) =
            {WireDelayOf(d, wireDelay) : d \in DistancesTo(c, ItemOutputPoints[o], ItemInputPoints[i])}
    /\ \A o \in Range(ItemOutputIds) :
         s.sink[o] # NullInput /\ s.inverted[s.sink[o]] = Item(o[1]).outputInverters[o[2]]
\* A wire that no output drives drives its inputs alike, and nothing drives it.
InputsWithoutOutput(c, s) == \A i, j \in DOMAIN ItemInputPoints :
    LET Drivers(k) == {o[1] : o \in {x \in DOMAIN s.sink : s.sink[x] = k}}
        points == {r[1] : r \in Distances(c, ItemInputPoints[i])}
    IN points \cap DOMAIN ItemOutputs = {} =>
          /\ \A e \in Drivers(i) : s.type[e] = "wire" /\ s.inputCount[e] = 0
          /\ (Drivers(i) # {}) = (points # {ItemInputPoints[i]})
          /\ ItemInputPoints[j] \in points => Drivers(i) = Drivers(j)

\* Generation never throws, the schematic fulfils what a simulation assumes of
\* it, and an output of a logic item drives an input if and only if the lines
\* between them are connected, with the delay of their length and inverted as
\* the item says; wires that cross stay apart (generate_schematic).
SchematicFollowsLayout == \A wireDelay \in WireDelays :
    \E s \in {GenerateSchematic(circuit, wireDelay)} :
        /\ ~s.failed
        /\ Simulated(s)!SizesValid /\ Simulated(s)!ConnectionsValid /\ Simulated(s)!InvertersValid
        /\ ItemsAreConnected(circuit, s, wireDelay)
        /\ InputsWithoutOutput(circuit, s)

\* A layout in which everything is inserted for good is what is loaded after it
\* was saved: the same lines in the same wires with the same end points, although
\* a cut line is whole again for a while (serialize_all, LoadLayoutResult::add_to).
IsNormal(c) == \A k \in Keys(c) : IsInserted(c.segments[k]) /\ c.segments[k].valid = {}
SavedView(c) ==
    [lines  |-> {c.segments[k].line : k \in Keys(c)},
     wires  |-> Drawing(c),
     points |-> UNION {{<<p, TypeAt(c.segments[k], p)>> : p \in Ends(c.segments[k].line)} : k \in Keys(c)}]
SavedIsLoaded == IsNormal(circuit) => \A order \in Order :
    \E loaded \in {LoadSaved(SavedLines(circuit, order))} :
        ~loaded.failed /\ IsNormal(loaded) /\ SavedView(loaded) = SavedView(circuit)
==============================================================================
