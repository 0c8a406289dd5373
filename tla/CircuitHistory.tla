--------------------------- MODULE CircuitHistory ---------------------------
(***************************************************************************)
(* Editing a circuit with undo and redo: component/editable_circuit.       *)
(*                                                                         *)
(* Every edit pushes its inverse on a stack, and drops entries that cancel *)
(* each other.  Undo pops the entries of one group and performs them with  *)
(* the same edit functions, which then push their own inverses on the      *)
(* other stack.  Entries name elements by keys that never change; ids are  *)
(* positions in the layout and move when an element is deleted.            *)
(*                                                                         *)
(* An edit is an operator from a circuit to a circuit, since a replay      *)
(* performs many of them.  An exception sets failed, and nothing follows.  *)
(* Elements are logic items that occupy one cell of a row; wires and       *)
(* decorations are left out.  An operator whose comment starts with        *)
(* "Fault" is a faulty variant of the one that follows it.                 *)
(***************************************************************************)
EXTENDS Integers, Sequences, FiniteSets, SequencesExt, FiniteSetsExt, HistoryStack

CONSTANTS
    Cells,        \* positions that are representable: 1..Cells
    Attributes,   \* attributes_clock_generator_t
    Rects,        \* sets of cells that a selection rectangle covers
    Loaded,       \* what may be loaded: its items; the methods of EditableCircuit that are
                  \* called on it; bounds for them: entryMax, entries on both stacks,
                  \* new_group aside; selectionMax, items in a selection that is edited
    NewDefinitions, \* definitions of the items that are added
    KeyMax,       \* bound: keys handed out by the key index
    ItemMax,      \* bound: items in the layout
    OperationMax  \* bound: operations of the visible selection

Definition == [attrs : Attributes, inverted : BOOLEAN]

ASSUME CircuitConstants ==
    /\ Cells \in Nat \ {0}
    /\ KeyMax \in Nat /\ ItemMax \in Nat /\ OperationMax \in Nat
    /\ NewDefinitions \subseteq Definition
    /\ \A loaded \in Loaded :
          /\ loaded.items \in Seq([def : Definition, position : 1 .. Cells])
          /\ IsInjective([i \in DOMAIN loaded.items |-> loaded.items[i].position])
          /\ loaded.entryMax \in Nat /\ loaded.selectionMax \in Nat
    /\ \A r \in Rects : r \subseteq 1 .. Cells

VARIABLE circuit

Display == {"temporary", "colliding", "valid", "normal"}
Mode    == {"temporary", "collisions", "insert_or_discard"}
Hint    == {"no_hint", "expect_valid", "assume_colliding"}
SelectionFunction == {"add", "substract"}

Operation  == [function : SelectionFunction, rect : Rects]

\* Ids are the indexes of items; keys[id] is the key of id in the key index.
Ids(c) == 1 .. Len(c.items)
LoadedItem(item) == [def |-> item.def, position |-> item.position, display |-> "normal"]
LoadedCircuit(loaded) ==
    [items |-> [i \in DOMAIN loaded.items |-> LoadedItem(loaded.items[i])],
     keys |-> [i \in DOMAIN loaded.items |-> i], nextKey |-> Len(loaded.items) + 1,
     loaded |-> loaded,
     stored |-> <<>>,                      \* a selection in the selection store
     initial |-> {}, operations |-> <<>>,  \* the visible selection
     cached |-> {},                        \* what was calculated for it, if anything
     history |-> "track_undo_new", undo |-> <<>>, redo |-> <<>>,
     failed |-> FALSE]

------------------------------------------------------------------------------
(* Pushing on the stacks of HistoryStack: an entry that has a key is pushed   *)
(* for the element of that key.                                               *)

TopIs(s, type, key) == s # <<>> /\ Last(s).type = type /\ Last(s).key = key

\* Fault: the key of the entry on top is not compared.
PushOrCancelAny(c, e, type) ==
    Record(c, LAMBDA s : IF s # <<>> /\ Last(s).type = type THEN Front(s)
                                                             ELSE Append(s, e))
\* Push e, unless an entry of the given type is on top that e undoes.
PushOrCancel(c, e, type) ==
    Record(c, LAMBDA s : IF TopIs(s, type, e.key) THEN Front(s) ELSE Append(s, e))

PushChangeAttributes(c, key, attrs) ==
    Record(c, LAMBDA s :
        IF TopIs(s, "change_attributes", key) THEN s
        ELSE Append(s, [type |-> "change_attributes", key |-> key, attrs |-> attrs]))

\* An operation that was added in this group goes with all its updates.
PushAddOperation(c, op) ==
    Record(c, LAMBDA s :
        LET last == SelectLastInSeq(s, LAMBDA e : e.type # "update_last")
        IN IF last # 0 /\ s[last].type = "pop_last" THEN SubSeq(s, 1, last - 1)
           ELSE Append(s, [type |-> "add_operation", operation |-> op]))

PushUpdateLast(c, rect) ==
    Record(c, LAMBDA s :
        IF s # <<>> /\ Last(s).type = "update_last" THEN s
        ELSE Append(s, [type |-> "update_last", rect |-> rect]))

------------------------------------------------------------------------------
(* Logic items: editing/edit_logicitem.cpp                                   *)

IsInserted(item) == item.display \in {"valid", "normal"}

ToMode(display) == CASE display = "temporary" -> "temporary"
                     [] display \in {"colliding", "valid"} -> "collisions"
                     [] display = "normal" -> "insert_or_discard"

\* Fault: valid items, which may still be moved, are not in the way.
IsCollidingWithNormal(c, id) ==
    \E j \in Ids(c) \ {id} : /\ c.items[j].display = "normal"
                             /\ c.items[j].position = c.items[id].position
IsColliding(c, id) ==
    \E j \in Ids(c) \ {id} : /\ IsInserted(c.items[j])
                             /\ c.items[j].position = c.items[id].position

SetDisplay(c, id, display) == [c EXCEPT !.items[id].display = display]

PushAddVisible(c, key) ==
    PushOrCancel(c, Entry("add_visible", key), "remove_visible")
PushRemoveVisible(c, key) ==
    PushOrCancel(c, Entry("remove_visible", key), "add_visible")
PushCreate(c, key, item) ==
    PushOrCancel(c, [type |-> "create", key |-> key, def |-> item.def,
                     position |-> item.position], "delete")

\* Fault: the visible selection does not receive the messages of the layout.
NotSubmitted(c) == c
\* The visible selection drops its cache with every message of the layout.
Submit(c) == [c EXCEPT !.cached = {}]

SwapAndDelete(s, i) == Front([s EXCEPT ![i] = Last(s)])
\* What LogicItemDeleted and LogicItemIdUpdated do to a selection.
AfterDelete(ids, id, last) == {IF i = last THEN id ELSE i : i \in ids \ {id}}

\* A selection is a dense hash set: erasing moves its last member to the gap.
Erase(s, id) == IF Contains(s, id) THEN SwapAndDelete(s, SelectInSeq(s, LAMBDA i : i = id)) ELSE s
\* Fault: the last element's new id is not noticed.
StoredAfterDeleteForgotten(s, id, last) == Erase(s, id)
StoredAfterDelete(s, id, last) ==
    LET erased == Erase(s, id)
    IN IF id # last /\ Contains(erased, last) THEN Append(Erase(erased, last), id)
                                              ELSE erased

DeleteTemporary(c, id) ==
    LET last == Len(c.items)
        c1 == IF id \in c.initial THEN PushAddVisible(c, c.keys[id]) ELSE c
        c2 == PushCreate(c1, c.keys[id], c.items[id])
    IN IF c.items[id].display # "temporary" THEN Fail(c)
       ELSE [Submit(c2) EXCEPT !.items = SwapAndDelete(@, id),
                       !.keys = SwapAndDelete(@, id),
                       !.initial = AfterDelete(@, id, last),
                       !.stored = StoredAfterDelete(@, id, last)]

IsRepresentable(position) == position \in 1 .. Cells

\* Unchecked by the release build only: two assertions.
MoveTemporaryUnchecked(c, id, delta) ==
    IF \/ c.items[id].display # "temporary"
       \/ ~IsRepresentable(c.items[id].position + delta)
    THEN Fail(c)
    ELSE [PushEntry(c, [type |-> "move", key |-> c.keys[id], delta |-> -delta])
            EXCEPT !.items[id].position = @ + delta]

MoveOrDeleteTemporary(c, id, delta) ==
    LET temporary == c.items[id].display = "temporary"
        moved     == c.items[id].position + delta
    IN CASE ~temporary -> Fail(c)
         [] temporary /\ delta = 0 -> c
         [] temporary /\ delta # 0 /\ ~IsRepresentable(moved) -> DeleteTemporary(c, id)
         [] OTHER -> MoveTemporaryUnchecked(c, id, delta)

TemporaryToColliding(c, id, hint) ==
    LET collides == IsColliding(c, id)
        c1 == PushEntry(c, Entry("to_temporary", c.keys[id]))
    IN CASE c.items[id].display # "temporary" \/ (collides /\ hint = "expect_valid") ->
              Fail(c)
         [] c.items[id].display = "temporary" /\ hint # "expect_valid"
            /\ (collides \/ hint = "assume_colliding") -> SetDisplay(c1, id, "colliding")
         [] OTHER -> SetDisplay(Submit(c1), id, "valid")

\* Fault: an item that collides is restored as a valid one.
CollidingToTemporaryExpectValid(c, id) ==
    SetDisplay(Submit(PushOrCancel(c, Entry("to_colliding_expect_valid", c.keys[id]),
                                   "to_temporary")), id, "temporary")
CollidingToTemporary(c, id) ==
    LET key == c.keys[id]
    IN CASE c.items[id].display = "valid" ->
              SetDisplay(Submit(PushOrCancel(c, Entry("to_colliding_expect_valid", key),
                                             "to_temporary")), id, "temporary")
         [] c.items[id].display = "colliding" ->
              SetDisplay(PushOrCancel(c, Entry("to_colliding_assume_colliding", key),
                                      "to_temporary"), id, "temporary")
         [] OTHER -> Fail(c)

CollidingToInsert(c, id, hint) ==
    CASE c.items[id].display = "valid" ->
           SetDisplay(PushEntry(c, Entry("to_colliding_expect_valid", c.keys[id])),
                      id, "normal")
      [] c.items[id].display = "colliding" /\ hint # "expect_valid" ->
           DeleteTemporary(CollidingToTemporary(c, id), id)
      [] OTHER -> Fail(c)

InsertToColliding(c, id) ==
    IF c.items[id].display # "normal" THEN Fail(c)
    ELSE SetDisplay(PushOrCancel(c, Entry("to_insert", c.keys[id]),
                                 "to_colliding_expect_valid"), id, "valid")

ToCollisions(c, id, hint) ==
    CASE c.items[id].display = "temporary" -> TemporaryToColliding(c, id, hint)
      [] c.items[id].display = "normal"    -> InsertToColliding(c, id)
      [] OTHER -> c
FromCollisions(c, id, mode, hint) ==
    CASE c.failed \/ mode = "collisions" -> c
      [] ~c.failed /\ mode = "insert_or_discard" -> CollidingToInsert(c, id, hint)
      [] ~c.failed /\ mode = "temporary" -> CollidingToTemporary(c, id)

\* Collisions is the mode between the other two.
ChangeInsertionMode(c, id, mode, hint) ==
    IF ToMode(c.items[id].display) = mode THEN c
    ELSE FromCollisions(ToCollisions(c, id, hint), id, mode, hint)

KeyIndexSet(c) == {c.keys[id] : id \in Ids(c)}

\* LogicItemCreated takes the next key, set_key replaces it when one is given.
CreateTemporary(c, def, position, key) ==
    LET item == [def |-> def, position |-> position, display |-> "temporary"]
        new  == IF key = 0 THEN c.nextKey ELSE key
        c1   == [Submit(c) EXCEPT !.items = Append(@, item), !.keys = Append(@, new),
                          !.nextKey = Max({@ + 1, key + 1})]
    IN IF new \in KeyIndexSet(c) THEN Fail(c) ELSE PushEntry(c1, Entry("delete", new))

\* The new item has the last id.
ChangeLastInsertionMode(c, mode) == ChangeInsertionMode(c, Len(c.items), mode, "no_hint")
AddLogicItem(c, def, position, mode) ==
    ChangeLastInsertionMode(CreateTemporary(c, def, position, 0), mode)

\* Deleting the item with its new inverter and creating it with the old one.
PushToggleInverter(c, id) ==
    LET key == c.keys[id]
        IfNormal(c0, Push(_)) == IF c.items[id].display = "normal" THEN Push(c0) ELSE c0
        c1 == IF id \in c.initial THEN PushAddVisible(c, key) ELSE c
        c2 == IfNormal(c1, LAMBDA c0 :
                PushOrCancel(c0, Entry("to_insert", key), "to_colliding_expect_valid"))
        c3 == PushOrCancel(c2, Entry("to_colliding_expect_valid", key), "to_temporary")
        c4 == PushCreate(c3, key, c.items[id])
        c5 == PushEntry(PushEntry(c4, Entry("delete", key)), Entry("to_temporary", key))
    IN IfNormal(c5, LAMBDA c0 : PushEntry(c0, Entry("to_colliding_expect_valid", key)))

ToggleInverter(c, id) ==
    [PushToggleInverter(c, id) EXCEPT !.items[id].def.inverted = ~@]

SetAttributes(c, id, attrs) ==
    [PushChangeAttributes(c, c.keys[id], c.items[id].def.attrs)
        EXCEPT !.items[id].def.attrs = attrs]

------------------------------------------------------------------------------
(* Selections: editing/edit_visible_selection.cpp, visible_selection.cpp     *)

IsSingle(ids) == Cardinality(ids) = 1
KeyOf(c, ids) == c.keys[CHOOSE id \in ids : TRUE]
KeysOf(c, ids) == {c.keys[id] : id \in ids}

\* Only inserted items are in the index that rectangles are looked up in.
Hits(items) ==
    [rect \in Rects |-> {id \in DOMAIN items : /\ IsInserted(items[id])
                                             /\ items[id].position \in rect}]
ApplyOperation(hits, ids, op) ==
    IF op.function = "add" THEN ids \cup hits[op.rect] ELSE ids \ hits[op.rect]
ApplyOperations(hits, initial, operations) ==
    ForEach(initial, operations, LAMBDA ids, op : ApplyOperation(hits, ids, op))
CalculateSelection(c) == ApplyOperations(Hits(c.items), c.initial, c.operations)

\* VisibleSelection::selection: what it returns, and what it keeps.
VisibleSelection(c) ==
    IF c.cached = {} THEN CalculateSelection(c) ELSE CHOOSE ids \in c.cached : TRUE
ReadVisibleSelection(c) ==
    [c EXCEPT !.cached = IF c.operations = <<>> THEN @ ELSE {VisibleSelection(c)}]

PushInitialSelection(c, ids) ==
    LET old == c.initial
    IN CASE old = ids -> c
         [] old = {} /\ IsSingle(ids) -> PushRemoveVisible(c, KeyOf(c, ids))
         [] old = {} /\ ~IsSingle(ids) /\ ids # {} -> PushEntry(c, [type |-> "clear"])
         [] ids = {} /\ IsSingle(old) -> PushAddVisible(c, KeyOf(c, old))
         [] OTHER -> PushEntry(c, IF old = Ids(c) THEN [type |-> "select_all"]
                                  ELSE [type |-> "set", keys |-> KeysOf(c, old)])

\* Fault: the operations are pushed in the order they were added.
PushVisibleSelectionForward(c, ids) ==
    PushInitialSelection(ForEach(c, c.operations, PushAddOperation), ids)
PushVisibleSelection(c, ids) ==
    PushInitialSelection(ForEach(c, Reverse(c.operations), PushAddOperation), ids)

SetVisibleSelection(c, ids) ==
    IF ~(ids \subseteq Ids(c)) THEN Fail(c)
    ELSE [PushVisibleSelection(c, ids)
            EXCEPT !.initial = ids, !.operations = <<>>, !.cached = {}]

AddToVisibleSelection(c, id) ==
    [(IF id \notin c.initial THEN PushRemoveVisible(c, c.keys[id]) ELSE c)
        EXCEPT !.initial = @ \cup {id}, !.cached = {}]
RemoveFromVisibleSelection(c, id) ==
    [(IF id \in c.initial THEN PushAddVisible(c, c.keys[id]) ELSE c)
        EXCEPT !.initial = @ \ {id}, !.cached = {}]

AddVisibleSelectionRect(c, op) ==
    [PushEntry(c, [type |-> "pop_last"]) EXCEPT !.operations = Append(@, op),
                                                !.cached = {}]
PopLastVisibleSelectionRect(c) ==
    IF c.operations = <<>> THEN Fail(c)
    ELSE [PushAddOperation(c, Last(c.operations)) EXCEPT !.operations = Front(@),
                                                            !.cached = {}]
UpdateLastVisibleSelectionRect(c, rect) ==
    IF c.operations = <<>> THEN Fail(c)
    ELSE [PushUpdateLast(c, Last(c.operations).rect)
            EXCEPT !.operations[Len(c.operations)].rect = rect,
                   !.cached = IF rect = Last(c.operations).rect THEN @ ELSE {}]
ApplyAllVisibleSelectionOperations(c) ==
    IF c.operations = <<>> THEN c ELSE SetVisibleSelection(c, VisibleSelection(c))

------------------------------------------------------------------------------
(* Undo and redo: editing/edit_history.cpp                                   *)

ModeChange ==
    [to_temporary                  |-> [mode |-> "temporary", hint |-> "no_hint"],
     to_colliding_expect_valid     |-> [mode |-> "collisions", hint |-> "expect_valid"],
     to_colliding_assume_colliding |-> [mode |-> "collisions", hint |-> "assume_colliding"],
     to_insert                     |-> [mode |-> "insert_or_discard", hint |-> "expect_valid"]]

ReplayOfItem(c, e, id) ==
    CASE e.type = "delete" -> DeleteTemporary(c, id)
      [] e.type = "move"   -> MoveTemporaryUnchecked(c, id, e.delta)
      [] e.type \in DOMAIN ModeChange ->
           ChangeInsertionMode(c, id, ModeChange[e.type].mode, ModeChange[e.type].hint)
      [] e.type = "change_attributes" -> SetAttributes(c, id, e.attrs)
      [] e.type = "add_visible"    -> AddToVisibleSelection(c, id)
      [] e.type = "remove_visible" -> RemoveFromVisibleSelection(c, id)

ReplayOfSelection(c, e) ==
    CASE e.type = "clear" -> SetVisibleSelection(c, {})
      [] e.type = "set" ->
           IF e.keys \subseteq KeyIndexSet(c)
           THEN SetVisibleSelection(c, {id \in Ids(c) : c.keys[id] \in e.keys})
           ELSE Fail(c)
      [] e.type = "select_all"    -> SetVisibleSelection(c, Ids(c))
      [] e.type = "add_operation" -> AddVisibleSelectionRect(c, e.operation)
      [] e.type = "update_last"   -> UpdateLastVisibleSelectionRect(c, e.rect)
      [] e.type = "pop_last"      -> PopLastVisibleSelectionRect(c)

SelectionEntryTypes ==
    {"clear", "set", "select_all", "add_operation", "update_last", "pop_last"}

\* A key that the key index does not know throws.
ReplayEntry(c, e) ==
    CASE c.failed -> c
      [] ~c.failed /\ e.type \in SelectionEntryTypes -> ReplayOfSelection(c, e)
      [] ~c.failed /\ e.type = "create" ->
           CreateTemporary(c, e.def, e.position, e.key)
      [] ~c.failed /\ e.type \notin SelectionEntryTypes \cup {"create"} ->
           IF e.key \in KeyIndexSet(c)
           THEN ReplayOfItem(c, e, CHOOSE id \in Ids(c) : c.keys[id] = e.key)
           ELSE Fail(c)

UndoGroup(c) == ReplayStack(FinishUndoGroup(c), "undo", ReplayEntry)
RedoGroup(c) == ReplayStack(c, "redo", ReplayEntry)

\* Entering text in a dialog: one group for consecutive changes of attributes.
ReopensGroup(c) ==
    LET last == SelectLastInSeq(c.undo, LAMBDA e : ~IsNewGroup(e))
    IN ~HasUngrouped(c.undo) /\ last # 0 /\ c.undo[last].type = "change_attributes"
ReopenAttributeGroup(c) ==
    IF ReopensGroup(c) THEN [c EXCEPT !.undo = ReopenGroup(@)] ELSE c
ChangeSettingAttributes(c, id, attrs) ==
    FinishUndoGroup(SetAttributes(ReopenAttributeGroup(c), id, attrs))

\* A circuit without ids and keys' order: layout_key_state_t, visible selection.
Snapshot(c) ==
    [elements |-> {[key |-> c.keys[id], item |-> c.items[id],
                    selected |-> id \in c.initial] : id \in Ids(c)},
     operations |-> c.operations]

------------------------------------------------------------------------------
(* Edits of a whole selection: modifier.cpp.  The selection is tracked in    *)
(* the selection store while its items are removed from it one by one.       *)

Consume(c, order, Edit(_, _)) ==
    LET Step(c1, i) ==
          LET id == c1.stored[1]
          IN CASE c1.failed \/ c1.stored = <<>> -> c1
               [] ~c1.failed /\ c1.stored # <<>> /\ id \notin Ids(c1) -> Fail(c1)
               [] OTHER -> Edit([c1 EXCEPT !.stored = Erase(@, id)], id)
    IN [ForEach([c EXCEPT !.stored = order], order, Step) EXCEPT !.stored = <<>>]

ChangeSelectionMode(c, order, mode) ==
    Consume(c, order, LAMBDA c1, id : ChangeInsertionMode(c1, id, mode, "no_hint"))
MoveOrDeleteSelection(c, order, delta) ==
    Consume(c, order, LAMBDA c1, id : MoveOrDeleteTemporary(c1, id, delta))
DeleteAll(c, order) ==
    Consume(c, order, LAMBDA c1, id :
        DeleteTemporary(ChangeInsertionMode(c1, id, "temporary", "no_hint"), id))

MoveSelectionUnchecked(c, order, delta) ==
    IF delta = 0 THEN c
    ELSE ForEach(c, order, LAMBDA c1, id : MoveTemporaryUnchecked(c1, id, delta))

------------------------------------------------------------------------------
(* The actions are the public methods of EditableCircuit.                    *)

Init == \E loaded \in Loaded : circuit = LoadedCircuit(loaded)

\* The orders in which the dense set of a selection may hold some ids.
Orders(ids) ==
    {order \in SetToAllKPermutations(ids) : Len(order) <= circuit.loaded.selectionMax}
Temporaries == {id \in Ids(circuit) : circuit.items[id].display = "temporary"}

Entries(s) == SelectSeq(s, LAMBDA e : ~IsNewGroup(e))
Within(c) == /\ c.nextKey <= KeyMax + 1
             /\ Len(c.items) <= ItemMax
             /\ Len(Entries(c.undo)) + Len(Entries(c.redo)) <= c.loaded.entryMax
             /\ Len(c.operations) <= OperationMax
\* The circuit is drawn after every call, which reads the visible selection.
Call(name, c) ==
    /\ name \in circuit.loaded.calls /\ ~circuit.failed /\ Within(c)
    /\ circuit' = ReadVisibleSelection(c)

DoAddLogicItem == \E def \in NewDefinitions, position \in 1 .. Cells, mode \in Mode :
    Call("add_logicitem", AddLogicItem(circuit, def, position, mode))

DoChangeInsertionMode == \E order \in Orders(Ids(circuit)), mode \in Mode :
    Call("change_insertion_mode", ChangeSelectionMode(circuit, order, mode))

DoMoveOrDelete == \E order \in Orders(Temporaries), delta \in {-1, 1} :
    Call("move_or_delete_temporary", MoveOrDeleteSelection(circuit, order, delta))

DoMoveUnchecked == \E order \in Orders(Temporaries), delta \in {-1, 1} :
    /\ \A i \in DOMAIN order :
         IsRepresentable(circuit.items[order[i]].position + delta)
    /\ Call("move_temporary_unchecked", MoveSelectionUnchecked(circuit, order, delta))

DoDeleteAll == \E order \in Orders(Ids(circuit)) :
    Call("delete_all", DeleteAll(circuit, order))

\* Inverters are found in the index of inserted items.
DoToggleInverter == \E id \in Ids(circuit) :
    /\ IsInserted(circuit.items[id])
    /\ Call("toggle_inverter", ToggleInverter(circuit, id))

DoSetAttributes == \E id \in Ids(circuit), attrs \in Attributes :
    Call("set_attributes", SetAttributes(circuit, id, attrs))

DoSetVisibleSelection == \E ids \in SUBSET Ids(circuit) :
    Call("set_visible_selection", SetVisibleSelection(circuit, ids))

DoAddRect == \E op \in Operation :
    Call("add_visible_selection_rect", AddVisibleSelectionRect(circuit, op))
DoTryPopLast ==
    /\ circuit.operations # <<>>
    /\ Call("try_pop_last_visible_selection_rect", PopLastVisibleSelectionRect(circuit))
DoTryUpdateLast == \E rect \in Rects :
    /\ circuit.operations # <<>>
    /\ Call("try_update_last_visible_selection_rect",
            UpdateLastVisibleSelectionRect(circuit, rect))
DoApplyAll == Call("apply_all_visible_selection_operations",
                   ApplyAllVisibleSelectionOperations(circuit))

DoVisibleSelectionDeleteAll == \E order \in SetToSeqs(VisibleSelection(circuit)) :
    Call("visible_selection_delete_all",
         DeleteAll(SetVisibleSelection(circuit, {}), order))

\* A method of SettingDialogManager.
DoChangeSettingAttributes == \E id \in Ids(circuit), attrs \in Attributes :
    Call("change_setting_attributes", ChangeSettingAttributes(circuit, id, attrs))

DoFinishUndoGroup == Call("finish_undo_group", FinishUndoGroup(circuit))
DoUndoGroup       == Call("undo_group", UndoGroup(circuit))
\* Callers finish the open group before they redo.
DoRedoGroup == ~HasUngrouped(circuit.undo) /\ Call("redo_group", RedoGroup(circuit))

Edit == \/ DoAddLogicItem \/ DoChangeInsertionMode \/ DoMoveOrDelete
        \/ DoMoveUnchecked \/ DoDeleteAll \/ DoToggleInverter \/ DoSetAttributes
        \/ DoSetVisibleSelection \/ DoAddRect \/ DoTryPopLast \/ DoTryUpdateLast
        \/ DoApplyAll \/ DoVisibleSelectionDeleteAll

Next == \/ Edit
        \/ DoChangeSettingAttributes
        \/ DoFinishUndoGroup \/ DoUndoGroup \/ DoRedoGroup

Spec == Init /\ [][Next]_circuit

------------------------------------------------------------------------------
(* Properties                                                                *)

\* No legal call throws: an inverse operation always finds its element, in the
\* insertion mode it expects and free of collisions when it expects that, and
\* both stacks end in a finished group when undo or redo returns (the checks of
\* edit_logicitem.cpp, key_index.cpp and the Ensures of _replay_stack).
NeverThrows == ~circuit.failed

\* Inserted items never overlap, whatever was undone in between
\* (is_logicitem_colliding, skipped for no insertion).
InsertedDisjoint ==
    LET inserted == {id \in Ids(circuit) : IsInserted(circuit.items[id])}
    IN IsInjective([id \in inserted |-> circuit.items[id].position])

\* Deleting a selection deletes its items and no other, in whatever order they
\* come, although every deletion gives the last item the id of the deleted one.
DeletesExactly == \A order \in SetToAllKPermutations(Ids(circuit)) :
    KeyIndexSet(DeleteAll(circuit, order))
        = KeyIndexSet(circuit) \ KeysOf(circuit, Range(order))

\* A selection that was calculated earlier is what would be calculated now: no
\* edit, undo or redo changes what its rectangles select, or which ids it holds,
\* without a message that drops it (the assertion of VisibleSelection::selection).
CacheIsCurrent == \A ids \in circuit.cached :
    circuit.operations # <<>> /\ ids = CalculateSelection(circuit)
==============================================================================
