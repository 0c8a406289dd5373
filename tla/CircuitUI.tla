------------------------------ MODULE CircuitUI ------------------------------
(***************************************************************************)
(* The mouse and keyboard on top of an editable circuit: circuit_ui_model  *)
(* and its mouse logic.                                                    *)
(*                                                                         *)
(* A press of the left button creates a mouse logic that edits the circuit *)
(* with every event until it is finalized: by its own end, or by any other *)
(* user action.  Dragging a selection makes it temporary and switches the  *)
(* history off; the whole move is repeated with history when the selection *)
(* is inserted again.                                                      *)
(*                                                                         *)
(* A handler is an operator on a session s: the circuit, the mouse logic,  *)
(* the circuit widget's state, and the circuits that undo and redo should  *)
(* return to (recorded, a history variable).  Size and setting handles,    *)
(* wires, decorations and simulation states are left out.                  *)
(***************************************************************************)
EXTENDS CircuitHistory

CONSTANTS
    Points,      \* where the mouse is, in cells, also beside the grid
    Clipboards,  \* what is pasted: sequences of definitions with offsets
    MayInterruptPaste  \* whether the drag of a pasted selection is interrupted

ASSUME UserInputs ==
    /\ Points \subseteq Int
    /\ Clipboards \subseteq Seq([def : Definition, offset : Nat])
    /\ MayInterruptPaste \in BOOLEAN

VARIABLES
    logic,     \* the mouse logic of the editing logic manager
    state,     \* the editing state: selecting or inserting logic items
    button,    \* whether the left button is down
    recorded   \* history variable: past and future circuits

vars == <<circuit, logic, state, button, recorded>>

NoLogic == [type |-> "none"]

Hit(c, p) == {id \in Ids(c) : IsInserted(c.items[id]) /\ c.items[id].position = p}
IdsOf(c, keys) == {id \in Ids(c) : c.keys[id] \in keys}

\* The visible selection in the order of keys, that its dense set happens to have.
AddWithKey(order, ids) == IF ids = {} THEN order ELSE Append(order, CHOOSE id \in ids : TRUE)
InOrder(c, keys) ==
    LET ids == VisibleSelection(c)
    IN ForEach(<<>>, keys, LAMBDA order, k :
           AddWithKey(order, {id \in ids : c.keys[id] = k}))

\* With the circuit at rest on top of the past, as a finished group leaves it.
FinishedRecord(c, r) ==
    IF HasUngrouped(c.undo)
    THEN [past |-> <<Snapshot(c)>> \o r.past, future |-> <<>>] ELSE r
Finish(s) ==
    [s EXCEPT !.circuit = FinishUndoGroup(@), !.recorded = FinishedRecord(s.circuit, @)]

------------------------------------------------------------------------------
(* Moving a selection: selection_move.cpp                                    *)

SelectionMove(mode, moveState, deleteOnCancel) ==
    [type |-> "selection_move", state |-> moveState, mode |-> mode,
     deleteOnCancel |-> deleteOnCancel, historyExpected |-> TRUE,
     last |-> 0, total |-> 0, offset |-> 0]

\* The contracts that every method checks before and after.
MoveContract(s) ==
    /\ s.logic.historyExpected = (s.circuit.history # "disabled")
    /\ \A id \in VisibleSelection(s.circuit) :
         ToMode(s.circuit.items[id].display) = s.logic.mode
Checked(s) == IF MoveContract(s) THEN s ELSE [s EXCEPT !.circuit = Fail(@)]

MoveVisible(c, keys, delta) == MoveSelectionUnchecked(c, InOrder(c, keys), delta)

\* What was moved without history is taken back and moved once with history.
RepeatMoveWithHistory(c, keys, offset) ==
    MoveVisible([MoveVisible(c, keys, -offset) EXCEPT !.history = "track_undo_new"],
                keys, offset)

LeaveTemporary(s, keys) ==
    IF s.logic.mode # "temporary" THEN s
    ELSE [s EXCEPT !.circuit = RepeatMoveWithHistory(@, keys, s.logic.offset),
                   !.logic.offset = 0,
                   !.logic.historyExpected = TRUE]
ChangeVisibleMode(c, keys, mode) == ChangeSelectionMode(c, InOrder(c, keys), mode)
EnterMode(s, keys, mode) ==
    [s EXCEPT !.circuit = ChangeVisibleMode(ApplyAllVisibleSelectionOperations(@),
                                            keys, mode),
              !.logic.mode = mode]
StopHistory(s) ==
    IF s.logic.mode # "temporary" THEN s
    ELSE [s EXCEPT !.circuit.history = "disabled", !.logic.historyExpected = FALSE]

ConvertSelectionTo(s, keys, mode) ==
    IF s.logic.mode = mode THEN Checked(s)
    ELSE Checked(StopHistory(EnterMode(LeaveTemporary(Checked(s), keys), keys, mode)))

MoveTemporaryBy(s, keys, delta) ==
    IF \E id \in VisibleSelection(s.circuit) :
         ~IsRepresentable(s.circuit.items[id].position + delta)
    THEN s
    ELSE [s EXCEPT !.circuit = MoveVisible(@, keys, delta),
                   !.logic.last = @ + delta,
                   !.logic.total = @ + delta,
                   !.logic.offset = @ + delta]
MoveSelectionTo(s, keys, p) ==
    IF p = s.logic.last THEN s
    ELSE MoveTemporaryBy(ConvertSelectionTo(s, keys, "temporary"), keys, p - s.logic.last)

MovePress(s, p) ==
    LET hit == Hit(s.circuit, p)
        select == s.logic.state = "waiting_for_first_click"
                  /\ hit \cap VisibleSelection(s.circuit) = {}
    IN IF s.logic.state \in {"waiting_for_first_click", "waiting_for_confirmation"}
       THEN [s EXCEPT !.circuit = IF select THEN SetVisibleSelection(@, hit) ELSE @,
                      !.logic.state = "move_selection",
                      !.logic.last = p]
       ELSE s

AnythingColliding(c) ==
    \E id \in VisibleSelection(c) : c.items[id].display = "colliding"

WaitOrFinish(s) ==
    [s EXCEPT !.logic.state = IF AnythingColliding(s.circuit) THEN "waiting_for_confirmation"
                                                              ELSE "finished"]
MoveRelease(s, keys, p) ==
    IF s.logic.state # "move_selection" THEN s
    ELSE WaitOrFinish(ConvertSelectionTo(MoveSelectionTo(s, keys, p), keys, "collisions"))

IsFinished(l) == l.state \in {"finished", "finished_confirmed"}

\* Fault: the way back is not added to the offset that is repeated.
TakeBackUnrecorded(s, keys) ==
    [s EXCEPT !.circuit = MoveVisible(@, keys, -s.logic.total)]
TakeBack(s, keys) ==
    [s EXCEPT !.logic.offset = @ - s.logic.total,
              !.circuit = MoveVisible(@, keys, -s.logic.total)]
RestoreOriginalPositions(s, keys) ==
    IF s.logic.total = 0 THEN s
    ELSE TakeBack(ConvertSelectionTo(s, keys, "temporary"), keys)

FinalizeMove(s, keys) ==
    LET s1 == CASE IsFinished(s.logic) -> s
                [] ~IsFinished(s.logic) /\ s.logic.deleteOnCancel ->
                     [s EXCEPT !.circuit = DeleteAll(@, InOrder(@, keys))]
                [] OTHER -> RestoreOriginalPositions(s, keys)
    IN Finish(ConvertSelectionTo(s1, keys, "insert_or_discard"))

------------------------------------------------------------------------------
(* Selecting with a rectangle, selecting one item: selection_area.cpp,       *)
(* selection_single.cpp                                                      *)

SelectionArea(p) == [type |-> "selection_area", first |-> p, keep |-> FALSE]

\* The cells between two points.
Cover(p, q) == {cell \in 1 .. Cells : (p <= cell /\ cell <= q) \/ (q <= cell /\ cell <= p)}
ASSUME PointsAreCovered == \A p, q \in Points : Cover(p, q) \in Rects

AreaPress(s, p, modifier) ==
    LET op == [function |-> IF modifier = "alt" THEN "substract" ELSE "add",
               rect |-> Cover(p, p)]
        c1 == IF modifier = "none" THEN SetVisibleSelection(s.circuit, {}) ELSE s.circuit
    IN [s EXCEPT !.circuit = AddVisibleSelectionRect(c1, op), !.logic = SelectionArea(p)]

\* try_update_last and try_pop_last do nothing without an operation.
AreaUpdate(s, p) ==
    IF s.circuit.operations = <<>> THEN s
    ELSE [s EXCEPT !.circuit =
            UpdateLastVisibleSelectionRect(@, Cover(s.logic.first, p))]

\* Fault: a rectangle that was not released is not popped.
FinalizeAreaKept(s) ==
    Finish([s EXCEPT !.circuit = IF s.logic.keep THEN ApplyAllVisibleSelectionOperations(@)
                                                 ELSE @])
FinalizeArea(s) ==
    LET c1 == IF s.logic.keep \/ s.circuit.operations = <<>> THEN s.circuit
              ELSE PopLastVisibleSelectionRect(s.circuit)
    IN Finish([s EXCEPT !.circuit = ApplyAllVisibleSelectionOperations(c1)])

SinglePress(s, p) ==
    LET hit == Hit(s.circuit, p)
        ids == VisibleSelection(s.circuit)
    IN [s EXCEPT !.logic = [type |-> "selection_single"],
                 !.circuit = SetVisibleSelection(@, IF hit \subseteq ids THEN ids \ hit
                                                    ELSE ids \cup hit)]

------------------------------------------------------------------------------
(* Inserting a logic item: insert_logicitem.cpp.  The item under the mouse   *)
(* is in a selection of its own; temp holds its key.                         *)

InsertLogicItem(def) == [type |-> "insert_logicitem", def |-> def, temp |-> {}]

\* An item that is not representable is not added.
TryAddLogicItem(c, def, p, mode) ==
    IF IsRepresentable(p) THEN AddLogicItem(c, def, p, mode) ELSE c

DeleteTemp(s) ==
    [s EXCEPT !.circuit = DeleteAll(@, SetToSeq(IdsOf(@, s.logic.temp))), !.logic.temp = {}]

WithTemp(s, c) ==
    [s EXCEPT !.circuit = c, !.logic.temp = KeyIndexSet(c) \ KeyIndexSet(s.circuit)]
InsertTemp(s, p, mode) == WithTemp(s, TryAddLogicItem(s.circuit, s.logic.def, p, mode))
RemoveAndInsert(s, p, mode) == InsertTemp(DeleteTemp(s), p, mode)

------------------------------------------------------------------------------
(* The editing logic manager                                                 *)

FinalizeLogic(s, keys) ==
    CASE s.logic.type = "none" -> s
      [] s.logic.type = "selection_move"   -> FinalizeMove(s, keys)
      [] s.logic.type = "selection_area"   -> FinalizeArea(s)
      [] s.logic.type = "selection_single" -> Finish(s)
      [] s.logic.type = "insert_logicitem" -> Finish(DeleteTemp(s))
FinalizeEditing(s, keys) == [FinalizeLogic(s, keys) EXCEPT !.logic = NoLogic]

\* A press without a mouse logic creates one for the state and what is there.
CreateAndPress(s, p, modifier, def) ==
    CASE s.state = "inserting" ->
           RemoveAndInsert([s EXCEPT !.logic = InsertLogicItem(def)], p, "collisions")
      [] s.state = "selecting" /\ Hit(s.circuit, p) = {} -> AreaPress(s, p, modifier)
      [] s.state = "selecting" /\ Hit(s.circuit, p) # {} /\ modifier # "none" ->
           SinglePress(s, p)
      [] OTHER ->
           LET created == [s EXCEPT !.logic = SelectionMove("insert_or_discard",
                                                  "waiting_for_first_click", FALSE)]
           IN MovePress(Checked(created), p)

\* Only a selection that waits for confirmation outlives the mouse button.
PressLeft(s, p, modifier, def) ==
    IF s.logic.type = "none" THEN CreateAndPress(s, p, modifier, def)
    ELSE MovePress(s, p)

MoveLeft(s, keys, p) ==
    CASE s.logic.type = "selection_move" /\ s.logic.state = "move_selection" ->
           MoveSelectionTo(s, keys, p)
      [] s.logic.type = "selection_area"   -> AreaUpdate(s, p)
      [] s.logic.type = "insert_logicitem" -> RemoveAndInsert(s, p, "collisions")
      [] OTHER -> s

\* The selection of the inserted item is destroyed, not the item.
Release(s, keys, p) ==
    CASE s.logic.type = "selection_move" -> MoveRelease(s, keys, p)
      [] s.logic.type = "selection_area" -> [AreaUpdate(s, p) EXCEPT !.logic.keep = TRUE]
      [] s.logic.type = "insert_logicitem" ->
           [RemoveAndInsert(s, p, "insert_or_discard") EXCEPT !.logic.temp = {}]
      [] OTHER -> s
FinalizeIfFinished(s, keys) ==
    IF s.logic.type = "selection_move" /\ ~IsFinished(s.logic) THEN s
    ELSE FinalizeEditing(s, keys)
ReleaseLeft(s, keys, p) == FinalizeIfFinished(Release(s, keys, p), keys)

\* Other mouse logics cannot be confirmed.
ConfirmEditing(s, keys) ==
    IF s.logic.type = "selection_move" /\ s.logic.state = "waiting_for_confirmation"
    THEN FinalizeEditing([s EXCEPT !.logic.state = "finished_confirmed"], keys)
    ELSE s

------------------------------------------------------------------------------
(* The circuit UI model                                                      *)

ClearSelection(s) == Finish([s EXCEPT !.circuit = SetVisibleSelection(@, {})])
LeaveState(s) == IF s.state = "selecting" THEN ClearSelection(s) ELSE s
SetCircuitState(s, keys, new) ==
    IF s.state = new THEN s
    ELSE [LeaveState(FinalizeEditing(s, keys)) EXCEPT !.state = new]

\* Fault: a mouse logic of the selecting state is not finalized.
ReturnToSelectingOnly(s, keys) == SetCircuitState(s, keys, "selecting")
\* How undo, redo, select all and paste start.
ReturnToSelecting(s, keys) == SetCircuitState(FinalizeEditing(s, keys), keys, "selecting")

\* What a replay leaves, if it puts a group on the other stack.
WithReplayed(before, after, snapshot, snapshots) ==
    IF after = before THEN snapshots ELSE <<snapshot>> \o snapshots
UndoneRecord(c, d, r) ==
    [past   |-> Tail(r.past),
     future |-> WithReplayed(c.redo, d.redo, Head(r.past), r.future)]
RedoneRecord(c, d, r) ==
    [past   |-> WithReplayed(c.undo, d.undo, Head(r.future), r.past),
     future |-> Tail(r.future)]
UndoAction(s) ==
    IF s.circuit.undo = <<>> THEN s
    ELSE [s EXCEPT !.circuit  = UndoGroup(@),
                   !.recorded = UndoneRecord(s.circuit, UndoGroup(s.circuit), @)]
RedoAction(s) ==
    IF s.circuit.redo = <<>> THEN s
    ELSE [s EXCEPT !.circuit  = RedoGroup(@),
                   !.recorded = RedoneRecord(s.circuit, RedoGroup(s.circuit), @)]

SelectAllAction(s) ==
    Finish([s EXCEPT !.circuit = SetVisibleSelection(@, Ids(@))])

\* The order is that of the dense set of the selection.
DeleteSelectedAction(s, order) ==
    IF order = <<>> THEN s
    ELSE Finish([s EXCEPT !.circuit = DeleteAll(SetVisibleSelection(@, {}), order)])

AbortCurrentAction(s, keys) ==
    CASE s.logic.type # "none" -> FinalizeEditing(s, keys)
      [] s.logic.type = "none" /\ s.state = "selecting" ->
           ClearSelection(s)
      [] OTHER -> SetCircuitState(s, keys, "selecting")

\* Pasted items get the last ids and are selected in the order of the clipboard.
PastedIds(c, clip) == [i \in DOMAIN clip |-> Len(c.items) + i]
InsertAsCollisions(c, clip, p) ==
    LET c1 == ForEach(c, clip, LAMBDA c0, e :
                  TryAddLogicItem(c0, e.def, p + e.offset, "temporary"))
        ids == PastedIds(c, clip)
    IN ChangeSelectionMode(SetVisibleSelection(c1, Range(ids)), ids, "collisions")
InsertIfFree(c, ids) ==
    IF AnythingColliding(c) THEN c ELSE ChangeSelectionMode(c, ids, "insert_or_discard")
InsertClipboardData(c, clip, p) ==
    InsertIfFree(InsertAsCollisions(c, clip, p), PastedIds(c, clip))

\* Fault: pasted items that do not collide stay when the paste is cancelled.
DeletesOnCancelNever == FALSE
DeletesOnCancel == TRUE
SetupCollidingMove(s) ==
    IF AnythingColliding(s.circuit)
    THEN Checked([s EXCEPT !.logic = SelectionMove("collisions",
                                         "waiting_for_confirmation", DeletesOnCancel)])
    ELSE Finish(s)
PasteAndSelect(s, clip, p) ==
    SetupCollidingMove([s EXCEPT !.circuit = InsertClipboardData(@, clip, p)])

------------------------------------------------------------------------------
(* The actions are the events of the window.                                 *)

UIInit == /\ Init
          /\ logic = NoLogic /\ state = "selecting" /\ button = FALSE
          /\ recorded = [past |-> <<Snapshot(circuit)>>, future |-> <<>>]

AtRest == logic.type = "none" /\ ~circuit.failed

Session == [circuit |-> circuit, logic |-> logic, state |-> state, recorded |-> recorded]

Handle(s) == /\ ~circuit.failed
             /\ circuit' = s.circuit /\ logic' = s.logic
             /\ state' = s.state /\ recorded' = s.recorded

\* Bounds: nothing new is begun beyond them, what is begun may end; elements are
\* created only while there are keys.
Begin(s) == Within(circuit) /\ Handle(s)
KeysLeft == circuit.nextKey <= KeyMax + 1

\* The orders that the selection that is edited may have.
SelectionOrders == SetToSeqs(KeysOf(circuit, VisibleSelection(circuit)))

IsDraggingPaste == /\ logic.type = "selection_move" /\ logic.deleteOnCancel
                   /\ logic.state = "move_selection"
\* A user action while the mouse is dragged, or not.
Action == UNCHANGED button /\ (IsDraggingPaste => MayInterruptPaste)

MousePress == \E p \in Points, modifier \in {"none", "control", "alt"},
                 def \in NewDefinitions :
    /\ ~button /\ button' = TRUE
    /\ Begin(PressLeft(Session, p, modifier, def))
MouseMove == \E p \in Points, keys \in SelectionOrders :
    /\ button /\ UNCHANGED button
    /\ logic.type = "insert_logicitem" => KeysLeft
    /\ Handle(MoveLeft(Session, keys, p))
MouseRelease == \E p \in Points, keys \in SelectionOrders :
    button /\ button' = FALSE /\ Handle(ReleaseLeft(Session, keys, p))

Escape == \E keys \in SelectionOrders :
    /\ Action /\ (AtRest => Within(circuit))
    /\ Handle(AbortCurrentAction(Session, keys))
Enter == \E keys \in SelectionOrders : Action /\ Handle(ConfirmEditing(Session, keys))
Undo == \E keys \in SelectionOrders :
    Action /\ KeysLeft /\ Handle(UndoAction(ReturnToSelecting(Session, keys)))
Redo == \E keys \in SelectionOrders :
    Action /\ KeysLeft /\ Handle(RedoAction(ReturnToSelecting(Session, keys)))
SelectAll == \E keys \in SelectionOrders :
    Action /\ Begin(SelectAllAction(ReturnToSelecting(Session, keys)))
DeleteSelected == \E keys \in SelectionOrders :
    LET s == FinalizeEditing(Session, keys)
    IN /\ Action
       /\ \E order \in SetToSeqs(VisibleSelection(s.circuit)) :
             Begin(DeleteSelectedAction(s, order))
Copy == \E keys \in SelectionOrders :
    Action /\ state = "selecting" /\ Handle(FinalizeEditing(Session, keys))
\* Where everything that is pasted is on the grid.
Paste == \E clip \in Clipboards, p \in Points, keys \in SelectionOrders :
    /\ \A i \in DOMAIN clip : IsRepresentable(p + clip[i].offset)
    /\ Action /\ Begin(PasteAndSelect(ReturnToSelecting(Session, keys), clip, p))
SetState == \E new \in {"selecting", "inserting"}, keys \in SelectionOrders :
    Action /\ Begin(SetCircuitState(Session, keys, new))

UINext == \/ MousePress \/ MouseMove \/ MouseRelease
          \/ Escape \/ Enter \/ Undo \/ Redo \/ SelectAll \/ DeleteSelected
          \/ Copy \/ Paste \/ SetState

UISpec == UIInit /\ [][UINext]_vars

------------------------------------------------------------------------------
(* Properties                                                                *)

\* Between mouse gestures nothing is half done: no open undo group, the history
\* on, no operation of the visible selection, and every item inserted
\* (class_invariant_holds and expensive_invariant_holds of CircuitUIModel).
NothingLeftOpen ==
    AtRest => /\ circuit.history = "track_undo_new"
              /\ ~HasUngrouped(circuit.undo) /\ ~HasUngrouped(circuit.redo)
              /\ circuit.operations = <<>> /\ circuit.stored = <<>>
              /\ \A id \in Ids(circuit) : circuit.items[id].display = "normal"

GroupCount(s) == Cardinality({i \in DOMAIN s : IsNewGroup(s[i])})
\* The circuit at rest is the one recorded by the last finished group, and undo
\* and redo lead to the recorded ones: no gesture, finished or cancelled, changes
\* anything behind the history's back, although a drag is made without history.
RestIsRecorded ==
    AtRest => /\ Snapshot(circuit) = Head(recorded.past)
              /\ Len(recorded.past) = GroupCount(circuit.undo) + 1
              /\ Len(recorded.future) = GroupCount(circuit.redo)

LayoutOf(snapshot) ==
    {[key |-> e.key, position |-> e.item.position, def |-> e.item.def] : e \in snapshot.elements}
\* Cancelling a gesture brings back the layout that it started from: positions of
\* dragged items, nothing of an item or a selection that was not inserted yet.
EscapeRestoresLayout ==
    [][Escape /\ logic # NoLogic
        => LayoutOf(Snapshot(circuit')) = LayoutOf(Head(recorded.past))]_vars
==============================================================================
