-------------------------------- MODULE MCUndo --------------------------------
(***************************************************************************)
(* Four sets of calls whose undo entries meet on the stack: the life of    *)
(* logic items that share one cell, changes of items that are in place,    *)
(* the visible selection, and groups that change nothing, which undo may   *)
(* forget.                                                                 *)
(***************************************************************************)
EXTENDS CircuitHistoryRefinement

HistoryCalls == {"finish_undo_group", "undo_group", "redo_group"}
ItemCalls == HistoryCalls \cup
    {"add_logicitem", "change_insertion_mode", "move_or_delete_temporary",
     "move_temporary_unchecked", "delete_all"}
ChangeCalls == HistoryCalls \cup
    {"toggle_inverter", "set_attributes",
     "change_setting_attributes", "set_visible_selection"}
SelectionCalls == HistoryCalls \cup
    {"delete_all", "set_visible_selection", "add_visible_selection_rect",
     "try_pop_last_visible_selection_rect", "try_update_last_visible_selection_rect",
     "apply_all_visible_selection_operations", "visible_selection_delete_all"}

VanishingCalls == HistoryCalls \cup
    {"add_logicitem", "toggle_inverter", "change_insertion_mode", "delete_all",
     "set_visible_selection"}

OverlappingRects == {{1}, {1, 2}}
PlainDefinitions == {[attrs |-> a, inverted |-> FALSE] : a \in Attributes}
OneDefinition == {CHOOSE def \in PlainDefinitions : TRUE}

LoadedItems(n) == [i \in 1 .. n |-> [def |-> CHOOSE def \in OneDefinition : TRUE,
                                     position |-> i]]
LifeOfItems   == [items |-> LoadedItems(1), calls |-> ItemCalls,
                  entryMax |-> 4, selectionMax |-> 1]
ItemChanges   == [items |-> LoadedItems(1), calls |-> ChangeCalls,
                  entryMax |-> 6, selectionMax |-> 1]
SelectedItems == [items |-> LoadedItems(2), calls |-> SelectionCalls,
                  entryMax |-> 4, selectionMax |-> 2]
VanishingGroups == [items |-> <<>>, calls |-> VanishingCalls,
                    entryMax |-> 3, selectionMax |-> 1]
AllLayouts == {LifeOfItems, ItemChanges, SelectedItems, VanishingGroups}
JustVanishingGroups == {VanishingGroups}
================================================================================
