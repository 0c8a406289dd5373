# LogikSim in TLA+

LogikSim is an editor and simulator for digital circuits: a user draws logic
items and wires on a grid, edits them with the mouse, undo and redo, and runs
them in an event driven simulation. This directory holds TLA+ models of its
core (`src/src/core` in the repository) and of the threads of its Windows application
(`src/src/main_winui`), the TLC configurations that check them, and machine-checked proofs
about the simulation and what its waveforms show, the simulation in real time, the edits of a circuit with undo and redo,
the gestures of the mouse, the exchange of render buffers, and the window with its backend thread and file dialogs.

Run a check with `tlc -workers 2 -config MCGlitch.cfg MCGlitch`, and the proofs
with `tlapm SimulationProofs.tla`, and likewise for the other modules whose name ends in
`Proofs`. `PROJECT.json` is the index: which definition
stands for which lines, the runs, the mutants that show each property can fail,
hazards, findings and theorems.

## 1. The system

| component | state it keeps | operations | who uses it |
|---|---|---|---|
| element logic (`element/logicitem/simulation_info.cpp`) | none | internal state update, outputs, per element type | simulation |
| schematic (`schematic.cpp`) | elements, connections, delays, inverters | built once by schematic generation | simulation |
| simulation (`simulation.cpp`, `component/simulation/`) | time, event queue, input values, internal states, input histories, event count | `run`, `set_unconnected_input`, `try_set_internal_state`, views | interactive simulation, renderer |
| history view (`component/simulation/history_*.cpp`) | a view into the recorded transition times | `value`, `from`, `until`, iteration | rendering of wires |
| layout and indexes (`layout.cpp`, `index/`) | items by id; collision, connection, spatial, key and selection index | fed by layout messages | modifier |
| editing of wires (`editing/edit_wire.cpp`, `edit_wire_detail.cpp`) | the segment trees of the layout | insertion modes, cutting and joining segments, cross points, regularization | modifier |
| line trees (`line_tree_generation.cpp`, `line_tree.cpp`, `tree_normalization.cpp`) | the lines of a wire in depth first order, with lengths | generated from a segment tree, checked against it | schematic generation, rendering |
| schematic generation (`schematic_generation.cpp`) | none | a layout becomes a schematic | interactive simulation |
| editable circuit (`editable_circuit.cpp`, `component/editable_circuit/`) | layout, key index, selections, visible selection, undo and redo stacks | every edit, `undo_group`, `redo_group`, `finish_undo_group` | mouse logic, dialogs, clipboard |
| mouse logic and circuit UI model (`circuit_ui_model.cpp`, `component/circuit_ui_model/`) | the mouse logic of the gesture in progress, the editing or simulation state | mouse and keyboard events, user actions | window |
| interactive simulation (`interactive_simulation.cpp`) | a simulation and the real time it follows | `run`, `set_simulation_time_rate`, `mouse_press` | circuit widget, circuit UI model |
| circuit widget and store (`gui/widget/circuit_widget.cpp`, `gui/component/circuit_widget/circuit_store.cpp`) | circuit state, configuration, pending repaints; the interactive simulation | timer, change of state, rate and wire delay | Qt window |
| file actions (`circuit_ui_model.cpp`, `file.cpp`) | name and content last saved, the modal state | `file_action`, `submit_modal_result` | backend thread |
| window and backend thread (`main_winui/MainWindow.xaml.cpp`, `src/backend_thread.cpp`) | a task queue, a dispatcher queue, the window's modal state | events and commands become tasks; questions come back as dialogs | user |
| render buffers (`main_winui/src/render_buffer.cpp`, `render_thread.cpp`) | two queues of buffers, graphics resources | fill, draw, present, shut down | backend thread, window |
| rendering, serialisation, clipboard, Qt application, generators, fuzzer | caches, files, widgets | pure functions or input and output | window |

How they interact. The window calls the circuit UI model for each event. In an
editing state the model lets a *mouse logic* edit the editable circuit with each
event until the gesture is finalized, by its own end or because another user
action interrupts it. An edit changes the layout, and layout messages keep
the indexes, the tracked selections and the key index in step. Every edit also
pushes its inverse on a stack, from which undo and redo replay. In the
simulation state the layout is translated to a schematic, an interactive
simulation runs it against the real time whenever a timer fires, clicks write internal states,
and the wires are drawn from recorded histories. On Windows, a window thread,
a backend thread and a render thread exchange tasks and buffers.

### What is hard

* *Order.* Events of one time point are processed element by element; selections
  are consumed item by item while deletions move the ids that are still in them;
  inverse operations are compressed and replayed in reverse.
* *Long sequences.* A wrong entry on the undo stack shows several undos later. A
  state bit written at the wrong moment shows when its event is popped.
* *Geometry that moves.* A segment that is inserted is cut and joined with others, wires are merged and
  divided, and ids and keys change on the way; undo has to find the same pieces again. The collision
  index learns all of that from messages and is never rebuilt.
* *Interruption.* A run stops at a timer or an event limit. A gesture is
  interrupted by undo, paste, delete, Escape or a change of state, while the
  history is switched off for the drag.
* *Values that are implied.* A history holds transition times without values;
  an entry names an element that may not exist any more.
* *Termination.* A circuit with a clock never runs out of events.
* *Threads.* Only the WinUI application has them; the core is single threaded. Buffers
  must come back on every error path, and blocked threads must end with the window.
* *Dialogs.* The backend waits for the answer to a question while the window goes on; one command
  may be a chain of prompt, picker, save, error and action, and any save may fail.

`PROJECT.json` lists each hazard at the line where it bites.

### What makes each component correct

* Simulation: no call throws; no event is lost, overtaken or doubled; a time point
  is atomic and the order of elements does not matter; limits are respected; a
  call returns; an uninterrupted run ends where it says.
* History view: it shows the waveform that the input had; what is drawn is never
  an entry of no length.
* Editable circuit: no legal call throws; undo and redo restore the circuit
  exactly; a key names one element for ever; inserted items never overlap.
* Wires: an inserted wire is a tree that is cut exactly where its lines meet, with one input at most;
  the collision index says what the layout has; undo brings all of it back.
* Line trees and schematic generation: an output drives an input if and only if lines connect them, with the delay of
  their length; the schematic fulfils what the simulation takes for granted. Loading restores what was saved.
* Circuit UI: no gesture leaves anything half done, however it ends; what is at
  rest is what the history recorded; cancelling restores the layout.
* Interactive simulation: it is never faster than the rates it was given; what it could not do in time
  is dropped once, and no more than that; whatever changes the picture is repainted.
* File actions, window and backend: no event is lost or overtaken; no circuit is lost unless the
  user gave it up; no dialog meets another; the window is never left disabled.
* Render buffers: no buffer is lost or used by two threads; the window shows what was
  repainted and never goes back; shutdown ends all threads.

## 2. The modules

### Simulation

| module | models |
|---|---|
| `ElementLogic` | state update and outputs of every element type but `sub_circuit`, for which the code throws |
| `Schematic` | the circuit, as CONSTANTS with the assumptions that `add_element`, `connect` and `set_output_inverters` guarantee |
| `Simulation` | the simulation object, one action per step of the loops of its three operations |
| `SimulationHistory` | the history view over the recorded transitions, with the whole waveform as a history variable |
| `SynchronousCircuit` | the abstract specification: a whole time point is one step |
| `SimulationRefinement` | the refinement mapping |
| `SimulationInvariant` | the inductive invariant `IInv` |
| `SimulationProofs` | the proofs |
| `RefinementProofs` | the proof of the refinement, and the proofs about the history view |
| `InteractiveSimulation` | the simulation that follows the real time, with the widget's timer, repaints, states and settings |
| `InteractiveProofs` | the proofs |
| `MCGlitch`, `MCClock`, `MCHistory`, `MCInteractive` | instances for TLC |

State and code. `time` and `events` are `SimulationQueue::time_` and `events_`
(a set: the queue orders by time and element, and two equal entries are the error
that `SubmitError` finds when they are queued rather than when they are popped);
`input`, `state`, `history`, `eventCount` are the members of the same names.
`pc` and `call` are the program counter and the locals of the call in progress:
`run` is `StartRun`, then `AdvanceToNextEvent`, `ProcessEventGroup` for every group of the
time point, then `ContinueRun`, `ContinueAfterCheck` or `StopRun`, and `EndRun`.
`set_unconnected_input` is a run of one time step, then `SubmitUserInput`.
`try_set_internal_state` is `TrySetInternalState`, groups, then
`TryAgain`, `GiveUp` or `WriteInternalState`. The timer of `run` is read only at
checks and may fire at any of them. `error` holds the first exception or failed
contract; after it nothing happens.

In `InteractiveSimulation` the circuit is abstract: `sim` holds the members of
`InteractiveSimulation` and, of the simulation below it, only its time and the time from which on nothing changes
any more (`settled`), which is all that `run` and `is_finished` tell its callers. `circuitState`, `config` and `pending` are
the members of the widget and the store. Real time passes between the steps (`TimePasses`) and during a run; `Run` either
reaches the expected time or was stopped early, which takes the timeout at least. The actions are the
handlers of the widget: the timer, a paint event, a change of state, of the rate, of the wire
delay, of the circuit, and a click. `granted`, `clicked` and `rebased` record what the rates have granted, what clicks took,
and how often the rate changed.

### Editing

| module | models |
|---|---|
| `HistoryStack` | the two stacks, their groups, and the replay of one group, for any kind of entries |
| `CircuitHistory` | the editable circuit: every edit of logic items and of the visible selection, the inverse it pushes, groups, undo and redo |
| `UndoSnapshots` | the abstract specification: undo and redo told with snapshots of the circuit |
| `CircuitHistoryRefinement` | records snapshots and maps one to the other |
| `CircuitHistoryProofs` | proofs about `CircuitHistory`: what every edit keeps |
| `UndoProofs` | proofs about `CircuitHistory`: that every entry can be replayed, and where it leads |
| `CircuitUI` | mouse logic and user actions on top of `CircuitHistory` |
| `CircuitUIProofs` | proofs about `CircuitUI`: every gesture can end, whatever interrupts it, and Escape brings back the layout |
| `WireIndex` | lines on the grid and the collision index with its messages |
| `WireSegments` | the steps that edits of wires are made of: move a part of a segment, change its end points, merge, split, repair wires |
| `Wires` | insertion modes, cross points, regularization, selections of segments, drawing a wire, undo and redo |
| `WiresRefinement` | records snapshots of the wires and maps them to `UndoSnapshots` |
| `MCUndo`, `MCCircuitUI`, `MCWires` | instances for TLC |

An edit is an operator from a circuit to a circuit, because a replay performs
many of them; the actions call them. A circuit is a record: `items` and `keys`
(by id, the position in the layout; a deletion moves the last item to the gap),
`nextKey`, `initial`, `operations` and `cached` (the visible selection; it is read after every call, as the renderer does), `stored` (a tracked
selection), `history` (the mode of the history), the two stacks, `failed` (an exception was
thrown). Items occupy one cell of a row, which is all that collisions need.
`CircuitUI` adds the mouse logic (`logic`), the editing state, the mouse button and
`recorded`, the snapshots that undo and redo should lead to. Its actions are
whole handlers: a press, move or release, Escape, Enter, undo, redo, select all,
delete, copy, paste, a change of state; a handler first finalizes the
gesture in progress, as the code does.

Abstractions: the order of a selection's dense hash set is any order, chosen once
in a handler; a double click does for logic items what a click does; the item
under the mouse while inserting is tracked by its key instead of a selection of
its own; the rectangle of a selection is the set of cells it covers.

Wires are in modules of their own, above the same `HistoryStack` and below the same `UndoSnapshots`. A circuit there is a record of
`segments` (by key), the number of `wires`, the collision `index`, the stacks and `failed`. A segment is
`wire` (temporary, colliding, or the id of an inserted one), its `line`, the types of its end points, and three sets of unit
lengths: `valid`, `selected` and `tracked` (the selection that an edit consumes); a set of units is what the lists of
parts of the code denote. `at` is the segment part that functions of `edit_wire.cpp` hand down by reference, and that a split or a
merge changes under them. The ids of segments are left out: a segment is found by its
key, as undo does. Logic items are fixed, with the orientation of their connections, so that lines meet them, are
driven by them, or collide. `Draw...` and `Retract...` are what the mouse logic that inserts a line makes of the methods: it
draws, takes back and draws again with every move. `RegularizeTemporarySelection`, `SplitTemporaryBeforeInsert` and
`ToggleWireCrosspoint` are the functions of those names.

### From the layout to the simulation

| module | models |
|---|---|
| `LineTrees` | the graph of the segments of a wire, the depth first search, the line tree, and the checks of `tree_normalization.cpp` and `line_tree_generation.cpp` |
| `SchematicGeneration` | `generate_schematic` with `add_element` and `connect`, and wires as they are saved and loaded |
| `MCGeneration` | the instance for TLC |

Both are algorithms on the states of `Wires`, which they extend: no action is added, and the properties are invariants of
whatever layout lines lead to that are added, drawn, taken back or undone, and crossings that are connected (`DrawingSpec`). A line of a tree is a pair of points in the direction of the search, `starts` and `leaves` are
`start_lengths_` and `leaf_indices_`, `failed` is an exception. A schematic is a record of the constants of module `Schematic`, and
`Simulated(s)` is that module with the record for its constants: `SchematicFollowsLayout` says that its assumptions hold of
whatever is generated. So the simulation, its runs and its proofs start from what editing and generation produce. The order in which the segments
of a wire are stored is not in `Wires` (ids are left out there); where it matters, in files, lines are taken in the order of the keys and in
the reverse one, and the ends of a wire without input are numbered in any one order. What a wire does is told a
second time in the properties, by distances along lines that touch where they end (`Distances`), without trees or elements.

### The WinUI application

| module | models |
|---|---|
| `FileDialogs` | the file actions of the circuit UI model: which question comes next, loading, saving, and the files |
| `WindowThreads` | the window, its dispatcher queue and the backend thread around it |
| `RenderBuffers` | the buffers between backend and render thread, the graphics device, the shutdown |
| `RenderBuffersProofs` | the proofs |
| `WindowProofs` | proofs about single operations of `FileDialogs`, and about `WindowThreads` |
| `MCWindowThreads`, `MCRenderBuffers` | instances for TLC |

In `FileDialogs` a session is a record: `circuit`, `file` and `serialized` (the save information),
`request` and `action` (`modal_`), `step` and `current` (the `next_step` and `current_action` of the
code), `disk` and two history fields. Each operator is the function of that name;
a circuit is a value that is only compared. A file is opened and truncated before
it is written, so a save is `"written"`, `"not_opened"` or `"torn"`.

`WindowThreads` has one action per event of the window (`Input`, `LoadExample`, `Command`, `DropFile`,
`AnswerDialog`), per message it receives (`ShowDialog`, `EndModalState`, `ExitApplication`) and per step of the
backend. `first` and `second` are the locals of `main_forwarded_tasks`, which pops two tasks
to combine them. `handle_file_request` is `HandleFileAction`, then `AskUser` and `Answered` or
`ErrorRead` for each step, then `EndRequest` or `ExitRequest`; `OpenDropped` is where
`handle_open_request` differs. A task carries the numbers of the pushed tasks it stands for
(`from`, `to`, `of`), which the properties use and the code does not have. Input may
arrive over a modal window: only the disabled content prevents it, and no code relies on it.

In `RenderBuffers` a buffer is a number that moves between two queues, the source (`sourceBuffer`, the backend
thread) and the sink (`sinkBuffer`, the render thread); `frame` says what was rendered to it. Pixels are the
`version` of what was drawn, counted by the repaints that tasks ask for. `DrawBuffer` is `draw_buffer` with
`DrawingSucceded`, `KeepBuffer` with `DrawingFailed` or an exception of the device, `LoseFrame` the exception
after the frame was consumed. `Shutdown...` are the destructors in the order of the window's members.

Operators whose comment starts with "Fault" are the definition below them with a
plausible bug. No specification uses them; the mutants do.

## 3. The runs

| run | question | result |
|---|---|---|
| `glitch` | Three operations interleaved with the event loop on a circuit that glitches, with a latch the user writes; does the history view show its waveform? | passes |
| `clock` | The same on a circuit that never settles, with all other stateful elements and a click that gives up | passes |
| `history_iteration` | Does iterating a view from begin to end meet only entries of positive length, as documented? | violated |
| `undo` | Life of items that share cells, inverters, attributes and selection of an item in place with the dialog that reopens the last group, the visible selection with rectangles and deletions in every order; undo and redo at any time | passes |
| `undo_forgets` | Can every group that was undone be redone, as the fuzz test expects? | violated |
| `wires` | Lines that meet, cross, continue and close loops: drawn, selected, moved, deleted, connected, undone, redone | passes |
| `generation` | Are the line trees, schematics and files of all layouts that lines among four items lead to what the lines say? | passes |
| `mouse` | Every order of mouse and keyboard events over items, with paste and insertion | passes |
| `paste_interrupted` | The same with the drag of a pasted selection interrupted | violated |
| `interactive` | Rates, late runs, clicks, changes of state and repaints of a simulation in real time | passes |
| `window` | Mouse events, file commands, dropped files, examples, dialogs and failing files in every order | passes |
| `render_buffers` | Two buffers between two threads, lost devices, refused sizes, the window closing at any time | passes |

What the properties say:

* `NoError`, `NeverThrows`, `WiresNeverThrow`: no call throws or fails a contract.
* `QueueInvariant`: how far ahead of the time events are; one per time and input.
* `InputsFollowOutputs`: what an element drives is what its last queued event will
  set at the sink, or what the sink holds. It fails if an event is lost, overtaken
  or if an input was preset wrongly at construction.
* `ImplementsSynchronousCircuit`: the event loop is a synchronous machine.
* `LimitRespected`, `RunEndsComplete`, `CallReturns`: limits, ends, termination.
* `ViewShowsWave`, `DrawnEntriesValid`, `IteratedEntriesValid`:
  the history view against the waveform.
* `ImplementsUndoSnapshots`, `WiresImplementUndoSnapshots`: undo restores the start of the group and redo what
  was undone, whatever entries were compressed and however segments were cut in between; an edit that leaves no entry has
  changed nothing; only finishing a group, or taking back a wire that is being drawn, forgets what was undone. A group that
  leads back to where it began may be forgotten by undo or redo (third finding). `UndoKeepsGroups` says that it is not.
* `InsertedDisjoint`, `DeletesExactly`: items and selections. `CacheIsCurrent`: the selection that was calculated for the
  last drawing is what would be calculated now.
* `TreesWellFormed`: every inserted wire is a tree, cut exactly where its lines meet, with end points of the
  right types and one input at most. `IndexMatchesLayout`: the collision index says of every point what
  the layout has there. `TogglesKeepWires`: a cross point that is toggled loses no piece, and
  toggling it twice connects what was connected before.
* `LineTreesEquivalent`: the check that guards the edits of wires accepts exactly the trees that are cut where lines meet, for every set of lines
  of a layout, not only whole wires; every inserted wire passes it, and the assertion of `generate_line_tree` holds.
* `SchematicFollowsLayout`: generation never throws, and an output drives an input through a wire element exactly if the lines between
  them are connected, with the delay of the distance, inverted as the item says; inputs on a wire that nothing drives hang on one
  element without input; the assumptions of `Schematic` hold.
* `SavedIsLoaded`: a layout without anything just inserted is loaded as it was saved, in either order of its lines.
* `NothingLeftOpen`, `RestIsRecorded`, `EscapeRestoresLayout`: no gesture ends half
  done, or changes the circuit behind the history's back.
* `NeverFasterThanRate`: the simulation's time is at most what rates and clicks gave it, but for rounding.
  `BacklogDropped`: a run leaves nothing to catch up but what passed while it ran, and drops no more than was missing at
  its start. `ChangesRepainted`: what changes the picture requests a repaint.
* `EventsInOrder`: every pushed task is handled once and in order, and only consecutive tasks
  of one combinable kind become one.
* `DialogIsModal`, `CommandEnds`: dialogs come one at a time over a disabled window, and a disabled
  window shows a dialog, is enabled again or closes.
* `NeverThrows` (window): the model is modal exactly while the backend waits for an answer, so that no task
  meets a modal model.
* `CircuitNeverLost`: a circuit that is replaced, or closed with the window, is in a file, was never
  edited, was given up in the save prompt of this request, or the user was told that its file could not be saved.
* `OneOwner`, `FramesInOrder`, `RepaintsShown`, `ThreadsEnd`: buffers, frames and the end of the threads.

### Bounds and why they are enough

*Simulation.* `CallHorizon`: no call starts after this time; the circuits have paths of
3 or 4 time units, so that several calls overlap in flight and the circuit settles in
between. `CheckInterval` is 2 or 3 instead of 1000 and `MaxTries` 2 instead of 10, so that
both the batches and the retries run out. `CountMax` is far above what is reached. The
circuits contain different delays to one gate, inverted inputs, unconnected inputs,
all stateful element types, and elements with and without history. The calls are
infinite and finite, limited by events, by the timer, or not at all, but an infinite
run of the clock is always limited: an unlimited one does not end in the code either.
`SimulationHistory` is part of `glitch`; its history variable `wave` covers the window of the
recorded inputs.

*Real time.* `Second` is 2 ticks, so that times are rounded in both directions and to even; `Rates` are stopped, slower
and faster than the clock; `Durations` are no time, just the timeout and more; `RealtimeMax`, `ClickMax` and `RebaseMax`
bound one simulation, and a change of state or circuit starts the next. The theorems of section 4 need no such bound.

*Editing.* `Cells`, `ItemMax`, `KeyMax` bound the grid, items and keys, `OperationMax` the
rectangles. `Loaded` is the set of what may be loaded: a layout with the methods that are called on it, so that
the methods whose entries meet on the stack are together at a size TLC can finish, and with bounds for them,
`entryMax` for the entries on both stacks and `selectionMax` for the selection that one call edits. Two items on two or three cells collide, are freed and collide again,
exchange ids when one is deleted, and come back under their old keys; 4 to 6
entries are several groups with the compressions in them.
In `CircuitUI` the mouse is also beside the grid (`Points`), nothing new is begun beyond
the bounds and what is begun may end (`Begin`, `KeysLeft`), so that no gesture is cut
in the middle by a bound. `Clipboards` is what is pasted. `MayInterruptPaste` says whether a user
action may come while a pasted selection is dragged; `mouse` sets it to
FALSE because of the second finding, and `paste_interrupted` to TRUE.

*Wires.* The grid has 4 by 4 points. Each initial layout (`Loaded`) comes with the lines that may be added and with the methods
that are called (`DrawOn`, `SelectIn`), each until a number of entries is on the stacks: those that cut and join most have the
smallest. The lines form a plus with its parts, a square to close, and a longer
row and column that items drive, so that every kind of end point, a merge of two wires, a division of one,
a loop that is refused, two inputs that are refused and crosspoints occur. `KeyMax`, `ReplayKeyMax` and `SegmentMax` stop new edits
and replays, never one that has begun.

*Generation.* The same grid with other items: a clock generator with its internal connections, a gate that is not inserted and so leaves a
gap in the ids, a gate with an inverted input, and an element with an inverted output. There are lines to draw that make wires with up to three
outputs, wires without input, two wires that cross and are connected by a toggle, corners and branches, and segments that
stay temporary or collide. A line is added to an initial layout while the stacks are empty, others are drawn while at most two entries
are on them, and cross points are toggled up to six entries. `WireDelays` is none and 3.

*WinUI.* `MaxTasks` is 4: two requests with tasks before and between them, or two moves that are
combined with others around them; the dialogs of a request are not bounded. Two files, one of
which exists, two circuits to draw besides the empty one and the example: enough to save over another file, to
tear a file and open it, and to draw what was saved before. `BufferCount` is 2 as in the application; `MaxVersion` 3
is one frame more than there are buffers; `MaxFailures` 2 loses the device while
another failure is being retried. The window has a size without pixels, a usual one and one that the
device refuses.

*Fairness.* In `Simulation` one property is a liveness property. `WF_vars(CallStep)` says that a call that
was started is run on by its thread: the object is single threaded and its loops
do not wait for anything. No call has to be started. The timer may never fire,
so a run that is limited by the timer only need not return in `CallReturns` unless it
settles; the runs have no such call on the clock. `WindowThreads` assumes `WF` of the dispatcher (`Window`) and of
the backend thread (`Backend`): both loops run whenever there is something in their queue. The user
need not answer or do anything. `RenderBuffers` assumes `WF` of both threads, and of `Control`: a destructor
that has begun runs to its end. Weak fairness of a thread is enough because
each waits at one place at a time and what it waits for stays there. No task has to
arrive and no device has to work; `MaxFailures` lets it work in the end, which is assumed for
`RepaintsShown`, as a device that fails for ever shows nothing.

*Deadlock* is checked in the editing runs. It is not checked in the simulation runs:
callers may stop calling, and do after `CallHorizon`. Nor is it in the WinUI runs, where the user may stop and
the threads end.

## 4. The proofs

`SimulationProofs` proves, for every schematic that fulfils the assumptions of `Schematic`
and every set of calls that fulfils `CallAssumption`:

| theorem | states |
|---|---|
| `TypeCorrect` | `TypeOK` |
| `NeverFails` | `NoError` |
| `QueueBounded` | `QueueInvariant` |
| `TimePointsComplete` | `CurrentEventsSimulated`: between time points nothing is left at the current time (only proved; the runs check its consequences) |
| `InputsFollow` | `InputsFollowOutputs` |
| `FinishedIsSettled` | in a finished simulation each driven input equals its driver |
| `LimitNeverOverrun` | `LimitRespected` |
| `RunsComplete` | `RunEndsComplete` |

The argument. `NoError` is not inductive: that a newly submitted event meets no other of
the same time and input depends on where the queued events came from. `IInv` adds
that an event is at most its output's delay ahead of the time, and exactly that far only
when its element was already evaluated at this time point (`EventsWithinDelay`); a group
is popped once for a time point, so an evaluation finds all events to its sinks
*strictly* nearer than the delay (`SentBefore`) and the new ones are the last ones for their
inputs, which also carries `InputsFollowOutputs` over the step (lemma `FollowsAfter`). For
`try_set_internal_state` the reason is subtle: the code writes the bit only if the
processing of the time point left the element's state as it was. `TryCallOK` says that as long
as that is so the element has sent nothing at this time point, since the outputs of
an element with internal state depend on the state alone. For `set_unconnected_input` it is the run
of one time step in between that removes the user's earlier event (`RunCallOK`, `SubmitCallOK`).

Layout: lemmas about the element logic and about one evaluation, then
`InitInvariant`, one lemma for each action, `StepInvariant`, and the temporal theorems. TLC checks the
parts of `IInv` that have runs of their own; types are proved only, here and for the buffers. The proofs need one assumption that the
code does not check: the event counter stays below `CountMax`, the largest 64 bit integer.

`RefinementProofs` proves `SimulationIsSynchronous`: `Spec => ImplementsSynchronousCircuit`, for every schematic and
all calls. The mapping completes the time point in progress, so processing a group has to change nothing in the picture
(`GroupStutters`): the events of the group are those of the element that are due, they change its inputs and its
state only, and what it sends lies in the future, so that what the other elements have left to do is the same before
and after. Everything else happens while nothing is due, where the mapping is the simulation as it is (`NothingDue`); there the
steps are the ones of the machine. That a user's event meets no other at its input, and that nothing was sent at the time at which
a state bit is written, are the guards of `UserInput` and `UserWrite`; they follow from `SubmitCallOK` and `TryCallOK`. Besides
`IInv` the proof needs only that `state` is a function of the elements (`StateFunction`), which `TypeOK` does not say.

It also proves `ViewIsTheWave` (`ViewShowsWave`) and `StretchesAreValid` (`DrawnEntriesValid`) of `SpecH`. `HInv` says that
transitions ascend and lie in the past, at the present time only if the element has no events left there (`TransitionsPast`:
otherwise two transitions could be recorded for one time), and that the value at a covered time follows from the value now by the
parity of the transitions since (`WaveFollows`). A recorded transition flips both the value and the parity; what `shrink_history`
drops lies before every covered time (`Shrinks`). The two lookups are characterised by `FindsIndex` and `ViewSplits`. That an index is
found at all, and how many entries are dropped, needs induction over the entries; the proofs use the least
element of a set of natural numbers instead (`LeastNat`, from the well-foundedness of `<`).

`InteractiveProofs` proves, for every clock, set of rates, timeout and bounds, `RateIsNeverExceeded`
(`NeverFasterThanRate`) and `BacklogIsDropped` (`BacklogDropped`). The property about the rate is not inductive: a change of the
rate goes on from the *expected* time, which may be ahead of the simulation, so that what bounds the time has to bound both
references. `IInv` says that the references are integers in the past (`ReferencesType`), that the reference time is
at most what was granted until the reference real time (`ReferencesGranted`), and the property itself (`TimeGranted`).
Every rebase rounds once, by half a tick at most (`RoundedIsNear`); a run sets the reference back to the reached time and rounds
once for all runs since the last rebase, which is the `+ 1` of the property. `RoundedSum` says that whole
seconds pass through the rounding. One lemma for each action that changes a
reference, then the two temporal theorems.

`RenderBuffersProofs` proves, for any number of buffers, window sizes and bounds, `TypeCorrect`,
`BuffersHaveOneOwner` (`OneOwner`) and `WindowNeverGoesBack` (`FramesInOrder`). `OneOwner` alone is not inductive: that a thread
pushes a buffer needs that it holds one exactly in the states of its program where the code does (`Held`). That frames
are in order needs the order of everything between renderer and window (`Ascending`): the versions in
`readyToPresent` ascend, the buffer of the sink is not newer than those, and neither is
what is shown; so a frame that goes back must go to the front. Three lemmas say what a pop, a push and a push to the
front do to the members of a queue (`PopQueued`, `PushQueued`, `PushFrontQueued`); each part of `IInv` has
a lemma with one step per action.

`WindowProofs` first states what `file_action` and `submit_modal_result` leave, for any files and circuits: they
do not throw, they ask again or are done (`Asks`), the save information is in its file or was never edited or was
reported (`Safe`), and a circuit that is replaced is kept or given up (`Keeps`). The hypotheses are what the callers establish:
nothing is asked before a file action, an answer is one of the question, and `"no"` is what gives the circuit up. A
chain of answer, save, and next action is split where the code splits it: the decision what comes next changes no
circuit (`Decided`), performing it does (`PlannedIsPerformed`).

Then it proves, for any files, circuits, kinds of tasks and number of tasks, `TasksInOrder` (`EventsInOrder`), `DialogsAreModal`
(`DialogIsModal`), `BackendNeverThrows` (`NeverThrows`) and the action property `CircuitsAreKept` (`CircuitNeverLost`). None of them is
inductive. `QueueInv` numbers the tasks from the finished ones over the two that are held to those in the queue, and says in which
states of the loop the two are held. `SessionInv` says that when the backend is about to open a file or
to exit, the circuit is as it was saved or was given up in *this* request, which the dialog in between could spoil
if input got through. `MessageInv` says that every message but the newest ended a request, and that a question is either on its way
or shown, and only while the backend waits; so a window that a late `end_modal` enables is disabled again by
the dialog, and the answer fits the question that is open. Each has one lemma over all actions.
Assumed of the constants: no file has the name of an answer, and `InitialDisk` holds circuits, torn files or none.

`CircuitHistoryProofs` proves, for any number of cells, keys and items, any definitions and rectangles and whatever is loaded,
`InsertedItemsApart` (`InsertedDisjoint`) and `CachedSelectionCurrent` (`CacheIsCurrent`), undo and redo included. A step may perform any
number of edits, so the inductive invariant `Sound` is about a circuit, and each edit keeps it, whatever circuit it is applied to: no edit
relies on where it comes from in a history. `Sound` says that inserted items are apart (`Disjoint`), that what is cached is what
would be calculated (`CacheOK`), and the `Shape` of a circuit: each id has a key of its own,
ids of the selection are in the layout, its operations have rectangles, and the entries on both stacks are of the known types, which makes a replay one of
these edits. An item gets into the index of inserted items only by `TemporaryToColliding`, after `IsColliding`, and only steps
that submit a message change what the index holds; the others leave `Hits` as it was (`SameHits`), and so the cached selection (`ReplacedKeeps`).
A deletion gives the last item another id, which `Disjoint` survives because only ids change, and the cache because
`Submit` drops it. The entry `new_group` never reaches `ReplayEntry`: what is replayed
comes after the last one on the stack (`LastGroup`). Loops (the replay of a group, the edits of a whole selection, pushing and applying operations)
are recursive functions. `RunExists` shows that there is such a function and `AllRounds` carries an invariant through its
rounds, both from the least element of the rounds where it fails, and not by the library's induction theorem;
`LoopStep` collects the steps of all loops in one operator, since no lemma may have an operator as a parameter. TLC agrees that `Sound` is an
invariant of the undo run. For `DeletesExactly`, the lemma `DeleteRound` says that one round of the loop leaves the tracked selection exact (`Tracking`: the
ids are distinct and in the layout, although the last one may have been renamed) and the keys of all other items as they were (`RestOf`).

`UndoProofs` proves, for the same constants, that no legal call throws (`NoCallThrows`, of `NeverThrows`), and with it
`DeletionsAreExact` (`DeletesExactly`); that redo brings back what undo took and the other way round (`UndoAndRedoAreInverse`); and that no edit changes
where undo of the open group leads, which is the circuit when the group began (`UndoLeadsToGroupStart`).
Sound circuits may still hold stacks that cannot be replayed, so the invariant has to say what the entries mean. A replay sees a
circuit as its `State`: items by key, the selected keys, the operations; ids and the order of the selection store do not
matter. `Leads(e, st, ts)` says that entry `e` can be replayed in state `st` without an exception and
gives `ts`: for instance, `to_colliding_expect_valid` needs a temporary item at a free place, or an inserted one. A stack can be
replayed from a state if there is a path of states along its entries that ends there (`Arrives`). `ReplayInv`, the invariant, says that there is such a path along
the undo stack that ends in the present state, and one along the redo stack that ends where the open group began (`ReplayableFrom`);
that the redo path does not end in the present state is why callers must finish the group before they redo.
The main notion is `Rewinds(c, d)`: whatever path there is on the stack of `c`, there is one on the stack of `d` that is
the same up to the last finished group. It is transitive, so that an edit made of others needs only lemmas about its parts, and it is indifferent to which
stack is tracked, so that one lemma for an edit serves the user's call, undo and redo. Pushing an entry rewinds if the entry leads back; dropping one
that the edit cancels rewinds because the path must have come through the present state there (`RewoundAppend`, `RewoundCancel`,
`RewoundKept`). Each edit has a lemma that it rewinds (`DeleteRewinds`, `ToggleRewinds`, `SetVisibleSelectionRewinds`, ...), and
`ReplayRewinds` says for each type of entry that replaying it reaches the state where it leads. Then a group replays along its path
(`ReplayAllRewinds`, `GroupReplayed`). The exception to the rule is `ReopenAttributeGroup`, which takes the end of a group from the undo stack:
the redo path no longer fits, but the change of attributes that follows always leaves an entry, so that finishing the group clears the redo stack
(`AttributesOpenGroup`). `UndoAndRedoAreInverse` has the hypothesis that the undo changed something: nothing in the invariant excludes an undone group
whose entries cancel each other on the other stack, and then there is nothing to redo; such groups exist (third finding).

The last theorem of `UndoProofs` is the refinement `CircuitHistoryIsUndo` (`ImplementsUndoSnapshots`). A path of states passes a marker `new_group` at
each finished group; the states that it has there are its `Trail`. `Lands` says that the trail of some path is what was recorded, and
`Settled` that this holds for both stacks, with the recorded start as the present state. While a group is open, `Recorded` says the same of the stack below the open group. An edit rewinds,
so it leaves the trail alone; finishing a group adds the present state to it; a replay takes one marker from one stack and may put one on the other.
Whether it does is what the model records (`IfPushed`), since a group whose inverses cancel on the way puts none there, and then it leads back to where it began.
That the marker of a replayed group ends up at the right place follows from the number of markers, which is one more or the same (`Marks`).

`CircuitUIProofs` proves, for any grid, points of the mouse, items and clipboards, that no event throws (`GesturesNeverThrow`, of
`NeverThrows`), that nothing is half done between gestures (`GesturesLeaveNothingOpen`, of `NothingLeftOpen`), and that between
gestures the circuit is the one that the last finished group recorded, with one record for each group of both stacks
(`RestFollowsHistory`, of `RestIsRecorded`). These three follow from `UIInv` (`GesturesCanEnd`): a session is in one of five phases. At rest (`NoneOK`)
every group is finished, all items are inserted, in the present circuit and in all recorded ones, and the records are what undo and redo lead to (`Rests`);
the other phases belong to the mouse logics (`AreaOK`, `SingleOK`, `InsertionOK`, `MovingOK`) and say what makes the next event, any event, end or go on
with the gesture. Most of it is `Editing`: the circuit may be edited with an open group, and undo leads to the last record. The exception is a
selection that is dragged, since it moves while the history is off, and the stacks do not fit the circuit then. `Untracked` says what they
do fit: the circuit with the history on and the selection moved back (`Base`). When the drag ends, the code moves the selection back
and then once with history; the lemma about that (`TemporaryLeft`) is the heart of the proof. An area that is being drawn has a
rectangle as the last operation of the selection, a waiting paste is in mode `collisions`, and the items of a new one are temporary. The class
contracts of the mouse logics are part of the phases. The hypothesis is `~MayInterruptPaste`: with a user action in the middle of a drag of what was
pasted, the next undo throws (second finding), and there is no such invariant.
The record that a replay leaves is the one that the code makes: none, when the replayed group leaves none on the other stack.

The last theorem, `EscapeBringsBack` (of `EscapeRestoresLayout`), needs more than `UIInv`: at every moment of a gesture, what cancelling it
would leave must be the layout at its start. `Recalls` says so for each mouse logic. A drag recalls the layout with its selection moved
back by the total distance (`Start`), a paste what is not selected (`Others`), an insertion all but its temporary item
(`LaidBut`), an area the present layout. The invariant is `LayoutInv`, `UIInv` with `Recalls` of the last record. Two parts of it carry the argument.
Changing the mode to `insert_or_discard` deletes what is shown as colliding, so Escape would lose an item if one were shown as colliding
that lies free: an item is so shown only where another one is (`Honest`). And when everything is back at its start nothing collides, since no
two items lay at one place there (`Apart`); so nothing of the dragged selection is discarded (`CancelledPlaces`).
Moves commute with showing and hiding collisions (`Shifted`), so the way the mouse took does not matter.

Only model-checked: the refinement of undo for wires; liveness, the repaints; and everything about wires, line trees and generation. Out of the prover's reach: liveness under fairness and ENABLED, and what a recursive
definition or a fold computes for all inputs, where an invariant of its rounds does not say enough.

## 5. Findings

1. *Iterating a history view throws* (`history_iteration`). When the simulation stands at the time of the
   last recorded transition, which a run limited by `max_events` or a finite run can
   leave, the last entry has no length and the constructor of `history_entry_t` throws.
   `Simulation::format_element` iterates a whole view; drawing is not affected.
2. *A cancelled paste may be deleted without history* (`paste_interrupted`). Paste onto occupied cells, drag,
   and press Escape or undo with the button down: `SelectionMoveLogic::finalize` deletes
   the items while the history is still off from the drag. The entries of
   the paste stay, and undo throws for a key that no longer exists.
3. *Undo may forget a group* (`undo_forgets`). An item that is added, selected, inverted and deleted in one group leaves entries
   on the undo stack, but when they are performed their inverses cancel (history_stack.cpp:223), the redo stack gets no entry and so no
   group. The circuit is right; redo skips the group. The fuzz test
   expects one group to redo for each that was undone (fuzz_core/main.cpp:922-923).

Three behaviours are what the code does, no text of the repository says otherwise, and the properties of the
WinUI runs allow for them explicitly. A frame whose size the device refuses is retried for ever before all others
(`Blocked`), also after the window has a size that fits: both buffers fill up and the backend waits for a
buffer instead of handling tasks. A frame that is lost with the device while it is presented is not rendered
again until something asks for a repaint (`lost`). A failed save may destroy the file it was to replace; when the
circuit had no changes since it was last saved there, no prompt appears at exit, and the error message was the
only warning (`failed`).

After a run that was stopped early the reference time is that of the simulation while the expected time was ahead of it,
so `BacklogDropped` states both sides: nothing is caught up twice, and the time that passed during
the run still counts.

Three further observations are not part of a model: `EditableCircuit::remove_from_selection`
(editable_circuit.cpp:272) calls `modifier_.add_to_selection`, and nothing calls it; in
`SwapChainParams` (main_winui/src/render_buffer.cpp) `&&` binds tighter than the `||` before it; the Qt window
disables the box for the wire delay while simulating because the store throws then (circuit_store.cpp:80), whereas the menu
item of the WinUI application (MainWindow.xaml.cpp:1183) is not disabled.

## 6. What is not modelled

* Decorations: their entries have the same form as those of logic items.
* The ids of segments (a wire and a position in it) and how they move; the spatial index; logic items that
  are added or moved while wires are there: the runs about wires have fixed items, those about items no wires.
* Overflow of the 64 bit time and event count.
* Size and setting handles, keyboard shortcuts, the player and event counter of the
  display.
* In the WinUI application: clipboard requests (they wait for the window as dialogs do), titles and configuration,
  failures of the system itself (a message that cannot be queued, a promise that breaks), exceptions that
  end the program by `std::terminate`, write errors that the library reports only when it closes a file.
* The records of logic items and decorations in a file, moved positions of pasted lines, versions and encodings.
* Rendering, clipboard encoding, layout of Qt widgets, random generators, the
  fuzzer and the exported C interface: pure functions, input and output, or wrappers. They are more than half of the
  lines of the repository, which is the main reason why the map covers a small share of them.

## 7. Plan

In the order of what matters most:

1. Simulation core with its refinement and proofs (done).
2. Undo and redo of logic items and selections with the abstract `UndoSnapshots` (done).
3. Circuit UI and mouse logic over it (done for logic items).
4. The threads of the WinUI application and the file dialogs (done; clipboard requests are left).
5. `InteractiveSimulation` with its proofs (done).
6. Wires on the grid: insertion modes, splitting and merging, cross points, the collision index (done; connection to items that move is left).
7. Line trees and the generation of the schematic from segment trees, as algorithms against a reference definition (done).
8. The visible selection's cache as messages keep it (done for logic items).

Not proved, and the next theorem to try: that the collision index of `Wires` holds what the segments say (`IndexMatchesLayout`). Every
step of an edit of wires (`WireSegments`) needs its own lemma about the points of the index for it.
