--------------------------- MODULE CircuitUIProofs ---------------------------
(***************************************************************************)
(* Gestures of the mouse end as they should, for any number of cells, keys *)
(* and items and any sequence of presses, moves, keys and menu actions:    *)
(* none throws, and none leaves a UI group open, an item unfinished or a   *)
(* pressed button without a gesture.                                       *)
(*                                                                         *)
(* The invariant follows a session through its phases: at rest the circuit *)
(* is as the history has it; while items are dragged it is an untracked    *)
(* variant of a circuit that rests, the dragged items colliding or not as  *)
(* they lie at the moment; and while something is inserted, its group is   *)
(* open and its items are the selected ones.                               *)
(*                                                                         *)
(* At the end, the same for the layout: what a gesture that is cancelled   *)
(* would leave is always the layout that it started from.                  *)
(***************************************************************************)
EXTENDS UndoProofs, CircuitUI

-----------------------------------------------------------------------------
(***************************************************************************)
(* What the edits of a selection do to the items, by their keys.           *)
(***************************************************************************)

\* Another item is, or was found to be, where this one is.
Crowded(st, k) ==
    \/ st.items[k].display = "colliding"
    \/ \E j \in DOMAIN st.items \ {k} : st.items[j].position = st.items[k].position

InMode(st, ts, k, mode) ==
    /\ ts.items[k].position = st.items[k].position /\ ts.items[k].def = st.items[k].def
    /\ ToMode(ts.items[k].display) = mode
    /\ ts.items[k].display = "colliding" => Crowded(st, k)

\* The items of these keys are in the mode, or discarded because they collide.
ModeSet(st, ts, keys, mode) ==
    /\ ts.operations = st.operations
    /\ ts.selected = st.selected \cap DOMAIN ts.items
    /\ DOMAIN ts.items \subseteq DOMAIN st.items
    /\ \A k \in DOMAIN st.items \ keys : k \in DOMAIN ts.items /\ ts.items[k] = st.items[k]
    /\ \A k \in DOMAIN st.items \cap keys :
          \/ k \in DOMAIN ts.items /\ InMode(st, ts, k, mode)
          \/ k \notin DOMAIN ts.items /\ mode = "insert_or_discard" /\ Crowded(st, k)

\* Setting a mode crowds nobody that was not crowded before.
LEMMA CrowdedBefore ==
    ASSUME NEW st, NEW ts, NEW keys, NEW mode, ModeSet(st, ts, keys, mode),
           NEW k \in DOMAIN ts.items, Crowded(ts, k)
    PROVE  Crowded(st, k)
<1>1. ASSUME NEW j \in DOMAIN ts.items
      PROVE  /\ j \in DOMAIN st.items /\ ts.items[j].position = st.items[j].position
             /\ ts.items[j].display = "colliding" => Crowded(st, j)
  <2>1. j \in DOMAIN st.items
    BY DEF ModeSet
  <2>2. CASE j \in keys
    BY <2>1, <2>2 DEF ModeSet, InMode
  <2>3. CASE j \notin keys
    BY <2>1, <2>3 DEF ModeSet, Crowded
  <2> QED
    BY <2>1, <2>2, <2>3
<1>2. CASE ts.items[k].display = "colliding"
  BY <1>1, <1>2
<1>3. ASSUME NEW j \in DOMAIN ts.items \ {k}, ts.items[j].position = ts.items[k].position
      PROVE  Crowded(st, k)
  BY <1>1, <1>3 DEF Crowded
<1> QED
  BY <1>2, <1>3 DEF Crowded

\* Two edits of modes are one, if the second is as wide or has the same mode.
LEMMA ModeSetTwice ==
    ASSUME NEW st, NEW ts, NEW us, NEW mode, NEW K, NEW L, NEW first,
           ModeSet(st, ts, K, first), ModeSet(ts, us, L, mode),
           first = mode \/ (K \subseteq L /\ first # "insert_or_discard")
    PROVE  ModeSet(st, us, K \cup L, mode)
<1>1. /\ us.operations = st.operations /\ us.selected = st.selected \cap DOMAIN us.items
      /\ DOMAIN us.items \subseteq DOMAIN st.items
  BY DEF ModeSet
<1>2. ASSUME NEW k \in DOMAIN st.items \ (K \cup L)
      PROVE  k \in DOMAIN us.items /\ us.items[k] = st.items[k]
  BY DEF ModeSet
<1>3. ASSUME NEW k \in DOMAIN st.items \cap (K \cup L)
      PROVE  \/ k \in DOMAIN us.items /\ InMode(st, us, k, mode)
             \/ k \notin DOMAIN us.items /\ mode = "insert_or_discard" /\ Crowded(st, k)
  <2>1. CASE k \notin DOMAIN ts.items
    BY <2>1, <1>3 DEF ModeSet
  <2>2. CASE k \in DOMAIN ts.items /\ k \in L
    <3>1. /\ ts.items[k].position = st.items[k].position
          /\ ts.items[k].def = st.items[k].def
      BY <2>2, <1>3 DEF ModeSet, InMode
    <3>2. Crowded(ts, k) => Crowded(st, k)
      BY <2>2, CrowdedBefore
    <3>3. \/ k \in DOMAIN us.items /\ InMode(ts, us, k, mode)
          \/ k \notin DOMAIN us.items /\ mode = "insert_or_discard" /\ Crowded(ts, k)
      BY <2>2 DEF ModeSet
    <3> QED
      BY <3>1, <3>2, <3>3 DEF InMode
  <2>3. CASE k \in DOMAIN ts.items /\ k \notin L
    <3>1. k \in K /\ first = mode
      BY <2>3, <1>3
    <3>2. InMode(st, ts, k, mode)
      BY <2>3, <3>1, <1>3 DEF ModeSet
    <3>3. k \in DOMAIN us.items /\ us.items[k] = ts.items[k]
      BY <2>3 DEF ModeSet
    <3> QED
      BY <3>2, <3>3 DEF InMode
  <2> QED
    BY <2>1, <2>2, <2>3
<1> QED
  BY <1>1, <1>2, <1>3 DEF ModeSet

\* Nothing is changed of an item that is in the mode.
LEMMA AlreadyInMode ==
    ASSUME NEW st, st.selected \subseteq DOMAIN st.items, NEW mode, NEW keys,
           \A k \in DOMAIN st.items \cap keys : ToMode(st.items[k].display) = mode
    PROVE  ModeSet(st, st, keys, mode)
BY DEF ModeSet, InMode, Crowded

\* Other states in which an item is shown, or from which it has gone.
LEMMA ShownSets ==
    ASSUME NEW c, Good(c), NEW id \in DOMAIN c.items, NEW to \in Display, NEW mode,
           ToMode(to) = mode, to = "colliding" => Crowded(State(c), c.keys[id])
    PROVE  ModeSet(State(c), Shown(c, id, to), {c.keys[id]}, mode)
<1> DEFINE st == State(c)
           ts == Shown(c, id, to)
           key == c.keys[id]
<1>1. /\ key \in DOMAIN st.items /\ DOMAIN ts.items = DOMAIN st.items
      /\ st.items[key] = c.items[id]
      /\ ts.items[key].display = to /\ ts.items[key].position = c.items[id].position
      /\ \A k \in DOMAIN st.items \ {key} : ts.items[k] = st.items[k]
  BY ShownState
<1>2. /\ ts.items[key].def = c.items[id].def
      /\ ts.selected = st.selected /\ ts.operations = st.operations
      /\ st.selected \subseteq DOMAIN st.items
  <2> DEFINE x == WithDisplay(c.items[id], to)
  <2>1. x.def = c.items[id].def
    BY DEF WithDisplay, Good, Item
  <2>2. IsState(st) /\ ts = WithItem(st, key, x)
    BY StateIsState DEF Shown
  <2>3. st.selected \subseteq DOMAIN st.items
    BY StateItems DEF Good
  <2> HIDE DEF x, st, ts, key
  <2> QED
    BY <1>1, <2>1, <2>2, <2>3, WithItemState
<1> HIDE DEF st, ts, key
<1> QED
  BY <1>1, <1>2 DEF ModeSet, InMode, st, ts, key

\* A colliding item that is discarded is an outcome of its insertion.
LEMMA GoneSets ==
    ASSUME NEW c, Good(c), NEW id \in DOMAIN c.items, c.items[id].display = "colliding",
           NEW to \in Display
    PROVE  ModeSet(State(c), Without(Shown(c, id, to), c.keys[id]), {c.keys[id]},
                   "insert_or_discard")
<1> DEFINE st == State(c)
           ts == Shown(c, id, to)
           key == c.keys[id]
           us == Without(ts, key)
<1>1. /\ key \in DOMAIN st.items /\ DOMAIN ts.items = DOMAIN st.items
      /\ st.items[key] = c.items[id]
      /\ \A k \in DOMAIN st.items \ {key} : ts.items[k] = st.items[k]
  BY ShownState
<1>2. /\ ts.selected = st.selected /\ ts.operations = st.operations
      /\ st.selected \subseteq DOMAIN st.items /\ IsState(ts)
  <2> DEFINE x == WithDisplay(c.items[id], to)
  <2>2. IsState(st) /\ ts = WithItem(st, key, x)
    BY StateIsState DEF Shown
  <2>3. st.selected \subseteq DOMAIN st.items
    BY StateItems DEF Good
  <2> HIDE DEF x, st, ts, key
  <2> QED
    BY <1>1, <2>2, <2>3, WithItemState
<1> HIDE DEF ts, key
<1>3. /\ IsState(us) /\ DOMAIN us.items = DOMAIN ts.items \ {key}
      /\ \A k \in DOMAIN ts.items \ {key} : us.items[k] = ts.items[k]
      /\ us.selected = ts.selected \ {key} /\ us.operations = ts.operations
  BY <1>2, WithoutState
<1>4. Crowded(st, key)
  BY <1>1 DEF Crowded
<1> HIDE DEF us, st
<1>5. ModeSet(st, us, {key}, "insert_or_discard")
  BY <1>1, <1>2, <1>3, <1>4 DEF ModeSet
<1> QED
  BY <1>5 DEF us, st, ts, key

\* The items keep their ids and keys, and so does the selection in the store.
Stays(c, d) ==
    d.keys = c.keys /\ d.stored = c.stored /\ DOMAIN d.items = DOMAIN c.items
\* An item is deleted from both.
Goes(c, d, id) ==
    /\ d.keys = SwapAndDelete(c.keys, id)
    /\ d.stored = StoredAfterDelete(c.stored, id, Len(c.items))
    /\ DOMAIN d.items = 1 .. (Len(c.items) - 1)

\* A change of the display moves no ids,
LEMMA DisplayKeepsKeys ==
    ASSUME NEW c, NEW id, NEW to, NEW d, DisplayChanged(c, d, id, to), ItemStays(c, d, id)
    PROVE  Stays(c, d)
BY DEF DisplayChanged, ItemStays, Stays

\* nor does it when a deletion follows.
LEMMA StaysThenGoes ==
    ASSUME NEW c, Good(c), NEW b, Good(b), NEW d, NEW id, Stays(c, b),
           Stays(b, d) \/ Goes(b, d, id)
    PROVE  (Stays(b, d) => Stays(c, d)) /\ (Goes(b, d, id) => Goes(c, d, id))
<1> DEFINE m == Len(c.items)
           n == Len(b.items)
<1>1. m \in Nat /\ n \in Nat /\ DOMAIN c.items = 1 .. m /\ DOMAIN b.items = 1 .. n
  BY ItemIds DEF Good
<1>2. b.keys = c.keys /\ b.stored = c.stored /\ DOMAIN b.items = DOMAIN c.items
  BY DEF Stays
<1> HIDE DEF m, n
<1>3. m = n
  BY <1>1, <1>2
<1>4. Len(b.items) = Len(c.items)
  BY <1>3 DEF m, n
<1> QED
  BY <1>2, <1>4 DEF Stays, Goes

\* Deleting a temporary item undoes as an entry and takes its key out of the layout.
LEMMA DeleteGoes ==
    ASSUME NEW c, Good(c), NEW id \in DOMAIN c.items, c.items[id].display = "temporary",
           NEW d, d = DeleteTemporary(c, id)
    PROVE  Rewinds(c, d) /\ State(d) = Without(State(c), c.keys[id]) /\ Goes(c, d, id)
<1> DEFINE n == Len(c.items)
<1>1. /\ Rewinds(c, d) /\ ItemDeleted(c, d, id)
      /\ State(d) = Without(State(c), c.keys[id])
  BY DeleteRewinds
<1>2. d.stored = StoredAfterDelete(c.stored, id, n)
  BY DeleteTemporarySound DEF Good, Deleted
<1>3. DOMAIN d.items = 1 .. (n - 1)
  <2>1. n = Len(c.items) /\ Sound(d)
    BY <1>1 DEF Rewinds, Good
  <2> HIDE DEF n
  <2>3. ItemDeleted(c, d, id)
    BY <1>1
  <2>4. /\ n \in Nat /\ DOMAIN c.items = 1 .. n /\ DOMAIN d.items = 1 .. (n - 1)
        /\ \A i \in 1 .. (n - 1) :
              /\ d.items[i] = IF i = id THEN c.items[n] ELSE c.items[i]
              /\ d.keys[i] = IF i = id THEN c.keys[n] ELSE c.keys[i]
    BY ONLY Good(c), id \in DOMAIN c.items, <2>1, <2>3, DeletedItems
  <2> QED
    BY <2>4
<1> QED
  BY <1>1, <1>2, <1>3 DEF Goes, ItemDeleted

\* The first half of a change of the mode: to the mode that shows collisions,
LEMMA ToCollisionsSets ==
    ASSUME NEW c, Good(c), NEW id \in DOMAIN c.items, NEW d, d = ToCollisions(c, id, "no_hint")
    PROVE  /\ ModeSet(State(c), State(d), {c.keys[id]}, "collisions") /\ Stays(c, d)
           /\ c.items[id].display \in {"valid", "colliding"} => d = c
<1> DEFINE key == c.keys[id]
           st == State(c)
<1>1. /\ c.items[id].display \in Display /\ ItemStays(c, d, id)
      /\ key \in DOMAIN st.items /\ st.items[key] = c.items[id]
      /\ st.selected \subseteq DOMAIN st.items
  <2>1. c.items[id].display \in Display
    BY DEF Good, Item
  <2>2. ItemStays(c, d, id)
    BY ToCollisionsStays
  <2> QED
    BY <2>1, <2>2, StateItems DEF Good
<1>2. CASE c.items[id].display = "temporary"
  <2> DEFINE to == CollidingDisplay(c, id, "no_hint")
  <2>1. d = TemporaryToColliding(c, id, "no_hint")
    BY <1>2 DEF ToCollisions
  <2>2. State(d) = Shown(c, id, to) /\ DisplayChanged(c, d, id, to)
    BY <1>2, <2>1, TemporaryToCollidingRewinds
  <2>3. to \in Display /\ ToMode(to) = "collisions"
    BY DEF CollidingDisplay, Display, ToMode
  <2>4. to = "colliding" => Crowded(st, key)
    <3>1. to = "colliding" => ~Free(st, key)
      BY FreeState DEF CollidingDisplay, Good
    <3> QED
      BY <3>1 DEF Free, Crowded
  <2> HIDE DEF to
  <2>5. ModeSet(State(c), State(d), {c.keys[id]}, "collisions")
    BY <2>2, <2>3, <2>4, ShownSets
  <2> QED
    BY <1>1, <1>2, <2>2, <2>5, DisplayKeepsKeys
<1>3. CASE c.items[id].display = "normal"
  <2>1. d = InsertToColliding(c, id)
    BY <1>3 DEF ToCollisions
  <2>2. State(d) = Shown(c, id, "valid") /\ DisplayChanged(c, d, id, "valid")
    BY <1>3, <2>1, InsertToCollidingRewinds
  <2>3. "valid" \in Display /\ ToMode("valid") = "collisions"
    BY DEF Display, ToMode
  <2>4. ModeSet(State(c), State(d), {c.keys[id]}, "collisions")
    BY <2>2, <2>3, ShownSets
  <2> QED
    BY <1>1, <1>3, <2>2, <2>4, DisplayKeepsKeys
<1>4. CASE c.items[id].display \in {"valid", "colliding"}
  <2>1. d = c /\ Stays(c, c)
    BY <1>4 DEF ToCollisions, Stays
  <2>2. ToMode(st.items[key].display) = "collisions"
    BY <1>1, <1>4 DEF ToMode
  <2> HIDE DEF st, key
  <2>3. ModeSet(st, st, {key}, "collisions")
    BY <1>1, <2>2, AlreadyInMode
  <2> QED
    BY <2>1, <2>3 DEF st, key
<1> QED
  BY <1>1, <1>2, <1>3, <1>4 DEF Display

\* and the second half: from there to the mode asked for.
LEMMA FromCollisionsSets ==
    ASSUME NEW c, Good(c), NEW id \in DOMAIN c.items, NEW mode \in Mode,
           c.items[id].display \in {"valid", "colliding"},
           NEW d, d = FromCollisions(c, id, mode, "no_hint")
    PROVE  /\ ModeSet(State(c), State(d), {c.keys[id]}, mode)
           /\ Stays(c, d) \/ (Goes(c, d, id) /\ mode = "insert_or_discard")
<1> DEFINE key == c.keys[id]
           st == State(c)
<1>0. c.failed = FALSE
  BY DEF Good
<1>1. /\ key \in DOMAIN st.items /\ st.items[key] = c.items[id]
      /\ st.selected \subseteq DOMAIN st.items
  BY StateItems DEF Good
<1>2. CASE mode = "collisions"
  <2>1. d = c /\ Stays(c, c)
    BY <1>2 DEF FromCollisions, Stays
  <2>2. ToMode(st.items[key].display) = "collisions"
    BY <1>1 DEF ToMode
  <2> HIDE DEF st, key
  <2>3. ModeSet(st, st, {key}, "collisions")
    BY <1>1, <2>2, AlreadyInMode
  <2> QED
    BY <1>2, <2>1, <2>3 DEF st, key
<1>3. CASE mode = "temporary"
  <2>1. d = CollidingToTemporary(c, id)
    BY <1>0, <1>3 DEF FromCollisions
  <2>2. /\ State(d) = Shown(c, id, "temporary") /\ DisplayChanged(c, d, id, "temporary")
        /\ ItemStays(c, d, id)
    BY <2>1, CollidingToTemporaryRewinds, ModesStay
  <2>3. "temporary" \in Display /\ ToMode("temporary") = "temporary"
    BY DEF Display, ToMode
  <2>4. ModeSet(State(c), State(d), {c.keys[id]}, "temporary")
    BY <2>2, <2>3, ShownSets
  <2> QED
    BY <1>3, <2>2, <2>4, DisplayKeepsKeys
<1>4. CASE mode = "insert_or_discard" /\ c.items[id].display = "valid"
  <2>1. d = CollidingToInsert(c, id, "no_hint")
    BY <1>0, <1>4 DEF FromCollisions
  <2>2. /\ State(d) = Shown(c, id, "normal") /\ DisplayChanged(c, d, id, "normal")
        /\ ItemStays(c, d, id)
    BY <1>4, <2>1, ValidToInsertRewinds, ModesStay
  <2>3. "normal" \in Display /\ ToMode("normal") = "insert_or_discard"
    BY DEF Display, ToMode
  <2>4. ModeSet(State(c), State(d), {c.keys[id]}, "insert_or_discard")
    BY <2>2, <2>3, ShownSets
  <2> QED
    BY <1>4, <2>2, <2>4, DisplayKeepsKeys
<1>5. CASE mode = "insert_or_discard" /\ c.items[id].display = "colliding"
  <2> DEFINE b == CollidingToTemporary(c, id)
  <2>1. d = DeleteTemporary(b, id)
    BY <1>0, <1>5 DEF FromCollisions, CollidingToInsert
  <2>2. /\ Rewinds(c, b) /\ DisplayChanged(c, b, id, "temporary") /\ ItemStays(c, b, id)
        /\ State(b) = Shown(c, id, "temporary")
    BY CollidingToTemporaryRewinds, ModesStay
  <2> HIDE DEF b
  <2>3. id \in DOMAIN b.items /\ b.items[id].display = "temporary" /\ b.keys = c.keys
    BY <2>2, DisplayedItem DEF Good, Display, DisplayChanged
  <2>4. State(d) = Without(State(b), c.keys[id]) /\ Goes(b, d, id)
    BY <2>1, <2>2, <2>3, DeleteGoes DEF Rewinds
  <2>5. Goes(c, d, id)
    BY <2>2, <2>4, DisplayKeepsKeys, StaysThenGoes DEF Rewinds
  <2>6. "temporary" \in Display
    BY DEF Display
  <2>7. ModeSet(State(c), State(d), {c.keys[id]}, "insert_or_discard")
    BY <1>5, <2>2, <2>4, <2>6, GoneSets
  <2> QED
    BY <1>5, <2>5, <2>7
<1> QED
  BY <1>2, <1>3, <1>4, <1>5 DEF Mode

\* The insertion mode of one item is changed.
LEMMA ChangeModeSets ==
    ASSUME NEW c, Good(c), NEW id \in DOMAIN c.items, NEW mode \in Mode,
           NEW d, d = ChangeInsertionMode(c, id, mode, "no_hint")
    PROVE  /\ ModeSet(State(c), State(d), {c.keys[id]}, mode)
           /\ Stays(c, d) \/ (Goes(c, d, id) /\ mode = "insert_or_discard")
<1> DEFINE b == ToCollisions(c, id, "no_hint")
           key == c.keys[id]
           st == State(c)
<1>1. /\ key \in DOMAIN st.items /\ st.items[key] = c.items[id]
      /\ st.selected \subseteq DOMAIN st.items
  BY StateItems DEF Good
<1>2. CASE ToMode(c.items[id].display) = mode
  <2>1. d = c /\ Stays(c, c)
    BY <1>2 DEF ChangeInsertionMode, Stays
  <2> HIDE DEF st, key
  <2>2. ModeSet(st, st, {key}, mode)
    BY <1>1, <1>2, AlreadyInMode
  <2> QED
    BY <2>1, <2>2 DEF st, key
<1>3. CASE ToMode(c.items[id].display) # mode
  <2>1. d = FromCollisions(b, id, mode, "no_hint")
    BY <1>3 DEF ChangeInsertionMode
  <2>2. /\ Rewinds(c, b) /\ id \in DOMAIN b.items
        /\ b.items[id].display \in {"valid", "colliding"}
    BY ToCollisionsRewinds
  <2>3. ModeSet(State(c), State(b), {c.keys[id]}, "collisions") /\ Stays(c, b)
    BY ToCollisionsSets
  <2> HIDE DEF b
  <2>4. b.keys = c.keys /\ Good(b)
    BY <2>2, <2>3 DEF Stays, Rewinds
  <2>5. /\ ModeSet(State(b), State(d), {c.keys[id]}, mode)
        /\ Stays(b, d) \/ (Goes(b, d, id) /\ mode = "insert_or_discard")
    BY <2>1, <2>2, <2>4, FromCollisionsSets
  <2>6. ModeSet(State(c), State(d), {c.keys[id]} \cup {c.keys[id]}, mode)
    BY <2>3, <2>5, ModeSetTwice
  <2>7. Stays(c, d) \/ (Goes(c, d, id) /\ mode = "insert_or_discard")
    BY <2>3, <2>4, <2>5, StaysThenGoes
  <2> QED
    BY <2>6, <2>7
<1> QED
  BY <1>2, <1>3

\* The items of these keys are deleted, and no other is changed.
KeysGone(st, ts, keys) ==
    /\ ts.operations = st.operations /\ ts.selected = st.selected \ keys
    /\ DOMAIN ts.items = DOMAIN st.items \ keys
    /\ \A k \in DOMAIN ts.items : ts.items[k] = st.items[k]

\* A deletion is a change to temporary and the removal of the item.
LEMMA DeleteOneGone ==
    ASSUME NEW c, Good(c), NEW id \in DOMAIN c.items, NEW b, NEW d,
           b = ChangeInsertionMode(c, id, "temporary", "no_hint"), d = DeleteTemporary(b, id)
    PROVE  KeysGone(State(c), State(d), {c.keys[id]}) /\ Goes(c, d, id)
<1> DEFINE st == State(c)
           ts == State(b)
           us == State(d)
           key == c.keys[id]
<1>1. /\ Rewinds(c, b) /\ Good(b)
      /\ ModeSet(st, ts, {key}, "temporary") /\ Stays(c, b)
  BY ChangeModeRewinds, ChangeModeSets DEF Mode, Rewinds
<1>2. b.keys = c.keys /\ id \in DOMAIN b.items /\ DOMAIN b.items = DOMAIN c.items
  BY <1>1 DEF Stays
<1>3. b.items[id].display = "temporary"
  BY ToTemporary DEF Good, OnlyDisplay
<1>4. us = Without(ts, key) /\ Goes(b, d, id)
  BY <1>1, <1>2, <1>3, DeleteGoes
<1>5. Goes(c, d, id)
  BY <1>1, <1>4, StaysThenGoes
<1>6. IsState(ts) /\ st.selected \subseteq DOMAIN st.items
  BY StateIsState, StateItems DEF Good
<1> HIDE DEF st, ts, us, key
<1>7. /\ DOMAIN us.items = DOMAIN ts.items \ {key}
      /\ \A k \in DOMAIN ts.items \ {key} : us.items[k] = ts.items[k]
      /\ us.selected = ts.selected \ {key} /\ us.operations = ts.operations
  BY <1>4, <1>6, WithoutState
<1>8. /\ DOMAIN ts.items = DOMAIN st.items /\ ts.operations = st.operations
      /\ ts.selected = st.selected
      /\ \A k \in DOMAIN st.items \ {key} : ts.items[k] = st.items[k]
  BY <1>1, <1>6 DEF ModeSet
<1>9. KeysGone(st, us, {key})
  BY <1>7, <1>8 DEF KeysGone
<1> QED
  BY <1>5, <1>9 DEF st, us, key

TrackedKeys(c) == KeysOf(c, Members(c.stored))

\* The tracked selection holds the same keys after an edit of another item.
LEMMA KeysTracked ==
    ASSUME NEW c, Good(c), NEW d, Good(d), Tracks(c), NEW id \in DOMAIN c.items,
           id \notin Members(c.stored), Stays(c, d) \/ Goes(c, d, id)
    PROVE  TrackedKeys(d) = TrackedKeys(c) /\ Len(d.stored) = Len(c.stored)
<1>1. CASE Stays(c, d)
  BY <1>1 DEF Stays, TrackedKeys, KeysOf
<1>2. CASE Goes(c, d, id)
  <2> DEFINE n == Len(c.items)
             M == Members(c.stored)
             New(j) == IF j = n THEN id ELSE j
  <2>1. /\ n \in Nat /\ DOMAIN c.items = 1 .. n /\ KeysOK(c.keys, 1 .. n)
        /\ d.keys = SwapAndDelete(c.keys, id) /\ d.stored = StoredAfterDelete(c.stored, id, n)
    BY <1>2, ItemIds DEF Goes, Good, Sound, Shape
  <2>2. Distinct(c.stored) /\ M \subseteq 1 .. n /\ id \in 1 .. n /\ id \notin M
    BY <2>1 DEF Tracks
  <2> HIDE DEF n
  <2>3. \A i \in 1 .. (n - 1) : d.keys[i] = (IF i = id THEN c.keys[n] ELSE c.keys[i])
    BY <2>1, <2>2, KeysSwapped
  <2>4. /\ Len(d.stored) = Len(c.stored)
        /\ Members(d.stored) = {IF j = n THEN id ELSE j : j \in M}
    BY <2>1, <2>2, StoredRenamed
  <2> HIDE DEF M
  <2>5. ASSUME NEW j \in M PROVE d.keys[New(j)] = c.keys[j]
    <3>1. CASE j = n
      <4>1. id \in 1 .. (n - 1) /\ New(j) = id
        BY <2>1, <2>2, <3>1
      <4> QED
        BY <2>3, <3>1, <4>1
    <3>2. CASE j # n
      <4>1. j \in 1 .. (n - 1) /\ j # id /\ New(j) = j
        BY <2>1, <2>2, <3>2
      <4> QED
        BY <2>3, <3>2, <4>1
    <3> QED
      BY <3>1, <3>2
  <2>6. Members(d.stored) = {New(j) : j \in M}
    BY <2>4
  <2> HIDE DEF New
  <2>7. KeysOf(d, Members(d.stored)) = KeysOf(c, M)
    BY <2>5, <2>6 DEF KeysOf
  <2> QED
    BY <2>4, <2>7 DEF TrackedKeys, M
<1> QED
  BY <1>1, <1>2

\* What a loop over a selection makes of a state.
Edited(e, st, ts, keys) == IF e.edit = "mode" THEN ModeSet(st, ts, keys, e.mode)
                                              ELSE KeysGone(st, ts, keys)

\* Rounds of a loop add up.
LEMMA EditedTwice ==
    ASSUME NEW e, NEW st, NEW ts, NEW us, NEW K, NEW L,
           Edited(e, st, ts, K), Edited(e, ts, us, L)
    PROVE  Edited(e, st, us, K \cup L)
<1>1. CASE e.edit = "mode"
  BY <1>1, ModeSetTwice DEF Edited
<1>2. CASE e.edit # "mode"
  BY <1>2 DEF Edited, KeysGone
<1> QED
  BY <1>1, <1>2

\* No round edits nothing.
LEMMA EditedNothing ==
    ASSUME NEW e, NEW st, st.selected \subseteq DOMAIN st.items
    PROVE  Edited(e, st, st, {})
BY DEF Edited, KeysGone, ModeSet

Discards(e) == e.edit # "mode" \/ e.mode = "insert_or_discard"

\* One round of the loop.
LEMMA ConsumeEditSets ==
    ASSUME NEW c, Good(c), NEW id \in DOMAIN c.items, NEW e \in ConsumeEdits, e.edit # "move",
           NEW d, d = ConsumeEdit(c, id, e)
    PROVE  /\ Edited(e, State(c), State(d), {c.keys[id]})
           /\ Stays(c, d) \/ (Goes(c, d, id) /\ Discards(e))
<1>1. CASE e.edit = "mode" /\ e.mode \in Mode
  BY <1>1, ChangeModeSets DEF ConsumeEdit, Edited, Discards
<1>2. CASE e.edit = "delete"
  BY <1>2, DeleteOneGone DEF ConsumeEdit, Edited, Discards
<1> QED
  BY <1>1, <1>2 DEF ConsumeEdits

\* A round of the loop edits the last item of the store and takes it out.
LEMMA ConsumeStepSets ==
    ASSUME NEW c, NEW e \in ConsumeEdits, e.edit # "move", Consuming(c, e), c.stored # <<>>,
           NEW d, d = ConsumeStep(c, e)
    PROVE  \E key \in TrackedKeys(c) :
              /\ Edited(e, State(c), State(d), {key})
              /\ TrackedKeys(d) = TrackedKeys(c) \ {key} /\ Len(d.stored) = Len(c.stored) - 1
              /\ ~Discards(e) => d.keys = c.keys
<1> DEFINE id == c.stored[1]
           b == [c EXCEPT !.stored = Erase(@, id)]
           key == c.keys[id]
<1>1. c.failed = FALSE /\ Good(c) /\ Ids(c) = DOMAIN c.items /\ DOMAIN c = Fields
  BY ItemIds DEF Consuming, Good, Sound, Shape
<1>2. id \in Members(c.stored)
  <2>1. Len(c.stored) \in Nat \ {0}
    BY FrontSeq DEF Consuming, Tracks, Distinct
  <2>2. 1 \in 1 .. Len(c.stored)
    BY <2>1
  <2> QED
    BY <2>2 DEF Members
<1>3. id \in DOMAIN c.items /\ Tracks(c)
  BY <1>2 DEF Consuming, Tracks
<1>4. d = ConsumeEdit(b, id, e)
  BY <1>1, <1>3 DEF ConsumeStep
<1> HIDE DEF id
<1>5. b.keys = c.keys
  BY <1>1 DEF Fields
<1>6. /\ Good(b) /\ State(b) = State(c) /\ b.items = c.items
      /\ b.stored = Erase(c.stored, id)
  BY <1>1, StoredRewinds DEF Rewinds
<1> HIDE DEF b
<1>7. /\ Distinct(b.stored) /\ Members(b.stored) = Members(c.stored) \ {id}
      /\ Len(b.stored) = Len(c.stored) - 1
  BY <1>2, <1>3, <1>6, EraseMember DEF Tracks
<1>8. Tracks(b) /\ id \notin Members(b.stored)
  BY <1>3, <1>6, <1>7 DEF Tracks
<1>9. Rewinds(b, d) /\ Good(d)
  BY <1>3, <1>4, <1>6, ConsumeEditFollows DEF Rewinds
<1>10. /\ Edited(e, State(b), State(d), {b.keys[id]})
       /\ Stays(b, d) \/ (Goes(b, d, id) /\ Discards(e))
  BY <1>3, <1>4, <1>6, ConsumeEditSets
<1>11. TrackedKeys(d) = TrackedKeys(b) /\ Len(d.stored) = Len(b.stored)
  BY <1>3, <1>6, <1>8, <1>9, <1>10, KeysTracked
<1>12. TrackedKeys(b) = TrackedKeys(c) \ {key} /\ key \in TrackedKeys(c)
  <2>1. \A i, j \in DOMAIN c.items : c.keys[i] = c.keys[j] => i = j
    BY <1>1 DEF Good, Sound, Shape, KeysOK
  <2>2. Members(c.stored) \subseteq DOMAIN c.items
    BY <1>3 DEF Tracks
  <2> QED
    BY <1>2, <1>5, <1>7, <2>1, <2>2 DEF TrackedKeys, KeysOf
<1>13. ~Discards(e) => d.keys = c.keys
  BY <1>5, <1>10 DEF Stays
<1> QED
  BY <1>5, <1>6, <1>7, <1>10, <1>11, <1>12, <1>13

\* After some rounds what is no longer in the store has been edited.
ConsumedTo(c, s, e, x, i) ==
    /\ Consuming(x, e) /\ Len(x.stored) = Len(s) - i
    /\ TrackedKeys(x) \subseteq KeysOf(c, Members(s))
    /\ Edited(e, State(c), State(x), KeysOf(c, Members(s)) \ TrackedKeys(x))
    /\ ~Discards(e) => x.keys = c.keys

\* At the end all of them have been edited.
ConsumeEnds(c, d, s, e) ==
    /\ Edited(e, State(c), State(d), KeysOf(c, Members(s)))
    /\ d.stored = <<>>
    /\ ~Discards(e) => d.keys = c.keys

\* The whole loop edits all items of the selection that it was given,
LEMMA ConsumeSets ==
    ASSUME NEW c, Good(c), NEW s, Distinct(s), Members(s) \subseteq DOMAIN c.items,
           NEW e \in ConsumeEdits, e.edit # "move",
           NEW run, ConsumeRounds(run, c, s, e), NEW d, d = [run[Len(s)] EXCEPT !.stored = <<>>]
    PROVE  ConsumeEnds(c, d, s, e)
<1> DEFINE n == Len(s)
           K == KeysOf(c, Members(s))
           P == {i \in 0 .. n : ConsumedTo(c, s, e, run[i], i)}
<1>1. n \in Nat /\ DOMAIN c = Fields
  BY DEF Distinct, IsSeq, Good, Sound, Shape
<1>2. 0 \in P
  <2> DEFINE c0 == [c EXCEPT !.stored = s]
  <2>1. run[0] = c0
    BY DEF ConsumeRounds
  <2>2. c0 = [c EXCEPT !.stored = s]
    OBVIOUS
  <2>3. c0.keys = c.keys
    BY <1>1 DEF Fields
  <2> HIDE DEF c0
  <2>4. /\ Rewinds(c, c0) /\ State(c0) = State(c) /\ c0.items = c.items /\ c0.stored = s
    BY <2>2, StoredRewinds
  <2>5. /\ Good(c0) /\ State(c0) = State(c) /\ c0.items = c.items /\ c0.stored = s
    BY <2>4 DEF Rewinds
  <2>6. Consuming(c0, e) /\ TrackedKeys(c0) = K
    BY <2>5, <2>3 DEF Consuming, Tracks, TrackedKeys, KeysOf
  <2>7. State(c).selected \subseteq DOMAIN State(c).items
    BY StateItems DEF Good
  <2>8. Edited(e, State(c), State(c0), {})
    BY <2>5, <2>7, EditedNothing
  <2> HIDE DEF K
  <2>9. K \ TrackedKeys(c0) = {} /\ Len(s) = n - 0
    BY <1>1, <2>6
  <2>10. ConsumedTo(c, s, e, c0, 0)
    BY <2>5, <2>3, <2>6, <2>8, <2>9 DEF ConsumedTo, K
  <2> QED
    BY <1>1, <2>1, <2>10
<1>3. ASSUME NEW i \in 1 .. n, i - 1 \in P PROVE i \in P
  <2> DEFINE x == run[i - 1]
             y == run[i]
  <2>1. ConsumedTo(c, s, e, x, i - 1) /\ i \in 0 .. n
    BY <1>3
  <2>2. y = ConsumeStep(x, e)
    BY DEF ConsumeRounds
  <2> HIDE DEF x, y, P
  <2>3. x.stored # <<>>
    BY <1>1, <2>1, EmptySeq DEF ConsumedTo
  <2>4. Consuming(y, e) /\ Consuming(x, e)
    BY <2>1, <2>2, ConsumeStepRewinds DEF ConsumedTo
  <2>5. PICK key \in TrackedKeys(x) :
           /\ Edited(e, State(x), State(y), {key})
           /\ TrackedKeys(y) = TrackedKeys(x) \ {key} /\ Len(y.stored) = Len(x.stored) - 1
           /\ ~Discards(e) => y.keys = x.keys
    BY <2>2, <2>3, <2>4, ConsumeStepSets
  <2>6. /\ TrackedKeys(x) \subseteq K /\ Edited(e, State(c), State(x), K \ TrackedKeys(x))
        /\ Len(x.stored) = n - (i - 1) /\ (~Discards(e) => x.keys = c.keys)
    BY <2>1 DEF ConsumedTo
  <2> HIDE DEF K
  <2>7. (K \ TrackedKeys(x)) \cup {key} = K \ TrackedKeys(y) /\ TrackedKeys(y) \subseteq K
    BY <2>5, <2>6
  <2>8. Edited(e, State(c), State(y), (K \ TrackedKeys(x)) \cup {key})
    BY <2>5, <2>6, EditedTwice
  <2>9. Len(y.stored) = n - i
    BY <1>1, <2>5, <2>6
  <2>10. ConsumedTo(c, s, e, y, i)
    BY <2>4, <2>5, <2>6, <2>7, <2>8, <2>9 DEF ConsumedTo, K
  <2> QED
    BY <2>1, <2>10 DEF P, y
<1>4. P \in SUBSET (0 .. n)
  OBVIOUS
<1> HIDE DEF P, n
<1>5. P = 0 .. n
  BY <1>1, <1>2, <1>3, <1>4, AllRounds DEF n
<1>6. n \in P
  BY <1>1, <1>5 DEF n
<1> DEFINE x == run[n]
<1>7. ConsumedTo(c, s, e, x, n)
  BY <1>6 DEF P
<1>8. d = [x EXCEPT !.stored = <<>>]
  BY DEF n
<1> HIDE DEF x, K
<1>9. Good(x) /\ Len(x.stored) = 0
  BY <1>1, <1>7 DEF ConsumedTo, Consuming, n
<1>10. State(d) = State(x) /\ d.stored = <<>> /\ d.keys = x.keys
  <2>1. State(d) = State(x) /\ d.stored = <<>>
    BY <1>8, <1>9, StoredRewinds
  <2>2. d.keys = x.keys
    BY <1>8, <1>9 DEF Good, Sound, Shape, Fields
  <2> QED
    BY <2>1, <2>2
<1>11. TrackedKeys(x) = {}
  BY <1>9 DEF TrackedKeys, KeysOf, Members
<1> QED
  BY <1>7, <1>10, <1>11 DEF ConsumedTo, ConsumeEnds, K

\* so a change of a selection's mode sets it for all of them,
LEMMA ChangeSelectionModeSets ==
    ASSUME NEW c, Good(c), NEW s, Distinct(s), Members(s) \subseteq DOMAIN c.items,
           NEW mode \in Mode, NEW d, d = ChangeSelectionMode(c, s, mode)
    PROVE  /\ Rewinds(c, d) /\ ModeSet(State(c), State(d), KeysOf(c, Members(s)), mode)
           /\ d.stored = <<>> /\ (mode # "insert_or_discard" => d.keys = c.keys)
<1> DEFINE e == [loop |-> "consume", edit |-> "mode", mode |-> mode]
<1>1. e \in ConsumeEdits /\ e.edit = "mode" /\ e.mode = mode
  BY DEF ConsumeEdits
<1>2. Rewinds(c, d)
  BY SelectionEditsRewind
<1>3. PICK run : d = [run[Len(s)] EXCEPT !.stored = <<>>] /\ ConsumeRounds(run, c, s, e)
  BY ConsumeModeLoop DEF Distinct
<1> HIDE DEF e
<1>4. ConsumeEnds(c, d, s, e)
  <2>1. e \in ConsumeEdits /\ e.edit # "move"
    BY <1>1
  <2> QED
    BY ONLY Good(c), Distinct(s), Members(s) \subseteq DOMAIN c.items,
            <1>3, <2>1, ConsumeSets
<1> QED
  BY <1>1, <1>2, <1>4 DEF ConsumeEnds, Edited, Discards

\* and a deletion of a selection deletes all of them and nothing else.
LEMMA DeleteAllGone ==
    ASSUME NEW c, Good(c), NEW s, Distinct(s), Members(s) \subseteq DOMAIN c.items,
           NEW d, d = DeleteAll(c, s)
    PROVE  /\ Rewinds(c, d) /\ KeysGone(State(c), State(d), KeysOf(c, Members(s)))
           /\ d.stored = <<>>
<1> DEFINE e == [loop |-> "consume", edit |-> "delete"]
<1>1. e \in ConsumeEdits /\ e.edit = "delete"
  BY DEF ConsumeEdits
<1>2. Rewinds(c, d)
  BY SelectionEditsRewind
<1>3. PICK run : d = [run[Len(s)] EXCEPT !.stored = <<>>] /\ ConsumeRounds(run, c, s, e)
  BY ConsumeDeleteLoop DEF Distinct
<1> HIDE DEF e
<1>4. ConsumeEnds(c, d, s, e)
  <2>1. e \in ConsumeEdits /\ e.edit # "move"
    BY <1>1
  <2> QED
    BY ONLY Good(c), Distinct(s), Members(s) \subseteq DOMAIN c.items,
            <1>3, <2>1, ConsumeSets
<1> QED
  BY <1>1, <1>2, <1>4 DEF ConsumeEnds, Edited

-----------------------------------------------------------------------------
(***************************************************************************)
(* No selection is in the selection store between the edits.               *)
(***************************************************************************)

Unstored(c) == "stored" \in DOMAIN c /\ c.stored = <<>>

\* No edit outside the loops keeps a selection in the store: not the stacks,
LEMMA StackUnstored ==
    ASSUME NEW c, Unstored(c), NEW t
    PROVE  Unstored([c EXCEPT ![Tracked(c)] = t]) /\ Unstored(Fail(c))
<1>1. Tracked(c) \in {"undo", "redo"}
  BY DEF Tracked
<1>2. Unstored(Fail(c))
  BY DEF Fail, Unstored
<1>3. CASE Tracked(c) = "undo"
  BY <1>2, <1>3 DEF Unstored
<1>4. CASE Tracked(c) = "redo"
  BY <1>2, <1>4 DEF Unstored
<1> QED
  BY <1>1, <1>3, <1>4

\* not the entries pushed to them,
LEMMA PushUnstored ==
    ASSUME NEW c, Unstored(c)
    PROVE  /\ \A e : Unstored(PushEntry(c, e))
           /\ \A e, type : Unstored(PushOrCancel(c, e, type))
           /\ \A key, attrs : Unstored(PushChangeAttributes(c, key, attrs))
           /\ \A op : Unstored(PushAddOperation(c, op))
           /\ \A rect : Unstored(PushUpdateLast(c, rect))
<1>1. \A t : Unstored([c EXCEPT ![Tracked(c)] = t])
  BY StackUnstored
<1>2. \A e : Unstored(PushEntry(c, e))
  BY <1>1, Zenon DEF PushEntry, PushEntries, Record
<1>3. \A e, type : Unstored(PushOrCancel(c, e, type))
  BY <1>1, Zenon DEF PushOrCancel, Record
<1>4. \A key, attrs : Unstored(PushChangeAttributes(c, key, attrs))
  BY <1>1, Zenon DEF PushChangeAttributes, Record
<1>5. \A op : Unstored(PushAddOperation(c, op))
  BY <1>1, Zenon DEF PushAddOperation, Record
<1>6. \A rect : Unstored(PushUpdateLast(c, rect))
  BY <1>1, Zenon DEF PushUpdateLast, Record
<1> QED
  BY <1>2, <1>3, <1>4, <1>5, <1>6

\* An empty selection stays empty when an item is deleted.
LEMMA NothingStored ==
    ASSUME NEW id, NEW last PROVE StoredAfterDelete(<<>>, id, last) = <<>>
BY DEF StoredAfterDelete, Erase, Contains

\* not a deletion,
LEMMA DeleteUnstored ==
    ASSUME NEW c, Unstored(c), NEW id PROVE Unstored(DeleteTemporary(c, id))
<1> DEFINE last == Len(c.items)
           c1 == IF id \in c.initial THEN PushAddVisible(c, c.keys[id]) ELSE c
           c2 == PushCreate(c1, c.keys[id], c.items[id])
           d == [Submit(c2) EXCEPT !.items = SwapAndDelete(@, id),
                       !.keys = SwapAndDelete(@, id),
                       !.initial = AfterDelete(@, id, last),
                       !.stored = StoredAfterDelete(@, id, last)]
<1>1. Unstored(c1)
  BY PushUnstored DEF PushAddVisible
<1>2. Unstored(c2)
  <2> HIDE DEF c1
  <2> QED
    BY <1>1, PushUnstored DEF PushCreate
<1>3. DeleteTemporary(c, id) = IF c.items[id].display # "temporary" THEN Fail(c) ELSE d
  BY Zenon DEF DeleteTemporary
<1>4. Unstored(d)
  <2> HIDE DEF c2, last
  <2>1. "stored" \in DOMAIN Submit(c2) /\ Submit(c2).stored = <<>>
    BY <1>2 DEF Unstored, Submit
  <2> DEFINE x == Submit(c2)
  <2> HIDE DEF x
  <2>2. "stored" \in DOMAIN d /\ d.stored = StoredAfterDelete(x.stored, id, last)
    BY <2>1 DEF x
  <2> QED
    BY <2>1, <2>2, NothingStored DEF Unstored, x
<1> HIDE DEF d
<1> QED
  BY <1>3, <1>4, StackUnstored

\* not the messages and the displays,
LEMMA DisplayUnstored ==
    ASSUME NEW c, Unstored(c)
    PROVE  Unstored(Submit(c)) /\ \A id, display : Unstored(SetDisplay(c, id, display))
BY DEF Unstored, Submit, SetDisplay

\* not a move,
LEMMA MoveUnstored ==
    ASSUME NEW c, Unstored(c), NEW id, NEW delta
    PROVE  Unstored(MoveTemporaryUnchecked(c, id, delta))
<1> DEFINE e == [type |-> "move", key |-> c.keys[id], delta |-> -delta]
           b == PushEntry(c, e)
           d == [b EXCEPT !.items[id].position = @ + delta]
<1>1. Unstored(b)
  BY PushUnstored
<1>2. Unstored(d)
  <2> HIDE DEF b
  <2> QED
    BY <1>1 DEF Unstored
<1>3. MoveTemporaryUnchecked(c, id, delta) \in {Fail(c), d}
  <2> HIDE DEF b
  <2>1. d = [PushEntry(c, e) EXCEPT !.items[id].position = @ + delta]
    BY DEF b
  <2> QED
    BY <2>1, Zenon DEF MoveTemporaryUnchecked
<1> HIDE DEF d
<1> QED
  BY <1>2, <1>3, StackUnstored

\* not the steps between two modes,
LEMMA ModesUnstored ==
    ASSUME NEW c, Unstored(c), NEW id, NEW hint
    PROVE  /\ Unstored(ToCollisions(c, id, hint))
           /\ Unstored(CollidingToTemporary(c, id))
           /\ Unstored(CollidingToInsert(c, id, hint))
<1>1. Unstored(Fail(c))
  BY StackUnstored
<1>2. /\ \A e : Unstored(PushEntry(c, e))
      /\ \A e, type : Unstored(PushOrCancel(c, e, type))
  BY PushUnstored
<1>3. ASSUME NEW x, Unstored(x), NEW display
      PROVE  /\ Unstored(SetDisplay(x, id, display)) /\ Unstored(SetDisplay(Submit(x), id, display))
  BY <1>3, DisplayUnstored
<1>4. Unstored(TemporaryToColliding(c, id, hint))
  <2> DEFINE c1 == PushEntry(c, Entry("to_temporary", c.keys[id]))
  <2>1. /\ Unstored(SetDisplay(c1, id, "colliding"))
        /\ Unstored(SetDisplay(Submit(c1), id, "valid"))
    <3>1. Unstored(c1)
      BY <1>2
    <3> HIDE DEF c1
    <3> QED
      BY <1>3, <3>1
  <2>2. TemporaryToColliding(c, id, hint)
          \in {Fail(c), SetDisplay(c1, id, "colliding"), SetDisplay(Submit(c1), id, "valid")}
    BY Zenon DEF TemporaryToColliding
  <2> HIDE DEF c1
  <2> QED
    BY <1>1, <2>1, <2>2
<1>5. Unstored(InsertToColliding(c, id))
  <2> DEFINE c1 == PushOrCancel(c, Entry("to_insert", c.keys[id]), "to_colliding_expect_valid")
  <2>1. Unstored(SetDisplay(c1, id, "valid"))
    <3>1. Unstored(c1)
      BY <1>2
    <3> HIDE DEF c1
    <3> QED
      BY <1>3, <3>1
  <2>2. InsertToColliding(c, id) \in {Fail(c), SetDisplay(c1, id, "valid")}
    BY Zenon DEF InsertToColliding
  <2> HIDE DEF c1
  <2> QED
    BY <1>1, <2>1, <2>2
<1>6. Unstored(ToCollisions(c, id, hint))
  BY <1>4, <1>5, Zenon DEF ToCollisions
<1>7. Unstored(CollidingToTemporary(c, id))
  <2> DEFINE key == c.keys[id]
             c1 == PushOrCancel(c, Entry("to_colliding_expect_valid", key), "to_temporary")
             c2 == PushOrCancel(c, Entry("to_colliding_assume_colliding", key), "to_temporary")
  <2>1. /\ Unstored(SetDisplay(Submit(c1), id, "temporary"))
        /\ Unstored(SetDisplay(c2, id, "temporary"))
    <3>1. Unstored(c1) /\ Unstored(c2)
      BY <1>2
    <3> HIDE DEF c1, c2
    <3> QED
      BY <1>3, <3>1
  <2>2. CollidingToTemporary(c, id)
          \in {Fail(c), SetDisplay(Submit(c1), id, "temporary"), SetDisplay(c2, id, "temporary")}
    BY Zenon DEF CollidingToTemporary
  <2> HIDE DEF c1, c2
  <2> QED
    BY <1>1, <2>1, <2>2
<1>8. Unstored(CollidingToInsert(c, id, hint))
  <2> DEFINE c1 == PushEntry(c, Entry("to_colliding_expect_valid", c.keys[id]))
             c2 == DeleteTemporary(CollidingToTemporary(c, id), id)
  <2>1. Unstored(SetDisplay(c1, id, "normal")) /\ Unstored(c2)
    <3>1. Unstored(c1) /\ Unstored(c2)
      BY <1>2, <1>7, DeleteUnstored
    <3> HIDE DEF c1
    <3> QED
      BY <1>3, <3>1
  <2>2. CollidingToInsert(c, id, hint) \in {Fail(c), SetDisplay(c1, id, "normal"), c2}
    BY Zenon DEF CollidingToInsert
  <2> HIDE DEF c1, c2
  <2> QED
    BY <1>1, <2>1, <2>2
<1> QED
  BY <1>6, <1>7, <1>8

\* not a change of the mode,
LEMMA ChangeModeUnstored ==
    ASSUME NEW c, Unstored(c), NEW id, NEW mode, NEW hint, mode \in Mode
    PROVE  Unstored(ChangeInsertionMode(c, id, mode, hint))
<1> DEFINE b == ToCollisions(c, id, hint)
<1>1. Unstored(b)
  BY ModesUnstored
<1>2. ChangeInsertionMode(c, id, mode, hint) \in {c, FromCollisions(b, id, mode, hint)}
  BY Zenon DEF ChangeInsertionMode
<1> HIDE DEF b
<1>3. FromCollisions(b, id, mode, hint)
        \in {b, CollidingToInsert(b, id, hint), CollidingToTemporary(b, id)}
  <2>1. CASE b.failed \/ mode = "collisions"
    BY <2>1, Zenon DEF FromCollisions
  <2>2. CASE ~(b.failed \/ mode = "collisions")
    <3>1. mode = "insert_or_discard" \/ mode = "temporary"
      BY <2>2 DEF Mode
    <3>2. CASE mode = "insert_or_discard"
      BY <2>2, <3>2 DEF FromCollisions
    <3>3. CASE mode = "temporary"
      BY <2>2, <3>3 DEF FromCollisions
    <3> QED
      BY <3>1, <3>2, <3>3
  <2> QED
    BY <2>1, <2>2
<1>4. Unstored(CollidingToInsert(b, id, hint)) /\ Unstored(CollidingToTemporary(b, id))
  BY <1>1, ModesUnstored
<1> QED
  BY <1>1, <1>2, <1>3, <1>4

\* not the creation of an item,
LEMMA CreateUnstored ==
    ASSUME NEW c, Unstored(c), NEW def, NEW position, NEW key
    PROVE  Unstored(CreateTemporary(c, def, position, key))
<1> DEFINE item == [def |-> def, position |-> position, display |-> "temporary"]
           new  == IF key = 0 THEN c.nextKey ELSE key
           next == Max({c.nextKey + 1, key + 1})
           b    == [Submit(c) EXCEPT !.items = Append(@, item), !.keys = Append(@, new),
                          !.nextKey = Max({@ + 1, key + 1})]
<1>1. Unstored(b)
  <2> HIDE DEF item, new
  <2>1. Unstored(Submit(c))
    BY DisplayUnstored
  <2> DEFINE x == Submit(c)
             y == Max({x.nextKey + 1, key + 1})
  <2>2. b = [x EXCEPT !.items = Append(@, item), !.keys = Append(@, new), !.nextKey = y]
    OBVIOUS
  <2> HIDE DEF x, y, b
  <2> QED
    BY <2>1, <2>2 DEF Unstored, x
<1>2. CreateTemporary(c, def, position, key) \in {Fail(c), PushEntry(b, Entry("delete", new))}
  BY Zenon DEF CreateTemporary
<1> HIDE DEF b
<1>3. Unstored(PushEntry(b, Entry("delete", new))) /\ Unstored(Fail(c))
  BY <1>1, PushUnstored, StackUnstored
<1> QED
  BY <1>2, <1>3

\* not its insertion,
LEMMA AddLogicItemUnstored ==
    ASSUME NEW c, Unstored(c), NEW def, NEW position, NEW mode \in Mode
    PROVE  Unstored(AddLogicItem(c, def, position, mode))
BY CreateUnstored, ChangeModeUnstored DEF AddLogicItem, ChangeLastInsertionMode

\* not the operations of the visible selection,
LEMMA VisibleUnstored ==
    ASSUME NEW c, Unstored(c)
    PROVE  /\ \A id : Unstored(AddToVisibleSelection(c, id))
           /\ \A id : Unstored(RemoveFromVisibleSelection(c, id))
           /\ \A op : Unstored(AddVisibleSelectionRect(c, op))
           /\ Unstored(PopLastVisibleSelectionRect(c))
           /\ \A rect : Unstored(UpdateLastVisibleSelectionRect(c, rect))
<1>1. Unstored(Fail(c))
  BY StackUnstored
<1>3. ASSUME NEW id
      PROVE  /\ Unstored(AddToVisibleSelection(c, id))
             /\ Unstored(RemoveFromVisibleSelection(c, id))
  <2> DEFINE x == IF id \notin c.initial THEN PushRemoveVisible(c, c.keys[id]) ELSE c
             y == IF id \in c.initial THEN PushAddVisible(c, c.keys[id]) ELSE c
  <2>1. Unstored(x) /\ Unstored(y)
    BY PushUnstored DEF PushRemoveVisible, PushAddVisible
  <2>2. /\ AddToVisibleSelection(c, id) = [x EXCEPT !.initial = @ \cup {id}, !.cached = {}]
        /\ RemoveFromVisibleSelection(c, id) = [y EXCEPT !.initial = @ \ {id}, !.cached = {}]
    BY DEF AddToVisibleSelection, RemoveFromVisibleSelection
  <2> HIDE DEF x, y
  <2> QED
    BY <2>1, <2>2 DEF Unstored
<1>4. ASSUME NEW op PROVE Unstored(AddVisibleSelectionRect(c, op))
  <2> DEFINE x == PushEntry(c, [type |-> "pop_last"])
  <2>1. Unstored(x)
    BY PushUnstored
  <2>2. AddVisibleSelectionRect(c, op) = [x EXCEPT !.operations = Append(@, op), !.cached = {}]
    BY DEF AddVisibleSelectionRect
  <2> HIDE DEF x
  <2> QED
    BY <2>1, <2>2 DEF Unstored
<1>5. Unstored(PopLastVisibleSelectionRect(c))
  <2> DEFINE x == PushAddOperation(c, Last(c.operations))
  <2>1. Unstored(x)
    BY PushUnstored
  <2>2. PopLastVisibleSelectionRect(c)
          \in {Fail(c), [x EXCEPT !.operations = Front(@), !.cached = {}]}
    BY Zenon DEF PopLastVisibleSelectionRect
  <2> HIDE DEF x
  <2>3. Unstored([x EXCEPT !.operations = Front(@), !.cached = {}])
    BY <2>1 DEF Unstored
  <2> QED
    BY <1>1, <2>2, <2>3
<1>6. ASSUME NEW rect PROVE Unstored(UpdateLastVisibleSelectionRect(c, rect))
  <2> DEFINE x == PushUpdateLast(c, Last(c.operations).rect)
             d == [x EXCEPT !.operations[Len(c.operations)].rect = rect,
                            !.cached = IF rect = Last(c.operations).rect THEN @ ELSE {}]
  <2>1. Unstored(x)
    BY PushUnstored
  <2>2. UpdateLastVisibleSelectionRect(c, rect) \in {Fail(c), d}
    <3>1. d = [PushUpdateLast(c, Last(c.operations).rect)
                 EXCEPT !.operations[Len(c.operations)].rect = rect,
                        !.cached = IF rect = Last(c.operations).rect THEN @ ELSE {}]
      OBVIOUS
    <3> HIDE DEF d
    <3> QED
      BY <3>1, Zenon DEF UpdateLastVisibleSelectionRect
  <2> HIDE DEF x
  <2>3. Unstored(d)
    BY <2>1 DEF Unstored
  <2> HIDE DEF d
  <2> QED
    BY <1>1, <2>2, <2>3
<1> QED
  BY <1>3, <1>4, <1>5, <1>6

\* not setting it,
LEMMA SetVisibleUnstored ==
    ASSUME NEW c, Good(c), Unstored(c), NEW ids
    PROVE  Unstored(SetVisibleSelection(c, ids))
<1> DEFINE s == Reverse(c.operations)
           n == Len(s)
           b == PushAll(c, s)
<1>1. IsSeq(s) /\ n \in Nat
  <2>1. IsSeq(c.operations)
    BY DEF Good, Sound, Shape, OperationsOK
  <2>2. IsSeq(s)
    BY <2>1, ReverseSeq
  <2> QED
    BY <2>2 DEF IsSeq
<1>2. PICK run : b = run[n] /\ PushRounds(run, c, s)
  BY <1>1, PushLoop
<1>3. run[0] = c /\ \A i \in 1 .. n : run[i] = PushAddOperation(run[i - 1], s[i])
  BY <1>2 DEF PushRounds
<1> DEFINE P == {i \in 0 .. n : Unstored(run[i])}
<1> HIDE DEF n, b
<1>4. 0 \in P
  BY <1>1, <1>3
<1>5. ASSUME NEW i \in 1 .. n, i - 1 \in P PROVE i \in P
  <2>1. Unstored(run[i - 1]) /\ i \in 0 .. n
    BY <1>5
  <2>2. Unstored(PushAddOperation(run[i - 1], s[i]))
    BY <2>1, PushUnstored
  <2> QED
    BY <1>3, <2>1, <2>2
<1>6. P \in SUBSET (0 .. n)
  OBVIOUS
<1> HIDE DEF P
<1>7. n \in P
  BY <1>1, <1>4, <1>5, <1>6, AllRounds
<1>8. Unstored(b)
  BY <1>2, <1>7 DEF P
<1> DEFINE x == PushVisibleSelection(c, ids)
<1>9. x = PushInitialSelection(b, ids)
  BY Zenon DEF PushVisibleSelection, PushAll, b
<1>10. Unstored(x)
  <2>1. /\ \A e : Unstored(PushEntry(b, e))
        /\ \A e, type : Unstored(PushOrCancel(b, e, type))
    BY <1>8, PushUnstored
  <2>2. x \in {b} \cup {PushRemoveVisible(b, KeyOf(b, ids)), PushEntry(b, [type |-> "clear"]),
                 PushAddVisible(b, KeyOf(b, b.initial)), PushEntry(b, [type |-> "select_all"]),
                 PushEntry(b, [type |-> "set", keys |-> KeysOf(b, b.initial)])}
    <3> HIDE DEF x
    <3> QED
      BY <1>9, Zenon DEF PushInitialSelection
  <2> QED
    BY <1>8, <2>1, <2>2 DEF PushRemoveVisible, PushAddVisible
<1>11. SetVisibleSelection(c, ids)
         \in {Fail(c), [x EXCEPT !.initial = ids, !.operations = <<>>, !.cached = {}]}
  BY Zenon DEF SetVisibleSelection
<1> HIDE DEF x
<1>12. Unstored([x EXCEPT !.initial = ids, !.operations = <<>>, !.cached = {}])
  BY <1>10 DEF Unstored
<1> QED
  BY <1>11, <1>12, StackUnstored

\* not the attributes,
LEMMA SetAttributesUnstored ==
    ASSUME NEW c, Unstored(c), NEW id, NEW attrs PROVE Unstored(SetAttributes(c, id, attrs))
<1> DEFINE x == PushChangeAttributes(c, c.keys[id], c.items[id].def.attrs)
<1>1. Unstored(x)
  BY PushUnstored
<1>2. SetAttributes(c, id, attrs) = [x EXCEPT !.items[id].def.attrs = attrs]
  BY DEF SetAttributes
<1> HIDE DEF x
<1> QED
  BY <1>1, <1>2 DEF Unstored

\* and not the replay of an entry,
LEMMA ReplayUnstored ==
    ASSUME NEW c, Good(c), Unstored(c), NEW e, NEW ts, Leads(e, State(c), ts),
           e.type # "new_group"
    PROVE  Unstored(ReplayEntry(c, e))
<1>1. c.failed = FALSE /\ Unstored(Fail(c))
  BY StackUnstored DEF Good
<1>2. CASE e.type \in SelectionEntryTypes
  <2>1. ReplayEntry(c, e) = ReplayOfSelection(c, e)
    BY <1>1, <1>2 DEF ReplayEntry, SelectionEntryTypes
  <2>2. \A ids : Unstored(SetVisibleSelection(c, ids))
    BY SetVisibleUnstored
  <2>3. /\ \A op : Unstored(AddVisibleSelectionRect(c, op))
        /\ \A rect : Unstored(UpdateLastVisibleSelectionRect(c, rect))
        /\ Unstored(PopLastVisibleSelectionRect(c))
    BY VisibleUnstored
  <2>4. Unstored(ReplayOfSelection(c, e))
    BY <1>1, <1>2, <2>2, <2>3 DEF ReplayOfSelection, SelectionEntryTypes
  <2> QED
    BY <2>1, <2>4
<1>3. CASE e.type = "create"
  <2>1. ReplayEntry(c, e) = CreateTemporary(c, e.def, e.position, e.key)
    BY <1>1, <1>3 DEF ReplayEntry, SelectionEntryTypes
  <2> QED
    BY <2>1, CreateUnstored
<1>4. CASE e.type \in ItemTypes
  <2> DEFINE id == CHOOSE i \in Ids(c) : c.keys[i] = e.key
  <2>1. ReplayEntry(c, e) \in {Fail(c), ReplayOfItem(c, e, id)}
    BY <1>1, <1>4 DEF ReplayEntry, SelectionEntryTypes, ItemTypes
  <2> HIDE DEF id
  <2>2. Unstored(DeleteTemporary(c, id))
    BY DeleteUnstored
  <2>3. \A delta : Unstored(MoveTemporaryUnchecked(c, id, delta))
    BY MoveUnstored
  <2>4. \A mode, hint : mode \in Mode => Unstored(ChangeInsertionMode(c, id, mode, hint))
    BY ChangeModeUnstored
  <2>5. \A attrs : Unstored(SetAttributes(c, id, attrs))
    BY SetAttributesUnstored
  <2>6. Unstored(AddToVisibleSelection(c, id)) /\ Unstored(RemoveFromVisibleSelection(c, id))
    BY VisibleUnstored
  <2>7. CASE e.type \in DOMAIN ModeChange
    <3>1. ReplayOfItem(c, e, id)
            = ChangeInsertionMode(c, id, ModeChange[e.type].mode, ModeChange[e.type].hint)
      BY <2>7 DEF ReplayOfItem, ModeChange
    <3>2. ModeChange[e.type].mode \in Mode
      BY <2>7 DEF ModeChange, Mode
    <3> QED
      BY <1>1, <2>1, <2>4, <3>1, <3>2
  <2>8. CASE e.type \notin DOMAIN ModeChange
    <3>1. ReplayOfItem(c, e, id)
            \in {DeleteTemporary(c, id), MoveTemporaryUnchecked(c, id, e.delta),
                 SetAttributes(c, id, e.attrs), AddToVisibleSelection(c, id),
                 RemoveFromVisibleSelection(c, id)}
      BY <1>4, <2>8 DEF ReplayOfItem, ItemTypes, ModeChange
    <3> QED
      BY <1>1, <2>1, <2>2, <2>3, <2>5, <2>6, <3>1
  <2> QED
    BY <2>7, <2>8
<1>5. e.type \in ItemTypes \cup {"create"} \cup SelectionEntryTypes
  BY LeadTypes
<1> QED
  BY <1>2, <1>3, <1>4, <1>5

\* nor of all entries of a group,
LEMMA ReplayAllUnstored ==
    ASSUME NEW c, Good(c), Unstored(c), NEW s, IsSeq(s), NEW w, w[0] = State(c),
           \A i \in 1 .. Len(s) : Leads(s[i], w[i - 1], w[i]) /\ s[i].type # "new_group"
    PROVE  Unstored(ReplayAll(c, s))
<1> DEFINE n == Len(s)
<1>1. n \in Nat
  BY DEF IsSeq
<1>2. PICK run : ReplayAll(c, s) = run[n] /\ ReplayRounds(run, c, s)
  BY ReplayLoop
<1>3. run[0] = c /\ \A i \in 1 .. n : run[i] = ReplayEntry(run[i - 1], s[i])
  BY <1>2 DEF ReplayRounds
<1> HIDE DEF n
<1> DEFINE P == {i \in 0 .. n : ReplaysTo(c, run[i], w[i]) /\ Unstored(run[i])}
<1>4. 0 \in P
  BY <1>1, <1>3, RewindsSelf DEF ReplaysTo
<1>5. ASSUME NEW i \in 1 .. n, i - 1 \in P PROVE i \in P
  <2>1. /\ Rewinds(c, run[i - 1]) /\ State(run[i - 1]) = w[i - 1] /\ Good(run[i - 1])
        /\ Unstored(run[i - 1])
    BY <1>5 DEF ReplaysTo, Rewinds
  <2>2. Leads(s[i], State(run[i - 1]), w[i]) /\ s[i].type # "new_group"
    BY <2>1 DEF n
  <2>3. ReplaysTo(run[i - 1], run[i], w[i]) /\ Unstored(run[i])
    BY <1>3, <2>1, <2>2, ReplayRewinds, ReplayUnstored
  <2>4. Rewinds(c, run[i])
    BY <2>1, <2>3, RewindsTwice DEF ReplaysTo
  <2> QED
    BY <1>1, <2>3, <2>4 DEF ReplaysTo
<1>6. P \in SUBSET (0 .. n)
  OBVIOUS
<1> HIDE DEF P
<1>7. P = 0 .. n
  BY <1>1, <1>4, <1>5, <1>6, AllRounds
<1>8. n \in P
  BY <1>1, <1>7
<1> QED
  BY <1>2, <1>8 DEF P, n

\* so that undo and redo of a group leave no selection stored either.
LEMMA GroupUnstored ==
    ASSUME NEW c, Balanced(c), Unstored(c), NEW name \in {"undo", "redo"},
           NEW d, d = ReplayStack(c, name, ReplayEntry)
    PROVE  Unstored(d)
<1> DEFINE s == Front(c[name])
           start == LastStart(s)
           cut == SubSeq(s, 1, start)
           popped == [c EXCEPT ![name] = SubSeq(s, 1, start),
                            !.history = IF name = "undo" THEN "track_redo_replay"
                                        ELSE "track_undo_replay"]
           group == Reverse(SubSeq(s, start + 1, Len(s)))
           guard == \/ c.history # "track_undo_new"
                    \/ HasUngrouped(c.undo)
                    \/ HasUngrouped(c.redo)
<1>1. ~guard
  BY DEF Balanced, Finished
<1>2. CASE c[name] = <<>>
  <2>1. ReplayStack(c, name, ReplayEntry) = c
    BY <1>1, <1>2, Zenon DEF ReplayStack
  <2> QED
    BY <2>1
<1>3. CASE c[name] # <<>>
  <2>1. d = FinishReplay(ReplayAll(popped, group))
    BY <1>1, <1>3, Zenon DEF ReplayStack, ReplayOneGroup, ReplayAll, ForEach, LastStart
  <2>2. /\ Good(c) /\ StackOK(c[name]) /\ DOMAIN c = Fields /\ StackOK(c.undo)
        /\ StackOK(c.redo) /\ ~HasUngrouped(c[name])
    BY DEF Balanced, Good, Sound, Shape, Finished
  <2>3. PICK f : Arrives(c[name], f, State(c))
    BY DEF Balanced, Finished
  <2>4. Takes(c[name], f, State(c), s, start, cut, group)
    <3> HIDE DEF s, start, group
    <3> QED
      BY <1>3, <2>2, <2>3, GroupTaken DEF s, start, group
  <2> HIDE DEF s, start, group
  <2>5. StackOK(cut) /\ IsSeq(group)
    BY <2>4 DEF Takes
  <2>6. StacksReplaced(c, popped) /\ Unstored(popped)
    <3>1. popped = [c EXCEPT ![name] = cut,
                             !.history = IF name = "undo" THEN "track_redo_replay"
                                         ELSE "track_undo_replay"]
      OBVIOUS
    <3> HIDE DEF popped, cut
    <3>2. CASE name = "undo"
      <4>1. popped = [c EXCEPT !.undo = cut, !.history = "track_redo_replay"]
        BY <3>1, <3>2
      <4> QED
        BY <2>2, <2>5, <4>1 DEF Fields, StacksReplaced, Unstored
    <3>3. CASE name = "redo"
      <4>1. popped = [c EXCEPT !.redo = cut, !.history = "track_undo_replay"]
        BY <3>1, <3>3
      <4> QED
        BY <2>2, <2>5, <4>1 DEF Fields, StacksReplaced, Unstored
    <3> QED
      BY <3>2, <3>3
  <2> DEFINE q == ReplayAll(popped, group)
  <2> HIDE DEF popped, cut
  <2>7. Good(popped) /\ State(popped) = State(c)
    BY <2>2, <2>6, StacksReplacedGood
  <2>8. PICK w : /\ w[0] = State(c) /\ w[Len(group)] = f[start]
                 /\ \A i \in 1 .. Len(group) : /\ Leads(group[i], w[i - 1], w[i])
                                               /\ group[i].type # "new_group"
    BY <2>4 DEF Takes
  <2>9. Unstored(q)
    BY <2>5, <2>6, <2>7, <2>8, ReplayAllUnstored
  <2>10. d = FinishReplay(q)
    BY <2>1
  <2> HIDE DEF q
  <2>11. Unstored([q EXCEPT ![Tracked(q)] = PushNewGroup(@)])
    BY <2>9, StackUnstored
  <2> DEFINE x == [q EXCEPT ![Tracked(q)] = PushNewGroup(@)]
  <2>12. d = [x EXCEPT !.history = "track_undo_new"]
    BY <2>10 DEF FinishReplay
  <2> HIDE DEF x
  <2>13. Unstored(x)
    BY <2>11 DEF x
  <2> QED
    BY <2>12, <2>13 DEF Unstored
<1> QED
  BY <1>2, <1>3

\* Finishing a group stores nothing.
LEMMA FinishUnstored ==
    ASSUME NEW c, Unstored(c) PROVE Unstored(FinishUndoGroup(c))
BY DEF FinishUndoGroup, Unstored

-----------------------------------------------------------------------------
(***************************************************************************)
(* Moving a selection, with history or without.                            *)
(***************************************************************************)

MovedItems(items, ids, delta) ==
    [id \in DOMAIN items |-> IF id \in ids THEN MovedItem(items[id], delta) ELSE items[id]]

MovedIn(items, id, delta) == [items EXCEPT ![id] = MovedItem(items[id], delta)]

ItemsAre(items) ==
    items = [id \in DOMAIN items |-> items[id]] /\ \A id \in DOMAIN items : items[id] \in Item

\* Only the items differ, and the stacks if there is a history.
ItemsOnly(c, d) ==
    /\ DOMAIN d = Fields
    /\ d.keys = c.keys /\ d.nextKey = c.nextKey /\ d.loaded = c.loaded
    /\ d.stored = c.stored /\ d.initial = c.initial /\ d.operations = c.operations
    /\ d.cached = c.cached /\ d.history = c.history /\ d.failed = c.failed
    /\ c.history = "disabled" => d.undo = c.undo /\ d.redo = c.redo

\* Moving one temporary item without a check changes its position only.
LEMMA MoveOne ==
    ASSUME NEW c, DOMAIN c = Fields, NEW id, NEW delta \in Int,
           c.items[id].display = "temporary",
           IsRepresentable(c.items[id].position + delta),
           NEW d, d = MoveTemporaryUnchecked(c, id, delta)
    PROVE  /\ ItemsOnly(c, d)
           /\ d.items = [c.items EXCEPT ![id] = MovedItem(c.items[id], delta)]
<1> DEFINE e == [type |-> "move", key |-> c.keys[id], delta |-> -delta]
           b == PushEntry(c, e)
<1>1. d = [b EXCEPT !.items[id].position = @ + delta]
  BY DEF MoveTemporaryUnchecked
<1>2. ItemsOnly(c, b) /\ b.items = c.items
  <2>1. b \in {c, [c EXCEPT ![Tracked(c)] = c[Tracked(c)] \o <<e>>]}
    BY Zenon DEF PushEntry, PushEntries, Record
  <2>2. c.history = "disabled" => b = c
    BY Zenon DEF PushEntry, PushEntries, Record
  <2> HIDE DEF b, e
  <2>3. CASE b = c
    BY <2>3 DEF ItemsOnly
  <2>4. CASE c.history # "disabled" /\ b = [c EXCEPT ![Tracked(c)] = c[Tracked(c)] \o <<e>>]
    <3> DEFINE t == c[Tracked(c)] \o <<e>>
    <3> HIDE DEF t
    <3>1. b = [c EXCEPT ![Tracked(c)] = t]
      BY <2>4 DEF t
    <3>2. CASE Tracked(c) = "undo"
      BY <2>4, <3>1, <3>2 DEF ItemsOnly, Fields
    <3>3. CASE Tracked(c) = "redo"
      BY <2>4, <3>1, <3>3 DEF ItemsOnly, Fields
    <3> QED
      BY <3>2, <3>3 DEF Tracked
  <2> QED
    BY <2>1, <2>2, <2>3, <2>4
<1> HIDE DEF b
<1>3. ItemsOnly(b, d) /\ d.items = [b.items EXCEPT ![id] = MovedItem(b.items[id], delta)]
  BY <1>1, <1>2 DEF ItemsOnly, Fields, MovedItem
<1> QED
  BY <1>2, <1>3 DEF ItemsOnly

\* Moving no items, or by no distance, changes nothing.
LEMMA MovedNothing ==
    ASSUME NEW items, ItemsAre(items), NEW ids, NEW delta \in Int, ids = {} \/ delta = 0
    PROVE  MovedItems(items, ids, delta) = items
<1>1. ASSUME NEW id \in DOMAIN items
      PROVE  (IF id \in ids THEN MovedItem(items[id], delta) ELSE items[id]) = items[id]
  <2>1. CASE id \in ids
    <3>1. delta = 0 /\ items[id] \in Item
      BY <2>1 DEF ItemsAre
    <3> DEFINE x == items[id]
    <3> HIDE DEF x
    <3>2. x \in Item
      BY <3>1 DEF x
    <3>3. MovedItem(x, 0) = x
      BY <3>2 DEF MovedItem, Item
    <3> QED
      BY <2>1, <3>1, <3>3 DEF x
  <2> QED
    BY <2>1
<1> QED
  BY <1>1, Zenon DEF MovedItems, ItemsAre

\* Moving a set of items can be done one by one.
LEMMA MovedOneMore ==
    ASSUME NEW items, NEW ids, NEW delta, NEW id \in DOMAIN items, id \notin ids,
           NEW moved, moved = MovedItems(items, ids, delta),
           NEW new, new = MovedIn(moved, id, delta)
    PROVE  new = MovedItems(items, ids \cup {id}, delta)
<1>1. DOMAIN moved = DOMAIN items /\ moved[id] = items[id]
  BY DEF MovedItems
<1> DEFINE x == MovedItem(items[id], delta)
<1>5. new = [moved EXCEPT ![id] = x]
  BY <1>1 DEF MovedIn
<1>2. \A i \in DOMAIN items :
         new[i] = IF i \in ids \cup {id} THEN MovedItem(items[i], delta) ELSE items[i]
  <2> HIDE DEF x
  <2>1. \A i \in DOMAIN items : new[i] = IF i = id THEN x ELSE moved[i]
    BY <1>1, <1>5
  <2>2. \A i \in DOMAIN items :
           moved[i] = IF i \in ids THEN MovedItem(items[i], delta) ELSE items[i]
    BY DEF MovedItems
  <2> QED
    BY <2>1, <2>2 DEF x
<1>3. new = [i \in DOMAIN items |-> new[i]]
  BY <1>1, <1>5
<1> HIDE DEF x
<1>4. new = MovedItems(items, ids \cup {id}, delta)
  BY <1>2, <1>3, Zenon DEF MovedItems
<1> QED
  BY <1>4

\* A selection that is moved is moved as a set, in whatever order.
LEMMA MoveEffect ==
    ASSUME NEW c, DOMAIN c = Fields, ItemsAre(c.items), NEW s, Distinct(s),
           Members(s) \subseteq DOMAIN c.items, NEW delta \in Int,
           \A j \in Members(s) : /\ c.items[j].display = "temporary"
                                 /\ IsRepresentable(c.items[j].position + delta),
           NEW d, d = MoveSelectionUnchecked(c, s, delta)
    PROVE  ItemsOnly(c, d) /\ d.items = MovedItems(c.items, Members(s), delta)
<1> DEFINE n == Len(s)
           Done(i) == {s[j] : j \in 1 .. i}
           Inv(x, i) == ItemsOnly(c, x) /\ x.items = MovedItems(c.items, Done(i), delta)
<1>1. IsSeq(s) /\ n \in Nat /\ \A i, j \in 1 .. n : s[i] = s[j] => i = j
  BY DEF Distinct, IsSeq
<1>2. PICK run : MoveAll(c, s, delta) = run[n] /\ MoveRounds(run, c, s, delta)
  BY <1>1, MoveLoop
<1> DEFINE P == {i \in 0 .. n : Inv(run[i], i)}
<1>3. 0 \in P
  <2>1. Done(0) = {} /\ run[0] = c
    BY <1>2 DEF MoveRounds
  <2>2. MovedItems(c.items, {}, delta) = c.items
    BY MovedNothing
  <2> HIDE DEF Done
  <2>3. Inv(run[0], 0)
    BY <2>1, <2>2 DEF ItemsOnly
  <2> QED
    BY <1>1, <2>3
<1>4. ASSUME NEW i \in 1 .. n, i - 1 \in P PROVE i \in P
  <2> DEFINE x == run[i - 1]
             y == run[i]
             id == s[i]
             A == Done(i - 1)
  <2>1. Inv(x, i - 1) /\ i \in 0 .. n
    BY <1>1, <1>4
  <2>2. id \in Members(s) /\ id \in DOMAIN c.items /\ id \notin A /\ A \cup {id} = Done(i)
    <3>1. \A j \in 1 .. i : j \in 1 .. n
      BY <1>1
    <3>2. \A j \in 1 .. (i - 1) : j \in 1 .. i /\ j # i
      BY <1>1
    <3>3. \A j \in 1 .. i : j = i \/ j \in 1 .. (i - 1)
      BY <1>1
    <3>4. i \in 1 .. i
      BY <1>1
    <3> QED
      BY <1>1, <3>1, <3>2, <3>3, <3>4 DEF Members
  <2>3. y = MoveTemporaryUnchecked(x, id, delta)
    BY <1>2 DEF MoveRounds
  <2>4. ItemsOnly(c, x) /\ x.items = MovedItems(c.items, A, delta)
    BY <2>1
  <2> HIDE DEF x, y, id, A, Done, P
  <2>5. x.items[id] = c.items[id]
    BY <2>2, <2>4 DEF MovedItems
  <2>6. /\ x.items[id].display = "temporary" /\ DOMAIN x = Fields
        /\ IsRepresentable(x.items[id].position + delta)
    BY <2>2, <2>4, <2>5 DEF ItemsOnly
  <2>7. /\ ItemsOnly(x, y)
        /\ y.items = [x.items EXCEPT ![id] = MovedItem(x.items[id], delta)]
    BY <2>3, <2>6, MoveOne
  <2>8. y.items = MovedItems(c.items, A \cup {id}, delta)
    <3>1. y.items = MovedIn(x.items, id, delta)
      BY <2>7 DEF MovedIn
    <3> QED
      BY <2>2, <2>4, <3>1, MovedOneMore
  <2>9. Inv(y, i)
    BY <2>2, <2>4, <2>7, <2>8 DEF ItemsOnly
  <2> QED
    BY <2>1, <2>9 DEF P, y
<1>5. P \in SUBSET (0 .. n)
  OBVIOUS
<1> HIDE DEF P
<1>6. P = 0 .. n
  BY <1>1, <1>3, <1>4, <1>5, AllRounds
<1>7. n \in P
  BY <1>1, <1>6
<1>8. Inv(run[n], n) /\ Done(n) = Members(s)
  BY <1>7 DEF P, Members
<1>9. CASE delta = 0
  <2>1. d = c
    BY <1>9, Zenon DEF MoveSelectionUnchecked
  <2>2. MovedItems(c.items, Members(s), delta) = c.items
    BY <1>9, MovedNothing
  <2> QED
    BY <2>1, <2>2 DEF ItemsOnly
<1>10. CASE delta # 0
  <2>1. d = MoveAll(c, s, delta)
    BY <1>10, Zenon DEF MoveSelectionUnchecked, MoveAll
  <2> QED
    BY <1>2, <1>8, <2>1
<1> QED
  BY <1>9, <1>10

-----------------------------------------------------------------------------
(***************************************************************************)
(* Orders of a selection.                                                  *)
(***************************************************************************)

\* An order of a finite set lists each member once.
LEMMA AllInOrder ==
    ASSUME NEW S, IsFiniteSet(S), NEW s \in SetToSeqs(S)
    PROVE  Distinct(s) /\ Members(s) = S
<1> DEFINE n == Cardinality(S)
<1>1. n \in Nat /\ s \in [1 .. n -> S] /\ \A i, j \in 1 .. n : i # j => s[i] # s[j]
  BY FS_CardinalityType DEF SetToSeqs
<1>2. IsFiniteSet(1 .. n) /\ Cardinality(1 .. n) = n
  BY <1>1, FS_Interval
<1>3. s \in Injection(1 .. n, S)
  BY <1>1 DEF Injection, IsInjective
<1>4. s \in Surjection(1 .. n, S)
  BY <1>2, <1>3, FS_Injection
<1> HIDE DEF n
<1>5. IsSeq(s) /\ Len(s) = n
  <2>1. s = [i \in 1 .. n |-> s[i]]
    BY <1>1
  <2> QED
    BY <1>1, <2>1, Sequences
<1> QED
  BY <1>1, <1>4, <1>5 DEF Distinct, Members, Surjection

\* The keys of some ids are finitely many.
LEMMA KeysFinite ==
    ASSUME NEW c, c.nextKey \in Nat, NEW ids, \A id \in ids : c.keys[id] \in 1 .. (c.nextKey - 1)
    PROVE  IsFiniteSet(KeysOf(c, ids))
<1>1. KeysOf(c, ids) \in SUBSET (1 .. (c.nextKey - 1))
  BY DEF KeysOf
<1>2. IsFiniteSet(1 .. (c.nextKey - 1))
  BY FS_Interval
<1> QED
  BY <1>1, <1>2, FS_Subset

CollectRounds(run, c, ids, keys) ==
    /\ run[0] = <<>>
    /\ \A i \in 1 .. Len(keys) :
          run[i] = Collected(run[i - 1], {id \in ids : c.keys[id] = keys[i]})

\* Ids are collected key by key.
LEMMA CollectLoop ==
    ASSUME NEW c, NEW keys, IsSeq(keys)
    PROVE  \E run : /\ InOrder(c, keys) = run[Len(keys)]
                    /\ CollectRounds(run, c, VisibleSelection(c), keys)
<1> DEFINE n == Len(keys)
           s == keys
           vs == VisibleSelection(c)
           Some(k) == {id \in vs : c.keys[id] = k}
           steps == [i \in 1 .. n |-> [loop |-> "collect", ids |-> Some(s[i])]]
           Rounds(f) == [i \in 0 .. n |-> IF i = 0 THEN <<>>
                                          ELSE AddWithKey(f[i - 1], Some(s[i]))]
           run == CHOOSE f : f = Rounds(f)
<1>1. n \in Nat
  BY DEF IsSeq
<1>3. InOrder(c, keys) = run[n]
  BY Zenon DEF ForEach, InOrder
<1> HIDE DEF vs, Some
<1>2. \A i \in 1 .. n : \A x : LoopStep(x, steps[i]) = AddWithKey(x, Some(s[i]))
  <2>1. \A x, e : e.loop = "collect" => LoopStep(x, e) = Collected(x, e.ids)
    BY DEF LoopStep
  <2>2. \A x, ids : Collected(x, ids) = AddWithKey(x, ids)
    BY DEF Collected, AddWithKey
  <2>3. \A i \in 1 .. n : steps[i].loop = "collect" /\ steps[i].ids = Some(s[i])
    OBVIOUS
  <2> HIDE DEF steps
  <2> QED
    BY <2>1, <2>2, <2>3
<1> HIDE DEF steps, n
<1>4. \A f : IsRun(f, <<>>, steps, n) <=> f = Rounds(f)
  <2> SUFFICES ASSUME NEW f
               PROVE  [i \in 0 .. n |-> LoopRound(f, <<>>, steps, i)] = Rounds(f)
    BY Zenon DEF IsRun
  <2>1. \A i \in 0 .. n : i = 0 \/ i \in 1 .. n
    BY <1>1
  <2>2. \A i \in 0 .. n : LoopRound(f, <<>>, steps, i)
           = (IF i = 0 THEN <<>> ELSE AddWithKey(f[i - 1], Some(s[i])))
    BY <1>2, <2>1, Zenon DEF LoopRound
  <2> QED
    BY <2>2, Zenon
<1> HIDE DEF Rounds
<1>5. IsRun(run, <<>>, steps, n)
  <2>1. \E f : f = Rounds(f)
    BY <1>1, <1>4, RunExists
  <2>2. run = Rounds(run)
    BY <2>1, Zenon
  <2> HIDE DEF run
  <2> QED
    BY <1>4, <2>2
<1> HIDE DEF run
<1>6. IsLoop(run, <<>>, steps, n)
  BY <1>1, <1>5, RunRounds
<1>7. run[0] = <<>> /\ \A i \in 1 .. n : run[i] = AddWithKey(run[i - 1], Some(s[i]))
  BY <1>2, <1>6, Zenon DEF IsLoop
<1>8. \A x, t : AddWithKey(x, t) = Collected(x, t)
  BY DEF AddWithKey, Collected
<1>9. CollectRounds(run, c, vs, keys)
  BY <1>7, <1>8 DEF CollectRounds, Some, n
<1> QED
  BY <1>3, <1>9 DEF n, vs

\* Without operations the visible selection is the initial one.
LEMMA VisibleIsInitial ==
    ASSUME NEW c, c.operations = <<>>, c.cached = {}
    PROVE  VisibleSelection(c) = c.initial
<1> DEFINE hits == Hits(c.items)
<1>1. IsSeq(<<>>) /\ Len(<<>>) = 0
  BY EmptySeq, EmptyFinished DEF StackOK
<1>2. ApplyOperations(hits, c.initial, <<>>) = c.initial
  <2> HIDE DEF hits
  <2>1. PICK run : /\ ApplyOperations(hits, c.initial, <<>>) = run[Len(<<>>)]
                   /\ ApplyRounds(run, hits, c.initial, <<>>)
    BY <1>1, ApplyLoop
  <2> QED
    BY <1>1, <2>1 DEF ApplyRounds
<1> QED
  BY <1>2 DEF VisibleSelection, CalculateSelection

\* What is collected after the first i keys.
Gathered(c, keys, x, i) ==
    /\ Distinct(x)
    /\ Members(x) = {id \in c.initial : \E j \in 1 .. i : c.keys[id] = keys[j]}

\* The next key collects the id that has it, if it is selected.
LEMMA GatherNext ==
    ASSUME NEW c, KeysOK(c.keys, DOMAIN c.items), c.initial \subseteq DOMAIN c.items,
           NEW keys, Distinct(keys), NEW i \in 1 .. Len(keys),
           NEW x, Gathered(c, keys, x, i - 1),
           NEW y, y = Collected(x, {id \in c.initial : c.keys[id] = keys[i]})
    PROVE  Gathered(c, keys, y, i)
<1> DEFINE ids == {id \in c.initial : c.keys[id] = keys[i]}
           Some(k) == {id \in c.initial : \E j \in 1 .. k : c.keys[id] = keys[j]}
<1>1. Len(keys) \in Nat /\ \A j, k \in 1 .. Len(keys) : keys[j] = keys[k] => j = k
  BY DEF Distinct, IsSeq
<1>2. /\ i \in 1 .. i /\ \A j \in 1 .. (i - 1) : j \in 1 .. i /\ j # i /\ j \in 1 .. Len(keys)
      /\ \A j \in 1 .. i : j = i \/ j \in 1 .. (i - 1)
  BY <1>1
<1>3. Some(i) = Some(i - 1) \cup ids /\ Some(i - 1) \cap ids = {}
  BY <1>1, <1>2
<1>4. \A j, k \in ids : j = k
  BY DEF KeysOK
<1>5. Distinct(x) /\ Members(x) = Some(i - 1)
  BY DEF Gathered
<1> HIDE DEF ids, Some
<1>6. CASE ids = {}
  <2>1. y = x
    BY <1>6 DEF Collected, ids
  <2> QED
    BY <1>3, <1>5, <1>6, <2>1 DEF Gathered, Some
<1>7. CASE ids # {}
  <2> DEFINE id == CHOOSE k \in ids : TRUE
  <2>1. y = Append(x, id)
    BY <1>7 DEF Collected, ids
  <2>2. id \in ids
    BY <1>7
  <2> HIDE DEF id
  <2>3. id \notin Members(x) /\ Members(x) \cup {id} = Some(i)
    BY <1>3, <1>4, <1>5, <2>2
  <2>4. Distinct(y) /\ Members(y) = Members(x) \cup {id}
    BY <1>5, <2>1, <2>3, AppendDistinct
  <2> QED
    BY <2>3, <2>4 DEF Gathered, Some
<1> QED
  BY <1>6, <1>7

\* The selection is in the order of its keys.
LEMMA InOrderSelects ==
    ASSUME NEW c, c.operations = <<>>, c.cached = {}, KeysOK(c.keys, DOMAIN c.items),
           c.initial \subseteq DOMAIN c.items,
           NEW keys, Distinct(keys), KeysOf(c, c.initial) \subseteq Members(keys)
    PROVE  Distinct(InOrder(c, keys)) /\ Members(InOrder(c, keys)) = c.initial
<1> DEFINE n == Len(keys)
<1>1. IsSeq(keys) /\ n \in Nat
  BY DEF Distinct, IsSeq
<1>2. VisibleSelection(c) = c.initial
  BY VisibleIsInitial
<1>3. PICK run : InOrder(c, keys) = run[n] /\ CollectRounds(run, c, c.initial, keys)
  BY <1>1, <1>2, CollectLoop
<1> DEFINE P == {i \in 0 .. n : Gathered(c, keys, run[i], i)}
<1>4. 0 \in P
  <2>1. run[0] = <<>>
    BY <1>3 DEF CollectRounds
  <2>2. IsSeq(<<>>) /\ Len(<<>>) = 0
    BY EmptySeq, EmptyFinished DEF StackOK
  <2>3. Gathered(c, keys, <<>>, 0)
    BY <2>2 DEF Gathered, Distinct, Members
  <2> QED
    BY <1>1, <2>1, <2>3
<1>5. ASSUME NEW i \in 1 .. n, i - 1 \in P PROVE i \in P
  <2>1. Gathered(c, keys, run[i - 1], i - 1) /\ i \in 0 .. n
    BY <1>1, <1>5
  <2>2. run[i] = Collected(run[i - 1], {id \in c.initial : c.keys[id] = keys[i]})
    BY <1>3 DEF CollectRounds
  <2> HIDE DEF P
  <2>3. Gathered(c, keys, run[i], i)
    BY <2>1, <2>2, GatherNext
  <2> QED
    BY <2>1, <2>3 DEF P
<1>6. P \in SUBSET (0 .. n)
  OBVIOUS
<1> HIDE DEF P
<1>7. P = 0 .. n
  BY <1>1, <1>4, <1>5, <1>6, AllRounds
<1>8. Gathered(c, keys, run[n], n)
  BY <1>1, <1>7 DEF P
<1>9. \A id \in c.initial : \E j \in 1 .. n : c.keys[id] = keys[j]
  BY DEF KeysOf, Members
<1> QED
  BY <1>3, <1>8, <1>9 DEF Gathered

-----------------------------------------------------------------------------
(***************************************************************************)
(* Adding items.                                                           *)
(***************************************************************************)

\* An item with the next key is added in the mode, or discarded again.
KeyAdded(st, ts, key, mode) ==
    /\ ts.operations = st.operations
    /\ key \notin DOMAIN st.items
    /\ DOMAIN st.items \subseteq DOMAIN ts.items
    /\ DOMAIN ts.items \subseteq DOMAIN st.items \cup {key}
    /\ \A k \in DOMAIN st.items : ts.items[k] = st.items[k]
    /\ key \in DOMAIN ts.items => ToMode(ts.items[key].display) = mode

\* A new item comes last in the layout, with a new key.
LEMMA CreateAppends ==
    ASSUME NEW c, Good(c), NEW def \in Definition, NEW position \in 1 .. Cells,
           NEW d, d = CreateTemporary(c, def, position, 0)
    PROVE  /\ Rewinds(c, d) /\ ItemCreated(c, d, c.nextKey, TemporaryItem(def, position))
           /\ State(d) = With(State(c), c.nextKey, TemporaryItem(def, position))
           /\ c.nextKey \notin DOMAIN State(c).items
           /\ Len(d.items) \in DOMAIN d.items /\ d.keys[Len(d.items)] = c.nextKey
           /\ d.items[Len(d.items)] = TemporaryItem(def, position)
<1>1. /\ c.nextKey \in Nat \ {0} /\ Sound(c)
      /\ \A id \in DOMAIN c.items : c.keys[id] \in 1 .. (c.nextKey - 1)
  BY DEF Good
<1>2. /\ KeyIndexSet(c) = {c.keys[id] : id \in DOMAIN c.items}
      /\ DOMAIN State(c).items = KeyIndexSet(c)
  BY <1>1, StateItems
<1>3. 0 \notin KeyIndexSet(c) /\ c.nextKey \notin KeyIndexSet(c)
  BY <1>1, <1>2
<1>4. /\ Rewinds(c, d)
      /\ State(d) = With(State(c), NewKey(c, 0), TemporaryItem(def, position))
      /\ ItemCreated(c, d, NewKey(c, 0), TemporaryItem(def, position))
  BY <1>3, CreateRewinds
<1>5. NewKey(c, 0) = c.nextKey /\ Sound(d)
  BY <1>4 DEF NewKey, Rewinds, Good
<1>6. /\ Len(d.items) \in DOMAIN d.items /\ d.keys[Len(d.items)] = c.nextKey
      /\ d.items[Len(d.items)] = TemporaryItem(def, position)
  BY <1>3, <1>4, <1>5, CreatedState
<1> QED
  BY <1>2, <1>3, <1>4, <1>5, <1>6

\* An item that is added ends in the mode asked for, or is discarded.
LEMMA AddedSets ==
    ASSUME NEW c, Good(c), NEW def \in Definition, NEW position \in 1 .. Cells,
           NEW mode \in Mode, NEW d, d = AddLogicItem(c, def, position, mode)
    PROVE  Rewinds(c, d) /\ KeyAdded(State(c), State(d), c.nextKey, mode)
<1> DEFINE b == CreateTemporary(c, def, position, 0)
           id == Len(b.items)
           key == c.nextKey
           x == TemporaryItem(def, position)
<1>1. Rewinds(c, d)
  BY AddLogicItemRewinds
<1>2. /\ Rewinds(c, b) /\ State(b) = With(State(c), key, x) /\ key \notin DOMAIN State(c).items
      /\ id \in DOMAIN b.items /\ b.keys[id] = key
  BY CreateAppends
<1>3. d = ChangeInsertionMode(b, id, mode, "no_hint")
  BY DEF AddLogicItem, ChangeLastInsertionMode
<1> HIDE DEF b, id, x
<1>4. Good(b)
  BY <1>2 DEF Rewinds
<1>5. ModeSet(State(b), State(d), {key}, mode)
  BY <1>2, <1>3, <1>4, ChangeModeSets
<1> DEFINE st == State(c)
           us == State(b)
           ts == State(d)
<1>6. IsState(st)
  BY StateIsState
<1> HIDE DEF st, us, ts, key
<1>7. /\ DOMAIN us.items = DOMAIN st.items \cup {key} /\ us.operations = st.operations
      /\ \A k \in DOMAIN st.items : us.items[k] = st.items[k]
  <2>1. us = With(st, key, x) /\ key \notin DOMAIN st.items
    BY <1>2 DEF us, st
  <2> QED
    BY <1>6, <2>1, WithState
<1>8. ModeSet(us, ts, {key}, mode) /\ key \notin DOMAIN st.items
  BY <1>2, <1>5 DEF us, ts, st
<1>9. KeyAdded(st, ts, key, mode)
  BY <1>7, <1>8 DEF ModeSet, InMode, KeyAdded
<1> QED
  BY <1>1, <1>9 DEF st, ts, key

\* A temporary item is added without a change of its mode.
LEMMA AddedTemporary ==
    ASSUME NEW c, Good(c), NEW def \in Definition, NEW position \in 1 .. Cells,
           NEW d, d = AddLogicItem(c, def, position, "temporary")
    PROVE  d = CreateTemporary(c, def, position, 0)
<1> DEFINE b == CreateTemporary(c, def, position, 0)
           id == Len(b.items)
<1>1. b.items[id] = TemporaryItem(def, position)
  BY CreateAppends
<1>2. d = ChangeInsertionMode(b, id, "temporary", "no_hint")
  BY DEF AddLogicItem, ChangeLastInsertionMode
<1> HIDE DEF b, id
<1>3. ToMode(b.items[id].display) = "temporary"
  BY <1>1 DEF TemporaryItem, ToMode
<1>4. d = b
  BY <1>2, <1>3, Zenon DEF ChangeInsertionMode
<1> QED
  BY <1>4 DEF b

\* The selection is set, and its operations are gone.
SelectedNow(c, d, ids) ==
    /\ Rewinds(c, d) /\ Unstored(d) /\ SelectsOnly(c, d, ids)
    /\ State(d).items = State(c).items
    /\ State(d).selected = KeysOf(c, ids) /\ State(d).operations = <<>>

\* Setting the visible selection shows exactly these ids.
LEMMA SelectSets ==
    ASSUME NEW c, Good(c), Unstored(c), NEW ids, ids \subseteq DOMAIN c.items,
           NEW d, d = SetVisibleSelection(c, ids)
    PROVE  SelectedNow(c, d, ids)
<1> DEFINE st == State(c)
           us == WithSelected(st, KeysOf(c, ids))
<1>1. /\ Rewinds(c, d) /\ SelectsOnly(c, d, ids)
      /\ State(d) = WithOperations(us, <<>>)
  BY SetVisibleSelectionRewinds
<1>2. Unstored(d)
  BY SetVisibleUnstored
<1>3. IsState(st)
  BY StateIsState
<1>4. IsState(us) /\ us.items = st.items /\ us.selected = KeysOf(c, ids)
  <2> HIDE DEF st
  <2> QED
    BY <1>3, WithSelectedState
<1> HIDE DEF us, st
<1>5. /\ WithOperations(us, <<>>).items = us.items
      /\ WithOperations(us, <<>>).selected = us.selected
      /\ WithOperations(us, <<>>).operations = <<>>
  BY <1>4, WithOperationsState
<1> QED
  BY <1>1, <1>2, <1>4, <1>5 DEF SelectedNow, st

-----------------------------------------------------------------------------
(***************************************************************************)
(* Pasting.                                                                *)
(***************************************************************************)

PasteAll(c, clip, p) ==
    ForEach(c, clip, LAMBDA c0, e : TryAddLogicItem(c0, e.def, p + e.offset, "temporary"))

PasteRounds(run, c, clip, p) ==
    /\ run[0] = c
    /\ \A i \in 1 .. Len(clip) :
          run[i] = TryAdded(run[i - 1], clip[i].def, p + clip[i].offset, "temporary")

\* The clipboard is inserted item by item.
LEMMA PasteLoop ==
    ASSUME NEW c, NEW clip, IsSeq(clip), NEW p
    PROVE  \E run : PasteAll(c, clip, p) = run[Len(clip)] /\ PasteRounds(run, c, clip, p)
<1> DEFINE n == Len(clip)
           s == clip
           steps == [i \in 1 .. n |-> [loop |-> "add", def |-> s[i].def,
                                       position |-> p + s[i].offset, mode |-> "temporary"]]
           Rounds(f) == [i \in 0 .. n |-> IF i = 0 THEN c
                            ELSE TryAddLogicItem(f[i - 1], s[i].def, p + s[i].offset, "temporary")]
           run == CHOOSE f : f = Rounds(f)
<1>1. n \in Nat
  BY DEF IsSeq
<1>2. \A i \in 1 .. n : \A x :
         LoopStep(x, steps[i]) = TryAddLogicItem(x, s[i].def, p + s[i].offset, "temporary")
  <2>1. \A x, e : e.loop = "add" => LoopStep(x, e) = TryAdded(x, e.def, e.position, e.mode)
    BY DEF LoopStep
  <2>2. \A x, def, position, mode :
           TryAdded(x, def, position, mode) = TryAddLogicItem(x, def, position, mode)
    BY DEF TryAdded, TryAddLogicItem
  <2>3. \A i \in 1 .. n : /\ steps[i].loop = "add" /\ steps[i].def = s[i].def
                          /\ steps[i].position = p + s[i].offset
                          /\ steps[i].mode = "temporary"
    OBVIOUS
  <2> HIDE DEF steps
  <2> QED
    BY <2>1, <2>2, <2>3
<1>3. PasteAll(c, clip, p) = run[n]
  BY Zenon DEF ForEach, PasteAll
<1> HIDE DEF steps, n
<1>4. \A f : IsRun(f, c, steps, n) <=> f = Rounds(f)
  <2> SUFFICES ASSUME NEW f
               PROVE  [i \in 0 .. n |-> LoopRound(f, c, steps, i)] = Rounds(f)
    BY Zenon DEF IsRun
  <2>1. \A i \in 0 .. n : i = 0 \/ i \in 1 .. n
    BY <1>1
  <2>2. \A i \in 0 .. n : LoopRound(f, c, steps, i)
           = (IF i = 0 THEN c
              ELSE TryAddLogicItem(f[i - 1], s[i].def, p + s[i].offset, "temporary"))
    BY <1>2, <2>1, Zenon DEF LoopRound
  <2> QED
    BY <2>2, Zenon
<1> HIDE DEF Rounds
<1>5. IsRun(run, c, steps, n)
  <2>1. \E f : f = Rounds(f)
    BY <1>1, <1>4, RunExists
  <2>2. run = Rounds(run)
    BY <2>1, Zenon
  <2> HIDE DEF run
  <2> QED
    BY <1>4, <2>2
<1> HIDE DEF run
<1>6. IsLoop(run, c, steps, n)
  BY <1>1, <1>5, RunRounds
<1>7. run[0] = c /\ \A i \in 1 .. n :
         run[i] = TryAddLogicItem(run[i - 1], s[i].def, p + s[i].offset, "temporary")
  BY <1>2, <1>6, Zenon DEF IsLoop
<1>8. \A x, def, position, mode :
         TryAdded(x, def, position, mode) = TryAddLogicItem(x, def, position, mode)
  BY DEF TryAdded, TryAddLogicItem
<1>9. PasteRounds(run, c, clip, p)
  BY <1>7, <1>8 DEF PasteRounds, n
<1> QED
  BY <1>3, <1>9 DEF n

\* Some items came behind the others, as temporary ones.
ItemsPasted(c, d, m) ==
    /\ Rewinds(c, d) /\ Unstored(d)
    /\ DOMAIN d.items = 1 .. (Len(c.items) + m)
    /\ \A id \in DOMAIN d.items :
          \/ id \in DOMAIN c.items /\ d.items[id] = c.items[id] /\ d.keys[id] = c.keys[id]
          \/ id > Len(c.items) /\ d.items[id].display = "temporary"

\* Intervals from 1 are equal if they end at the same number.
LEMMA SameIntervals ==
    ASSUME NEW m \in Nat, NEW n \in Nat, 1 .. n = 1 .. m PROVE n = m
<1>1. m # 0 => m \in 1 .. n
  OBVIOUS
<1>2. n # 0 => n \in 1 .. m
  OBVIOUS
<1> QED
  BY <1>1, <1>2

\* The keys of the items before it stay.
LEMMA CreatedBehind ==
    ASSUME NEW c, Good(c), NEW item, NEW d, Good(d), ItemCreated(c, d, c.nextKey, item),
           NEW id \in DOMAIN d.items
    PROVE  d.keys[id] = c.nextKey \/ d.keys[id] = c.keys[id]
<1>1. c.nextKey \notin KeyIndexSet(c)
  <2>1. /\ KeyIndexSet(c) = {c.keys[i] : i \in DOMAIN c.items} /\ c.nextKey \in Nat \ {0}
        /\ \A i \in DOMAIN c.items : c.keys[i] \in 1 .. (c.nextKey - 1)
    BY StateItems DEF Good
  <2> QED
    BY <2>1
<1>2. Sound(d)
  BY DEF Good
<1> DEFINE key == c.nextKey
<1>3. key \notin KeyIndexSet(c) /\ ItemCreated(c, d, key, item)
  BY <1>1
<1> HIDE DEF key
<1>4. \A i \in DOMAIN d.items :
         \/ d.keys[i] = key /\ d.items[i] = item
         \/ i \in DOMAIN c.items /\ d.keys[i] = c.keys[i] /\ d.items[i] = c.items[i]
  BY <1>2, <1>3, CreatedState
<1> QED
  BY <1>4 DEF key

\* Each pasted item comes behind those pasted before,
LEMMA PasteNext ==
    ASSUME NEW c, Good(c), NEW i \in Nat \ {0}, NEW x, ItemsPasted(c, x, i - 1),
           NEW def \in Definition, NEW position \in 1 .. Cells,
           NEW y, y = TryAdded(x, def, position, "temporary")
    PROVE  ItemsPasted(c, y, i)
<1>1. Good(x) /\ Unstored(x) /\ Rewinds(c, x) /\ Sound(x) /\ Sound(c)
  BY DEF ItemsPasted, Rewinds, Good
<1>2. y = AddLogicItem(x, def, position, "temporary")
  <2>1. IsRepresentable(position)
    BY DEF IsRepresentable
  <2> QED
    BY <2>1, Zenon DEF TryAdded
<1>3. y = CreateTemporary(x, def, position, 0)
  BY <1>1, <1>2, AddedTemporary
<1>4. /\ Rewinds(x, y) /\ ItemCreated(x, y, x.nextKey, TemporaryItem(def, position))
  BY <1>1, <1>3, CreateAppends
<1>5. Rewinds(c, y) /\ Unstored(y)
  BY <1>1, <1>3, <1>4, RewindsTwice, CreateUnstored
<1>6. /\ Len(x.items) \in Nat /\ DOMAIN x.items = 1 .. Len(x.items) /\ IsSeq(x.items)
      /\ Len(c.items) \in Nat /\ DOMAIN c.items = 1 .. Len(c.items)
  BY <1>1, ItemIds DEF Sound, Shape, ItemsOK
<1>7. Len(x.items) = Len(c.items) + (i - 1)
  <2> DEFINE m == Len(c.items) + (i - 1)
             n == Len(x.items)
  <2>1. m \in Nat /\ n \in Nat /\ 1 .. n = 1 .. m
    BY <1>6 DEF ItemsPasted
  <2> HIDE DEF m, n
  <2>2. n = m
    BY <2>1, SameIntervals
  <2> QED
    BY <2>2 DEF m, n
<1> DEFINE n == Len(x.items)
           item == TemporaryItem(def, position)
<1>8. y.items = Append(x.items, item) /\ item.display = "temporary"
  BY <1>4 DEF ItemCreated, TemporaryItem
<1> HIDE DEF item
<1>9. /\ IsSeq(y.items) /\ Len(y.items) = n + 1 /\ y.items[n + 1] = item
      /\ \A j \in 1 .. n : y.items[j] = x.items[j]
  <2> DEFINE s == x.items
  <2>1. IsSeq(s)
    BY <1>6
  <2> HIDE DEF s
  <2>2. /\ IsSeq(Append(s, item)) /\ Len(Append(s, item)) = Len(s) + 1
        /\ Append(s, item)[Len(s) + 1] = item
        /\ \A j \in 1 .. Len(s) : Append(s, item)[j] = s[j]
    BY ONLY <2>1, AppendSeq
  <2>3. y.items = Append(s, item) /\ n = Len(s)
    BY <1>8 DEF s
  <2> HIDE DEF n
  <2>4. /\ IsSeq(y.items) /\ Len(y.items) = n + 1 /\ y.items[n + 1] = item
        /\ \A j \in 1 .. n : y.items[j] = s[j]
    BY ONLY <2>2, <2>3
  <2> QED
    BY <2>4 DEF s
<1>10. DOMAIN y.items = 1 .. (Len(c.items) + i)
  <2>1. DOMAIN y.items = 1 .. Len(y.items)
    BY <1>5, ItemIds DEF Rewinds, Good
  <2>2. Len(y.items) = Len(c.items) + i
    BY <1>6, <1>7, <1>9
  <2> QED
    BY <2>1, <2>2
<1>11. ASSUME NEW id \in DOMAIN y.items
       PROVE  \/ id \in DOMAIN c.items /\ y.items[id] = c.items[id] /\ y.keys[id] = c.keys[id]
              \/ id > Len(c.items) /\ y.items[id].display = "temporary"
  <2>1. CASE id = n + 1
    BY <1>6, <1>7, <1>8, <1>9, <2>1
  <2>2. CASE id # n + 1
    <3>0. id \in 1 .. (n + 1) /\ n \in Nat
      BY <1>6, <1>7, <1>10
    <3>1. id \in 1 .. n
      BY <2>2, <3>0
    <3>2. y.items[id] = x.items[id] /\ id \in DOMAIN x.items
      BY <1>6, <1>9, <3>1
    <3>3. y.keys[id] = x.keys[id]
      <4>1. Len(y.items) \in DOMAIN y.items /\ y.keys[Len(y.items)] = x.nextKey
        BY <1>1, <1>3, CreateAppends
      <4>2. id # Len(y.items)
        BY <1>6, <1>9, <3>1
      <4>3. y.keys[id] # x.nextKey
        BY <1>5, <4>1, <4>2 DEF Rewinds, Good, Sound, Shape, KeysOK
      <4>4. \/ y.keys[id] = x.nextKey
            \/ y.keys[id] = x.keys[id]
        <5>1. ItemCreated(x, y, x.nextKey, item)
          BY <1>4 DEF item
        <5>2. Good(y)
          BY <1>5 DEF Rewinds
        <5> QED
          BY ONLY <1>1, <1>11, <5>1, <5>2, CreatedBehind
      <4> QED
        BY <4>3, <4>4
    <3> QED
      BY <3>2, <3>3 DEF ItemsPasted
  <2> QED
    BY <2>1, <2>2
<1> QED
  BY <1>5, <1>10, <1>11 DEF ItemsPasted

\* so that all of them come behind the items of the layout.
LEMMA PasteAllAppends ==
    ASSUME NEW c, Good(c), Unstored(c), NEW clip, IsSeq(clip), NEW p,
           \A i \in 1 .. Len(clip) : /\ clip[i].def \in Definition
                                     /\ p + clip[i].offset \in 1 .. Cells,
           NEW d, d = PasteAll(c, clip, p)
    PROVE  ItemsPasted(c, d, Len(clip))
<1> DEFINE n == Len(clip)
<1>1. n \in Nat
  BY DEF IsSeq
<1>2. PICK run : d = run[n] /\ PasteRounds(run, c, clip, p)
  BY PasteLoop
<1> DEFINE P == {i \in 0 .. n : ItemsPasted(c, run[i], i)}
<1>3. 0 \in P
  <2>1. run[0] = c
    BY <1>2 DEF PasteRounds
  <2>2. Rewinds(c, c) /\ Len(c.items) \in Nat /\ DOMAIN c.items = 1 .. Len(c.items)
    BY RewindsSelf, ItemIds DEF Good
  <2>3. ItemsPasted(c, c, 0)
    BY <2>2 DEF ItemsPasted
  <2> QED
    BY <1>1, <2>1, <2>3
<1>4. ASSUME NEW i \in 1 .. n, i - 1 \in P PROVE i \in P
  <2>1. ItemsPasted(c, run[i - 1], i - 1) /\ i \in 0 .. n /\ i \in Nat \ {0}
    BY <1>1, <1>4
  <2>2. run[i] = TryAdded(run[i - 1], clip[i].def, p + clip[i].offset, "temporary")
    BY <1>2 DEF PasteRounds
  <2> HIDE DEF P
  <2>3. ItemsPasted(c, run[i], i)
    BY <2>1, <2>2, PasteNext
  <2> QED
    BY <2>1, <2>3 DEF P
<1>5. P \in SUBSET (0 .. n)
  OBVIOUS
<1> HIDE DEF P
<1>6. P = 0 .. n
  BY <1>1, <1>3, <1>4, <1>5, AllRounds
<1> QED
  BY <1>1, <1>2, <1>6 DEF P

-----------------------------------------------------------------------------
(***************************************************************************)
(* Circuits at rest, and circuits that are edited from rest.               *)
(***************************************************************************)

Calm(st) == /\ st.operations = <<>>
            /\ \A k \in DOMAIN st.items : st.items[k].display = "normal"
CalmSeen(seen) == /\ seen.operations = <<>>
                  /\ \A e \in seen.elements : e.item.display = "normal"
AllCalm(s) == \A i \in 1 .. Len(s) : CalmSeen(s[i])

\* Wherever undo and redo lead, every item is inserted.
Resting(r) == CalmSeen(r.start) /\ AllCalm(r.past) /\ AllCalm(r.future)

\* The records of a session hold the present start on top of the past.
RecordedAs(rec, r) == rec.past = Prepend(r.start, r.past) /\ rec.future = r.future

\* A circuit that is edited, and one at rest: undo and redo lead to what is recorded.
Editing(rec, c) ==
    Unstored(c) /\ \E r : Recorded(c, r) /\ Resting(r) /\ RecordedAs(rec, r)
Rests(rec, c) ==
    Unstored(c) /\ \E r : Settled(c, r) /\ Resting(r) /\ RecordedAs(rec, r)

\* Calm asks only what the user can see.
LEMMA CalmIsSeen == ASSUME NEW st PROVE CalmSeen(Seen(st)) <=> Calm(st)
<1> DEFINE Element(k) == [key |-> k, item |-> st.items[k], selected |-> k \in st.selected]
<1>1. /\ Seen(st).elements = {Element(k) : k \in DOMAIN st.items}
      /\ Seen(st).operations = st.operations
  BY DEF Seen
<1>2. \A k : Element(k).item = st.items[k]
  OBVIOUS
<1> HIDE DEF Element
<1>3. (\A e \in Seen(st).elements : e.item.display = "normal")
      <=> \A k \in DOMAIN st.items : st.items[k].display = "normal"
  BY <1>1, <1>2
<1> QED
  BY <1>1, <1>3 DEF CalmSeen, Calm

\* What the proofs need of a circuit while it is edited.
LEMMA EditingIs ==
    ASSUME NEW rec, NEW c, Editing(rec, c)
    PROVE  /\ Good(c) /\ c.history = "track_undo_new" /\ Unstored(c)
           /\ Sound(c) /\ c.failed = FALSE
BY DEF Editing, Recorded, Replayable, Good

\* An edit that can be undone goes on with a circuit that is edited.
LEMMA EditingOn ==
    ASSUME NEW rec, NEW c, Editing(rec, c), NEW d, Rewinds(c, d), Unstored(d)
    PROVE  Editing(rec, d)
<1>1. PICK r : Recorded(c, r) /\ Resting(r) /\ RecordedAs(rec, r)
  BY DEF Editing
<1>2. Recorded(d, r)
  BY <1>1, EditRecorded
<1> QED
  BY <1>1, <1>2 DEF Editing

\* A circuit at rest is edited by nobody: all is inserted and no group is open.
LEMMA RestsIs ==
    ASSUME NEW rec, NEW c, Rests(rec, c)
    PROVE  Editing(rec, c) /\ Balanced(c) /\ Calm(State(c))
<1>1. PICK r : Settled(c, r) /\ Resting(r) /\ RecordedAs(rec, r)
  BY DEF Rests
<1>2. Recorded(c, r) /\ r.start = Seen(State(c)) /\ Balanced(c)
  BY <1>1, SettledIsRecorded DEF Settled
<1>3. Calm(State(c))
  BY <1>1, <1>2, CalmIsSeen DEF Resting
<1> QED
  BY <1>1, <1>2, <1>3 DEF Editing, Rests

\* The groups on a stack lead to calm circuits if one more that does is put on it,
LEMMA CalmPrepend ==
    ASSUME NEW s, IsSeq(s), AllCalm(s), NEW x, CalmSeen(x)
    PROVE  AllCalm(Prepend(x, s))
<1> DEFINE t == Prepend(x, s)
<1>1. /\ Len(s) \in Nat /\ Len(t) = Len(s) + 1 /\ t[1] = x
      /\ \A i \in 1 .. Len(s) : t[i + 1] = s[i]
  BY PrependSeq
<1> HIDE DEF t
<1>2. ASSUME NEW i \in 1 .. Len(t) PROVE CalmSeen(t[i])
  <2>1. CASE i = 1
    BY <1>1, <2>1
  <2>2. CASE i # 1
    <3>1. i - 1 \in 1 .. Len(s) /\ (i - 1) + 1 = i
      BY <1>1, <2>2
    <3>2. t[i] = s[i - 1]
      BY <1>1, <3>1
    <3> QED
      BY <3>1, <3>2 DEF AllCalm
  <2> QED
    BY <2>1, <2>2
<1> QED
  BY <1>2 DEF AllCalm, t

\* and if the last one is taken off.
LEMMA CalmTail ==
    ASSUME NEW s, IsSeq(s), s # <<>>, AllCalm(s)
    PROVE  AllCalm(Tail(s)) /\ CalmSeen(Head(s))
<1>1. /\ Len(s) \in Nat \ {0} /\ Len(Tail(s)) = Len(s) - 1
      /\ \A i \in 1 .. (Len(s) - 1) : Tail(s)[i] = s[i + 1]
      /\ Head(s) = s[1]
  BY TailSeq
<1>2. \A i \in 1 .. (Len(s) - 1) : i + 1 \in 1 .. Len(s)
  BY <1>1
<1>3. 1 \in 1 .. Len(s)
  BY <1>1
<1> QED
  BY <1>1, <1>2, <1>3 DEF AllCalm

\* A finished gesture that left every item inserted.
LEMMA FinishRests ==
    ASSUME NEW rec, NEW c, Editing(rec, c), Calm(State(c)), NEW d, d = FinishUndoGroup(c),
           NEW new, new = FinishedRecord(c, rec)
    PROVE  Rests(new, d)
<1>1. PICK r : Recorded(c, r) /\ Resting(r) /\ RecordedAs(rec, r)
  BY DEF Editing
<1>2. /\ Good(c) /\ c.history = "track_undo_new" /\ Unstored(d)
  BY EditingIs, FinishUnstored
<1>3. CASE HasUngrouped(c.undo)
  <2> DEFINE past == Prepend(r.start, r.past)
             q == [start |-> Seen(State(d)), past |-> past, future |-> <<>>]
  <2>1. Starts(past, c) /\ IsSeq(r.past)
    BY <1>1, RecordedStarts, RecordsAreSeqs
  <2>2. rec.past = past
    BY <1>1 DEF RecordedAs
  <2> HIDE DEF past
  <2>3. q.start = Seen(State(d)) /\ q.past = past /\ q.future = <<>>
    OBVIOUS
  <2> HIDE DEF q
  <2>4. Settled(d, q) /\ State(d) = State(c)
    BY <1>2, <1>3, <2>1, <2>3, OpenGroupRecorded
  <2>5. AllCalm(past)
    BY <1>1, <2>1, CalmPrepend DEF past, Resting
  <2>6. AllCalm(<<>>)
    BY DEF AllCalm
  <2>7. CalmSeen(q.start)
    BY <2>3, <2>4, CalmIsSeen
  <2>8. Resting(q)
    BY <2>3, <2>5, <2>6, <2>7 DEF Resting
  <2>9. Snapshot(c) = Seen(State(c))
    BY <1>1, RecordedSeen
  <2>10. new = [past |-> <<Snapshot(c)>> \o rec.past, future |-> <<>>]
    BY <1>3 DEF FinishedRecord
  <2>11. RecordedAs(new, q)
    BY <2>2, <2>3, <2>4, <2>9, <2>10 DEF RecordedAs, Prepend
  <2> QED
    BY <1>2, <2>4, <2>8, <2>11 DEF Rests
<1>4. CASE ~HasUngrouped(c.undo)
  <2>1. Settled(c, r)
    BY <1>1, <1>4, RecordedIsSettled
  <2>2. d = c
    BY <2>1, NothingToFinish DEF Settled
  <2>3. new = rec
    BY <1>4 DEF FinishedRecord
  <2> QED
    BY <1>1, <1>2, <2>1, <2>2, <2>3 DEF Rests
<1> QED
  BY <1>3, <1>4

\* What is put in front of a sequence can be taken off again,
LEMMA PrependTaken ==
    ASSUME NEW s, IsSeq(s), NEW x, NEW t, t = Prepend(x, s)
    PROVE  Head(t) = x /\ Tail(t) = s /\ t # <<>>
<1> DEFINE S == {s[i] : i \in 1 .. Len(s)} \cup {x}
<1>1. {s[i] : i \in 1 .. Len(s)} \subseteq S /\ x \in S
  OBVIOUS
<1>2. s \in Seq({s[i] : i \in 1 .. Len(s)})
  BY DEF IsSeq
<1> HIDE DEF S
<1>3. s \in Seq(S) /\ x \in S
  BY <1>1, <1>2
<1> QED
  BY <1>3 DEF Prepend

\* and what is taken off can be put back.
LEMMA TakenPrepended ==
    ASSUME NEW s, IsSeq(s), s # <<>>
    PROVE  s = Prepend(Head(s), Tail(s))
<1> DEFINE S == {s[i] : i \in 1 .. Len(s)}
<1>1. s \in Seq(S)
  BY DEF IsSeq
<1> HIDE DEF S
<1> QED
  BY <1>1 DEF Prepend

\* Undo leads from rest to rest,
LEMMA UndoRests ==
    ASSUME NEW rec, NEW c, Rests(rec, c), c.undo # <<>>, NEW d, d = UndoGroup(c),
           NEW new, new = UndoneRecord(c, d, rec)
    PROVE  Rests(new, d)
<1>1. PICK r : Settled(c, r) /\ Resting(r) /\ RecordedAs(rec, r)
  BY DEF Rests
<1>2. Balanced(c) /\ Unstored(c)
  BY RestsIs DEF Rests
<1>3. d = ReplayStack(c, "undo", ReplayEntry)
  BY <1>2, NothingToFinish DEF UndoGroup
<1> DEFINE future == IF d.redo = c.redo THEN r.future ELSE Prepend(r.start, r.future)
           q == [start |-> Seen(State(d)), past |-> Tail(r.past), future |-> future]
<1>4. q.start = Seen(State(d)) /\ q.past = Tail(r.past) /\ q.future = future
  OBVIOUS
<1>5. IsSeq(r.past) /\ IsSeq(r.future)
  BY <1>1, SettledIsRecorded, RecordsAreSeqs
<1>6. AllCalm(future)
  BY <1>1, <1>5, CalmPrepend DEF Resting
<1> HIDE DEF q
<1>7. /\ Settled(d, q) /\ r.past # <<>> /\ Head(r.past) = q.start
  BY <1>1, <1>3, <1>4, UndoSettled
<1>8. Resting(q)
  BY <1>1, <1>4, <1>5, <1>6, <1>7, CalmTail DEF Resting
<1>9. Unstored(d)
  BY <1>2, <1>3, GroupUnstored
<1>10. RecordedAs(new, q)
  <2>1. Head(rec.past) = r.start /\ Tail(rec.past) = r.past
    BY <1>1, <1>5, PrependTaken DEF RecordedAs
  <2>2. r.past = Prepend(q.start, q.past)
    BY <1>4, <1>5, <1>7, TakenPrepended
  <2>3. /\ new.past = Tail(rec.past)
        /\ new.future = IF d.redo = c.redo THEN rec.future ELSE Prepend(Head(rec.past), rec.future)
    BY DEF UndoneRecord, WithReplayed, Prepend
  <2>4. rec.future = r.future
    BY <1>1 DEF RecordedAs
  <2> QED
    BY <1>4, <2>1, <2>2, <2>3, <2>4 DEF RecordedAs
<1> QED
  BY <1>7, <1>8, <1>9, <1>10 DEF Rests

\* and so does redo.
LEMMA RedoRests ==
    ASSUME NEW rec, NEW c, Rests(rec, c), c.redo # <<>>, NEW d, d = RedoGroup(c),
           NEW new, new = RedoneRecord(c, d, rec)
    PROVE  Rests(new, d)
<1>1. PICK r : Settled(c, r) /\ Resting(r) /\ RecordedAs(rec, r)
  BY DEF Rests
<1>2. Balanced(c) /\ Unstored(c)
  BY RestsIs DEF Rests
<1>3. d = ReplayStack(c, "redo", ReplayEntry)
  BY DEF RedoGroup
<1> DEFINE past == IF d.undo = c.undo THEN r.past ELSE Prepend(r.start, r.past)
           q == [start |-> Seen(State(d)), past |-> past, future |-> Tail(r.future)]
<1>4. q.start = Seen(State(d)) /\ q.past = past /\ q.future = Tail(r.future)
  OBVIOUS
<1>5. IsSeq(r.past) /\ IsSeq(r.future)
  BY <1>1, SettledIsRecorded, RecordsAreSeqs
<1>6. AllCalm(past)
  BY <1>1, <1>5, CalmPrepend DEF Resting
<1> HIDE DEF q
<1>7. /\ Settled(d, q) /\ r.future # <<>> /\ Head(r.future) = q.start
      /\ d.undo = c.undo => q.start = r.start
  BY <1>1, <1>3, <1>4, RedoSettled
<1>8. Resting(q)
  BY <1>1, <1>4, <1>5, <1>6, <1>7, CalmTail DEF Resting
<1>9. Unstored(d)
  BY <1>2, <1>3, GroupUnstored
<1>10. RecordedAs(new, q)
  <2>1. rec.past = Prepend(r.start, r.past) /\ rec.future = r.future
    BY <1>1 DEF RecordedAs
  <2>2. /\ new.future = Tail(rec.future)
        /\ new.past = IF d.undo = c.undo THEN rec.past ELSE Prepend(Head(rec.future), rec.past)
    BY DEF RedoneRecord, WithReplayed, Prepend
  <2> QED
    BY <1>4, <1>7, <2>1, <2>2 DEF RecordedAs
<1> QED
  BY <1>7, <1>8, <1>9, <1>10 DEF Rests

\* What is loaded is at rest.
LEMMA LoadedRests ==
    ASSUME Init, NEW rec, rec = [past |-> <<Snapshot(circuit)>>, future |-> <<>>]
    PROVE  Rests(rec, circuit)
<1>1. PICK loaded \in Loaded : circuit = LoadedCircuit(loaded)
  BY DEF Init
<1>2. /\ circuit.undo = <<>> /\ circuit.redo = <<>> /\ Unstored(circuit)
      /\ circuit.operations = <<>>
      /\ circuit.items = [i \in DOMAIN loaded.items |-> LoadedItem(loaded.items[i])]
  BY <1>1 DEF LoadedCircuit, Unstored
<1>3. Replayable(circuit)
  BY LoadedIsReplayable DEF ReplayInv
<1>4. ~HasUngrouped(circuit.undo)
  BY <1>2 DEF HasUngrouped
<1>5. Balanced(circuit) /\ Sound(circuit)
  BY <1>3, <1>4, ReplayableIsBalanced DEF Replayable, Good
<1> DEFINE st == State(circuit)
           r == [start |-> Seen(st), past |-> <<>>, future |-> <<>>]
<1>6. r.start = Seen(st) /\ r.past = <<>> /\ r.future = <<>>
  OBVIOUS
<1> HIDE DEF r
<1>7. Lands(<<>>, <<>>, st)
  <2>1. PICK f : Arrives(<<>>, f, st)
    BY EmptyFinished DEF Finished
  <2>2. IsSeq(<<>>) /\ Len(<<>>) = 0
    BY EmptySeq, EmptyFinished DEF StackOK
  <2>3. Trail(<<>>, <<>>, f, 0)
    BY <2>2, TrailBelowAll
  <2> QED
    BY <2>1, <2>2, <2>3 DEF Lands
<1>8. Settled(circuit, r)
  BY <1>2, <1>5, <1>6, <1>7 DEF Settled
<1>9. Calm(st)
  <2>1. \A id \in DOMAIN circuit.items : circuit.items[id].display = "normal"
    BY <1>2 DEF LoadedItem
  <2>2. /\ DOMAIN st.items = KeyIndexSet(circuit) /\ st.operations = circuit.operations
        /\ \A k \in KeyIndexSet(circuit) :
              IdOf(circuit, k) \in DOMAIN circuit.items /\ circuit.keys[IdOf(circuit, k)] = k
        /\ \A id \in DOMAIN circuit.items : st.items[circuit.keys[id]] = circuit.items[id]
    BY <1>5, StateItems
  <2> HIDE DEF st
  <2>3. ASSUME NEW k \in DOMAIN st.items PROVE st.items[k].display = "normal"
    BY <2>1, <2>2
  <2> QED
    BY <1>2, <2>2, <2>3 DEF Calm
<1>10. CalmSeen(Seen(st)) /\ AllCalm(<<>>)
  BY <1>9, CalmIsSeen DEF AllCalm
<1>11. RecordedAs(rec, r)
  <2>1. Snapshot(circuit) = Seen(st)
    BY <1>8, SettledIsRecorded, RecordedSeen DEF st
  <2>2. <<Seen(st)>> = Prepend(Seen(st), <<>>)
    BY DEF Prepend
  <2> QED
    BY <1>6, <2>1, <2>2 DEF RecordedAs
<1> QED
  BY <1>2, <1>6, <1>8, <1>10, <1>11 DEF Rests, Resting

-----------------------------------------------------------------------------
(***************************************************************************)
(* What the items of some keys show.                                       *)
(***************************************************************************)

NormalBut(st, keys) == \A k \in DOMAIN st.items \ keys : st.items[k].display = "normal"
ShownIn(st, keys, mode) == \A k \in DOMAIN st.items \cap keys : ToMode(st.items[k].display) = mode

\* After a change of the mode all edited items show it.
LEMMA ModeShown ==
    ASSUME NEW st, NEW ts, NEW keys, NEW mode, ModeSet(st, ts, keys, mode), NormalBut(st, keys)
    PROVE  NormalBut(ts, keys) /\ ShownIn(ts, keys, mode) /\ ts.operations = st.operations
BY DEF ModeSet, InMode, NormalBut, ShownIn

\* Items are in the mode of insertion if they are inserted.
LEMMA NormalMode ==
    ASSUME NEW c, Good(c), NEW k \in DOMAIN State(c).items
    PROVE  /\ State(c).items[k].display \in Display
           /\ ToMode(State(c).items[k].display) = "insert_or_discard"
                <=> State(c).items[k].display = "normal"
           /\ ToMode(State(c).items[k].display) = "temporary"
                <=> State(c).items[k].display = "temporary"
<1>1. /\ DOMAIN State(c).items = KeyIndexSet(c)
      /\ \A key \in KeyIndexSet(c) :
            IdOf(c, key) \in DOMAIN c.items /\ c.keys[IdOf(c, key)] = key
      /\ \A id \in DOMAIN c.items : State(c).items[c.keys[id]] = c.items[id]
  BY StateItems DEF Good
<1> DEFINE display == State(c).items[k].display
<1>2. display \in Display
  <2>1. State(c).items[k] = c.items[IdOf(c, k)] /\ IdOf(c, k) \in DOMAIN c.items
    BY <1>1
  <2> QED
    BY <2>1 DEF Good, Item
<1> HIDE DEF display
<1>3. /\ ToMode(display) = "insert_or_discard" <=> display = "normal"
      /\ ToMode(display) = "temporary" <=> display = "temporary"
  BY <1>2 DEF Display, ToMode
<1> QED
  BY <1>2, <1>3 DEF display

\* If what was edited is inserted, everything is.
LEMMA CalmIfInserted ==
    ASSUME NEW c, Good(c), c.operations = <<>>, NEW keys,
           NormalBut(State(c), keys), ShownIn(State(c), keys, "insert_or_discard")
    PROVE  Calm(State(c))
<1>1. State(c).operations = <<>>
  BY DEF State
<1>2. \A k \in DOMAIN State(c).items : State(c).items[k].display = "normal"
  BY NormalMode DEF NormalBut, ShownIn
<1> QED
  BY <1>1, <1>2 DEF Calm

-----------------------------------------------------------------------------
(***************************************************************************)
(* Changing the mode of what is selected.                                  *)
(***************************************************************************)

\* What is selected is in the mode, everything else is inserted.
SelectionIn(c, mode) ==
    /\ c.operations = <<>> /\ c.cached = {}
    /\ NormalBut(State(c), State(c).selected) /\ ShownIn(State(c), State(c).selected, mode)

PositionsKept(st, ts) ==
    \A k \in DOMAIN ts.items :
        k \in DOMAIN st.items /\ ts.items[k].position = st.items[k].position

\* Without operations there is no cached selection.
LEMMA NothingCached ==
    ASSUME NEW c, Good(c), c.operations = <<>> PROVE c.cached = {}
BY DEF Good, Sound, CacheOK

\* An empty store is one that stores nothing.
LEMMA NothingStoredIn ==
    ASSUME NEW c, Good(c), c.stored = <<>> PROVE Unstored(c)
BY DEF Good, Sound, Shape, Fields, Unstored

ModeChanged(rec, c, d, mode) ==
    /\ Editing(rec, d) /\ SelectionIn(d, mode) /\ PositionsKept(State(c), State(d))
    /\ State(d).selected = State(c).selected \cap DOMAIN State(d).items
    /\ mode # "insert_or_discard" => d.keys = c.keys

\* Changing the mode of the visible selection keeps the rest inserted.
LEMMA ModeOfSelection ==
    ASSUME NEW rec, NEW c, Editing(rec, c), c.operations = <<>>,
           NormalBut(State(c), State(c).selected),
           NEW s, Distinct(s), Members(s) \subseteq DOMAIN c.items,
           KeysOf(c, Members(s)) = State(c).selected,
           NEW mode \in Mode, NEW d, d = ChangeSelectionMode(c, s, mode)
    PROVE  ModeChanged(rec, c, d, mode)
<1> DEFINE st == State(c)
           ts == State(d)
<1>1. Good(c)
  BY EditingIs
<1>2. /\ Rewinds(c, d) /\ ModeSet(st, ts, st.selected, mode) /\ d.stored = <<>>
      /\ (mode # "insert_or_discard" => d.keys = c.keys)
  BY <1>1, ChangeSelectionModeSets
<1>3. Good(d) /\ Editing(rec, d)
  <2>1. Good(d)
    BY <1>2 DEF Rewinds
  <2> QED
    BY <1>2, <2>1, NothingStoredIn, EditingOn
<1>4. st.operations = c.operations /\ ts.operations = d.operations
  BY DEF State
<1> HIDE DEF st, ts
<1>5. NormalBut(st, st.selected)
  BY DEF st
<1>6. /\ NormalBut(ts, st.selected) /\ ShownIn(ts, st.selected, mode)
      /\ ts.operations = st.operations
  BY <1>2, <1>5, ModeShown
<1>7. ts.selected = st.selected \cap DOMAIN ts.items
  BY <1>2 DEF ModeSet
<1>8. NormalBut(ts, ts.selected) /\ ShownIn(ts, ts.selected, mode)
  BY <1>6, <1>7 DEF NormalBut, ShownIn
<1>9. PositionsKept(st, ts)
  <2>1. ASSUME NEW k \in DOMAIN ts.items
        PROVE  k \in DOMAIN st.items /\ ts.items[k].position = st.items[k].position
    <3>1. k \in DOMAIN st.items
      BY <1>2 DEF ModeSet
    <3>2. CASE k \in st.selected
      BY <1>2, <3>1, <3>2 DEF ModeSet, InMode
    <3>3. CASE k \notin st.selected
      BY <1>2, <3>1, <3>3 DEF ModeSet
    <3> QED
      BY <3>1, <3>2, <3>3
  <2> QED
    BY <2>1 DEF PositionsKept
<1>10. d.operations = <<>> /\ d.cached = {}
  BY <1>3, <1>4, <1>6, NothingCached
<1> QED
  BY <1>2, <1>3, <1>7, <1>8, <1>9, <1>10 DEF ModeChanged, SelectionIn, st, ts

\* A selection in the mode of insertion leaves nothing to insert.
LEMMA InsertedIsCalm ==
    ASSUME NEW rec, NEW c, Editing(rec, c), SelectionIn(c, "insert_or_discard")
    PROVE  Calm(State(c))
<1>1. Good(c)
  BY EditingIs
<1> QED
  BY <1>1, CalmIfInserted DEF SelectionIn

\* Nothing collides where everything is inserted.
LEMMA CalmNotColliding ==
    ASSUME NEW c, Good(c), Calm(State(c)) PROVE ~AnythingColliding(c)
<1>1. State(c).operations = c.operations /\ c.initial \subseteq DOMAIN c.items /\ Sound(c)
  BY DEF State, Good, Sound, Shape
<1>2. VisibleSelection(c) = c.initial
  BY <1>1, NothingCached, VisibleIsInitial DEF Calm
<1>3. \A id \in DOMAIN c.items : c.items[id].display = "normal"
  BY <1>1, StateItems DEF Calm
<1> QED
  BY <1>1, <1>2, <1>3 DEF AnythingColliding

-----------------------------------------------------------------------------
(***************************************************************************)
(* Pasting.                                                                *)
(***************************************************************************)

\* The ids of the pasted items are those behind the items of the layout.
LEMMA PastedOrder ==
    ASSUME NEW c, Good(c), NEW clip, IsSeq(clip), NEW d, ItemsPasted(c, d, Len(clip)),
           NEW s, s = PastedIds(c, clip)
    PROVE  /\ Distinct(s) /\ Members(s) \subseteq DOMAIN d.items
           /\ Members(s) = {id \in DOMAIN d.items : id > Len(c.items)}
           /\ Range(s) = Members(s)
<1> DEFINE n == Len(clip)
           m == Len(c.items)
<1>1. n \in Nat /\ m \in Nat /\ DOMAIN clip = 1 .. n
  BY ItemIds DEF IsSeq, Good
<1>2. DOMAIN d.items = 1 .. (m + n)
  BY DEF ItemsPasted
<1>3. s = [i \in 1 .. n |-> m + i]
  BY <1>1 DEF PastedIds
<1> HIDE DEF n, m
<1>4. \A i \in 1 .. n : s[i] = m + i
  BY <1>3
<1>5. IsSeq(s) /\ Len(s) = n
  <2>1. s = [i \in 1 .. n |-> s[i]]
    BY <1>3
  <2> QED
    BY <1>1, <2>1, Sequences
<1>6. Distinct(s)
  BY <1>1, <1>4, <1>5 DEF Distinct
<1>7. Members(s) = {id \in 1 .. (m + n) : id > m}
  <2>1. ASSUME NEW id \in 1 .. (m + n), id > m PROVE id \in Members(s)
    <3>1. id - m \in 1 .. n
      BY <1>1, <2>1
    <3>2. s[id - m] = id
      BY <1>1, <1>4, <3>1
    <3> QED
      BY <1>5, <3>1, <3>2 DEF Members
  <2>2. ASSUME NEW id \in Members(s) PROVE id \in 1 .. (m + n) /\ id > m
    <3>1. PICK i \in 1 .. n : id = s[i]
      BY <1>5 DEF Members
    <3> QED
      BY <1>1, <1>4, <3>1
  <2> QED
    BY <2>1, <2>2
<1>8. Range(s) = Members(s)
  BY <1>3, <1>5 DEF Range, Members
<1> QED
  BY <1>2, <1>6, <1>7, <1>8 DEF m

CanBePasted(clip, p) ==
    /\ IsSeq(clip)
    /\ \A i \in 1 .. Len(clip) : /\ clip[i].def \in Definition
                                 /\ p + clip[i].offset \in 1 .. Cells

\* What is pasted is selected, before it is shown how it collides.
PastedIn(c, clip, p) == SetVisibleSelection(PasteAll(c, clip, p), Members(PastedIds(c, clip)))

PasteSelected(c, b) ==
    /\ Good(b) /\ b.operations = <<>> /\ NormalBut(State(b), State(b).selected)
    /\ DOMAIN b.items \ b.initial = DOMAIN c.items
    /\ \A id \in DOMAIN c.items : b.items[id] = c.items[id] /\ b.keys[id] = c.keys[id]
    /\ \A id \in DOMAIN b.items : b.items[id].display # "colliding"

\* All that is pasted is selected, and nothing else is changed by it.
LEMMA PastedSelected ==
    ASSUME NEW rec, NEW c, Editing(rec, c), Calm(State(c)), NEW clip, NEW p, CanBePasted(clip, p),
           NEW s, s = PastedIds(c, clip), NEW b, b = PastedIn(c, clip, p)
    PROVE  /\ InsertAsCollisions(c, clip, p) = ChangeSelectionMode(b, s, "collisions")
           /\ Editing(rec, b) /\ PasteSelected(c, b)
           /\ Distinct(s) /\ Members(s) \subseteq DOMAIN b.items
           /\ KeysOf(b, Members(s)) = State(b).selected
<1> DEFINE a == PasteAll(c, clip, p)
<1>1. Good(c) /\ Unstored(c) /\ IsSeq(clip)
  BY EditingIs DEF CanBePasted
<1>2. ItemsPasted(c, a, Len(clip))
  <2> HIDE DEF a
  <2> QED
    BY <1>1, PasteAllAppends DEF CanBePasted, a
<1>3. Rewinds(c, a) /\ Unstored(a) /\ Good(a) /\ Editing(rec, a)
  <2> HIDE DEF a
  <2>1. Rewinds(c, a) /\ Unstored(a) /\ Good(a)
    BY <1>2 DEF ItemsPasted, Rewinds
  <2> QED
    BY <2>1, EditingOn
<1>4. /\ Distinct(s) /\ Members(s) \subseteq DOMAIN a.items
      /\ Members(s) = {id \in DOMAIN a.items : id > Len(c.items)}
      /\ Range(s) = Members(s)
  <2> HIDE DEF a
  <2> QED
    BY <1>1, <1>2, PastedOrder
<1>5. b = SetVisibleSelection(a, Members(s))
  BY DEF PastedIn
<1>6. InsertAsCollisions(c, clip, p) = ChangeSelectionMode(b, s, "collisions")
  <2>1. InsertAsCollisions(c, clip, p)
          = ChangeSelectionMode(SetVisibleSelection(a, Range(PastedIds(c, clip))),
                                PastedIds(c, clip), "collisions")
    BY Zenon DEF InsertAsCollisions, PasteAll
  <2> HIDE DEF a
  <2> QED
    BY <1>4, <1>5, <2>1
<1> HIDE DEF a
<1>7. SelectedNow(a, b, Members(s))
  BY <1>3, <1>4, <1>5, SelectSets
<1>8. Editing(rec, b) /\ Good(b) /\ Sound(b)
  BY <1>3, <1>7, EditingOn DEF SelectedNow, Rewinds, Good
<1>9. /\ b.items = a.items /\ b.keys = a.keys /\ b.operations = <<>> /\ b.initial = Members(s)
      /\ State(b).selected = KeysOf(b, Members(s))
  BY <1>7 DEF SelectedNow, SelectsOnly, KeysOf
<1>10. \A id \in DOMAIN b.items \ b.initial :
           id \in DOMAIN c.items /\ b.items[id] = c.items[id] /\ b.keys[id] = c.keys[id]
  BY <1>2, <1>4, <1>9 DEF ItemsPasted
<1>11. NormalBut(State(b), State(b).selected)
  <2>1. /\ DOMAIN State(b).items = KeyIndexSet(b)
        /\ \A k \in KeyIndexSet(b) : IdOf(b, k) \in DOMAIN b.items /\ b.keys[IdOf(b, k)] = k
        /\ \A id \in DOMAIN b.items : State(b).items[b.keys[id]] = b.items[id]
    BY <1>8, StateItems
  <2>2. ASSUME NEW k \in DOMAIN State(b).items \ State(b).selected
        PROVE  State(b).items[k].display = "normal"
    <3> DEFINE id == IdOf(b, k)
    <3>1. id \in DOMAIN b.items /\ b.keys[id] = k /\ State(b).items[k] = b.items[id]
      BY <2>1
    <3> HIDE DEF id
    <3>2. id \notin b.initial
      BY <1>9, <2>2, <3>1 DEF KeysOf
    <3>3. id \in DOMAIN c.items /\ b.items[id] = c.items[id]
      BY <1>10, <3>1, <3>2
    <3>4. c.items[id].display = "normal"
      BY <1>1, <3>3, StateItems DEF Good, Calm
    <3> QED
      BY <3>1, <3>3, <3>4
  <2> QED
    BY <2>2 DEF NormalBut
<1>12. DOMAIN b.items \ b.initial = DOMAIN c.items
  <2>1. /\ Len(c.items) \in Nat /\ DOMAIN c.items = 1 .. Len(c.items) /\ Len(clip) \in Nat
        /\ DOMAIN a.items = 1 .. (Len(c.items) + Len(clip))
    BY <1>1, <1>2, ItemIds DEF ItemsPasted, Good, IsSeq
  <2>2. ASSUME NEW id \in DOMAIN c.items PROVE id \in DOMAIN b.items \ b.initial
    BY <1>4, <1>9, <2>1
  <2> QED
    BY <1>10, <2>2
<1>13. \A id \in DOMAIN b.items : b.items[id].display # "colliding"
  <2>1. \A id \in DOMAIN c.items : c.items[id].display = "normal"
    BY <1>1, StateItems DEF Good, Calm
  <2> QED
    BY <1>2, <1>9, <2>1 DEF ItemsPasted
<1> QED
  BY <1>4, <1>6, <1>8, <1>9, <1>10, <1>11, <1>12, <1>13 DEF PasteSelected

\* Pasting as collisions selects the pasted items and shows how they collide.
LEMMA CollisionsPasted ==
    ASSUME NEW rec, NEW c, Editing(rec, c), Calm(State(c)), NEW clip, NEW p, CanBePasted(clip, p),
           NEW s, s = PastedIds(c, clip), NEW d, d = InsertAsCollisions(c, clip, p)
    PROVE  /\ Editing(rec, d) /\ SelectionIn(d, "collisions")
           /\ Distinct(s) /\ Members(s) \subseteq DOMAIN d.items
           /\ KeysOf(d, Members(s)) = State(d).selected
<1> DEFINE b == PastedIn(c, clip, p)
<1>1. /\ d = ChangeSelectionMode(b, s, "collisions")
      /\ Editing(rec, b) /\ PasteSelected(c, b)
      /\ Distinct(s) /\ Members(s) \subseteq DOMAIN b.items
      /\ KeysOf(b, Members(s)) = State(b).selected
  BY PastedSelected
<1> HIDE DEF b
<1>2. Good(b) /\ b.operations = <<>> /\ NormalBut(State(b), State(b).selected)
  BY <1>1 DEF PasteSelected
<1>3. ModeChanged(rec, b, d, "collisions")
  BY <1>1, <1>2, ModeOfSelection DEF Mode
<1>4. /\ Editing(rec, d) /\ SelectionIn(d, "collisions") /\ d.keys = b.keys
      /\ State(d).selected = State(b).selected \cap DOMAIN State(d).items
  BY <1>3 DEF ModeChanged
<1>5. Good(d)
  BY <1>4, EditingIs
<1>6. DOMAIN d.items = DOMAIN b.items
  BY <1>2, <1>4, <1>5 DEF Good, Sound, Shape, KeysOK
<1>7. KeysOf(d, Members(s)) = State(d).selected
  <2>1. KeysOf(d, Members(s)) = KeysOf(b, Members(s))
    BY <1>4 DEF KeysOf
  <2>2. KeysOf(d, Members(s)) \subseteq DOMAIN State(d).items
    BY <1>1, <1>5, <1>6, StateItems DEF KeysOf, Good
  <2> QED
    BY <1>1, <1>4, <2>1, <2>2
<1> QED
  BY <1>1, <1>4, <1>6, <1>7

\* What is pasted is inserted, or selected because something collides.
LEMMA ClipboardPasted ==
    ASSUME NEW rec, NEW c, Editing(rec, c), Calm(State(c)), NEW clip, NEW p, CanBePasted(clip, p),
           NEW d, d = InsertClipboardData(c, clip, p)
    PROVE  /\ Editing(rec, d)
           /\ AnythingColliding(d) => SelectionIn(d, "collisions")
                                      /\ d = InsertAsCollisions(c, clip, p)
           /\ ~AnythingColliding(d) => Calm(State(d))
<1> DEFINE s == PastedIds(c, clip)
           b == InsertAsCollisions(c, clip, p)
<1>1. d = InsertIfFree(b, s)
  BY DEF InsertClipboardData
<1>2. /\ Editing(rec, b) /\ SelectionIn(b, "collisions")
      /\ Distinct(s) /\ Members(s) \subseteq DOMAIN b.items
      /\ KeysOf(b, Members(s)) = State(b).selected
  BY CollisionsPasted
<1>0. b = InsertAsCollisions(c, clip, p)
  OBVIOUS
<1> HIDE DEF s, b
<1>3. CASE AnythingColliding(b)
  <2>1. d = b
    BY <1>1, <1>3, Zenon DEF InsertIfFree
  <2> QED
    BY <1>0, <1>2, <1>3, <2>1
<1>4. CASE ~AnythingColliding(b)
  <2>1. d = ChangeSelectionMode(b, s, "insert_or_discard")
    BY <1>1, <1>4, Zenon DEF InsertIfFree
  <2>2. ModeChanged(rec, b, d, "insert_or_discard")
    BY <1>2, <2>1, ModeOfSelection DEF Mode, SelectionIn
  <2>3. Editing(rec, d) /\ Calm(State(d)) /\ Good(d)
    BY <2>2, InsertedIsCalm, EditingIs DEF ModeChanged
  <2> QED
    BY <2>3, CalmNotColliding
<1> QED
  BY <1>3, <1>4

-----------------------------------------------------------------------------
(***************************************************************************)
(* Inserting an item under the mouse.                                      *)
(***************************************************************************)

\* The order TLC would pick is one of the orders.
LEMMA SomeOrder ==
    ASSUME NEW S, IsFiniteSet(S) PROVE SetToSeq(S) \in SetToSeqs(S)
<1> DEFINE n == Cardinality(S)
           s == SetToSeq(S)
<1>1. \E f \in [1 .. n -> S] : IsInjective(f)
  <2>1. PICK f : f \in Bijection(1 .. n, S)
    BY FS_CardinalityType DEF ExistsBijection
  <2>2. f \in [1 .. n -> S] /\ \A i, j \in 1 .. n : f[i] = f[j] => i = j
    BY <2>1 DEF Bijection, Injection, IsInjective
  <2> QED
    BY <2>2 DEF IsInjective
<1>2. s \in [1 .. n -> S] /\ IsInjective(s)
  BY <1>1 DEF SetToSeq
<1> QED
  BY <1>2 DEF SetToSeqs, IsInjective

\* Everything but what is under the mouse is inserted.
Inserting(rec, c, temp) == Editing(rec, c) /\ c.operations = <<>> /\ NormalBut(State(c), temp)

\* Deleting what is under the mouse leaves everything inserted.
LEMMA TempDeleted ==
    ASSUME NEW rec, NEW c, NEW temp, Inserting(rec, c, temp),
           NEW d, d = DeleteAll(c, SetToSeq(IdsOf(c, temp)))
    PROVE  /\ Editing(rec, d) /\ Calm(State(d))
           /\ KeysGone(State(c), State(d), temp \cap DOMAIN State(c).items)
<1> DEFINE ids == IdsOf(c, temp)
           s == SetToSeq(ids)
<1>1. Good(c) /\ Editing(rec, c) /\ Sound(c)
  BY EditingIs DEF Inserting
<1>2. Ids(c) = DOMAIN c.items /\ DOMAIN c.items = 1 .. Len(c.items) /\ Len(c.items) \in Nat
  BY <1>1, ItemIds
<1>3. ids \subseteq DOMAIN c.items /\ IsFiniteSet(ids)
  <2>1. ids \in SUBSET (1 .. Len(c.items))
    BY <1>2 DEF IdsOf
  <2>2. IsFiniteSet(1 .. Len(c.items))
    BY <1>2, FS_Interval
  <2> HIDE DEF ids
  <2>3. IsFiniteSet(ids)
    BY <2>1, <2>2, FS_Subset
  <2> QED
    BY <1>2, <2>1, <2>3
<1>4. KeysOf(c, ids) = temp \cap KeyIndexSet(c)
  BY <1>2 DEF KeysOf, IdsOf, KeyIndexSet
<1> HIDE DEF ids
<1>5. Distinct(s) /\ Members(s) = ids
  <2>1. s \in SetToSeqs(ids)
    BY <1>3, SomeOrder
  <2> HIDE DEF s
  <2> QED
    BY <1>3, <2>1, AllInOrder
<1>6. d = DeleteAll(c, s)
  BY DEF ids
<1> HIDE DEF s
<1>7. Rewinds(c, d) /\ KeysGone(State(c), State(d), KeysOf(c, ids)) /\ d.stored = <<>>
  BY <1>1, <1>3, <1>5, <1>6, DeleteAllGone
<1>8. Good(d) /\ Editing(rec, d)
  <2>1. Good(d)
    BY <1>7 DEF Rewinds
  <2> QED
    BY <1>1, <1>7, <2>1, NothingStoredIn, EditingOn
<1>9. State(c).operations = <<>> /\ DOMAIN State(c).items = KeyIndexSet(c)
  BY <1>1, StateItems DEF Inserting
<1>10. ASSUME NEW k \in DOMAIN State(d).items PROVE State(d).items[k].display = "normal"
  <2>1. /\ k \in DOMAIN State(c).items /\ k \notin temp
        /\ State(d).items[k] = State(c).items[k]
    BY <1>4, <1>7, <1>9 DEF KeysGone
  <2> QED
    BY <2>1 DEF Inserting, NormalBut
<1>11. KeysGone(State(c), State(d), temp \cap DOMAIN State(c).items)
  BY <1>4, <1>7, <1>9
<1> QED
  BY <1>7, <1>8, <1>9, <1>10, <1>11 DEF KeysGone, Calm

\* Inserting an item under the mouse leaves everything else inserted.
LEMMA TempInserted ==
    ASSUME NEW rec, NEW c, Editing(rec, c), Calm(State(c)),
           NEW def \in Definition, NEW p, NEW mode \in Mode,
           NEW d, d = TryAddLogicItem(c, def, p, mode)
    PROVE  /\ Inserting(rec, d, KeyIndexSet(d) \ KeyIndexSet(c))
           /\ mode = "insert_or_discard" => Calm(State(d))
           /\ \A k \in DOMAIN State(c).items :
                 k \in DOMAIN State(d).items /\ State(d).items[k] = State(c).items[k]
<1>1. Good(c) /\ Sound(c) /\ Unstored(c)
  BY EditingIs
<1>2. CASE ~IsRepresentable(p)
  <2>1. d = c
    BY <1>2, Zenon DEF TryAddLogicItem
  <2>2. c.operations = <<>>
    BY DEF Calm, State
  <2> QED
    BY <2>1, <2>2 DEF Inserting, NormalBut, Calm
<1>3. CASE IsRepresentable(p)
  <2>1. d = AddLogicItem(c, def, p, mode) /\ p \in 1 .. Cells
    <3>1. d = AddLogicItem(c, def, p, mode)
      BY <1>3, Zenon DEF TryAddLogicItem
    <3> QED
      BY <1>3, <3>1 DEF IsRepresentable
  <2>2. Rewinds(c, d) /\ KeyAdded(State(c), State(d), c.nextKey, mode)
    BY <1>1, <2>1, AddedSets
  <2>3. Unstored(d)
    BY <1>1, <2>1, AddLogicItemUnstored
  <2>4. Editing(rec, d) /\ Good(d) /\ Sound(d)
    BY <2>2, <2>3, EditingOn, EditingIs
  <2>5. DOMAIN State(c).items = KeyIndexSet(c) /\ DOMAIN State(d).items = KeyIndexSet(d)
    BY <1>1, <2>4, StateItems
  <2>6. d.operations = <<>>
    BY <2>2 DEF KeyAdded, Calm, State
  <2>7. \A k \in DOMAIN State(c).items : State(d).items[k].display = "normal"
    BY <2>2 DEF KeyAdded, Calm
  <2>8. NormalBut(State(d), KeyIndexSet(d) \ KeyIndexSet(c))
    BY <2>5, <2>7 DEF NormalBut
  <2>9. ASSUME mode = "insert_or_discard" PROVE Calm(State(d))
    <3>1. NormalBut(State(d), {c.nextKey})
      BY <2>2, <2>7 DEF KeyAdded, NormalBut
    <3>2. ShownIn(State(d), {c.nextKey}, "insert_or_discard")
      BY <2>2, <2>9 DEF KeyAdded, ShownIn
    <3> QED
      BY <2>4, <2>6, <3>1, <3>2, CalmIfInserted
  <2>10. \A k \in DOMAIN State(c).items :
            k \in DOMAIN State(d).items /\ State(d).items[k] = State(c).items[k]
    BY <2>2 DEF KeyAdded
  <2> QED
    BY <2>4, <2>6, <2>8, <2>9, <2>10 DEF Inserting
<1> QED
  BY <1>2, <1>3

-----------------------------------------------------------------------------
(***************************************************************************)
(* A drag without history, and the circuit that it started from.           *)
(***************************************************************************)

\* The circuit with its history on and what was moved taken back.
Base(c, offset) == [c EXCEPT !.history = "track_undo_new",
                             !.items = MovedItems(c.items, c.initial, -offset)]

Untracked(rec, c, offset) ==
    /\ DOMAIN c = Fields /\ ItemsAre(c.items)
    /\ c.history = "disabled" /\ offset \in Int
    /\ Editing(rec, Base(c, offset)) /\ SelectionIn(Base(c, offset), "temporary")

\* Keys in the order of which the selection is moved.
Ordered(c, keys) == Distinct(keys) /\ KeysOf(c, c.initial) \subseteq Members(keys)

\* The circuit that a drag started from differs in its history and the moved items.
LEMMA BaseFields ==
    ASSUME NEW c, DOMAIN c = Fields, NEW offset, NEW b, b = Base(c, offset)
    PROVE  /\ DOMAIN b = Fields /\ b = [f \in Fields |-> b[f]]
           /\ b.items = MovedItems(c.items, c.initial, -offset)
           /\ b.history = "track_undo_new"
           /\ b.keys = c.keys /\ b.nextKey = c.nextKey /\ b.loaded = c.loaded
           /\ b.stored = c.stored /\ b.initial = c.initial /\ b.operations = c.operations
           /\ b.cached = c.cached /\ b.undo = c.undo /\ b.redo = c.redo
           /\ b.failed = c.failed
<1> DEFINE items == MovedItems(c.items, c.initial, -offset)
<1>1. b = [c EXCEPT !.history = "track_undo_new", !.items = items]
  BY DEF Base
<1> HIDE DEF items
<1>2. /\ DOMAIN b = Fields /\ b.items = items /\ b.history = "track_undo_new"
      /\ b.keys = c.keys /\ b.nextKey = c.nextKey /\ b.loaded = c.loaded
      /\ b.stored = c.stored /\ b.initial = c.initial /\ b.operations = c.operations
      /\ b.cached = c.cached /\ b.undo = c.undo /\ b.redo = c.redo
      /\ b.failed = c.failed
  BY <1>1 DEF Fields
<1>3. b = [f \in DOMAIN b |-> b[f]]
  BY <1>1
<1> QED
  BY <1>2, <1>3 DEF items

\* Two circuits with the same fields are the same.
LEMMA SameRecords ==
    ASSUME NEW c, NEW d, c = [f \in Fields |-> c[f]], d = [f \in Fields |-> d[f]],
           d.items = c.items /\ d.history = c.history
           /\ d.keys = c.keys /\ d.nextKey = c.nextKey /\ d.loaded = c.loaded
           /\ d.stored = c.stored /\ d.initial = c.initial /\ d.operations = c.operations
           /\ d.cached = c.cached /\ d.undo = c.undo /\ d.redo = c.redo
           /\ d.failed = c.failed
    PROVE  c = d
<1>1. \A f \in Fields : c[f] = d[f]
  BY DEF Fields
<1> QED
  BY <1>1, Zenon

\* Moving keeps the items what they are.
LEMMA MovedAre ==
    ASSUME NEW items, ItemsAre(items), NEW ids, NEW delta \in Int,
           \A id \in ids : IsRepresentable(items[id].position + delta),
           NEW moved, moved = MovedItems(items, ids, delta)
    PROVE  ItemsAre(moved) /\ DOMAIN moved = DOMAIN items
<1>1. DOMAIN moved = DOMAIN items /\ moved = [id \in DOMAIN moved |-> moved[id]]
  BY DEF MovedItems
<1>2. ASSUME NEW id \in DOMAIN items PROVE moved[id] \in Item
  <2>1. items[id] \in Item
    BY DEF ItemsAre
  <2>2. CASE id \in ids
    <3> DEFINE x == items[id]
    <3>1. moved[id] = MovedItem(x, delta) /\ IsRepresentable(x.position + delta)
      BY <2>2 DEF MovedItems
    <3> HIDE DEF x
    <3>2. x \in Item
      BY <2>1 DEF x
    <3>3. MovedItem(x, delta) \in Item
      BY <3>1, <3>2 DEF MovedItem, Item, IsRepresentable
    <3> QED
      BY <3>1, <3>3
  <2>3. CASE id \notin ids
    BY <2>1, <2>3 DEF MovedItems
  <2> QED
    BY <2>2, <2>3
<1> QED
  BY <1>1, <1>2 DEF ItemsAre

\* Two moves are one by the sum.
LEMMA MovedTwice ==
    ASSUME NEW items, ItemsAre(items), NEW ids, NEW m \in Int, NEW n \in Int,
           NEW sum, sum = m + n
    PROVE  MovedItems(MovedItems(items, ids, m), ids, n) = MovedItems(items, ids, sum)
<1> DEFINE moved == MovedItems(items, ids, m)
<1>1. DOMAIN moved = DOMAIN items
      /\ \A id \in DOMAIN items : moved[id] = IF id \in ids THEN MovedItem(items[id], m)
                                                            ELSE items[id]
  BY DEF MovedItems
<1> HIDE DEF moved
<1>2. ASSUME NEW id \in DOMAIN items
      PROVE  (IF id \in ids THEN MovedItem(moved[id], n) ELSE moved[id])
               = (IF id \in ids THEN MovedItem(items[id], sum) ELSE items[id])
  <2>1. CASE id \in ids
    <3> DEFINE x == items[id]
    <3>1. x \in Item /\ moved[id] = MovedItem(x, m)
      BY <1>1, <2>1 DEF ItemsAre
    <3> HIDE DEF x
    <3>2. MovedItem(MovedItem(x, m), n) = MovedItem(x, sum)
      <4> DEFINE y == MovedItem(x, m)
      <4>1. /\ y = [x EXCEPT !.position = x.position + m]
            /\ DOMAIN x = {"def", "position", "display"} /\ x.position \in Int
        BY <3>1 DEF MovedItem, Item
      <4> HIDE DEF y
      <4>2. y.position = x.position + m /\ DOMAIN y = DOMAIN x
        BY <4>1
      <4>3. MovedItem(y, n) = [y EXCEPT !.position = y.position + n]
        BY DEF MovedItem
      <4>4. MovedItem(x, sum) = [x EXCEPT !.position = x.position + sum]
        BY DEF MovedItem
      <4>5. y.position + n = x.position + sum
        BY <4>1, <4>2
      <4> DEFINE v == x.position + sum
      <4> HIDE DEF v
      <4>6. [y EXCEPT !.position = v] = [x EXCEPT !.position = v]
        BY <4>1, <4>2
      <4> QED
        BY <4>3, <4>4, <4>5, <4>6 DEF v, y
    <3> QED
      BY <2>1, <3>1, <3>2 DEF x
  <2>2. CASE id \notin ids
    BY <1>1, <2>2
  <2> QED
    BY <2>1, <2>2
<1>3. MovedItems(moved, ids, n) = MovedItems(items, ids, sum)
  BY <1>1, <1>2, Zenon DEF MovedItems
<1> QED
  BY <1>3 DEF moved

\* What the proofs need of a circuit while a selection is dragged.
LEMMA UntrackedIs ==
    ASSUME NEW rec, NEW c, NEW offset, Untracked(rec, c, offset)
    PROVE  /\ c.operations = <<>> /\ c.cached = {} /\ c.failed = FALSE
           /\ KeysOK(c.keys, DOMAIN c.items) /\ c.initial \subseteq DOMAIN c.items
           /\ \A id \in c.initial : /\ c.items[id].display = "temporary"
                                    /\ c.items[id].position \in Int
                                    /\ IsRepresentable(c.items[id].position + -offset)
           /\ KeysOf(c, c.initial) = State(Base(c, offset)).selected
<1> DEFINE b == Base(c, offset)
<1>1. /\ b.items = MovedItems(c.items, c.initial, -offset)
      /\ b.keys = c.keys /\ b.initial = c.initial /\ b.operations = c.operations
      /\ b.cached = c.cached /\ b.failed = c.failed
  BY BaseFields DEF Untracked
<1>2. Editing(rec, b) /\ SelectionIn(b, "temporary") /\ offset \in Int /\ ItemsAre(c.items)
  BY DEF Untracked
<1> HIDE DEF b
<1>3. Good(b) /\ Sound(b)
  BY <1>2, EditingIs
<1>4. DOMAIN b.items = DOMAIN c.items
  BY <1>1 DEF MovedItems
<1>5. KeysOK(b.keys, DOMAIN b.items) /\ b.initial \subseteq DOMAIN b.items
  BY <1>3 DEF Sound, Shape
<1>6. State(b).selected = KeysOf(b, b.initial)
  BY DEF State
<1>7. ASSUME NEW id \in c.initial
      PROVE  /\ c.items[id].display = "temporary" /\ c.items[id].position \in Int
             /\ IsRepresentable(c.items[id].position + -offset)
  <2>1. id \in DOMAIN c.items /\ c.items[id] \in Item /\ b.items[id] \in Item
    BY <1>1, <1>2, <1>3, <1>4, <1>5 DEF ItemsAre, Good
  <2>2. b.items[id] = MovedItem(c.items[id], -offset)
    BY <1>1, <2>1 DEF MovedItems
  <2>3. b.items[id].display = "temporary"
    <3>1. b.keys[id] \in State(b).selected /\ b.keys[id] \in DOMAIN State(b).items
          /\ State(b).items[b.keys[id]] = b.items[id]
      BY <1>1, <1>3, <1>4, <2>1, StateItems
    <3>2. ToMode(State(b).items[b.keys[id]].display) = "temporary"
      BY <1>2, <3>1 DEF SelectionIn, ShownIn
    <3> QED
      BY <1>3, <3>1, <3>2, NormalMode
  <2> DEFINE x == c.items[id]
             y == b.items[id]
  <2> HIDE DEF x, y
  <2>4. x \in Item /\ y \in Item /\ y = MovedItem(x, -offset) /\ y.display = "temporary"
    BY <2>1, <2>2, <2>3 DEF x, y
  <2>5. x.display = "temporary" /\ x.position \in Int /\ IsRepresentable(x.position + -offset)
    BY <1>2, <2>4 DEF MovedItem, Item, IsRepresentable
  <2> QED
    BY <2>5 DEF x
<1>8. KeysOf(c, c.initial) = KeysOf(b, b.initial)
  BY <1>1 DEF KeysOf
<1> QED
  BY <1>1, <1>2, <1>3, <1>4, <1>5, <1>6, <1>7, <1>8, EditingIs DEF SelectionIn, b

\* The dragged items are found by their keys, each once.
LEMMA UntrackedOrder ==
    ASSUME NEW rec, NEW c, NEW offset, Untracked(rec, c, offset), NEW keys, Ordered(c, keys),
           NEW s, s = InOrder(c, keys)
    PROVE  Distinct(s) /\ Members(s) = c.initial /\ Members(s) \subseteq DOMAIN c.items
BY UntrackedIs, InOrderSelects DEF Ordered

\* The drag moves the items, and not what it started from.
LEMMA UntrackedMoves ==
    ASSUME NEW rec, NEW c, NEW offset, Untracked(rec, c, offset), NEW keys, Ordered(c, keys),
           NEW delta \in Int,
           \A id \in c.initial : IsRepresentable(c.items[id].position + delta),
           NEW d, d = MoveVisible(c, keys, delta)
    PROVE  /\ ItemsOnly(c, d) /\ d.items = MovedItems(c.items, c.initial, delta)
           /\ Untracked(rec, d, offset + delta)
<1> DEFINE s == InOrder(c, keys)
<1>1. /\ DOMAIN c = Fields /\ ItemsAre(c.items) /\ offset \in Int /\ c.history = "disabled"
      /\ c.initial \subseteq DOMAIN c.items
      /\ \A id \in c.initial : c.items[id].display = "temporary"
      /\ Editing(rec, Base(c, offset)) /\ SelectionIn(Base(c, offset), "temporary")
  BY UntrackedIs DEF Untracked
<1>2. d = MoveSelectionUnchecked(c, s, delta)
  BY DEF MoveVisible
<1>3. Distinct(s) /\ Members(s) = c.initial
  <2> HIDE DEF s
  <2> QED
    BY UntrackedOrder DEF s
<1> HIDE DEF s
<1>4. ItemsOnly(c, d) /\ d.items = MovedItems(c.items, c.initial, delta)
  BY <1>1, <1>2, <1>3, MoveEffect
<1>5. ItemsAre(d.items)
  BY <1>1, <1>4, MovedAre
<1> DEFINE a == Base(c, offset)
           b == Base(d, offset + delta)
<1>6. a = b
  <2>1. /\ a = [f \in Fields |-> a[f]]
        /\ a.items = MovedItems(c.items, c.initial, -offset)
        /\ a.history = "track_undo_new"
        /\ a.keys = c.keys /\ a.nextKey = c.nextKey /\ a.loaded = c.loaded
        /\ a.stored = c.stored /\ a.initial = c.initial /\ a.operations = c.operations
        /\ a.cached = c.cached /\ a.undo = c.undo /\ a.redo = c.redo
        /\ a.failed = c.failed
    BY <1>1, BaseFields
  <2>2. /\ b = [f \in Fields |-> b[f]]
        /\ b.items = MovedItems(d.items, d.initial, -(offset + delta))
        /\ b.history = "track_undo_new"
        /\ b.keys = d.keys /\ b.nextKey = d.nextKey /\ b.loaded = d.loaded
        /\ b.stored = d.stored /\ b.initial = d.initial /\ b.operations = d.operations
        /\ b.cached = d.cached /\ b.undo = d.undo /\ b.redo = d.redo
        /\ b.failed = d.failed
    <3>1. DOMAIN d = Fields
      BY <1>4 DEF ItemsOnly
    <3> QED
      BY <3>1, BaseFields
  <2> HIDE DEF a, b
  <2>3. a.items = b.items
    <3>1. d.initial = c.initial
      BY <1>4 DEF ItemsOnly
    <3> DEFINE back == -(offset + delta)
    <3>2. back \in Int /\ -offset = delta + back /\ -offset \in Int
      BY <1>1
    <3> HIDE DEF back
    <3>3. MovedItems(MovedItems(c.items, c.initial, delta), c.initial, back)
            = MovedItems(c.items, c.initial, -offset)
      BY <1>1, <3>2, MovedTwice
    <3> QED
      BY <1>4, <2>1, <2>2, <3>1, <3>3 DEF back
  <2>4. /\ d.keys = c.keys /\ d.nextKey = c.nextKey /\ d.loaded = c.loaded
        /\ d.stored = c.stored /\ d.initial = c.initial /\ d.operations = c.operations
        /\ d.cached = c.cached /\ d.failed = c.failed /\ d.undo = c.undo /\ d.redo = c.redo
    BY <1>1, <1>4 DEF ItemsOnly
  <2> QED
    BY <2>1, <2>2, <2>3, <2>4, SameRecords
<1> HIDE DEF a, b
<1>7. Untracked(rec, d, offset + delta)
  <2>1. Editing(rec, b) /\ SelectionIn(b, "temporary")
    BY <1>1, <1>6 DEF a
  <2>2. DOMAIN d = Fields /\ d.history = "disabled" /\ offset + delta \in Int
    BY <1>1, <1>4 DEF ItemsOnly
  <2> QED
    BY <1>5, <2>1, <2>2 DEF Untracked, b
<1> QED
  BY <1>4, <1>7

\* The drag taken back with the history on again: its start.
LEMMA TakenBackIsBase ==
    ASSUME NEW rec, NEW c, NEW offset, Untracked(rec, c, offset), NEW keys, Ordered(c, keys),
           NEW a, a = MoveVisible(c, keys, -offset),
           NEW b, b = [a EXCEPT !.history = "track_undo_new"]
    PROVE  b = Base(c, offset)
<1>1. DOMAIN c = Fields /\ offset \in Int /\ -offset \in Int /\ c.history = "disabled"
  BY DEF Untracked
<1>2. ItemsOnly(c, a) /\ a.items = MovedItems(c.items, c.initial, -offset)
  <2> DEFINE back == -offset
  <2>1. back \in Int /\ \A id \in c.initial : IsRepresentable(c.items[id].position + back)
    BY <1>1, UntrackedIs
  <2>2. a = MoveVisible(c, keys, back)
    OBVIOUS
  <2> HIDE DEF back
  <2>3. ItemsOnly(c, a) /\ a.items = MovedItems(c.items, c.initial, back)
    BY <2>1, <2>2, UntrackedMoves
  <2> QED
    BY <2>3 DEF back
<1>3. /\ DOMAIN b = Fields /\ b.items = a.items /\ b.history = "track_undo_new"
      /\ b.keys = a.keys /\ b.nextKey = a.nextKey /\ b.loaded = a.loaded
      /\ b.stored = a.stored /\ b.initial = a.initial /\ b.operations = a.operations
      /\ b.cached = a.cached /\ b.undo = a.undo /\ b.redo = a.redo
      /\ b.failed = a.failed
  BY <1>2 DEF ItemsOnly, Fields
<1>4. b = [f \in Fields |-> b[f]]
  <2>1. b = [f \in DOMAIN b |-> b[f]]
    OBVIOUS
  <2> QED
    BY <1>3, <2>1
<1> DEFINE e == Base(c, offset)
<1>5. /\ e = [f \in Fields |-> e[f]]
      /\ e.items = MovedItems(c.items, c.initial, -offset)
      /\ e.history = "track_undo_new"
      /\ e.keys = c.keys /\ e.nextKey = c.nextKey /\ e.loaded = c.loaded
      /\ e.stored = c.stored /\ e.initial = c.initial /\ e.operations = c.operations
      /\ e.cached = c.cached /\ e.undo = c.undo /\ e.redo = c.redo
      /\ e.failed = c.failed
  BY <1>1, BaseFields
<1>6. /\ a.keys = c.keys /\ a.nextKey = c.nextKey /\ a.loaded = c.loaded
      /\ a.stored = c.stored /\ a.initial = c.initial /\ a.operations = c.operations
      /\ a.cached = c.cached /\ a.failed = c.failed /\ a.undo = c.undo /\ a.redo = c.redo
  BY <1>1, <1>2 DEF ItemsOnly
<1> HIDE DEF e
<1>7. b = e
  BY ONLY <1>2, <1>3, <1>4, <1>5, <1>6, SameRecords
<1> QED
  BY <1>7 DEF e

\* The selection by id.
SelectionShown(c, mode) ==
    /\ c.operations = <<>> /\ c.cached = {}
    /\ \A id \in DOMAIN c.items :
          IF id \in c.initial THEN ToMode(c.items[id].display) = mode
                              ELSE c.items[id].display = "normal"

\* The modes of the selection can be asked by key or by id.
LEMMA SelectionById ==
    ASSUME NEW c, Good(c), NEW mode
    PROVE  SelectionIn(c, mode) <=> SelectionShown(c, mode)
<1>1. /\ DOMAIN State(c).items = KeyIndexSet(c)
      /\ KeyIndexSet(c) = {c.keys[id] : id \in DOMAIN c.items}
      /\ \A id \in DOMAIN c.items :
            /\ c.keys[id] \in KeyIndexSet(c)
            /\ State(c).items[c.keys[id]] = c.items[id]
            /\ c.keys[id] \in State(c).selected <=> id \in c.initial
  BY StateItems DEF Good
<1>2. ASSUME SelectionIn(c, mode) PROVE SelectionShown(c, mode)
  BY <1>1, <1>2 DEF SelectionIn, SelectionShown, NormalBut, ShownIn
<1>3. ASSUME SelectionShown(c, mode) PROVE SelectionIn(c, mode)
  <2>1. ASSUME NEW k \in DOMAIN State(c).items
        PROVE  IF k \in State(c).selected THEN ToMode(State(c).items[k].display) = mode
                                          ELSE State(c).items[k].display = "normal"
    <3>1. PICK id \in DOMAIN c.items : k = c.keys[id]
      BY <1>1, <2>1
    <3> QED
      BY <1>1, <1>3, <3>1 DEF SelectionShown
  <2> QED
    BY <1>3, <2>1 DEF SelectionIn, SelectionShown, NormalBut, ShownIn
<1> QED
  BY <1>2, <1>3

\* The drag is repeated with history.
LEMMA RepeatedMove ==
    ASSUME NEW rec, NEW c, NEW offset, Untracked(rec, c, offset), NEW keys, Ordered(c, keys),
           NEW d, d = RepeatMoveWithHistory(c, keys, offset)
    PROVE  /\ Editing(rec, d) /\ SelectionIn(d, "temporary")
           /\ d.items = c.items /\ d.keys = c.keys /\ d.initial = c.initial
<1> DEFINE b == Base(c, offset)
           s == InOrder(b, keys)
<1>1. /\ b.items = MovedItems(c.items, c.initial, -offset)
      /\ b.keys = c.keys /\ b.initial = c.initial /\ DOMAIN b = Fields
  BY BaseFields DEF Untracked
<1>2. /\ Editing(rec, b) /\ SelectionIn(b, "temporary") /\ offset \in Int /\ -offset \in Int
      /\ ItemsAre(c.items)
  BY DEF Untracked
<1>3. d = MoveSelectionUnchecked(b, s, offset)
  <2>1. b = [MoveVisible(c, keys, -offset) EXCEPT !.history = "track_undo_new"]
    BY TakenBackIsBase
  <2>2. d = MoveVisible([MoveVisible(c, keys, -offset) EXCEPT !.history = "track_undo_new"],
                        keys, offset)
    BY DEF RepeatMoveWithHistory
  <2> HIDE DEF b
  <2>3. d = MoveVisible(b, keys, offset)
    BY <2>1, <2>2
  <2> QED
    BY <2>3 DEF MoveVisible
<1>4. /\ DOMAIN c.items = DOMAIN b.items /\ ItemsAre(b.items)
      /\ c.initial \subseteq DOMAIN c.items
      /\ \A id \in c.initial : /\ c.items[id].display = "temporary"
                               /\ IsRepresentable(c.items[id].position + -offset)
  <2>1. /\ c.initial \subseteq DOMAIN c.items
        /\ \A id \in c.initial : /\ c.items[id].display = "temporary"
                                 /\ IsRepresentable(c.items[id].position + -offset)
    BY UntrackedIs
  <2> DEFINE back == -offset
  <2>2. back \in Int /\ b.items = MovedItems(c.items, c.initial, back)
        /\ \A id \in c.initial : IsRepresentable(c.items[id].position + back)
    BY <1>1, <1>2, <2>1
  <2> HIDE DEF back, b
  <2> QED
    BY <1>2, <2>1, <2>2, MovedAre
<1>5. Good(b) /\ Unstored(b) /\ b.operations = <<>> /\ b.cached = {}
      /\ KeysOK(b.keys, DOMAIN b.items)
  BY <1>2, EditingIs DEF SelectionIn, Sound, Shape
<1>6. ASSUME NEW j \in c.initial
      PROVE  /\ b.items[j].display = "temporary"
             /\ IsRepresentable(b.items[j].position + offset)
  <2> DEFINE x == c.items[j]
             y == b.items[j]
  <2>1. x \in Item /\ x.display = "temporary" /\ y = MovedItem(x, -offset)
    BY <1>1, <1>2, <1>4, <1>6 DEF ItemsAre, MovedItems
  <2> HIDE DEF x, y
  <2>2. y.display = "temporary" /\ y.position = x.position + -offset
        /\ x.position \in 1 .. Cells
    BY <2>1 DEF MovedItem, Item
  <2>3. y.position + offset = x.position
    BY <1>2, <2>2
  <2> QED
    BY <2>2, <2>3 DEF IsRepresentable, y
<1>7. Distinct(s) /\ Members(s) = b.initial
  <2>1. KeysOf(b, b.initial) = KeysOf(c, c.initial)
    BY <1>1 DEF KeysOf
  <2> HIDE DEF b
  <2> QED
    BY <1>1, <1>4, <1>5, <2>1, InOrderSelects DEF Ordered
<1> HIDE DEF s, b
<1>8. Rewinds(b, d) /\ ItemsOnly(b, d) /\ d.items = MovedItems(b.items, b.initial, offset)
  BY <1>1, <1>2, <1>3, <1>4, <1>5, <1>6, <1>7, MoveSelectionRewinds, MoveEffect
<1>9. d.items = c.items
  <2> DEFINE back == -offset
  <2>1. back \in Int /\ 0 = back + offset /\ 0 \in Int
    BY <1>2
  <2>2. b.items = MovedItems(c.items, c.initial, back)
    BY <1>1
  <2> HIDE DEF back
  <2>3. MovedItems(b.items, c.initial, offset) = MovedItems(c.items, c.initial, 0)
    BY <1>2, <2>1, <2>2, MovedTwice
  <2> QED
    BY <1>1, <1>2, <1>8, <2>1, <2>3, MovedNothing
<1>10. /\ d.keys = c.keys /\ d.initial = c.initial /\ d.operations = <<>> /\ d.cached = {}
       /\ Good(d) /\ Unstored(d)
  BY <1>1, <1>5, <1>8 DEF ItemsOnly, Rewinds, Unstored, Fields
<1>11. Editing(rec, d)
  BY <1>2, <1>8, <1>10, EditingOn
<1>12. SelectionIn(d, "temporary")
  <2>1. SelectionShown(b, "temporary")
    BY <1>2, <1>5, SelectionById
  <2>2. SelectionShown(d, "temporary")
    <3>1. ASSUME NEW id \in DOMAIN d.items
          PROVE  IF id \in d.initial THEN ToMode(d.items[id].display) = "temporary"
                                     ELSE d.items[id].display = "normal"
      <4>1. CASE id \in c.initial
        BY <1>4, <1>9, <1>10, <4>1 DEF ToMode
      <4>2. CASE id \notin c.initial
        <5>1. d.items[id] = b.items[id]
          BY <1>1, <1>4, <1>9, <4>2 DEF MovedItems
        <5> QED
          BY <1>1, <1>4, <1>9, <1>10, <2>1, <4>2, <5>1 DEF SelectionShown
      <4> QED
        BY <4>1, <4>2
    <3> QED
      BY <1>10, <3>1 DEF SelectionShown
  <2> QED
    BY <1>10, <2>2, SelectionById
<1> QED
  BY <1>9, <1>10, <1>11, <1>12

\* The history is switched off for a temporary selection.
LEMMA HistoryStopped ==
    ASSUME NEW rec, NEW c, Editing(rec, c), SelectionIn(c, "temporary"),
           c = [f \in DOMAIN c |-> c[f]],
           NEW d, d = [c EXCEPT !.history = "disabled"],
           NEW none, none = 0
    PROVE  Untracked(rec, d, none) /\ d.items = c.items /\ d.keys = c.keys /\ d.initial = c.initial
<1>1. Good(c) /\ c.history = "track_undo_new" /\ DOMAIN c = Fields
  BY EditingIs DEF Good, Sound, Shape
<1>2. ItemsAre(c.items)
  BY <1>1 DEF Good, Sound, Shape, ItemsOK, IsSeq, ItemsAre
<1>3. /\ DOMAIN d = Fields /\ d.items = c.items /\ d.history = "disabled"
      /\ d.keys = c.keys /\ d.nextKey = c.nextKey /\ d.loaded = c.loaded
      /\ d.stored = c.stored /\ d.initial = c.initial /\ d.operations = c.operations
      /\ d.cached = c.cached /\ d.undo = c.undo /\ d.redo = c.redo
      /\ d.failed = c.failed
  BY <1>1 DEF Fields
<1> DEFINE b == Base(d, none)
<1>4. b = c
  <2>1. /\ b = [f \in Fields |-> b[f]]
        /\ b.items = MovedItems(d.items, d.initial, -none)
        /\ b.history = "track_undo_new"
        /\ b.keys = d.keys /\ b.nextKey = d.nextKey /\ b.loaded = d.loaded
        /\ b.stored = d.stored /\ b.initial = d.initial /\ b.operations = d.operations
        /\ b.cached = d.cached /\ b.undo = d.undo /\ b.redo = d.redo
        /\ b.failed = d.failed
    BY ONLY <1>3, BaseFields
  <2>2. MovedItems(d.items, d.initial, -none) = c.items
    <3> DEFINE zero == -none
    <3>1. none = 0 /\ none \in Int
      OBVIOUS
    <3>2. zero \in Int /\ none + zero = 0
      BY <3>1
    <3>3. zero = 0
      <4> HIDE DEF zero
      <4> QED
        BY <3>1, <3>2
    <3> HIDE DEF zero
    <3>4. MovedItems(c.items, d.initial, zero) = c.items
      BY ONLY <1>2, <3>2, <3>3, MovedNothing
    <3> QED
      BY <1>3, <3>4 DEF zero
  <2>3. c = [f \in Fields |-> c[f]]
    BY <1>1
  <2> HIDE DEF b
  <2> QED
    BY ONLY <1>1, <1>3, <2>1, <2>2, <2>3, SameRecords
<1> HIDE DEF b
<1> QED
  BY <1>2, <1>3, <1>4 DEF Untracked, b

\* A change of the mode gives a circuit of the same fields.
LEMMA ModesGiveRecords ==
    ASSUME NEW c, NEW s, NEW mode, NEW d, d = ChangeSelectionMode(c, s, mode)
    PROVE  d = [f \in DOMAIN d |-> d[f]]
<1>1. \E a : d = [a EXCEPT !.stored = <<>>]
  BY Zenon DEF ChangeSelectionMode, Consume
<1> QED
  BY <1>1

\* The visible selection in another mode.
LEMMA VisibleMode ==
    ASSUME NEW rec, NEW c, Editing(rec, c), NEW from, SelectionIn(c, from),
           NEW keys, Ordered(c, keys),
           NEW mode \in Mode,
           NEW d, d = ChangeVisibleMode(ApplyAllVisibleSelectionOperations(c), keys, mode)
    PROVE  ModeChanged(rec, c, d, mode) /\ d = [f \in DOMAIN d |-> d[f]]
<1> DEFINE s == InOrder(c, keys)
<1>1. c.operations = <<>> /\ c.cached = {} /\ NormalBut(State(c), State(c).selected)
  BY DEF SelectionIn
<1>2. ApplyAllVisibleSelectionOperations(c) = c
  BY <1>1, Zenon DEF ApplyAllVisibleSelectionOperations
<1>3. d = ChangeSelectionMode(c, s, mode)
  BY <1>2 DEF ChangeVisibleMode
<1>4. c.initial \subseteq DOMAIN c.items /\ KeysOK(c.keys, DOMAIN c.items)
  BY EditingIs DEF Sound, Shape
<1>5. Distinct(s) /\ Members(s) = c.initial
  BY <1>1, <1>4, InOrderSelects DEF Ordered
<1> HIDE DEF s
<1>6. KeysOf(c, Members(s)) = State(c).selected
  BY <1>5 DEF State
<1> QED
  BY <1>1, <1>3, <1>4, <1>5, <1>6, ModeOfSelection, ModesGiveRecords

-----------------------------------------------------------------------------
(***************************************************************************)
(* A selection that is moved.                                              *)
(***************************************************************************)

SessionFields == {"circuit", "logic", "state", "recorded"}
MoveFields == {"type", "state", "mode", "deleteOnCancel", "historyExpected", "last", "total",
               "offset"}

\* The selection can be put back where its move began.
Movable(c, total) == \A id \in c.initial : IsRepresentable(c.items[id].position + -total)

IsMove(s) ==
    /\ DOMAIN s = SessionFields /\ DOMAIN s.logic = MoveFields
    /\ s.logic.type = "selection_move" /\ s.logic.mode \in Mode
    /\ s.logic.last \in Int /\ s.logic.total \in Int

SameMove(s, t) ==
    /\ IsMove(t) /\ t.state = s.state /\ t.recorded = s.recorded
    /\ t.logic.state = s.logic.state /\ t.logic.deleteOnCancel = s.logic.deleteOnCancel
    /\ t.logic.last = s.logic.last /\ t.logic.total = s.logic.total

\* A temporary selection is moved without history, one in another mode is not moved.
Temporary(s) == s.logic.historyExpected = FALSE /\ Untracked(s.recorded, s.circuit, s.logic.offset)
Placed(s, mode) == /\ s.logic.historyExpected = TRUE /\ s.logic.offset = 0
                   /\ Editing(s.recorded, s.circuit) /\ SelectionIn(s.circuit, mode)
MovesBack(s) == Movable(s.circuit, s.logic.total)
MoveOK(s) == /\ IsMove(s)
             /\ IF s.logic.mode = "temporary" THEN Temporary(s) ELSE Placed(s, s.logic.mode)

\* The class contract that SelectionMoveLogic checks after its calls holds.
LEMMA ContractHolds ==
    ASSUME NEW s, MoveOK(s) PROVE Checked(s) = s
<1> DEFINE c == s.circuit
<1>1. MoveContract(s)
  <2>1. CASE s.logic.mode = "temporary"
    <3>1. s.logic.historyExpected = FALSE /\ Untracked(s.recorded, c, s.logic.offset)
      BY <2>1 DEF MoveOK, Temporary
    <3>2. c.history = "disabled"
      BY <3>1 DEF Untracked
    <3>3. /\ c.operations = <<>> /\ c.cached = {}
          /\ \A id \in c.initial : c.items[id].display = "temporary"
      <4> DEFINE rec == s.recorded
                 offset == s.logic.offset
      <4>1. Untracked(rec, c, offset)
        BY <3>1
      <4> HIDE DEF rec, offset, c
      <4> QED
        BY <4>1, UntrackedIs
    <3>4. VisibleSelection(c) = c.initial
      BY <3>3, VisibleIsInitial
    <3>5. \A id \in VisibleSelection(c) : ToMode(c.items[id].display) = "temporary"
      BY <3>3, <3>4 DEF ToMode
    <3> QED
      BY <2>1, <3>1, <3>2, <3>5 DEF MoveContract
  <2>2. CASE s.logic.mode # "temporary"
    <3>1. s.logic.historyExpected = TRUE /\ Editing(s.recorded, c) /\ SelectionIn(c, s.logic.mode)
      BY <2>2 DEF MoveOK, Placed
    <3>2. c.history = "track_undo_new" /\ Good(c) /\ c.initial \subseteq DOMAIN c.items
      BY <3>1, EditingIs DEF Sound, Shape
    <3>3. SelectionShown(c, s.logic.mode)
      BY <3>1, <3>2, SelectionById
    <3>4. VisibleSelection(c) = c.initial
      BY <3>3, VisibleIsInitial DEF SelectionShown
    <3>5. \A id \in VisibleSelection(c) : ToMode(c.items[id].display) = s.logic.mode
      BY <3>2, <3>3, <3>4 DEF SelectionShown
    <3> QED
      BY <3>1, <3>2, <3>5 DEF MoveContract
  <2> QED
    BY <2>1, <2>2
<1> QED
  BY <1>1 DEF Checked

\* A selection that can be put back still can after its mode has changed.
LEMMA MovableOn ==
    ASSUME NEW c, Good(c), NEW d, Good(d), PositionsKept(State(c), State(d)),
           State(d).selected = State(c).selected \cap DOMAIN State(d).items,
           NEW total, Movable(c, total)
    PROVE  Movable(d, total)
<1>1. ASSUME NEW id \in d.initial
      PROVE  IsRepresentable(d.items[id].position + -total)
  <2>1. d.initial \subseteq DOMAIN d.items /\ Sound(d) /\ Sound(c)
    BY DEF Good, Sound, Shape
  <2> DEFINE k == d.keys[id]
             j == IdOf(c, k)
  <2>2. /\ k \in DOMAIN State(d).items /\ State(d).items[k] = d.items[id]
        /\ k \in State(d).selected
    BY <1>1, <2>1, StateItems
  <2>3. /\ k \in DOMAIN State(c).items
        /\ State(d).items[k].position = State(c).items[k].position
        /\ k \in State(c).selected
    BY <2>2 DEF PositionsKept
  <2> HIDE DEF k
  <2>4. j \in DOMAIN c.items /\ c.keys[j] = k
    BY <2>1, <2>3, StateItems
  <2>5. j \in c.initial /\ State(c).items[k] = c.items[j]
    BY <2>1, <2>3, <2>4, StateItems
  <2> HIDE DEF j
  <2>6. IsRepresentable(c.items[j].position + -total)
    BY <2>5 DEF Movable
  <2> QED
    BY <2>2, <2>3, <2>5, <2>6
<1> QED
  BY <1>1 DEF Movable

\* Leaving the temporary mode.
Left(s, t) ==
    /\ SameMove(s, t) /\ t.logic.mode = s.logic.mode /\ Placed(t, s.logic.mode)
    /\ t.circuit.items = s.circuit.items /\ t.circuit.keys = s.circuit.keys
    /\ t.circuit.initial = s.circuit.initial

\* On leaving the temporary mode the drag is taken back, recorded, and its history on.
LEMMA TemporaryLeft ==
    ASSUME NEW s, MoveOK(s), NEW keys, Ordered(s.circuit, keys),
           NEW t, t = LeaveTemporary(s, keys)
    PROVE  Left(s, t)
<1>1. CASE s.logic.mode # "temporary"
  <2>1. t = s
    BY <1>1 DEF LeaveTemporary
  <2> QED
    BY <1>1, <2>1 DEF Left, SameMove, MoveOK
<1>2. CASE s.logic.mode = "temporary"
  <2> DEFINE c == s.circuit
             d == RepeatMoveWithHistory(c, keys, s.logic.offset)
  <2>1. t = [s EXCEPT !.circuit = d, !.logic.offset = 0, !.logic.historyExpected = TRUE]
    BY <1>2 DEF LeaveTemporary
  <2>2. Untracked(s.recorded, c, s.logic.offset) /\ IsMove(s)
    BY <1>2 DEF MoveOK, Temporary
  <2>3. /\ Editing(s.recorded, d) /\ SelectionIn(d, "temporary")
        /\ d.items = c.items /\ d.keys = c.keys /\ d.initial = c.initial
    BY <2>2, RepeatedMove
  <2> HIDE DEF d
  <2>4. /\ DOMAIN t = SessionFields /\ DOMAIN t.logic = MoveFields
        /\ t.circuit = d /\ t.state = s.state /\ t.recorded = s.recorded
        /\ t.logic.offset = 0 /\ t.logic.historyExpected = TRUE
        /\ t.logic.type = s.logic.type /\ t.logic.mode = s.logic.mode
        /\ t.logic.state = s.logic.state /\ t.logic.deleteOnCancel = s.logic.deleteOnCancel
        /\ t.logic.last = s.logic.last /\ t.logic.total = s.logic.total
    <3> DEFINE a == [s EXCEPT !.circuit = d]
               b == [a EXCEPT !.logic.offset = 0]
    <3>1. t = [b EXCEPT !.logic.historyExpected = TRUE]
      BY <2>1
    <3>2. /\ DOMAIN a = SessionFields /\ a.circuit = d /\ a.state = s.state
          /\ a.recorded = s.recorded
          /\ a.logic = s.logic
      BY <2>2 DEF IsMove, SessionFields
    <3> HIDE DEF a
    <3>3. /\ DOMAIN b = SessionFields /\ b.circuit = d /\ b.state = s.state
          /\ b.recorded = s.recorded
          /\ b.logic = [s.logic EXCEPT !.offset = 0]
      BY <3>2 DEF SessionFields
    <3> HIDE DEF b
    <3>4. /\ DOMAIN t = SessionFields /\ t.circuit = d /\ t.state = s.state
          /\ t.recorded = s.recorded
          /\ t.logic = [b.logic EXCEPT !.historyExpected = TRUE]
      BY <3>1, <3>3 DEF SessionFields
    <3> QED
      BY <2>2, <3>3, <3>4 DEF IsMove, MoveFields
  <2> QED
    BY <1>2, <2>2, <2>3, <2>4 DEF Left, SameMove, IsMove, Placed
<1> QED
  BY <1>1, <1>2

\* Entering a mode, still with history.
LEMMA ModeEntered ==
    ASSUME NEW s, NEW from, IsMove(s), Placed(s, from),
           NEW keys, Ordered(s.circuit, keys), NEW mode \in Mode,
           NEW t, t = EnterMode(s, keys, mode)
    PROVE  /\ SameMove(s, t) /\ t.logic.mode = mode /\ Placed(t, mode)
           /\ (MovesBack(s) => MovesBack(t)) /\ Ordered(t.circuit, keys)
           /\ t.circuit = [f \in DOMAIN t.circuit |-> t.circuit[f]]
<1> DEFINE c == s.circuit
           d == ChangeVisibleMode(ApplyAllVisibleSelectionOperations(c), keys, mode)
<1>1. t = [s EXCEPT !.circuit = d, !.logic.mode = mode]
  BY DEF EnterMode
<1>2. /\ s.logic.historyExpected = TRUE /\ s.logic.offset = 0
      /\ Editing(s.recorded, c) /\ SelectionIn(c, from)
  BY DEF Placed
<1>3. ModeChanged(s.recorded, c, d, mode) /\ d = [f \in DOMAIN d |-> d[f]]
  BY <1>2, VisibleMode
<1> HIDE DEF d
<1>4. /\ DOMAIN t = SessionFields /\ DOMAIN t.logic = MoveFields
      /\ t.circuit = d /\ t.state = s.state /\ t.recorded = s.recorded /\ t.logic.mode = mode
      /\ t.logic.offset = s.logic.offset
      /\ t.logic.historyExpected = s.logic.historyExpected
      /\ t.logic.type = s.logic.type
      /\ t.logic.state = s.logic.state /\ t.logic.deleteOnCancel = s.logic.deleteOnCancel
      /\ t.logic.last = s.logic.last /\ t.logic.total = s.logic.total
  BY <1>1 DEF IsMove, SessionFields, MoveFields
<1>5. SameMove(s, t) /\ Placed(t, mode)
  BY <1>2, <1>3, <1>4 DEF SameMove, IsMove, Placed, ModeChanged
<1>6. /\ PositionsKept(State(c), State(d)) /\ Editing(s.recorded, d)
      /\ State(d).selected = State(c).selected \cap DOMAIN State(d).items
  BY <1>3 DEF ModeChanged
<1>7. ASSUME MovesBack(s) PROVE Movable(d, s.logic.total)
  <2>1. Good(c) /\ Good(d)
    BY <1>2, <1>6, EditingIs
  <2> DEFINE n == s.logic.total
  <2>2. Movable(c, n)
    BY <1>7 DEF MovesBack
  <2> HIDE DEF n, c
  <2>3. Movable(d, n)
    BY <1>6, <2>1, <2>2, MovableOn
  <2> QED
    BY <2>3 DEF n
<1>8. Ordered(d, keys)
  <2>1. State(d).selected = KeysOf(d, d.initial) /\ State(c).selected = KeysOf(c, c.initial)
    BY DEF State
  <2> QED
    BY <1>6, <2>1 DEF Ordered
<1> QED
  BY <1>3, <1>4, <1>5, <1>7, <1>8 DEF MovesBack

\* A selection that enters the temporary mode is dragged without history from there.
LEMMA Stopped ==
    ASSUME NEW s, IsMove(s), Placed(s, s.logic.mode),
           s.circuit = [f \in DOMAIN s.circuit |-> s.circuit[f]],
           NEW keys, Ordered(s.circuit, keys), NEW t, t = StopHistory(s)
    PROVE  /\ SameMove(s, t) /\ t.logic.mode = s.logic.mode /\ MoveOK(t)
           /\ Ordered(t.circuit, keys) /\ (MovesBack(s) => MovesBack(t))
<1>1. CASE s.logic.mode # "temporary"
  BY <1>1 DEF StopHistory, SameMove, MoveOK
<1>2. CASE s.logic.mode = "temporary"
  <2> DEFINE c == s.circuit
             d == [c EXCEPT !.history = "disabled"]
             none == s.logic.offset
  <2>1. t = [s EXCEPT !.circuit.history = "disabled", !.logic.historyExpected = FALSE]
    BY <1>2 DEF StopHistory
  <2>2. Editing(s.recorded, c) /\ SelectionIn(c, "temporary") /\ none = 0
    BY <1>2 DEF Placed
  <2>3. c = [f \in DOMAIN c |-> c[f]]
    OBVIOUS
  <2>4. /\ Untracked(s.recorded, d, none) /\ d.items = c.items /\ d.keys = c.keys
        /\ d.initial = c.initial
    <3> HIDE DEF none, c
    <3> QED
      BY <2>2, <2>3, HistoryStopped
  <2>5. /\ DOMAIN t = SessionFields /\ DOMAIN t.logic = MoveFields
        /\ t.circuit = d /\ t.state = s.state /\ t.recorded = s.recorded
        /\ t.logic.historyExpected = FALSE /\ t.logic.offset = none
        /\ t.logic.type = s.logic.type /\ t.logic.mode = s.logic.mode
        /\ t.logic.state = s.logic.state /\ t.logic.deleteOnCancel = s.logic.deleteOnCancel
        /\ t.logic.last = s.logic.last /\ t.logic.total = s.logic.total
    BY <2>1 DEF IsMove, SessionFields, MoveFields
  <2> HIDE DEF d
  <2>6. SameMove(s, t) /\ Temporary(t)
    BY <2>4, <2>5 DEF SameMove, IsMove, Temporary
  <2>7. (MovesBack(s) => MovesBack(t)) /\ Ordered(t.circuit, keys)
    BY <2>4, <2>5 DEF MovesBack, Movable, Ordered, KeysOf
  <2> QED
    BY <1>2, <2>5, <2>6, <2>7 DEF MoveOK, SameMove
<1> QED
  BY <1>1, <1>2

\* A change of the mode of a moved selection keeps the move what it should be.
LEMMA Converted ==
    ASSUME NEW s, MoveOK(s), NEW keys, Ordered(s.circuit, keys), NEW mode \in Mode,
           NEW t, t = ConvertSelectionTo(s, keys, mode)
    PROVE  /\ SameMove(s, t) /\ t.logic.mode = mode /\ MoveOK(t) /\ Ordered(t.circuit, keys)
           /\ MovesBack(s) => MovesBack(t)
<1>1. Checked(s) = s
  BY ContractHolds
<1>2. CASE s.logic.mode = mode
  BY <1>1, <1>2 DEF ConvertSelectionTo, SameMove, MoveOK
<1>3. CASE s.logic.mode # mode
  <2> DEFINE a == LeaveTemporary(s, keys)
             b == EnterMode(a, keys, mode)
             e == StopHistory(b)
  <2>1. t = Checked(e)
    BY <1>1, <1>3 DEF ConvertSelectionTo
  <2>2. Left(s, a)
    BY TemporaryLeft
  <2> HIDE DEF a
  <2>3. IsMove(a) /\ Placed(a, s.logic.mode) /\ (MovesBack(s) => MovesBack(a))
        /\ Ordered(a.circuit, keys) /\ SameMove(s, a)
    BY <2>2 DEF Left, SameMove, MovesBack, Movable, Ordered, KeysOf, MoveOK
  <2>4. /\ SameMove(a, b) /\ b.logic.mode = mode /\ Placed(b, mode)
        /\ (MovesBack(a) => MovesBack(b)) /\ Ordered(b.circuit, keys)
        /\ b.circuit = [f \in DOMAIN b.circuit |-> b.circuit[f]]
    BY <2>3, ModeEntered
  <2> HIDE DEF b
  <2>5. /\ SameMove(b, e) /\ e.logic.mode = mode /\ MoveOK(e) /\ Ordered(e.circuit, keys)
        /\ (MovesBack(b) => MovesBack(e))
    <3>1. IsMove(b) /\ Placed(b, b.logic.mode)
      BY <2>4 DEF SameMove
    <3> QED
      BY <2>4, <3>1, Stopped
  <2> HIDE DEF e
  <2>6. t = e
    BY <2>1, <2>5, ContractHolds
  <2> QED
    BY <2>3, <2>4, <2>5, <2>6 DEF SameMove
<1> QED
  BY <1>2, <1>3

\* The same move, further on.
StillMoving(s, t) ==
    /\ IsMove(t) /\ t.state = s.state /\ t.recorded = s.recorded
    /\ t.logic.state = s.logic.state /\ t.logic.deleteOnCancel = s.logic.deleteOnCancel

\* Dragging on is dragging by the sum, and the history does not see it.
LEMMA UnrestrictedMove ==
    ASSUME NEW rec, NEW c, NEW offset, Untracked(rec, c, offset), NEW keys, Ordered(c, keys),
           NEW delta \in Int, NEW total \in Int,
           NEW after, after = total + delta,
           \A id \in c.initial : IsRepresentable(c.items[id].position + delta),
           NEW d, d = MoveVisible(c, keys, delta)
    PROVE  /\ Untracked(rec, d, offset + delta) /\ Ordered(d, keys)
           /\ Movable(c, total) => Movable(d, after)
<1>1. ItemsOnly(c, d) /\ d.items = MovedItems(c.items, c.initial, delta)
      /\ Untracked(rec, d, offset + delta)
  BY UntrackedMoves
<1>2. d.keys = c.keys /\ d.initial = c.initial
  BY <1>1 DEF ItemsOnly
<1>3. Ordered(d, keys)
  BY <1>2 DEF Ordered, KeysOf
<1>4. ASSUME Movable(c, total), NEW id \in d.initial
      PROVE  IsRepresentable(d.items[id].position + -after)
  <2> DEFINE x == c.items[id]
             y == d.items[id]
  <2>1. id \in c.initial /\ id \in DOMAIN c.items /\ x \in Item
    BY <1>2, <1>4, UntrackedIs DEF Untracked, ItemsAre
  <2>2. y = MovedItem(x, delta) /\ IsRepresentable(x.position + -total)
    BY <1>1, <1>4, <2>1 DEF MovedItems, Movable
  <2> HIDE DEF x, y
  <2>3. y.position = x.position + delta /\ x.position \in Int
    BY <2>1, <2>2 DEF MovedItem, Item
  <2>4. y.position + -after = x.position + -total
    BY <2>3
  <2> QED
    BY <2>2, <2>4 DEF y
<1> QED
  BY <1>1, <1>3, <1>4 DEF Movable

\* A move by a distance keeps the move what it should be,
LEMMA MovedBy ==
    ASSUME NEW s, MoveOK(s), MovesBack(s), s.logic.mode = "temporary",
           NEW keys, Ordered(s.circuit, keys), NEW delta \in Int,
           NEW t, t = MoveTemporaryBy(s, keys, delta)
    PROVE  StillMoving(s, t) /\ MoveOK(t) /\ MovesBack(t) /\ Ordered(t.circuit, keys)
<1> DEFINE c == s.circuit
           d == MoveVisible(c, keys, delta)
<1>1. /\ IsMove(s) /\ Untracked(s.recorded, c, s.logic.offset) /\ s.logic.historyExpected = FALSE
  BY DEF MoveOK, Temporary
<1>2. VisibleSelection(c) = c.initial
  BY <1>1, UntrackedIs, VisibleIsInitial
<1>3. CASE \E id \in VisibleSelection(c) : ~IsRepresentable(c.items[id].position + delta)
  <2>1. t = s
    BY <1>3 DEF MoveTemporaryBy
  <2> QED
    BY <1>1, <2>1 DEF StillMoving
<1>4. CASE \A id \in VisibleSelection(c) : IsRepresentable(c.items[id].position + delta)
  <2> DEFINE a == [s EXCEPT !.circuit = d]
             b == [a EXCEPT !.logic.last = @ + delta]
             e == [b EXCEPT !.logic.total = @ + delta]
  <2>1. t = [e EXCEPT !.logic.offset = @ + delta]
    BY <1>4 DEF MoveTemporaryBy
  <2>2. /\ DOMAIN a = SessionFields /\ a.circuit = d /\ a.state = s.state /\ a.recorded = s.recorded
        /\ a.logic = s.logic
    BY <1>1 DEF IsMove, SessionFields
  <2> HIDE DEF a
  <2>3. /\ DOMAIN b = SessionFields /\ b.circuit = d /\ b.state = s.state /\ b.recorded = s.recorded
        /\ b.logic = [s.logic EXCEPT !.last = @ + delta]
    BY <2>2 DEF SessionFields
  <2> HIDE DEF b
  <2>4. /\ DOMAIN e = SessionFields /\ e.circuit = d /\ e.state = s.state /\ e.recorded = s.recorded
        /\ e.logic = [b.logic EXCEPT !.total = @ + delta]
    BY <2>3 DEF SessionFields
  <2> HIDE DEF e
  <2>5. /\ DOMAIN t = SessionFields /\ t.circuit = d /\ t.state = s.state /\ t.recorded = s.recorded
        /\ t.logic = [e.logic EXCEPT !.offset = @ + delta]
    BY <2>1, <2>4 DEF SessionFields
  <2>6. /\ DOMAIN t.logic = MoveFields
        /\ t.logic.offset = s.logic.offset + delta
        /\ t.logic.historyExpected = s.logic.historyExpected
        /\ t.logic.type = s.logic.type /\ t.logic.mode = s.logic.mode
        /\ t.logic.state = s.logic.state /\ t.logic.deleteOnCancel = s.logic.deleteOnCancel
        /\ t.logic.last = s.logic.last + delta /\ t.logic.total = s.logic.total + delta
    BY <1>1, <2>3, <2>4, <2>5 DEF IsMove, MoveFields
  <2>7. StillMoving(s, t)
    BY <1>1, <2>5, <2>6 DEF StillMoving, IsMove
  <2> DEFINE o == s.logic.offset
             m == s.logic.total
             n == t.logic.total
  <2>8. m \in Int /\ n = m + delta /\ Untracked(s.recorded, c, o) /\ Movable(c, m)
        /\ \A id \in c.initial : IsRepresentable(c.items[id].position + delta)
    BY <1>1, <1>2, <1>4, <2>6 DEF IsMove, MovesBack
  <2>9. /\ Untracked(s.recorded, d, o + delta) /\ Ordered(d, keys) /\ Movable(d, n)
    <3> HIDE DEF c, m, n, o
    <3>1. d = MoveVisible(c, keys, delta) /\ Ordered(c, keys)
      BY DEF c
    <3> HIDE DEF d
    <3> QED
      BY <2>8, <3>1, UnrestrictedMove
  <2> QED
    BY <1>1, <2>5, <2>6, <2>7, <2>9 DEF MoveOK, StillMoving, Temporary, MovesBack
<1> QED
  BY <1>3, <1>4

\* a move to a point too,
LEMMA MovedTo ==
    ASSUME NEW s, MoveOK(s), MovesBack(s), NEW keys, Ordered(s.circuit, keys), NEW p \in Int,
           NEW t, t = MoveSelectionTo(s, keys, p)
    PROVE  StillMoving(s, t) /\ MoveOK(t) /\ MovesBack(t) /\ Ordered(t.circuit, keys)
<1>1. CASE p = s.logic.last
  BY <1>1 DEF MoveSelectionTo, StillMoving, MoveOK
<1>2. CASE p # s.logic.last
  <2> DEFINE a == ConvertSelectionTo(s, keys, "temporary")
             delta == p - s.logic.last
  <2>1. t = MoveTemporaryBy(a, keys, delta) /\ delta \in Int
    BY <1>2 DEF MoveSelectionTo, MoveOK, IsMove
  <2>2. "temporary" \in Mode
    BY DEF Mode
  <2>3. SameMove(s, a) /\ a.logic.mode = "temporary" /\ MoveOK(a) /\ Ordered(a.circuit, keys)
        /\ MovesBack(a)
    BY <2>2, Converted
  <2> HIDE DEF a, delta
  <2>4. StillMoving(a, t) /\ MoveOK(t) /\ MovesBack(t) /\ Ordered(t.circuit, keys)
    BY <2>1, <2>3, MovedBy
  <2> QED
    BY <2>3, <2>4 DEF StillMoving, SameMove
<1> QED
  BY <1>1, <1>2

\* and so does the move back to where it began.
LEMMA Restored ==
    ASSUME NEW s, MoveOK(s), MovesBack(s), NEW keys, Ordered(s.circuit, keys),
           NEW t, t = RestoreOriginalPositions(s, keys)
    PROVE  StillMoving(s, t) /\ MoveOK(t) /\ Ordered(t.circuit, keys)
<1>1. CASE s.logic.total = 0
  BY <1>1 DEF RestoreOriginalPositions, StillMoving, MoveOK
<1>2. CASE s.logic.total # 0
  <2> DEFINE a == ConvertSelectionTo(s, keys, "temporary")
  <2>1. t = TakeBack(a, keys)
    BY <1>2 DEF RestoreOriginalPositions
  <2>2. "temporary" \in Mode
    BY DEF Mode
  <2>3. SameMove(s, a) /\ a.logic.mode = "temporary" /\ MoveOK(a) /\ Ordered(a.circuit, keys)
        /\ MovesBack(a)
    BY <2>2, Converted
  <2> HIDE DEF a
  <2> DEFINE c == a.circuit
             o == a.logic.offset
             m == a.logic.total
             back == -m
             d == MoveVisible(c, keys, back)
  <2>4. /\ IsMove(a) /\ Untracked(s.recorded, c, o) /\ a.logic.historyExpected = FALSE
    <3>1. a.recorded = s.recorded /\ IsMove(a)
      BY <2>3 DEF SameMove
    <3>2. Temporary(a)
      BY <2>3 DEF MoveOK
    <3> QED
      BY <3>1, <3>2 DEF Temporary
  <2>5. m \in Int /\ back \in Int /\ o \in Int /\ o - m = o + back
    BY <2>4 DEF IsMove, Untracked
  <2>6. \A id \in c.initial : IsRepresentable(c.items[id].position + back)
    BY <2>3 DEF MovesBack, Movable
  <2>7. Untracked(s.recorded, d, o + back) /\ Ordered(d, keys)
    <3> HIDE DEF c, o, m, back
    <3>1. Ordered(c, keys)
      BY <2>3 DEF c
    <3> DEFINE none == m + back
    <3>2. none = m + back
      OBVIOUS
    <3> HIDE DEF none
    <3>3. d = MoveVisible(c, keys, back)
      OBVIOUS
    <3> HIDE DEF d
    <3> QED
      BY ONLY <2>4, <2>5, <2>6, <3>1, <3>2, <3>3, UnrestrictedMove
  <2>8. t = [[a EXCEPT !.logic.offset = @ - m] EXCEPT !.circuit = d]
    BY <2>1 DEF TakeBack
  <2> HIDE DEF d, back
  <2> DEFINE b == [a EXCEPT !.logic.offset = @ - m]
  <2>9. /\ DOMAIN b = SessionFields /\ b.state = a.state /\ b.recorded = a.recorded
        /\ b.logic = [a.logic EXCEPT !.offset = @ - m]
    BY <2>4 DEF IsMove, SessionFields
  <2>10. t = [b EXCEPT !.circuit = d]
    BY <2>8
  <2> HIDE DEF b
  <2>11. /\ DOMAIN t = SessionFields /\ t.state = a.state /\ t.recorded = a.recorded
         /\ t.circuit = d
         /\ t.logic = b.logic
    BY <2>9, <2>10 DEF SessionFields
  <2>12. /\ DOMAIN t.logic = MoveFields
         /\ t.logic.offset = o - m
         /\ t.logic.historyExpected = a.logic.historyExpected
         /\ t.logic.type = a.logic.type /\ t.logic.mode = a.logic.mode
         /\ t.logic.state = a.logic.state /\ t.logic.deleteOnCancel = a.logic.deleteOnCancel
         /\ t.logic.last = a.logic.last /\ t.logic.total = a.logic.total
    BY <2>4, <2>9, <2>11 DEF IsMove, MoveFields
  <2> HIDE DEF o, m
  <2>13. StillMoving(a, t)
    BY <2>4, <2>11, <2>12 DEF StillMoving, IsMove
  <2>14. MoveOK(t)
    <3>1. t.recorded = s.recorded
      BY <2>3, <2>11 DEF SameMove
    <3>2. Temporary(t)
      BY <2>4, <2>5, <2>7, <2>11, <2>12, <3>1 DEF Temporary
    <3> QED
      BY <2>3, <2>12, <2>13, <3>2 DEF MoveOK, StillMoving
  <2> QED
    BY <2>3, <2>7, <2>11, <2>13, <2>14 DEF StillMoving, SameMove
<1> QED
  BY <1>1, <1>2

-----------------------------------------------------------------------------
(***************************************************************************)
(* Mouse logics are finalized.                                             *)
(***************************************************************************)

\* What a session is between gestures.
Ended(s, t) == DOMAIN t = SessionFields /\ Rests(t.recorded, t.circuit) /\ t.state = s.state

\* Finishing a group where everything is inserted brings the circuit to rest.
LEMMA FinishEnds ==
    ASSUME NEW s, DOMAIN s = SessionFields, Editing(s.recorded, s.circuit), Calm(State(s.circuit)),
           NEW t, t = Finish(s)
    PROVE  Ended(s, t) /\ t.logic = s.logic
<1> DEFINE d == FinishUndoGroup(s.circuit)
           a == [s EXCEPT !.circuit = d]
           x == FinishedRecord(s.circuit, s.recorded)
<1>1. t = [a EXCEPT !.recorded = x]
  BY DEF Finish
<1>2. Rests(x, d)
  BY FinishRests
<1>3. DOMAIN a = SessionFields /\ a.circuit = d /\ a.state = s.state /\ a.logic = s.logic
  BY DEF SessionFields
<1> HIDE DEF d, a, x
<1>4. /\ DOMAIN t = SessionFields /\ t.circuit = d /\ t.state = s.state /\ t.logic = s.logic
      /\ t.recorded = x
  BY <1>1, <1>3 DEF SessionFields
<1> QED
  BY <1>2, <1>4 DEF Ended

\* A pasted selection that is cancelled goes.
LEMMA PasteCancelled ==
    ASSUME NEW s, MoveOK(s), s.logic.mode = "collisions", NEW keys, Ordered(s.circuit, keys),
           NEW t, t = [s EXCEPT !.circuit = DeleteAll(@, InOrder(@, keys))]
    PROVE  StillMoving(s, t) /\ MoveOK(t) /\ Ordered(t.circuit, keys)
<1> DEFINE c == s.circuit
           order == InOrder(c, keys)
           d == DeleteAll(c, order)
<1>0. t = [s EXCEPT !.circuit = d]
  OBVIOUS
<1>1. IsMove(s) /\ Placed(s, "collisions")
  BY DEF MoveOK
<1>2. Editing(s.recorded, c) /\ SelectionIn(c, "collisions")
  BY <1>1 DEF Placed
<1>3. Good(c) /\ Unstored(c) /\ c.operations = <<>> /\ c.cached = {}
      /\ c.initial \subseteq DOMAIN c.items /\ KeysOK(c.keys, DOMAIN c.items)
  BY <1>2, EditingIs DEF SelectionIn, Sound, Shape
<1>4. Distinct(order) /\ Members(order) = c.initial
  BY <1>3, InOrderSelects DEF Ordered
<1> HIDE DEF order
<1>5. /\ Rewinds(c, d) /\ KeysGone(State(c), State(d), KeysOf(c, Members(order)))
      /\ d.stored = <<>>
  BY <1>3, <1>4, DeleteAllGone
<1> HIDE DEF d
<1>6. /\ t.circuit = d /\ t.logic = s.logic /\ DOMAIN t = SessionFields /\ t.state = s.state
      /\ t.recorded = s.recorded
  BY ONLY <1>0, <1>1 DEF IsMove, SessionFields
<1>7. Good(d) /\ Unstored(d) /\ Editing(s.recorded, d)
  <2>1. Good(d)
    BY <1>5 DEF Rewinds
  <2> QED
    BY <1>2, <1>5, <2>1, NothingStoredIn, EditingOn
<1>8. KeysOf(c, Members(order)) = State(c).selected
  BY <1>4 DEF State
<1>9. /\ State(d).selected = {} /\ State(d).operations = State(c).operations
      /\ DOMAIN State(d).items = DOMAIN State(c).items \ State(c).selected
      /\ \A k \in DOMAIN State(d).items : State(d).items[k] = State(c).items[k]
  BY <1>5, <1>8 DEF KeysGone
<1>10. d.operations = <<>> /\ d.cached = {}
  <2>1. d.operations = <<>>
    BY <1>3, <1>9 DEF State
  <2> QED
    BY <1>7, <2>1, NothingCached
<1>11. SelectionIn(d, "collisions")
  BY <1>2, <1>9, <1>10 DEF SelectionIn, NormalBut, ShownIn
<1>12. Ordered(d, keys)
  <2>1. KeysOf(d, d.initial) = {}
    BY <1>9 DEF State
  <2> QED
    BY <2>1 DEF Ordered
<1> QED
  BY <1>1, <1>6, <1>7, <1>11, <1>12 DEF StillMoving, MoveOK, Placed, IsMove

\* However a move ends, confirmed or cancelled, the circuit rests after it.
LEMMA MoveFinalized ==
    ASSUME NEW s, MoveOK(s), MovesBack(s), NEW keys, Ordered(s.circuit, keys),
           ~IsFinished(s.logic) /\ s.logic.deleteOnCancel => s.logic.mode = "collisions",
           NEW t, t = FinalizeMove(s, keys)
    PROVE  Ended(s, t)
<1>1. PICK a : /\ t = Finish(ConvertSelectionTo(a, keys, "insert_or_discard"))
               /\ StillMoving(s, a) /\ MoveOK(a) /\ Ordered(a.circuit, keys)
  <2>1. CASE IsFinished(s.logic)
    <3>1. t = Finish(ConvertSelectionTo(s, keys, "insert_or_discard"))
      BY <2>1, Zenon DEF FinalizeMove
    <3> QED
      BY <3>1 DEF StillMoving, MoveOK
  <2>2. CASE ~IsFinished(s.logic) /\ s.logic.deleteOnCancel
    <3> DEFINE a == [s EXCEPT !.circuit = DeleteAll(@, InOrder(@, keys))]
    <3>1. t = Finish(ConvertSelectionTo(a, keys, "insert_or_discard"))
      BY <2>2, Zenon DEF FinalizeMove
    <3>2. StillMoving(s, a) /\ MoveOK(a) /\ Ordered(a.circuit, keys)
      BY <2>2, PasteCancelled
    <3> HIDE DEF a
    <3> QED
      BY <3>1, <3>2
  <2>3. CASE ~IsFinished(s.logic) /\ ~s.logic.deleteOnCancel
    <3> DEFINE a == RestoreOriginalPositions(s, keys)
    <3>1. t = Finish(ConvertSelectionTo(a, keys, "insert_or_discard"))
      BY <2>3, Zenon DEF FinalizeMove
    <3>2. StillMoving(s, a) /\ MoveOK(a) /\ Ordered(a.circuit, keys)
      BY Restored
    <3> HIDE DEF a
    <3> QED
      BY <3>1, <3>2
  <2> QED
    BY <2>1, <2>2, <2>3
<1> DEFINE b == ConvertSelectionTo(a, keys, "insert_or_discard")
<1>2. SameMove(a, b) /\ b.logic.mode = "insert_or_discard" /\ MoveOK(b)
  <2>1. "insert_or_discard" \in Mode
    BY DEF Mode
  <2> QED
    BY <1>1, <2>1, Converted
<1>3. t = Finish(b)
  BY <1>1
<1> HIDE DEF b
<1>4. /\ Editing(b.recorded, b.circuit) /\ SelectionIn(b.circuit, "insert_or_discard")
      /\ DOMAIN b = SessionFields /\ b.state = s.state /\ b.recorded = s.recorded
  BY <1>1, <1>2 DEF MoveOK, Placed, IsMove, SameMove, StillMoving
<1>5. Calm(State(b.circuit))
  BY <1>4, InsertedIsCalm
<1>6. Ended(b, t)
  BY <1>3, <1>4, <1>5, FinishEnds
<1> QED
  BY <1>4, <1>6 DEF Ended

-----------------------------------------------------------------------------
(***************************************************************************)
(* The other mouse logics.                                                 *)
(***************************************************************************)

\* A rectangle that selects: every item is inserted.
AllNormal(st) == \A k \in DOMAIN st.items : st.items[k].display = "normal"

IsArea(s) == /\ DOMAIN s = SessionFields /\ DOMAIN s.logic = {"type", "first", "keep"}
             /\ s.logic.type = "selection_area" /\ s.logic.first \in Points
AreaOK(s) == IsArea(s) /\ Editing(s.recorded, s.circuit) /\ AllNormal(State(s.circuit))

SingleOK(s) == /\ DOMAIN s = SessionFields /\ s.logic.type = "selection_single"
               /\ Editing(s.recorded, s.circuit) /\ Calm(State(s.circuit))

IsInsertion(s) ==
    /\ DOMAIN s = SessionFields /\ DOMAIN s.logic = {"type", "def", "temp"}
    /\ s.logic.type = "insert_logicitem" /\ s.logic.def \in Definition
InsertionOK(s) == IsInsertion(s) /\ Inserting(s.recorded, s.circuit, s.logic.temp)

\* Applying the rectangles of a selection leaves everything inserted.
LEMMA OperationsApplied ==
    ASSUME NEW rec, NEW c, Editing(rec, c), AllNormal(State(c)),
           NEW d, d = ApplyAllVisibleSelectionOperations(c)
    PROVE  Editing(rec, d) /\ Calm(State(d))
<1>1. Good(c) /\ Unstored(c) /\ State(c).operations = c.operations
  BY EditingIs DEF State
<1>2. CASE c.operations = <<>>
  <2>1. d = c
    BY <1>2, Zenon DEF ApplyAllVisibleSelectionOperations
  <2> QED
    BY <1>1, <1>2, <2>1 DEF Calm, AllNormal
<1>3. CASE c.operations # <<>>
  <2> DEFINE ids == VisibleSelection(c)
  <2>1. d = SetVisibleSelection(c, ids)
    BY <1>3, Zenon DEF ApplyAllVisibleSelectionOperations
  <2>2. ids \subseteq DOMAIN c.items
    BY <1>1, ReadSound, SelectionWithin DEF Good
  <2> HIDE DEF ids
  <2>3. SelectedNow(c, d, ids)
    BY <1>1, <2>1, <2>2, SelectSets
  <2>4. Rewinds(c, d) /\ Unstored(d) /\ State(d).items = State(c).items
        /\ State(d).operations = <<>>
    BY <2>3 DEF SelectedNow
  <2> QED
    BY <2>4, EditingOn DEF Calm, AllNormal
<1> QED
  BY <1>2, <1>3

\* Operations of a selection change no items.
LEMMA OperationsKeepItems ==
    ASSUME NEW rec, NEW c, Editing(rec, c), AllNormal(State(c)), NEW d, Rewinds(c, d), Unstored(d),
           NEW operations, State(d) = WithOperations(State(c), operations)
    PROVE  Editing(rec, d) /\ AllNormal(State(d))
<1>1. State(d).items = State(c).items
  BY DEF WithOperations, State
<1> QED
  BY <1>1, EditingOn DEF AllNormal

\* In a calm circuit every item is inserted.
LEMMA CalmIsNormal == ASSUME NEW st, Calm(st) PROVE AllNormal(st)
BY DEF Calm, AllNormal

\* Dragging a selection rectangle goes on,
LEMMA AreaUpdated ==
    ASSUME NEW s, AreaOK(s), NEW p \in Points, NEW t, t = AreaUpdate(s, p)
    PROVE  AreaOK(t) /\ t.state = s.state /\ t.recorded = s.recorded /\ t.logic = s.logic
<1>1. CASE s.circuit.operations = <<>>
  BY <1>1 DEF AreaUpdate
<1>2. CASE s.circuit.operations # <<>>
  <2> DEFINE c == s.circuit
             r == Cover(s.logic.first, p)
             d == UpdateLastVisibleSelectionRect(c, r)
  <2>1. t = [s EXCEPT !.circuit = d]
    BY <1>2 DEF AreaUpdate
  <2>2. r \in Rects
    BY PointsAreCovered DEF AreaOK, IsArea
  <2> HIDE DEF r
  <2>3. /\ Editing(s.recorded, c) /\ AllNormal(State(c)) /\ Good(c) /\ Unstored(c)
    BY EditingIs DEF AreaOK
  <2>4. Rewinds(c, d) /\ State(d) = WithOperations(State(c), WithRect(c.operations, r))
    BY <1>2, <2>2, <2>3, UpdateLastRewinds
  <2>5. Unstored(d)
    BY <2>3, VisibleUnstored
  <2> HIDE DEF d
  <2>6. Editing(s.recorded, d) /\ AllNormal(State(d))
    BY <2>3, <2>4, <2>5, OperationsKeepItems
  <2>7. /\ DOMAIN t = SessionFields /\ t.circuit = d /\ t.state = s.state
        /\ t.recorded = s.recorded /\ t.logic = s.logic
    BY <2>1 DEF AreaOK, IsArea, SessionFields
  <2> QED
    BY <2>6, <2>7 DEF AreaOK, IsArea
<1> QED
  BY <1>1, <1>2

\* begins,
LEMMA AreaBegun ==
    ASSUME NEW s, DOMAIN s = SessionFields, Rests(s.recorded, s.circuit), NEW p \in Points,
           NEW modifier, NEW t, t = AreaPress(s, p, modifier)
    PROVE  AreaOK(t) /\ t.state = s.state /\ t.recorded = s.recorded
<1> DEFINE c == s.circuit
           op == [function |-> IF modifier = "alt" THEN "substract" ELSE "add",
                  rect |-> Cover(p, p)]
           a == IF modifier = "none" THEN SetVisibleSelection(c, {}) ELSE c
           d == AddVisibleSelectionRect(a, op)
           l == SelectionArea(p)
<1>1. t = [s EXCEPT !.circuit = d, !.logic = l]
  BY DEF AreaPress
<1>2. op \in Operation
  BY PointsAreCovered DEF Operation, SelectionFunction
<1>3. Editing(s.recorded, c) /\ AllNormal(State(c)) /\ Good(c) /\ Unstored(c)
  BY RestsIs, EditingIs, CalmIsNormal
<1>4. Editing(s.recorded, a) /\ AllNormal(State(a))
  <2>1. CASE modifier = "none"
    <3>1. SelectedNow(c, SetVisibleSelection(c, {}), {})
      BY <1>3, SelectSets
    <3>2. SelectedNow(c, a, {})
      BY <2>1, <3>1
    <3> HIDE DEF a
    <3>3. Rewinds(c, a) /\ Unstored(a) /\ State(a).items = State(c).items
      BY <3>2 DEF SelectedNow
    <3> QED
      BY <1>3, <3>3, EditingOn DEF AllNormal
  <2>2. CASE modifier # "none"
    BY <1>3, <2>2
  <2> QED
    BY <2>1, <2>2
<1> HIDE DEF a, op
<1>5. Good(a) /\ Unstored(a)
  BY <1>4, EditingIs
<1>6. /\ Rewinds(a, d) /\ State(d) = WithOperations(State(a), Append(a.operations, op))
      /\ Unstored(d)
  BY <1>2, <1>5, AddRectRewinds, VisibleUnstored
<1> HIDE DEF d
<1>7. Editing(s.recorded, d) /\ AllNormal(State(d))
  BY <1>4, <1>6, OperationsKeepItems
<1>8. /\ DOMAIN t = SessionFields /\ t.circuit = d /\ t.state = s.state /\ t.recorded = s.recorded
      /\ t.logic = l
  BY <1>1 DEF SessionFields
<1> QED
  BY <1>7, <1>8 DEF AreaOK, IsArea, SelectionArea

\* and ends with the rectangles applied.
LEMMA AreaFinalized ==
    ASSUME NEW s, AreaOK(s), NEW t, t = FinalizeArea(s)
    PROVE  Ended(s, t)
<1> DEFINE c == s.circuit
           a == IF s.logic.keep \/ c.operations = <<>> THEN c
                ELSE PopLastVisibleSelectionRect(c)
           d == ApplyAllVisibleSelectionOperations(a)
           b == [s EXCEPT !.circuit = d]
<1>1. t = Finish(b)
  BY DEF FinalizeArea
<1>2. /\ Editing(s.recorded, c) /\ AllNormal(State(c)) /\ Good(c) /\ Unstored(c)
      /\ DOMAIN s = SessionFields
  BY EditingIs DEF AreaOK, IsArea
<1>3. Editing(s.recorded, a) /\ AllNormal(State(a))
  <2>1. CASE s.logic.keep \/ c.operations = <<>>
    BY <1>2, <2>1
  <2>2. CASE ~(s.logic.keep \/ c.operations = <<>>)
    <3>1. a = PopLastVisibleSelectionRect(c)
      BY <2>2
    <3> HIDE DEF a
    <3>2. /\ Rewinds(c, a) /\ State(a) = WithOperations(State(c), Front(c.operations))
          /\ Unstored(a)
      BY <1>2, <2>2, <3>1, PopLastRewinds, VisibleUnstored
    <3> QED
      BY <1>2, <3>2, OperationsKeepItems
  <2> QED
    BY <2>1, <2>2
<1> HIDE DEF a
<1>4. Editing(s.recorded, d) /\ Calm(State(d))
  BY <1>3, OperationsApplied
<1> HIDE DEF d
<1>5. DOMAIN b = SessionFields /\ b.circuit = d /\ b.state = s.state /\ b.recorded = s.recorded
  BY <1>2 DEF SessionFields
<1> HIDE DEF b
<1> QED
  BY <1>1, <1>4, <1>5, FinishEnds DEF Ended

\* An item is added to the selection or taken from it.
LEMMA SelectedCalmly ==
    ASSUME NEW rec, NEW c, Editing(rec, c), Calm(State(c)), NEW ids, ids \subseteq DOMAIN c.items,
           NEW d, d = SetVisibleSelection(c, ids)
    PROVE  Editing(rec, d) /\ Calm(State(d)) /\ d.items = c.items /\ d.keys = c.keys
           /\ d.initial = ids
<1>1. SelectedNow(c, d, ids)
  BY EditingIs, SelectSets
<1>2. /\ Rewinds(c, d) /\ Unstored(d) /\ State(d).items = State(c).items
      /\ State(d).operations = <<>>
  BY <1>1 DEF SelectedNow
<1>3. d.items = c.items /\ d.keys = c.keys /\ d.initial = ids
  BY <1>1 DEF SelectedNow, SelectsOnly
<1> QED
  BY <1>2, <1>3, EditingOn DEF Calm

\* In a calm circuit the visible selection is the initial one, and inserted.
LEMMA CalmVisible ==
    ASSUME NEW rec, NEW c, Editing(rec, c), Calm(State(c))
    PROVE  /\ VisibleSelection(c) = c.initial /\ c.initial \subseteq DOMAIN c.items
           /\ DOMAIN c.items = Ids(c) /\ c.operations = <<>>
           /\ SelectionIn(c, "insert_or_discard")
<1>1. Good(c) /\ c.operations = <<>>
  BY EditingIs DEF Calm, State
<1>2. c.cached = {}
  BY <1>1, NothingCached
<1>3. c.initial \subseteq DOMAIN c.items /\ IsSeq(c.items)
  BY <1>1 DEF Good, Sound, Shape, ItemsOK
<1>4. DOMAIN c.items = Ids(c)
  BY <1>3 DEF IsSeq, Ids
<1>5. VisibleSelection(c) = c.initial
  BY <1>1, <1>2, VisibleIsInitial
<1>6. SelectionIn(c, "insert_or_discard")
  BY <1>1, <1>2 DEF SelectionIn, Calm, NormalBut, ShownIn, ToMode
<1> QED
  BY <1>1, <1>3, <1>4, <1>5, <1>6

\* A press on an item selects it.
LEMMA SingleBegun ==
    ASSUME NEW s, DOMAIN s = SessionFields, Rests(s.recorded, s.circuit), NEW p,
           NEW t, t = SinglePress(s, p)
    PROVE  SingleOK(t) /\ t.state = s.state /\ t.recorded = s.recorded
<1> DEFINE c == s.circuit
           hit == Hit(c, p)
           old == VisibleSelection(c)
           ids == IF hit \subseteq old THEN old \ hit ELSE old \cup hit
           l == [type |-> "selection_single"]
           a == [s EXCEPT !.logic = l]
           d == SetVisibleSelection(c, ids)
<1>1. /\ a.circuit = c /\ a.logic = l /\ a.state = s.state /\ a.recorded = s.recorded
      /\ DOMAIN a = SessionFields
  BY DEF SessionFields
<1>2. t = [a EXCEPT !.circuit = d]
  BY <1>1 DEF SinglePress
<1>3. Editing(s.recorded, c) /\ Calm(State(c))
  BY RestsIs
<1>4. old \subseteq DOMAIN c.items /\ hit \subseteq DOMAIN c.items
  BY <1>3, CalmVisible DEF Hit
<1> HIDE DEF hit, old
<1>5. ids \subseteq DOMAIN c.items
  BY <1>4
<1> HIDE DEF ids
<1>6. Editing(s.recorded, d) /\ Calm(State(d))
  BY <1>3, <1>5, SelectedCalmly
<1> HIDE DEF d, a
<1>7. /\ DOMAIN t = SessionFields /\ t.circuit = d /\ t.state = s.state /\ t.recorded = s.recorded
      /\ t.logic = l
  BY <1>1, <1>2 DEF SessionFields
<1> QED
  BY <1>6, <1>7 DEF SingleOK

\* Updating the circuit of a session,
LEMMA CircuitReplaced ==
    ASSUME NEW s, DOMAIN s = SessionFields, NEW d, NEW t, t = [s EXCEPT !.circuit = d]
    PROVE  /\ DOMAIN t = SessionFields /\ t.circuit = d /\ t.state = s.state
           /\ t.recorded = s.recorded /\ t.logic = s.logic
BY DEF SessionFields

\* or its mouse logic, leaves the other fields alone.
LEMMA LogicReplaced ==
    ASSUME NEW s, DOMAIN s = SessionFields, NEW l, NEW t, t = [s EXCEPT !.logic = l]
    PROVE  DOMAIN t = SessionFields /\ t.logic = l /\ t.circuit = s.circuit
           /\ t.state = s.state /\ t.recorded = s.recorded
BY DEF SessionFields

\* Where everything is inserted an insertion may begin.
LEMMA CalmInserting ==
    ASSUME NEW rec, NEW c, Editing(rec, c), Calm(State(c)), NEW temp
    PROVE  Inserting(rec, c, temp)
<1>1. c.operations = <<>>
  BY DEF Calm, State
<1> QED
  BY <1>1 DEF Inserting, Calm, NormalBut

\* Removing the item under the mouse leaves everything inserted,
LEMMA TempGone ==
    ASSUME NEW s, InsertionOK(s), NEW t, t = DeleteTemp(s)
    PROVE  /\ IsInsertion(t) /\ t.state = s.state /\ t.recorded = s.recorded
           /\ Editing(t.recorded, t.circuit) /\ Calm(State(t.circuit))
<1> DEFINE c == s.circuit
           d == DeleteAll(c, SetToSeq(IdsOf(c, s.logic.temp)))
           a == [s EXCEPT !.circuit = d]
<1>1. t = [a EXCEPT !.logic = [a.logic EXCEPT !.temp = {}]]
  BY DEF DeleteTemp
<1>2. Editing(s.recorded, d) /\ Calm(State(d))
  BY TempDeleted DEF InsertionOK
<1>3. IsInsertion(s)
  BY DEF InsertionOK
<1> HIDE DEF d
<1>4. /\ DOMAIN a = SessionFields /\ a.circuit = d /\ a.state = s.state /\ a.recorded = s.recorded
      /\ a.logic = s.logic
  BY <1>3, CircuitReplaced DEF IsInsertion
<1> HIDE DEF a
<1> DEFINE l == [a.logic EXCEPT !.temp = {}]
<1>5. l.type = s.logic.type /\ l.def = s.logic.def /\ DOMAIN l = DOMAIN s.logic
  BY <1>3, <1>4 DEF IsInsertion
<1>6. t = [a EXCEPT !.logic = l]
  BY <1>1
<1> HIDE DEF l
<1>7. /\ DOMAIN t = SessionFields /\ t.circuit = d /\ t.state = s.state /\ t.recorded = s.recorded
      /\ t.logic = l
  BY <1>4, <1>6, LogicReplaced
<1> QED
  BY <1>2, <1>3, <1>5, <1>7 DEF IsInsertion

\* inserting it leaves everything else inserted,
LEMMA TempAdded ==
    ASSUME NEW s, IsInsertion(s), Editing(s.recorded, s.circuit), Calm(State(s.circuit)),
           NEW p, NEW mode \in Mode, NEW t, t = InsertTemp(s, p, mode)
    PROVE  /\ InsertionOK(t) /\ t.state = s.state /\ t.recorded = s.recorded
           /\ mode = "insert_or_discard" => Calm(State(t.circuit))
<1> DEFINE c == s.circuit
           d == TryAddLogicItem(c, s.logic.def, p, mode)
           temp == KeyIndexSet(d) \ KeyIndexSet(c)
           a == [s EXCEPT !.circuit = d]
<1>1. t = [a EXCEPT !.logic = [a.logic EXCEPT !.temp = temp]]
  BY DEF InsertTemp, WithTemp
<1>2. /\ Inserting(s.recorded, d, temp)
      /\ mode = "insert_or_discard" => Calm(State(d))
  <2> DEFINE def == s.logic.def
  <2>1. def \in Definition /\ d = TryAddLogicItem(c, def, p, mode)
    BY DEF IsInsertion
  <2> HIDE DEF def, d
  <2> QED
    BY <2>1, TempInserted
<1> HIDE DEF d, temp
<1>3. /\ DOMAIN a = SessionFields /\ a.circuit = d /\ a.state = s.state /\ a.recorded = s.recorded
      /\ a.logic = s.logic
  BY CircuitReplaced DEF IsInsertion
<1> HIDE DEF a
<1> DEFINE l == [a.logic EXCEPT !.temp = temp]
<1>4. /\ l.type = s.logic.type /\ l.def = s.logic.def /\ DOMAIN l = DOMAIN s.logic
      /\ l.temp = temp
  BY <1>3 DEF IsInsertion
<1>5. t = [a EXCEPT !.logic = l]
  BY <1>1
<1> HIDE DEF l
<1>6. /\ DOMAIN t = SessionFields /\ t.circuit = d /\ t.state = s.state /\ t.recorded = s.recorded
      /\ t.logic = l
  BY <1>3, <1>5, LogicReplaced
<1> QED
  BY <1>2, <1>4, <1>6 DEF IsInsertion, InsertionOK

\* and so does removing it and inserting it elsewhere.
LEMMA Reinserted ==
    ASSUME NEW s, InsertionOK(s), NEW p, NEW mode \in Mode,
           NEW t, t = RemoveAndInsert(s, p, mode)
    PROVE  /\ InsertionOK(t) /\ t.state = s.state /\ t.recorded = s.recorded
           /\ mode = "insert_or_discard" => Calm(State(t.circuit))
<1> DEFINE a == DeleteTemp(s)
<1>1. /\ IsInsertion(a) /\ a.state = s.state /\ a.recorded = s.recorded
      /\ Editing(a.recorded, a.circuit) /\ Calm(State(a.circuit))
  BY TempGone
<1>2. t = InsertTemp(a, p, mode)
  BY DEF RemoveAndInsert
<1> HIDE DEF a
<1> QED
  BY <1>1, <1>2, TempAdded

\* A press begins an insertion,
LEMMA InsertionBegun ==
    ASSUME NEW s, DOMAIN s = SessionFields, Rests(s.recorded, s.circuit),
           NEW p, NEW def \in Definition,
           NEW t, t = RemoveAndInsert([s EXCEPT !.logic = InsertLogicItem(def)],
                                      p, "collisions")
    PROVE  InsertionOK(t) /\ t.state = s.state /\ t.recorded = s.recorded
<1> DEFINE l == InsertLogicItem(def)
           a == [s EXCEPT !.logic = l]
<1>1. t = RemoveAndInsert(a, p, "collisions") /\ "collisions" \in Mode
  BY DEF Mode
<1>2. l.type = "insert_logicitem" /\ l.def = def /\ DOMAIN l = {"type", "def", "temp"}
  BY DEF InsertLogicItem
<1> HIDE DEF l
<1>3. /\ DOMAIN a = SessionFields /\ a.logic = l /\ a.circuit = s.circuit /\ a.state = s.state
      /\ a.recorded = s.recorded
  BY LogicReplaced
<1> HIDE DEF a
<1>4. Inserting(a.recorded, a.circuit, a.logic.temp)
  BY <1>3, RestsIs, CalmInserting
<1>5. InsertionOK(a)
  BY <1>2, <1>3, <1>4 DEF InsertionOK, IsInsertion
<1> QED
  BY <1>1, <1>3, <1>5, Reinserted

\* The item that was inserted is let go.
LEMMA InsertionReleased ==
    ASSUME NEW s, InsertionOK(s), NEW p,
           NEW t, t = [RemoveAndInsert(s, p, "insert_or_discard") EXCEPT !.logic.temp = {}]
    PROVE  InsertionOK(t) /\ t.state = s.state /\ t.recorded = s.recorded
<1> DEFINE a == RemoveAndInsert(s, p, "insert_or_discard")
           l == [a.logic EXCEPT !.temp = {}]
<1>1. t = [a EXCEPT !.logic = l]
  OBVIOUS
<1>2. InsertionOK(a) /\ a.state = s.state /\ a.recorded = s.recorded /\ Calm(State(a.circuit))
  <2>1. "insert_or_discard" \in Mode
    BY DEF Mode
  <2> QED
    BY <2>1, Reinserted
<1> HIDE DEF a
<1>3. IsInsertion(a) /\ Editing(a.recorded, a.circuit)
  BY <1>2 DEF InsertionOK, Inserting
<1>4. l.type = a.logic.type /\ l.def = a.logic.def /\ DOMAIN l = DOMAIN a.logic
  BY <1>3 DEF IsInsertion
<1> HIDE DEF l
<1>5. /\ DOMAIN t = SessionFields /\ t.circuit = a.circuit /\ t.state = a.state
      /\ t.recorded = a.recorded /\ t.logic = l
  <2>1. DOMAIN a = SessionFields
    BY <1>3 DEF IsInsertion
  <2> QED
    BY ONLY <1>1, <2>1, LogicReplaced
<1>6. Inserting(t.recorded, t.circuit, t.logic.temp)
  BY <1>2, <1>3, <1>5, CalmInserting
<1> QED
  BY <1>2, <1>3, <1>4, <1>5, <1>6 DEF InsertionOK, IsInsertion

\* and cancelling it brings the circuit to rest.
LEMMA InsertionFinalized ==
    ASSUME NEW s, InsertionOK(s), NEW t, t = Finish(DeleteTemp(s))
    PROVE  Ended(s, t)
<1> DEFINE a == DeleteTemp(s)
<1>1. /\ IsInsertion(a) /\ a.state = s.state /\ a.recorded = s.recorded
      /\ Editing(a.recorded, a.circuit) /\ Calm(State(a.circuit))
  BY TempGone
<1>2. t = Finish(a)
  OBVIOUS
<1> HIDE DEF a
<1> QED
  BY <1>1, <1>2, FinishEnds DEF IsInsertion, Ended

PressedTo(s, d, x, p) == [s EXCEPT !.circuit = d, !.logic.state = x, !.logic.last = p]

\* The fields after a press during a move.
LEMMA Pressing ==
    ASSUME NEW s, DOMAIN s = SessionFields, DOMAIN s.logic = MoveFields,
           NEW d, NEW x, NEW p,
           NEW t, t = PressedTo(s, d, x, p)
    PROVE  /\ DOMAIN t = SessionFields /\ t.circuit = d /\ t.state = s.state
           /\ t.recorded = s.recorded
           /\ DOMAIN t.logic = MoveFields /\ t.logic.state = x /\ t.logic.last = p
           /\ t.logic.type = s.logic.type /\ t.logic.mode = s.logic.mode
           /\ t.logic.deleteOnCancel = s.logic.deleteOnCancel
           /\ t.logic.historyExpected = s.logic.historyExpected
           /\ t.logic.total = s.logic.total /\ t.logic.offset = s.logic.offset
<1> DEFINE a == [s EXCEPT !.circuit = d]
           l == [a.logic EXCEPT !.state = x]
           b == [a EXCEPT !.logic = l]
           m == [b.logic EXCEPT !.last = p]
<1>1. t = [b EXCEPT !.logic = m]
  BY DEF PressedTo
<1>2. /\ DOMAIN a = SessionFields /\ a.circuit = d /\ a.state = s.state /\ a.recorded = s.recorded
      /\ a.logic = s.logic
  BY CircuitReplaced
<1> HIDE DEF a
<1>3. /\ DOMAIN l = MoveFields /\ l.state = x
      /\ l.type = s.logic.type /\ l.mode = s.logic.mode
      /\ l.deleteOnCancel = s.logic.deleteOnCancel
      /\ l.historyExpected = s.logic.historyExpected
      /\ l.total = s.logic.total /\ l.offset = s.logic.offset
  BY <1>2 DEF MoveFields
<1> HIDE DEF l
<1>4. /\ DOMAIN b = SessionFields /\ b.circuit = d /\ b.state = s.state /\ b.recorded = s.recorded
      /\ b.logic = l
  BY <1>2, LogicReplaced
<1> HIDE DEF b
<1>5. /\ DOMAIN m = MoveFields /\ m.state = x /\ m.last = p
      /\ m.type = s.logic.type /\ m.mode = s.logic.mode
      /\ m.deleteOnCancel = s.logic.deleteOnCancel
      /\ m.historyExpected = s.logic.historyExpected
      /\ m.total = s.logic.total /\ m.offset = s.logic.offset
  BY <1>3, <1>4 DEF MoveFields
<1> HIDE DEF m
<1>6. /\ DOMAIN t = SessionFields /\ t.circuit = d /\ t.state = s.state /\ t.recorded = s.recorded
      /\ t.logic = m
  BY ONLY <1>1, <1>4, LogicReplaced
<1> QED
  BY <1>5, <1>6

\* A selection that has not been moved can be put back.
LEMMA MovableFromHere ==
    ASSUME NEW c, Good(c), NEW total, total = 0
    PROVE  Movable(c, total)
<1>1. ASSUME NEW id \in c.initial PROVE IsRepresentable(c.items[id].position + -total)
  <2>1. c.items[id] \in Item
    BY DEF Good, Sound, Shape
  <2> DEFINE n == c.items[id].position
  <2>2. n \in 1 .. Cells /\ n \in Int
    BY <2>1 DEF Item
  <2> HIDE DEF n
  <2>3. total \in Int /\ n + -total = n
    BY <2>2
  <2> QED
    BY <2>2, <2>3 DEF n, IsRepresentable
<1> QED
  BY <1>1 DEF Movable

MoveCreated(s) ==
    Checked([s EXCEPT !.logic = SelectionMove("insert_or_discard", "waiting_for_first_click",
                                              FALSE)])

\* Nothing has moved yet.
AtStart(s, t) == /\ t.circuit.items = s.circuit.items /\ t.circuit.keys = s.circuit.keys
                 /\ t.logic.total = 0 /\ t.logic.mode = "insert_or_discard"

\* A press on a selected item begins a move.
LEMMA MoveBegun ==
    ASSUME NEW s, DOMAIN s = SessionFields, Rests(s.recorded, s.circuit), NEW p \in Int,
           NEW t, t = MovePress(MoveCreated(s), p)
    PROVE  /\ MoveOK(t) /\ MovesBack(t) /\ t.state = s.state /\ t.recorded = s.recorded
           /\ t.logic.state = "move_selection" /\ t.logic.deleteOnCancel = FALSE
           /\ AtStart(s, t)
<1> DEFINE l == SelectionMove("insert_or_discard", "waiting_for_first_click", FALSE)
           a == [s EXCEPT !.logic = l]
           c == s.circuit
<1>0. p \in Int
  OBVIOUS
<1>1. /\ DOMAIN a = SessionFields /\ a.logic = l /\ a.circuit = c /\ a.state = s.state
      /\ a.recorded = s.recorded
  BY LogicReplaced
<1>2. /\ DOMAIN l = MoveFields /\ l.type = "selection_move"
      /\ l.state = "waiting_for_first_click" /\ l.mode = "insert_or_discard"
      /\ l.deleteOnCancel = FALSE /\ l.historyExpected = TRUE
      /\ l.last = 0 /\ l.total = 0 /\ l.offset = 0
  BY DEF SelectionMove, MoveFields
<1>3. Editing(s.recorded, c) /\ Calm(State(c))
  BY RestsIs
<1>4. SelectionIn(c, "insert_or_discard")
  BY <1>3, CalmVisible
<1>5. t = MovePress(Checked(a), p)
  BY DEF MoveCreated
<1> HIDE DEF a, l
<1>6. MoveOK(a)
  BY ONLY <1>1, <1>2, <1>3, <1>4 DEF MoveOK, IsMove, Placed, Mode
<1>7. Checked(a) = a
  BY <1>6, ContractHolds
<1> DEFINE hit == Hit(c, p)
           select == hit \cap VisibleSelection(c) = {}
           d == IF select THEN SetVisibleSelection(c, hit) ELSE c
<1>8. t = [a EXCEPT !.circuit = d, !.logic.state = "move_selection", !.logic.last = p]
  <2>1. t = MovePress(a, p)
    BY <1>5, <1>7
  <2>2. a.logic.state = "waiting_for_first_click"
    BY <1>1, <1>2
  <2> QED
    BY <1>1, <2>1, <2>2 DEF MovePress
<1>9. Editing(s.recorded, d) /\ Calm(State(d)) /\ d.items = c.items /\ d.keys = c.keys
  <2>1. CASE select
    <3>1. hit \subseteq DOMAIN c.items
      BY <1>3, CalmVisible DEF Hit
    <3>2. d = SetVisibleSelection(c, hit)
      BY <2>1
    <3> HIDE DEF d, hit, select
    <3> QED
      BY <1>3, <3>1, <3>2, SelectedCalmly
  <2>2. CASE ~select
    BY <1>3, <2>2
  <2> QED
    BY <2>1, <2>2
<1> HIDE DEF d
<1>10. SelectionIn(d, "insert_or_discard") /\ Good(d)
  BY <1>9, CalmVisible, EditingIs
<1>11. /\ DOMAIN t = SessionFields /\ t.circuit = d /\ t.state = a.state /\ t.recorded = a.recorded
       /\ DOMAIN t.logic = MoveFields /\ t.logic.state = "move_selection" /\ t.logic.last = p
       /\ t.logic.type = l.type /\ t.logic.mode = l.mode
       /\ t.logic.deleteOnCancel = l.deleteOnCancel
       /\ t.logic.historyExpected = l.historyExpected
       /\ t.logic.total = l.total /\ t.logic.offset = l.offset
  <2> DEFINE x == "move_selection"
  <2>1. DOMAIN a.logic = MoveFields /\ a.logic = l
    BY <1>1, <1>2
  <2>2. x = "move_selection"
    OBVIOUS
  <2>3. t = PressedTo(a, d, x, p)
    BY <1>8 DEF PressedTo
  <2> HIDE DEF x
  <2>4. /\ DOMAIN t = SessionFields /\ t.circuit = d /\ t.state = a.state /\ t.recorded = a.recorded
        /\ DOMAIN t.logic = MoveFields /\ t.logic.state = x /\ t.logic.last = p
        /\ t.logic.type = a.logic.type /\ t.logic.mode = a.logic.mode
        /\ t.logic.deleteOnCancel = a.logic.deleteOnCancel
        /\ t.logic.historyExpected = a.logic.historyExpected
        /\ t.logic.total = a.logic.total /\ t.logic.offset = a.logic.offset
    BY ONLY <1>1, <2>1, <2>3, Pressing
  <2> QED
    BY <2>1, <2>2, <2>4
<1>12. Movable(d, t.logic.total)
  <2> DEFINE n == t.logic.total
  <2>1. n = 0
    BY <1>2, <1>11
  <2> HIDE DEF n
  <2>2. Movable(d, n)
    BY <1>10, <2>1, MovableFromHere
  <2> QED
    BY <2>2 DEF n
<1> QED
  BY ONLY <1>0, <1>1, <1>2, <1>9, <1>10, <1>11, <1>12
     DEF MoveOK, IsMove, Placed, MovesBack, Mode, AtStart

\* A press during a move takes the selection up again.
LEMMA MovePressed ==
    ASSUME NEW s, MoveOK(s), MovesBack(s), s.logic.state # "waiting_for_first_click",
           NEW p \in Int, NEW t, t = MovePress(s, p)
    PROVE  /\ MoveOK(t) /\ MovesBack(t) /\ t.state = s.state /\ t.recorded = s.recorded
           /\ t.logic.state \in {"move_selection", s.logic.state}
           /\ t.logic.state # "waiting_for_confirmation"
           /\ t.logic.mode = s.logic.mode
           /\ t.logic.deleteOnCancel = s.logic.deleteOnCancel
           /\ t.circuit = s.circuit /\ t.logic.total = s.logic.total
<1>1. CASE s.logic.state # "waiting_for_confirmation"
  <2>1. t = s
    BY <1>1 DEF MovePress
  <2> QED
    BY <1>1, <2>1
<1>2. CASE s.logic.state = "waiting_for_confirmation"
  <2> DEFINE c == s.circuit
             x == "move_selection"
  <2>1. t = PressedTo(s, c, x, p)
    BY <1>2 DEF MovePress, PressedTo
  <2>2. IsMove(s)
    BY DEF MoveOK
  <2>3. x = "move_selection" /\ c = s.circuit
    OBVIOUS
  <2> HIDE DEF x, c
  <2>4. /\ DOMAIN t = SessionFields /\ t.circuit = c /\ t.state = s.state /\ t.recorded = s.recorded
        /\ DOMAIN t.logic = MoveFields /\ t.logic.state = x /\ t.logic.last = p
        /\ t.logic.type = s.logic.type /\ t.logic.mode = s.logic.mode
        /\ t.logic.deleteOnCancel = s.logic.deleteOnCancel
        /\ t.logic.historyExpected = s.logic.historyExpected
        /\ t.logic.total = s.logic.total /\ t.logic.offset = s.logic.offset
    BY ONLY <2>1, <2>2, Pressing DEF IsMove
  <2> QED
    BY <2>2, <2>3, <2>4 DEF MoveOK, MovesBack, IsMove, Placed, Temporary
<1> QED
  BY <1>1, <1>2

\* Released, the selection is placed, and waits if something collides.
LEMMA MoveReleased ==
    ASSUME NEW s, MoveOK(s), MovesBack(s), s.logic.state = "move_selection",
           NEW keys, Ordered(s.circuit, keys), NEW p \in Int,
           NEW t, t = MoveRelease(s, keys, p)
    PROVE  /\ MoveOK(t) /\ MovesBack(t) /\ Ordered(t.circuit, keys) /\ t.state = s.state
           /\ t.recorded = s.recorded
           /\ t.logic.state \in {"waiting_for_confirmation", "finished"}
           /\ t.logic.mode = "collisions"
<1> DEFINE a == MoveSelectionTo(s, keys, p)
           b == ConvertSelectionTo(a, keys, "collisions")
           x == IF AnythingColliding(b.circuit) THEN "waiting_for_confirmation" ELSE "finished"
<1>1. t = [b EXCEPT !.logic.state = x]
  BY DEF MoveRelease, WaitOrFinish
<1>2. StillMoving(s, a) /\ MoveOK(a) /\ MovesBack(a) /\ Ordered(a.circuit, keys)
  BY MovedTo
<1> HIDE DEF a
<1>3. /\ SameMove(a, b) /\ b.logic.mode = "collisions" /\ MoveOK(b) /\ MovesBack(b)
      /\ Ordered(b.circuit, keys)
  <2>1. "collisions" \in Mode
    BY DEF Mode
  <2> QED
    BY <1>2, <2>1, Converted
<1>4. x \in {"waiting_for_confirmation", "finished"}
  OBVIOUS
<1> HIDE DEF b, x
<1> DEFINE l == [b.logic EXCEPT !.state = x]
<1>5. t = [b EXCEPT !.logic = l]
  BY <1>1
<1>6. IsMove(b)
  BY <1>3 DEF MoveOK
<1>7. /\ DOMAIN l = MoveFields /\ l.state = x
      /\ l.type = b.logic.type /\ l.mode = b.logic.mode
      /\ l.deleteOnCancel = b.logic.deleteOnCancel
      /\ l.historyExpected = b.logic.historyExpected
      /\ l.total = b.logic.total /\ l.offset = b.logic.offset /\ l.last = b.logic.last
  BY <1>6 DEF IsMove, MoveFields
<1> HIDE DEF l
<1>8. /\ DOMAIN t = SessionFields /\ t.circuit = b.circuit /\ t.state = b.state
      /\ t.recorded = b.recorded /\ t.logic = l
  BY <1>5, <1>6, LogicReplaced DEF IsMove
<1> QED
  BY <1>2, <1>3, <1>4, <1>6, <1>7, <1>8
     DEF MoveOK, MovesBack, IsMove, Placed, Temporary, SameMove, StillMoving

-----------------------------------------------------------------------------
(***************************************************************************)
(* The phases of a session.                                                *)
(***************************************************************************)

NoneOK(s) == DOMAIN s = SessionFields /\ s.logic = NoLogic /\ Rests(s.recorded, s.circuit)
MovingOK(s) == /\ MoveOK(s) /\ MovesBack(s)
               /\ s.logic.state \in {"waiting_for_confirmation", "move_selection"}
               /\ s.logic.state = "waiting_for_confirmation" => s.logic.mode = "collisions"
SessionOK(s) == NoneOK(s) \/ AreaOK(s) \/ SingleOK(s) \/ InsertionOK(s) \/ MovingOK(s)

\* Mouse logics that end with the button.
PressedTypes == {"selection_area", "selection_single", "insert_logicitem"}
\* What a handler leaves; only a press begins what ends with the button.
Handled(s, t) == SessionOK(t) /\ (t.logic.type \in PressedTypes => s.logic.type \in PressedTypes)

\* A paste is not interrupted.
NotDragging(s) == s.logic.type = "selection_move" /\ s.logic.deleteOnCancel
                    => s.logic.state # "move_selection"
\* The order of keys is one of the selection that is moved.
InKeys(s, keys) == s.logic.type = "selection_move" => Ordered(s.circuit, keys)

\* The phases have different mouse logics.
LEMMA TypesOf ==
    ASSUME NEW s
    PROVE  /\ NoneOK(s) => s.logic.type = "none"
           /\ AreaOK(s) => s.logic.type = "selection_area"
           /\ SingleOK(s) => s.logic.type = "selection_single"
           /\ InsertionOK(s) => s.logic.type = "insert_logicitem"
           /\ MovingOK(s) => s.logic.type = "selection_move"
           /\ SessionOK(s) => DOMAIN s = SessionFields
BY DEF NoneOK, NoLogic, AreaOK, IsArea, SingleOK, InsertionOK, IsInsertion, MovingOK, MoveOK,
       IsMove, SessionOK

\* A session is in its phase by its circuit, its records and its mouse logic alone.
LEMMA SameSession ==
    ASSUME NEW s, SessionOK(s), NEW t, DOMAIN t = SessionFields, t.circuit = s.circuit,
           t.logic = s.logic, t.recorded = s.recorded
    PROVE  SessionOK(t)
<1>1. CASE NoneOK(s)
  BY <1>1 DEF NoneOK, SessionOK
<1>2. CASE AreaOK(s)
  BY <1>2 DEF AreaOK, IsArea, SessionOK
<1>3. CASE SingleOK(s)
  BY <1>3 DEF SingleOK, SessionOK
<1>4. CASE InsertionOK(s)
  BY <1>4 DEF InsertionOK, IsInsertion, SessionOK
<1>5. CASE MovingOK(s)
  BY <1>5 DEF MovingOK, MoveOK, MovesBack, IsMove, Placed, Temporary, SessionOK
<1> QED
  BY <1>1, <1>2, <1>3, <1>4, <1>5 DEF SessionOK

\* Nothing has thrown in any of the phases.
LEMMA NoThrow ==
    ASSUME NEW s, SessionOK(s) PROVE s.circuit.failed = FALSE
<1>1. CASE NoneOK(s)
  BY <1>1, RestsIs, EditingIs DEF NoneOK
<1>2. CASE AreaOK(s)
  BY <1>2, EditingIs DEF AreaOK
<1>3. CASE SingleOK(s)
  BY <1>3, EditingIs DEF SingleOK
<1>4. CASE InsertionOK(s)
  BY <1>4, EditingIs DEF InsertionOK, Inserting
<1>5. CASE MovingOK(s)
  <2>1. Untracked(s.recorded, s.circuit, s.logic.offset) \/ Editing(s.recorded, s.circuit)
    BY <1>5 DEF MovingOK, MoveOK, Placed, Temporary
  <2> QED
    BY <2>1, EditingIs, UntrackedIs
<1> QED
  BY <1>1, <1>2, <1>3, <1>4, <1>5 DEF SessionOK

\* The order that a step picks is one of the dragged selection.
LEMMA OrdersAreOrdered ==
    ASSUME NEW s, SessionOK(s), NEW c, c = s.circuit,
           NEW keys \in SetToSeqs(KeysOf(c, VisibleSelection(c)))
    PROVE  InKeys(s, keys)
<1>1. CASE MovingOK(s)
  <2>1. /\ VisibleSelection(c) = c.initial /\ c.nextKey \in Nat
        /\ \A id \in c.initial : c.keys[id] \in 1 .. (c.nextKey - 1)
    <3>1. CASE Untracked(s.recorded, c, s.logic.offset)
      <4> DEFINE b == Base(c, s.logic.offset)
      <4>1. b.keys = c.keys /\ b.nextKey = c.nextKey /\ b.initial = c.initial
        BY <3>1, BaseFields DEF Untracked
      <4>2. Editing(s.recorded, b)
        BY <3>1 DEF Untracked
      <4> HIDE DEF b
      <4>3. Good(b) /\ b.initial \subseteq DOMAIN b.items
        BY <4>2, EditingIs DEF Sound, Shape
      <4>4. VisibleSelection(c) = c.initial
        BY <3>1, UntrackedIs, VisibleIsInitial
      <4> QED
        BY <4>1, <4>3, <4>4 DEF Good
    <3>2. CASE Editing(s.recorded, c) /\ SelectionIn(c, s.logic.mode)
      <4>1. Good(c) /\ c.initial \subseteq DOMAIN c.items
        BY <3>2, EditingIs DEF Sound, Shape
      <4>2. VisibleSelection(c) = c.initial
        BY <3>2, VisibleIsInitial DEF SelectionIn
      <4> QED
        BY <4>1, <4>2 DEF Good
    <3> QED
      BY <1>1, <3>1, <3>2 DEF MovingOK, MoveOK, Placed, Temporary
  <2>2. IsFiniteSet(KeysOf(c, c.initial))
    BY <2>1, KeysFinite
  <2> DEFINE S == KeysOf(c, c.initial)
  <2>3. keys \in SetToSeqs(S) /\ IsFiniteSet(S)
    BY <2>1, <2>2
  <2> HIDE DEF S
  <2>4. Distinct(keys) /\ Members(keys) = S
    BY <2>3, AllInOrder
  <2> QED
    BY <2>4 DEF InKeys, Ordered, S
<1>2. CASE ~MovingOK(s)
  <2>1. s.logic.type # "selection_move"
    BY <1>2, TypesOf DEF SessionOK
  <2> QED
    BY <2>1 DEF InKeys
<1> QED
  BY <1>1, <1>2

\* A gesture that ended leaves no mouse logic.
LEMMA NoLogicLeft ==
    ASSUME NEW s, NEW a, Ended(s, a), NEW t, t = [a EXCEPT !.logic = NoLogic]
    PROVE  NoneOK(t) /\ t.state = s.state
<1>1. DOMAIN a = SessionFields /\ Rests(a.recorded, a.circuit) /\ a.state = s.state
  BY DEF Ended
<1> DEFINE l == NoLogic
<1>2. t = [a EXCEPT !.logic = l]
  OBVIOUS
<1> HIDE DEF l
<1>3. /\ DOMAIN t = SessionFields /\ t.logic = l /\ t.circuit = a.circuit /\ t.state = a.state
      /\ t.recorded = a.recorded
  BY ONLY <1>1, <1>2, LogicReplaced
<1> QED
  BY <1>1, <1>3 DEF NoneOK, l

\* A move that is finished, or cancelled.
LEMMA MoveEnds ==
    ASSUME NEW s, MoveOK(s), MovesBack(s), NEW keys, Ordered(s.circuit, keys),
           ~IsFinished(s.logic) /\ s.logic.deleteOnCancel => s.logic.mode = "collisions",
           NEW t, t = FinalizeEditing(s, keys)
    PROVE  NoneOK(t) /\ t.state = s.state
<1> DEFINE a == FinalizeMove(s, keys)
<1>1. s.logic.type = "selection_move" /\ s.logic.type # "none"
  BY DEF MoveOK, IsMove
<1>2. FinalizeLogic(s, keys) = a
  BY <1>1, Zenon DEF FinalizeLogic
<1>3. Ended(s, a)
  BY MoveFinalized
<1> HIDE DEF a
<1>4. t = [a EXCEPT !.logic = NoLogic]
  BY <1>2 DEF FinalizeEditing
<1> QED
  BY <1>3, <1>4, NoLogicLeft

\* Finalizing brings any phase to rest, if no paste is interrupted.
LEMMA EditingFinalized ==
    ASSUME NEW s, SessionOK(s), NotDragging(s), NEW keys, InKeys(s, keys),
           NEW t, t = FinalizeEditing(s, keys)
    PROVE  NoneOK(t) /\ t.state = s.state
<1>1. CASE MovingOK(s)
  <2>1. s.logic.type = "selection_move"
    BY <1>1, TypesOf
  <2>2. /\ MoveOK(s) /\ MovesBack(s) /\ Ordered(s.circuit, keys)
        /\ s.logic.deleteOnCancel => s.logic.mode = "collisions"
    BY <1>1, <2>1 DEF MovingOK, NotDragging, InKeys
  <2> QED
    BY <2>2, MoveEnds
<1>2. CASE ~MovingOK(s)
  <2>1. PICK a : a = FinalizeLogic(s, keys) /\ Ended(s, a)
    <3>1. CASE NoneOK(s)
      <4>1. FinalizeLogic(s, keys) = s
        BY <3>1, TypesOf, Zenon DEF FinalizeLogic
      <4> QED
        BY <3>1, <4>1 DEF NoneOK, Ended
    <3>2. CASE AreaOK(s)
      <4>1. FinalizeLogic(s, keys) = FinalizeArea(s)
        <5>1. /\ s.logic.type = "selection_area" /\ s.logic.type # "none"
              /\ s.logic.type # "selection_move" /\ s.logic.type # "selection_single"
              /\ s.logic.type # "insert_logicitem"
          BY <3>2, TypesOf
        <5> QED
          BY <5>1, Zenon DEF FinalizeLogic
      <4> QED
        BY <3>2, <4>1, AreaFinalized
    <3>3. CASE SingleOK(s)
      <4>1. FinalizeLogic(s, keys) = Finish(s)
        <5>1. /\ s.logic.type = "selection_single" /\ s.logic.type # "none"
              /\ s.logic.type # "selection_move" /\ s.logic.type # "selection_area"
              /\ s.logic.type # "insert_logicitem"
          BY <3>3, TypesOf
        <5> QED
          BY <5>1, Zenon DEF FinalizeLogic
      <4> QED
        BY <3>3, <4>1, FinishEnds DEF SingleOK
    <3>4. CASE InsertionOK(s)
      <4>1. FinalizeLogic(s, keys) = Finish(DeleteTemp(s))
        <5>1. /\ s.logic.type = "insert_logicitem" /\ s.logic.type # "none"
              /\ s.logic.type # "selection_move" /\ s.logic.type # "selection_single"
              /\ s.logic.type # "selection_area"
          BY <3>4, TypesOf
        <5> QED
          BY <5>1, Zenon DEF FinalizeLogic
      <4> QED
        BY <3>4, <4>1, InsertionFinalized
    <3> QED
      BY <1>2, <3>1, <3>2, <3>3, <3>4 DEF SessionOK
  <2>2. t = [a EXCEPT !.logic = NoLogic]
    BY <2>1 DEF FinalizeEditing
  <2> QED
    BY <2>1, <2>2, NoLogicLeft
<1> QED
  BY <1>1, <1>2

-----------------------------------------------------------------------------
(***************************************************************************)
(* The handlers.                                                           *)
(***************************************************************************)

\* Points are numbers.
LEMMA PointsAreInts == ASSUME NEW p \in Points PROVE p \in Int
BY UserInputs

\* A press of the button leads into one of the phases,
LEMMA LeftPressed ==
    ASSUME NEW s, SessionOK(s), s.logic.type \notin PressedTypes, NEW p \in Points,
           NEW modifier, NEW def \in NewDefinitions,
           NEW t, t = PressLeft(s, p, modifier, def)
    PROVE  SessionOK(t)
<1>1. CASE NoneOK(s)
  <2>1. t = CreateAndPress(s, p, modifier, def)
    BY <1>1, TypesOf DEF PressLeft
  <2>2. DOMAIN s = SessionFields /\ Rests(s.recorded, s.circuit)
    BY <1>1 DEF NoneOK
  <2>3. CASE s.state = "inserting"
    <3>1. t = RemoveAndInsert([s EXCEPT !.logic = InsertLogicItem(def)], p, "collisions")
      <4>1. s.state # "selecting"
        BY <2>3
      <4> QED
        BY <2>1, <2>3, <4>1, Zenon DEF CreateAndPress
    <3>2. def \in Definition
      BY CircuitConstants
    <3> QED
      BY <2>2, <3>1, <3>2, InsertionBegun DEF SessionOK
  <2>4. CASE s.state = "selecting" /\ Hit(s.circuit, p) = {}
    <3>1. t = AreaPress(s, p, modifier)
      <4>1. s.state # "inserting"
        BY <2>4
      <4> QED
        BY <2>1, <2>4, <4>1, Zenon DEF CreateAndPress
    <3> QED
      BY <2>2, <3>1, AreaBegun DEF SessionOK
  <2>5. CASE s.state = "selecting" /\ Hit(s.circuit, p) # {} /\ modifier # "none"
    <3>1. t = SinglePress(s, p)
      <4>1. s.state # "inserting"
        BY <2>5
      <4> QED
        BY <2>1, <2>5, <4>1, Zenon DEF CreateAndPress
    <3> QED
      BY <2>2, <3>1, SingleBegun DEF SessionOK
  <2>6. CASE /\ s.state # "inserting" /\ ~(s.state = "selecting" /\ Hit(s.circuit, p) = {})
             /\ ~(s.state = "selecting" /\ Hit(s.circuit, p) # {} /\ modifier # "none")
    <3>1. t = MovePress(MoveCreated(s), p)
      <4> DEFINE l == SelectionMove("insert_or_discard", "waiting_for_first_click", FALSE)
      <4>1. t = MovePress(Checked([s EXCEPT !.logic = l]), p)
        BY <2>1, <2>6, Zenon DEF CreateAndPress
      <4> QED
        BY <4>1 DEF MoveCreated
    <3>2. MoveOK(t) /\ MovesBack(t) /\ t.logic.state = "move_selection"
      <4>1. p \in Int
        BY PointsAreInts
      <4>2. DOMAIN s = SessionFields
        BY <2>2
      <4>3. Rests(s.recorded, s.circuit)
        BY <2>2
      <4>4. /\ MoveOK(t) /\ MovesBack(t) /\ t.state = s.state /\ t.recorded = s.recorded
            /\ t.logic.state = "move_selection" /\ t.logic.deleteOnCancel = FALSE
            /\ AtStart(s, t)
        BY <3>1, <4>1, <4>2, <4>3, MoveBegun
      <4> QED
        BY <4>4
    <3> QED
      BY <3>2 DEF MovingOK, SessionOK
  <2> QED
    BY <2>3, <2>4, <2>5, <2>6
<1>2. CASE MovingOK(s)
  <2>1. t = MovePress(s, p)
    BY <1>2, TypesOf DEF PressLeft
  <2>2. MoveOK(s) /\ MovesBack(s) /\ s.logic.state # "waiting_for_first_click"
        /\ s.logic.state \in {"waiting_for_confirmation", "move_selection"}
    BY <1>2 DEF MovingOK
  <2>3. /\ MoveOK(t) /\ MovesBack(t) /\ t.logic.state \in {"move_selection", s.logic.state}
        /\ t.logic.state # "waiting_for_confirmation"
    BY <2>1, <2>2, PointsAreInts, MovePressed
  <2> QED
    BY <2>2, <2>3 DEF MovingOK, SessionOK
<1> QED
  BY <1>1, <1>2, TypesOf DEF SessionOK, PressedTypes

\* a move of the mouse stays in its phase or ends it,
LEMMA LeftMoved ==
    ASSUME NEW s, SessionOK(s), NEW p \in Points, NEW keys, InKeys(s, keys),
           NEW t, t = MoveLeft(s, keys, p)
    PROVE  Handled(s, t)
<1>1. CASE MovingOK(s) /\ s.logic.state = "move_selection"
  <2>1. s.logic.type = "selection_move" /\ s.logic.type # "selection_area"
        /\ s.logic.type # "insert_logicitem"
    BY <1>1, TypesOf
  <2>2. t = MoveSelectionTo(s, keys, p)
    BY <1>1, <2>1, Zenon DEF MoveLeft
  <2>3. MoveOK(s) /\ MovesBack(s) /\ Ordered(s.circuit, keys)
    BY <1>1, <2>1 DEF MovingOK, InKeys
  <2>4. StillMoving(s, t) /\ MoveOK(t) /\ MovesBack(t)
    BY <2>2, <2>3, PointsAreInts, MovedTo
  <2>5. MovingOK(t)
    BY <1>1, <2>4 DEF MovingOK, StillMoving
  <2> QED
    BY <2>5, TypesOf DEF Handled, SessionOK, PressedTypes
<1>2. CASE AreaOK(s)
  <2>1. s.logic.type = "selection_area" /\ s.logic.type # "selection_move"
        /\ s.logic.type # "insert_logicitem"
    BY <1>2, TypesOf
  <2>2. t = AreaUpdate(s, p)
    BY <2>1, Zenon DEF MoveLeft
  <2> QED
    BY <1>2, <2>1, <2>2, AreaUpdated DEF Handled, SessionOK, PressedTypes
<1>3. CASE InsertionOK(s)
  <2>1. s.logic.type = "insert_logicitem" /\ s.logic.type # "selection_move"
        /\ s.logic.type # "selection_area" /\ "collisions" \in Mode
    BY <1>3, TypesOf DEF Mode
  <2>2. t = RemoveAndInsert(s, p, "collisions")
    BY <2>1, Zenon DEF MoveLeft
  <2> QED
    BY <1>3, <2>1, <2>2, Reinserted DEF Handled, SessionOK, PressedTypes
<1>4. CASE NoneOK(s) \/ SingleOK(s) \/ (MovingOK(s) /\ s.logic.state # "move_selection")
  <2>1. /\ ~(s.logic.type = "selection_move" /\ s.logic.state = "move_selection")
        /\ s.logic.type # "selection_area" /\ s.logic.type # "insert_logicitem"
    BY <1>4, TypesOf
  <2>2. t = s
    BY <2>1, Zenon DEF MoveLeft
  <2> QED
    BY <2>2 DEF Handled
<1> QED
  BY <1>1, <1>2, <1>3, <1>4 DEF SessionOK

\* and a release leaves nothing that ends with the button.
LEMMA LeftReleased ==
    ASSUME NEW s, SessionOK(s), NEW p \in Points, NEW keys, InKeys(s, keys),
           NEW t, t = ReleaseLeft(s, keys, p)
    PROVE  NoneOK(t) \/ (MovingOK(t) /\ MovingOK(s) /\ t = Release(s, keys, p))
<1> DEFINE a == Release(s, keys, p)
<1>1. t = FinalizeIfFinished(a, keys)
  BY DEF ReleaseLeft
<1>2. CASE MovingOK(s) /\ s.logic.state = "move_selection"
  <2>1. s.logic.type = "selection_move" /\ s.logic.type # "selection_area"
        /\ s.logic.type # "insert_logicitem"
    BY <1>2, TypesOf
  <2>2. a = MoveRelease(s, keys, p)
    BY <2>1, Zenon DEF Release
  <2>3. MoveOK(s) /\ MovesBack(s) /\ Ordered(s.circuit, keys)
    BY <1>2, <2>1 DEF MovingOK, InKeys
  <2> HIDE DEF a
  <2>4. /\ MoveOK(a) /\ MovesBack(a) /\ Ordered(a.circuit, keys)
        /\ a.logic.state \in {"waiting_for_confirmation", "finished"}
        /\ a.logic.mode = "collisions" /\ a.logic.type = "selection_move"
    BY <1>2, <2>2, <2>3, PointsAreInts, MoveReleased DEF MoveOK, IsMove
  <2>5. CASE a.logic.state = "finished"
    <3>1. t = FinalizeEditing(a, keys)
      BY <1>1, <2>5 DEF FinalizeIfFinished, IsFinished
    <3> QED
      BY <2>4, <3>1, MoveEnds
  <2>6. CASE a.logic.state = "waiting_for_confirmation"
    <3>1. t = a
      BY <1>1, <2>4, <2>6 DEF FinalizeIfFinished, IsFinished
    <3> QED
      BY <1>2, <2>4, <2>6, <3>1 DEF MovingOK, a
  <2> QED
    BY <2>4, <2>5, <2>6
<1>3. CASE MovingOK(s) /\ s.logic.state # "move_selection"
  <2>1. s.logic.type = "selection_move" /\ s.logic.type # "selection_area"
        /\ s.logic.type # "insert_logicitem" /\ s.logic.state = "waiting_for_confirmation"
    BY <1>3, TypesOf DEF MovingOK
  <2>2. a = s
    <3>1. a = MoveRelease(s, keys, p)
      BY <2>1, Zenon DEF Release
    <3> QED
      BY <1>3, <3>1 DEF MoveRelease
  <2> HIDE DEF a
  <2>3. t = a
    BY <1>1, <2>1, <2>2 DEF FinalizeIfFinished, IsFinished
  <2> QED
    BY <1>3, <2>2, <2>3 DEF a
<1>4. CASE ~MovingOK(s)
  <2>1. SessionOK(a) /\ ~MovingOK(a)
    <3>1. CASE AreaOK(s)
      <4>1. s.logic.type = "selection_area" /\ s.logic.type # "selection_move"
            /\ s.logic.type # "insert_logicitem"
        BY <3>1, TypesOf
      <4> DEFINE b == AreaUpdate(s, p)
                 l == [b.logic EXCEPT !.keep = TRUE]
      <4>2. a = [b EXCEPT !.logic = l]
        <5>1. a = [b EXCEPT !.logic.keep = TRUE]
          BY <4>1, Zenon DEF Release
        <5> QED
          BY <5>1
      <4>3. AreaOK(b)
        BY <3>1, AreaUpdated
      <4> HIDE DEF b
      <4>4. l.type = b.logic.type /\ l.first = b.logic.first /\ DOMAIN l = DOMAIN b.logic
        BY <4>3 DEF AreaOK, IsArea
      <4> HIDE DEF l, a
      <4>5. /\ DOMAIN a = SessionFields /\ a.logic = l /\ a.circuit = b.circuit
            /\ a.recorded = b.recorded
        BY <4>2, <4>3, LogicReplaced DEF AreaOK, IsArea
      <4>6. AreaOK(a)
        BY <4>3, <4>4, <4>5 DEF AreaOK, IsArea
      <4> QED
        BY <4>6, TypesOf DEF SessionOK
    <3>2. CASE InsertionOK(s)
      <4>1. s.logic.type = "insert_logicitem" /\ s.logic.type # "selection_move"
            /\ s.logic.type # "selection_area"
        BY <3>2, TypesOf
      <4>2. a = [RemoveAndInsert(s, p, "insert_or_discard") EXCEPT !.logic.temp = {}]
        BY <4>1, Zenon DEF Release
      <4> HIDE DEF a
      <4>3. InsertionOK(a)
        BY <3>2, <4>2, InsertionReleased
      <4> QED
        BY <4>3, TypesOf DEF SessionOK
    <3>3. CASE NoneOK(s) \/ SingleOK(s)
      <4>1. s.logic.type # "insert_logicitem" /\ s.logic.type # "selection_move"
            /\ s.logic.type # "selection_area"
        BY <3>3, TypesOf
      <4>2. a = s
        BY <4>1, Zenon DEF Release
      <4> QED
        BY <1>4, <4>2
    <3> QED
      BY <1>4, <3>1, <3>2, <3>3 DEF SessionOK
  <2> HIDE DEF a
  <2>2. a.logic.type # "selection_move"
    BY <2>1, TypesOf DEF SessionOK
  <2>3. t = FinalizeEditing(a, keys)
    BY <1>1, <2>2 DEF FinalizeIfFinished
  <2>4. NotDragging(a) /\ InKeys(a, keys)
    BY <2>2 DEF NotDragging, InKeys
  <2> QED
    BY <2>1, <2>3, <2>4, EditingFinalized
<1> QED
  BY <1>2, <1>3, <1>4

\* A handler that is an edit of a circuit at rest, with its group finished.
LEMMA EditFinished ==
    ASSUME NEW s, NoneOK(s), NEW d, Editing(s.recorded, d), Calm(State(d)),
           NEW a, a = [s EXCEPT !.circuit = d], NEW t, t = Finish(a)
    PROVE  NoneOK(t) /\ t.state = s.state
<1>1. /\ DOMAIN a = SessionFields /\ a.circuit = d /\ a.state = s.state /\ a.recorded = s.recorded
      /\ a.logic = s.logic
  BY CircuitReplaced DEF NoneOK
<1>2. Ended(a, t) /\ t.logic = a.logic
  BY <1>1, FinishEnds
<1> QED
  BY <1>1, <1>2 DEF NoneOK, Ended

\* Clearing the selection is a group of its own.
LEMMA SelectionCleared ==
    ASSUME NEW s, NoneOK(s), NEW t, t = ClearSelection(s)
    PROVE  NoneOK(t) /\ t.state = s.state
<1> DEFINE d == SetVisibleSelection(s.circuit, {})
           a == [s EXCEPT !.circuit = d]
<1>1. t = Finish(a)
  BY DEF ClearSelection
<1>2. Editing(s.recorded, d) /\ Calm(State(d))
  BY RestsIs, SelectedCalmly DEF NoneOK
<1> HIDE DEF d
<1>3. a = [s EXCEPT !.circuit = d]
  OBVIOUS
<1> HIDE DEF a
<1> QED
  BY <1>1, <1>2, <1>3, EditFinished

\* A new circuit state ends what was going on.
LEMMA StateSet ==
    ASSUME NEW s, SessionOK(s), NotDragging(s), NEW keys, InKeys(s, keys), NEW new,
           NEW t, t = SetCircuitState(s, keys, new)
    PROVE  t = s \/ NoneOK(t)
<1>1. CASE s.state = new
  BY <1>1 DEF SetCircuitState
<1>2. CASE s.state # new
  <2> DEFINE a == FinalizeEditing(s, keys)
             b == LeaveState(a)
  <2>1. t = [b EXCEPT !.state = new]
    BY <1>2 DEF SetCircuitState
  <2>2. NoneOK(a)
    BY EditingFinalized
  <2> HIDE DEF a
  <2>3. NoneOK(b)
    BY <2>2, SelectionCleared DEF LeaveState
  <2> HIDE DEF b
  <2> QED
    BY <2>1, <2>3 DEF NoneOK, SessionFields
<1> QED
  BY <1>1, <1>2

\* Between gestures nothing can be interrupted.
LEMMA NoneIsIdle ==
    ASSUME NEW s, NoneOK(s)
    PROVE  SessionOK(s) /\ NotDragging(s) /\ \A keys : InKeys(s, keys)
BY TypesOf DEF SessionOK, NotDragging, InKeys

\* Before a menu action the session is brought to rest.
LEMMA Returned ==
    ASSUME NEW s, SessionOK(s), NotDragging(s), NEW keys, InKeys(s, keys),
           NEW t, t = ReturnToSelecting(s, keys)
    PROVE  NoneOK(t)
<1> DEFINE a == FinalizeEditing(s, keys)
<1>1. NoneOK(a)
  BY EditingFinalized
<1>2. t = SetCircuitState(a, keys, "selecting")
  BY DEF ReturnToSelecting
<1> HIDE DEF a
<1> QED
  BY <1>1, <1>2, NoneIsIdle, StateSet

\* Escape cancels what is going on,
LEMMA Aborted ==
    ASSUME NEW s, SessionOK(s), NotDragging(s), NEW keys, InKeys(s, keys),
           NEW t, t = AbortCurrentAction(s, keys)
    PROVE  t = s \/ NoneOK(t)
<1>1. CASE s.logic.type # "none"
  <2>1. t = FinalizeEditing(s, keys)
    BY <1>1, Zenon DEF AbortCurrentAction
  <2> QED
    BY <2>1, EditingFinalized
<1>2. CASE s.logic.type = "none" /\ s.state = "selecting"
  <2>1. t = ClearSelection(s)
    BY <1>2, Zenon DEF AbortCurrentAction
  <2>2. NoneOK(s)
    BY <1>2, TypesOf DEF SessionOK
  <2> QED
    BY <2>1, <2>2, SelectionCleared
<1>3. CASE s.logic.type = "none" /\ s.state # "selecting"
  <2>1. t = SetCircuitState(s, keys, "selecting")
    BY <1>3, Zenon DEF AbortCurrentAction
  <2> QED
    BY <2>1, StateSet
<1> QED
  BY <1>1, <1>2, <1>3

\* and Enter confirms it.
LEMMA Confirmed ==
    ASSUME NEW s, SessionOK(s), NEW keys, InKeys(s, keys),
           NEW t, t = ConfirmEditing(s, keys)
    PROVE  t = s \/ NoneOK(t)
<1>1. CASE ~(s.logic.type = "selection_move" /\ s.logic.state = "waiting_for_confirmation")
  BY <1>1 DEF ConfirmEditing
<1>2. CASE s.logic.type = "selection_move" /\ s.logic.state = "waiting_for_confirmation"
  <2> DEFINE l == [s.logic EXCEPT !.state = "finished_confirmed"]
             a == [s EXCEPT !.logic = l]
  <2>1. t = FinalizeEditing(a, keys)
    BY <1>2 DEF ConfirmEditing
  <2>2. MovingOK(s) /\ Ordered(s.circuit, keys)
    BY <1>2, TypesOf DEF SessionOK, InKeys
  <2>3. IsMove(s)
    BY <2>2 DEF MovingOK, MoveOK
  <2>4. /\ DOMAIN l = MoveFields /\ l.state = "finished_confirmed"
        /\ l.type = s.logic.type /\ l.mode = s.logic.mode
        /\ l.deleteOnCancel = s.logic.deleteOnCancel
        /\ l.historyExpected = s.logic.historyExpected
        /\ l.total = s.logic.total /\ l.offset = s.logic.offset /\ l.last = s.logic.last
    BY <2>3 DEF IsMove, MoveFields
  <2> HIDE DEF l
  <2>5. /\ DOMAIN a = SessionFields /\ a.circuit = s.circuit /\ a.state = s.state
        /\ a.recorded = s.recorded /\ a.logic = l
    BY <2>3, LogicReplaced DEF IsMove
  <2> HIDE DEF a
  <2>6. MoveOK(a) /\ MovesBack(a) /\ Ordered(a.circuit, keys)
    BY <2>2, <2>3, <2>4, <2>5
       DEF MovingOK, MoveOK, MovesBack, IsMove, Placed, Temporary
  <2>7. IsFinished(a.logic)
    BY <2>4, <2>5 DEF IsFinished
  <2> QED
    BY <2>1, <2>6, <2>7, MoveEnds
<1> QED
  BY <1>1, <1>2

\* The actions go from rest to rest: undo,
LEMMA Undone ==
    ASSUME NEW s, NoneOK(s), NEW t, t = UndoAction(s)
    PROVE  NoneOK(t)
<1>1. CASE s.circuit.undo = <<>>
  BY <1>1 DEF UndoAction
<1>2. CASE s.circuit.undo # <<>>
  <2> DEFINE d == UndoGroup(s.circuit)
             a == [s EXCEPT !.circuit = d]
             x == UndoneRecord(s.circuit, d, s.recorded)
  <2>1. t = [a EXCEPT !.recorded = x]
    <3>1. DOMAIN s = SessionFields
      BY DEF NoneOK
    <3>2. a.recorded = s.recorded
      BY <3>1 DEF SessionFields
    <3> QED
      BY <1>2, <3>2 DEF UndoAction
  <2>2. Rests(x, d)
    <3>1. Rests(s.recorded, s.circuit)
      BY DEF NoneOK
    <3> QED
      BY <1>2, <3>1, UndoRests
  <2>3. DOMAIN s = SessionFields /\ s.logic = NoLogic
    BY DEF NoneOK
  <2> HIDE DEF d, x
  <2>4. DOMAIN a = SessionFields /\ a.circuit = d /\ a.logic = s.logic
    BY <2>3, CircuitReplaced
  <2> HIDE DEF a
  <2>5. DOMAIN t = SessionFields /\ t.circuit = d /\ t.recorded = x /\ t.logic = s.logic
    BY <2>1, <2>4 DEF SessionFields
  <2> QED
    BY <2>2, <2>3, <2>5 DEF NoneOK
<1> QED
  BY <1>1, <1>2

\* redo,
LEMMA Redone ==
    ASSUME NEW s, NoneOK(s), NEW t, t = RedoAction(s)
    PROVE  NoneOK(t)
<1>1. CASE s.circuit.redo = <<>>
  BY <1>1 DEF RedoAction
<1>2. CASE s.circuit.redo # <<>>
  <2> DEFINE d == RedoGroup(s.circuit)
             a == [s EXCEPT !.circuit = d]
             x == RedoneRecord(s.circuit, d, s.recorded)
  <2>1. t = [a EXCEPT !.recorded = x]
    <3>1. DOMAIN s = SessionFields
      BY DEF NoneOK
    <3>2. a.recorded = s.recorded
      BY <3>1 DEF SessionFields
    <3> QED
      BY <1>2, <3>2 DEF RedoAction
  <2>2. Rests(x, d)
    <3>1. Rests(s.recorded, s.circuit)
      BY DEF NoneOK
    <3> QED
      BY <1>2, <3>1, RedoRests
  <2>3. DOMAIN s = SessionFields /\ s.logic = NoLogic
    BY DEF NoneOK
  <2> HIDE DEF d, x
  <2>4. DOMAIN a = SessionFields /\ a.circuit = d /\ a.logic = s.logic
    BY <2>3, CircuitReplaced
  <2> HIDE DEF a
  <2>5. DOMAIN t = SessionFields /\ t.circuit = d /\ t.recorded = x /\ t.logic = s.logic
    BY <2>1, <2>4 DEF SessionFields
  <2> QED
    BY <2>2, <2>3, <2>5 DEF NoneOK
<1> QED
  BY <1>1, <1>2

\* select all,
LEMMA AllSelected ==
    ASSUME NEW s, NoneOK(s), NEW t, t = SelectAllAction(s)
    PROVE  NoneOK(t)
<1> DEFINE c == s.circuit
           d == SetVisibleSelection(c, Ids(c))
           a == [s EXCEPT !.circuit = d]
<1>1. t = Finish(a)
  BY DEF SelectAllAction
<1>2. Editing(s.recorded, c) /\ Calm(State(c))
  BY RestsIs DEF NoneOK
<1>3. Ids(c) \subseteq DOMAIN c.items
  BY <1>2, CalmVisible
<1>4. Editing(s.recorded, d) /\ Calm(State(d))
  BY <1>2, <1>3, SelectedCalmly
<1> HIDE DEF d
<1>5. a = [s EXCEPT !.circuit = d]
  OBVIOUS
<1> HIDE DEF a
<1> QED
  BY <1>1, <1>4, <1>5, EditFinished

\* and delete.
LEMMA SelectedDeleted ==
    ASSUME NEW s, NoneOK(s), NEW order \in SetToSeqs(VisibleSelection(s.circuit)),
           NEW t, t = DeleteSelectedAction(s, order)
    PROVE  NoneOK(t)
<1>1. CASE order = <<>>
  BY <1>1 DEF DeleteSelectedAction
<1>2. CASE order # <<>>
  <2> DEFINE c == s.circuit
             b == SetVisibleSelection(c, {})
             d == DeleteAll(b, order)
             a == [s EXCEPT !.circuit = d]
  <2>1. t = Finish(a)
    BY <1>2 DEF DeleteSelectedAction
  <2>2. Editing(s.recorded, c) /\ Calm(State(c)) /\ Good(c)
    BY RestsIs, EditingIs DEF NoneOK
  <2>3. order \in SetToSeqs(c.initial) /\ c.initial \subseteq DOMAIN c.items
    BY <2>2, CalmVisible
  <2>4. Distinct(order) /\ Members(order) \subseteq DOMAIN c.items
    BY <2>2, <2>3, OrderTracks DEF Good
  <2>5. Editing(s.recorded, b) /\ Calm(State(b)) /\ b.items = c.items
    BY <2>2, SelectedCalmly
  <2> HIDE DEF b
  <2>6. /\ Rewinds(b, d) /\ KeysGone(State(b), State(d), KeysOf(b, Members(order)))
        /\ d.stored = <<>>
    BY <2>4, <2>5, EditingIs, DeleteAllGone
  <2> HIDE DEF d
  <2>7. Editing(s.recorded, d)
    <3>1. Good(d)
      BY <2>6 DEF Rewinds
    <3> QED
      BY <2>5, <2>6, <3>1, NothingStoredIn, EditingOn
  <2>8. Calm(State(d))
    BY <2>5, <2>6 DEF KeysGone, Calm
  <2>9. a = [s EXCEPT !.circuit = d]
    OBVIOUS
  <2> HIDE DEF a
  <2> QED
    BY <2>1, <2>7, <2>8, <2>9, EditFinished
<1> QED
  BY <1>1, <1>2

\* What is on the clipboard can be pasted where it is on the grid.
LEMMA ClipboardsCanBePasted ==
    ASSUME NEW clip \in Clipboards, NEW p,
           \A i \in DOMAIN clip : IsRepresentable(p + clip[i].offset)
    PROVE  CanBePasted(clip, p)
<1>1. clip \in Seq([def : Definition, offset : Nat])
  BY UserInputs
<1>2. /\ DOMAIN clip = 1 .. Len(clip) /\ IsSeq(clip)
      /\ \A i \in 1 .. Len(clip) : clip[i] \in [def : Definition, offset : Nat]
  <2> DEFINE S == [def : Definition, offset : Nat]
  <2>1. clip \in Seq(S)
    BY <1>1
  <2> HIDE DEF S
  <2>2. DOMAIN clip = 1 .. Len(clip) /\ \A i \in 1 .. Len(clip) : clip[i] \in S
    BY <2>1
  <2>3. IsSeq(clip)
    BY <2>1, SequenceOf
  <2> QED
    BY <2>2, <2>3 DEF S
<1> QED
  BY <1>2 DEF CanBePasted, IsRepresentable

\* A paste is inserted at once, or moved until it is confirmed.
LEMMA Pasted ==
    ASSUME NEW s, NoneOK(s), NEW clip \in Clipboards, NEW p,
           \A i \in DOMAIN clip : IsRepresentable(p + clip[i].offset),
           NEW t, t = PasteAndSelect(s, clip, p)
    PROVE  \/ NoneOK(t)
           \/ /\ MovingOK(t) /\ t.recorded = s.recorded /\ t.logic.deleteOnCancel
              /\ t.circuit = InsertClipboardData(s.circuit, clip, p)
              /\ AnythingColliding(t.circuit)
<1> DEFINE c == s.circuit
           d == InsertClipboardData(c, clip, p)
           a == [s EXCEPT !.circuit = d]
<1>1. t = SetupCollidingMove(a)
  BY DEF PasteAndSelect
<1>2. Editing(s.recorded, c) /\ Calm(State(c)) /\ DOMAIN s = SessionFields /\ s.logic = NoLogic
  BY RestsIs DEF NoneOK
<1>3. CanBePasted(clip, p)
  BY ClipboardsCanBePasted
<1>4. /\ Editing(s.recorded, d)
      /\ AnythingColliding(d) => SelectionIn(d, "collisions")
      /\ ~AnythingColliding(d) => Calm(State(d))
  BY <1>2, <1>3, ClipboardPasted
<1> HIDE DEF d
<1>5. /\ DOMAIN a = SessionFields /\ a.circuit = d /\ a.state = s.state /\ a.recorded = s.recorded
      /\ a.logic = s.logic
  BY <1>2, CircuitReplaced
<1>6. a = [s EXCEPT !.circuit = d]
  OBVIOUS
<1> HIDE DEF a
<1>7. CASE ~AnythingColliding(d)
  <2>1. t = Finish(a)
    BY <1>1, <1>5, <1>7 DEF SetupCollidingMove
  <2> QED
    BY <1>4, <1>6, <1>7, <2>1, EditFinished
<1>8. CASE AnythingColliding(d)
  <2> DEFINE l == SelectionMove("collisions", "waiting_for_confirmation", DeletesOnCancel)
             b == [a EXCEPT !.logic = l]
  <2>1. t = Checked(b)
    BY <1>1, <1>5, <1>8 DEF SetupCollidingMove
  <2>2. /\ DOMAIN l = MoveFields /\ l.type = "selection_move"
        /\ l.state = "waiting_for_confirmation" /\ l.mode = "collisions"
        /\ l.historyExpected = TRUE /\ l.last = 0 /\ l.total = 0 /\ l.offset = 0
        /\ l.deleteOnCancel
    BY DEF SelectionMove, MoveFields, DeletesOnCancel
  <2> HIDE DEF l
  <2>3. DOMAIN b = SessionFields /\ b.circuit = d /\ b.logic = l /\ b.recorded = s.recorded
    BY <1>5, LogicReplaced
  <2> HIDE DEF b
  <2>4. MoveOK(b)
    BY <1>4, <1>8, <2>2, <2>3 DEF MoveOK, IsMove, Placed, Mode
  <2>5. MovesBack(b)
    <3> DEFINE n == b.logic.total
    <3>1. n = 0
      BY <2>2, <2>3
    <3> HIDE DEF n
    <3>2. Movable(d, n)
      BY <1>4, <3>1, EditingIs, MovableFromHere
    <3> QED
      BY <2>3, <3>2 DEF MovesBack, n
  <2>6. t = b
    BY <2>1, <2>4, ContractHolds
  <2> QED
    BY <1>8, <2>2, <2>3, <2>4, <2>5, <2>6 DEF MovingOK, d
<1> QED
  BY <1>7, <1>8

-----------------------------------------------------------------------------
(***************************************************************************)
(* The actions.                                                            *)
(***************************************************************************)

UIInv == SessionOK(Session) /\ (logic.type \in PressedTypes => button)

\* The variables as the record that the handlers work on.
LEMMA SessionIs ==
    /\ DOMAIN Session = SessionFields /\ Session.circuit = circuit /\ Session.logic = logic
    /\ Session.state = state /\ Session.recorded = recorded
BY DEF Session, SessionFields

\* A step that handles an input keeps the invariant if its handler does,
LEMMA HandleKeeps ==
    ASSUME NEW t, SessionOK(t), Handle(t)
    PROVE  SessionOK(Session') /\ logic' = t.logic
<1>1. /\ DOMAIN Session' = SessionFields
      /\ Session'.circuit = t.circuit /\ Session'.logic = t.logic
      /\ Session'.recorded = t.recorded
  BY DEF Handle, Session, SessionFields
<1> QED
  BY <1>1, SameSession DEF Handle

\* and so does an action of the menu.
LEMMA ActionKeeps ==
    ASSUME UIInv, UNCHANGED button, NEW t, t = Session \/ NoneOK(t) \/ MovingOK(t), Handle(t)
    PROVE  UIInv'
<1>1. SessionOK(t)
  BY DEF UIInv, SessionOK
<1>2. SessionOK(Session') /\ logic' = t.logic
  BY <1>1, HandleKeeps
<1>3. t.logic.type \in PressedTypes => logic.type \in PressedTypes
  BY SessionIs, TypesOf DEF PressedTypes
<1> QED
  BY <1>2, <1>3 DEF UIInv

\* What the actions of the menu start from.
LEMMA Acting ==
    ASSUME UIInv, ~MayInterruptPaste, Action
    PROVE  SessionOK(Session) /\ NotDragging(Session) /\ UNCHANGED button
BY SessionIs DEF UIInv, Action, IsDraggingPaste, NotDragging

\* The orders of the selection serve the move that is going on.
LEMMA KeysInOrder ==
    ASSUME UIInv, NEW keys \in SelectionOrders
    PROVE  InKeys(Session, keys)
BY SessionIs, OrdersAreOrdered DEF UIInv, SelectionOrders

\* An action of the menu other than paste leaves the session as it is, or at rest.
LEMMA MenuEnds ==
    ASSUME ~MayInterruptPaste, UIInv,
           \/ Escape \/ Enter \/ Undo \/ Redo \/ SelectAll \/ DeleteSelected \/ Copy \/ SetState
    PROVE  \E t : (t = Session \/ NoneOK(t)) /\ Handle(t) /\ UNCHANGED button
<1>0. SessionOK(Session)
  BY DEF UIInv
<1>1. CASE Escape
  <2>1. PICK keys \in SelectionOrders : Action /\ Handle(AbortCurrentAction(Session, keys))
    BY <1>1 DEF Escape
  <2> DEFINE t == AbortCurrentAction(Session, keys)
  <2>2. t = Session \/ NoneOK(t)
    BY <2>1, Acting, KeysInOrder, Aborted
  <2> HIDE DEF t
  <2>3. Handle(t) /\ UNCHANGED button
    BY <2>1, Acting DEF t
  <2> QED
    BY <2>2, <2>3
<1>2. CASE Enter
  <2>1. PICK keys \in SelectionOrders : Action /\ Handle(ConfirmEditing(Session, keys))
    BY <1>2 DEF Enter
  <2> DEFINE t == ConfirmEditing(Session, keys)
  <2>2. t = Session \/ NoneOK(t)
    BY <1>0, KeysInOrder, Confirmed
  <2> HIDE DEF t
  <2>3. Handle(t) /\ UNCHANGED button
    BY <2>1, Acting DEF t
  <2> QED
    BY <2>2, <2>3
<1>3. CASE Undo
  <2>1. PICK keys \in SelectionOrders :
          Action /\ Handle(UndoAction(ReturnToSelecting(Session, keys)))
    BY <1>3 DEF Undo
  <2> DEFINE a == ReturnToSelecting(Session, keys)
             t == UndoAction(a)
  <2>2. NoneOK(a)
    BY <2>1, Acting, KeysInOrder, Returned
  <2> HIDE DEF a
  <2>3. NoneOK(t)
    BY <2>2, Undone
  <2> HIDE DEF t
  <2>4. Handle(t) /\ UNCHANGED button
    BY <2>1, Acting DEF t, a
  <2> QED
    BY <2>3, <2>4
<1>4. CASE Redo
  <2>1. PICK keys \in SelectionOrders :
          Action /\ Handle(RedoAction(ReturnToSelecting(Session, keys)))
    BY <1>4 DEF Redo
  <2> DEFINE a == ReturnToSelecting(Session, keys)
             t == RedoAction(a)
  <2>2. NoneOK(a)
    BY <2>1, Acting, KeysInOrder, Returned
  <2> HIDE DEF a
  <2>3. NoneOK(t)
    BY <2>2, Redone
  <2> HIDE DEF t
  <2>4. Handle(t) /\ UNCHANGED button
    BY <2>1, Acting DEF t, a
  <2> QED
    BY <2>3, <2>4
<1>5. CASE SelectAll
  <2>1. PICK keys \in SelectionOrders :
          Action /\ Handle(SelectAllAction(ReturnToSelecting(Session, keys)))
    BY <1>5 DEF SelectAll, Begin
  <2> DEFINE a == ReturnToSelecting(Session, keys)
             t == SelectAllAction(a)
  <2>2. NoneOK(a)
    BY <2>1, Acting, KeysInOrder, Returned
  <2> HIDE DEF a
  <2>3. NoneOK(t)
    BY <2>2, AllSelected
  <2> HIDE DEF t
  <2>4. Handle(t) /\ UNCHANGED button
    BY <2>1, Acting DEF t, a
  <2> QED
    BY <2>3, <2>4
<1>6. CASE DeleteSelected
  <2>1. PICK keys \in SelectionOrders :
          LET s == FinalizeEditing(Session, keys)
          IN /\ Action
             /\ \E order \in SetToSeqs(VisibleSelection(s.circuit)) :
                   Begin(DeleteSelectedAction(s, order))
    BY <1>6 DEF DeleteSelected
  <2> DEFINE a == FinalizeEditing(Session, keys)
  <2>2. Action /\ \E order \in SetToSeqs(VisibleSelection(a.circuit)) :
                     Handle(DeleteSelectedAction(a, order))
    BY <2>1 DEF Begin
  <2>3. NoneOK(a)
    BY <2>1, Acting, KeysInOrder, EditingFinalized
  <2> HIDE DEF a
  <2>4. PICK order \in SetToSeqs(VisibleSelection(a.circuit)) :
          Handle(DeleteSelectedAction(a, order))
    BY <2>2
  <2> DEFINE t == DeleteSelectedAction(a, order)
  <2>5. NoneOK(t)
    BY <2>3, SelectedDeleted
  <2> HIDE DEF t
  <2>6. Handle(t) /\ UNCHANGED button
    BY <2>2, <2>4, Acting DEF t
  <2> QED
    BY <2>5, <2>6
<1>7. CASE Copy
  <2>1. PICK keys \in SelectionOrders : Action /\ Handle(FinalizeEditing(Session, keys))
    BY <1>7 DEF Copy
  <2> DEFINE t == FinalizeEditing(Session, keys)
  <2>2. NoneOK(t)
    BY <2>1, Acting, KeysInOrder, EditingFinalized
  <2> HIDE DEF t
  <2>3. Handle(t) /\ UNCHANGED button
    BY <2>1, Acting DEF t
  <2> QED
    BY <2>2, <2>3
<1>8. CASE SetState
  <2>1. PICK new \in {"selecting", "inserting"}, keys \in SelectionOrders :
          Action /\ Handle(SetCircuitState(Session, keys, new))
    BY <1>8 DEF SetState, Begin
  <2> DEFINE t == SetCircuitState(Session, keys, new)
  <2>2. t = Session \/ NoneOK(t)
    BY <2>1, Acting, KeysInOrder, StateSet
  <2> HIDE DEF t
  <2>3. Handle(t) /\ UNCHANGED button
    BY <2>1, Acting DEF t
  <2> QED
    BY <2>2, <2>3
<1> QED
  BY <1>1, <1>2, <1>3, <1>4, <1>5, <1>6, <1>7, <1>8

\* Every step keeps a session in its phases.
LEMMA NextKeepsSession ==
    ASSUME ~MayInterruptPaste PROVE UIInv /\ [UINext]_vars => UIInv'
<1> SUFFICES ASSUME UIInv, [UINext]_vars PROVE UIInv'
  OBVIOUS
<1>0. SessionOK(Session)
  BY DEF UIInv
<1>1. CASE MousePress
  <2>1. PICK p \in Points, modifier \in {"none", "control", "alt"}, def \in NewDefinitions :
          /\ ~button /\ button' = TRUE
          /\ Handle(PressLeft(Session, p, modifier, def))
    BY <1>1 DEF MousePress, Begin
  <2> DEFINE t == PressLeft(Session, p, modifier, def)
  <2>2. Session.logic.type \notin PressedTypes
    BY <2>1, SessionIs DEF UIInv
  <2>3. SessionOK(t)
    BY <1>0, <2>2, LeftPressed
  <2> HIDE DEF t
  <2>4. Handle(t)
    BY <2>1 DEF t
  <2> QED
    BY <2>1, <2>3, <2>4, HandleKeeps DEF UIInv
<1>2. CASE MouseMove
  <2>1. PICK p \in Points, keys \in SelectionOrders :
          button /\ UNCHANGED button /\ Handle(MoveLeft(Session, keys, p))
    BY <1>2 DEF MouseMove
  <2> DEFINE t == MoveLeft(Session, keys, p)
  <2>2. Handled(Session, t)
    BY <1>0, KeysInOrder, LeftMoved
  <2> HIDE DEF t
  <2>3. Handle(t) /\ SessionOK(t)
    BY <2>1, <2>2 DEF t, Handled
  <2> QED
    BY <2>1, <2>3, HandleKeeps DEF UIInv
<1>3. CASE MouseRelease
  <2>1. PICK p \in Points, keys \in SelectionOrders :
          button /\ button' = FALSE /\ Handle(ReleaseLeft(Session, keys, p))
    BY <1>3 DEF MouseRelease
  <2> DEFINE t == ReleaseLeft(Session, keys, p)
  <2>2. NoneOK(t) \/ MovingOK(t)
    BY <1>0, KeysInOrder, LeftReleased
  <2> HIDE DEF t
  <2>3. Handle(t) /\ SessionOK(t) /\ t.logic.type \notin PressedTypes
    BY <2>1, <2>2, TypesOf DEF t, SessionOK, PressedTypes
  <2> QED
    BY <2>1, <2>3, HandleKeeps DEF UIInv
<1>4. CASE Paste
  <2>1. PICK clip \in Clipboards, p \in Points, keys \in SelectionOrders :
          /\ \A i \in DOMAIN clip : IsRepresentable(p + clip[i].offset)
          /\ Action /\ Handle(PasteAndSelect(ReturnToSelecting(Session, keys), clip, p))
    BY <1>4 DEF Paste, Begin
  <2> DEFINE a == ReturnToSelecting(Session, keys)
             t == PasteAndSelect(a, clip, p)
  <2>2. NoneOK(a)
    BY <2>1, Acting, KeysInOrder, Returned
  <2> HIDE DEF a
  <2>3. NoneOK(t) \/ MovingOK(t)
    BY <2>1, <2>2, Pasted
  <2> HIDE DEF t
  <2>4. Handle(t) /\ UNCHANGED button
    BY <2>1, Acting DEF t, a
  <2> QED
    BY <2>3, <2>4, ActionKeeps
<1>5. CASE \/ Escape \/ Enter \/ Undo \/ Redo \/ SelectAll \/ DeleteSelected \/ Copy \/ SetState
  <2>1. PICK t : (t = Session \/ NoneOK(t)) /\ Handle(t) /\ UNCHANGED button
    BY <1>5, MenuEnds
  <2> QED
    BY <2>1, ActionKeeps
<1>6. CASE UNCHANGED vars
  <2>1. Session' = Session /\ logic' = logic /\ button' = button
    BY <1>6 DEF vars, Session
  <2> QED
    BY <1>0, <2>1 DEF UIInv
<1> QED
  BY <1>1, <1>2, <1>3, <1>4, <1>5, <1>6 DEF UINext

\* A session begins at rest.
LEMMA SessionBegins == UIInit => UIInv
<1> SUFFICES ASSUME UIInit PROVE UIInv
  OBVIOUS
<1>1. Rests(recorded, circuit) /\ logic = NoLogic
  BY LoadedRests DEF UIInit
<1>2. NoneOK(Session)
  BY <1>1, SessionIs DEF NoneOK
<1> QED
  BY <1>2, SessionIs, TypesOf DEF UIInv, SessionOK, PressedTypes

\* As long as no user action interrupts the drag of what was pasted, a session is in one
\* of its phases: the circuit rests, or the mouse logic can end its gesture.
THEOREM GesturesCanEnd == ASSUME ~MayInterruptPaste PROVE UISpec => []UIInv
<1>1. UIInit => UIInv
  BY SessionBegins
<1>2. UIInv /\ [UINext]_vars => UIInv'
  BY NextKeepsSession
<1> QED
  BY <1>1, <1>2, PTL DEF UISpec

\* No event of the mouse or the keyboard throws.
THEOREM GesturesNeverThrow == ASSUME ~MayInterruptPaste PROVE UISpec => []NeverThrows
<1>1. UIInv => NeverThrows
  BY SessionIs, NoThrow DEF UIInv, NeverThrows
<1> QED
  BY <1>1, GesturesCanEnd, PTL

\* Between gestures no group is open, the history is on and all items are inserted.
THEOREM GesturesLeaveNothingOpen ==
    ASSUME ~MayInterruptPaste PROVE UISpec => []NothingLeftOpen
<1>1. UIInv => NothingLeftOpen
  <2> SUFFICES ASSUME UIInv, logic.type = "none" PROVE NothingLeftOpen
    BY DEF NothingLeftOpen, AtRest
  <2>1. Rests(recorded, circuit)
    BY SessionIs, TypesOf DEF UIInv, SessionOK, NoneOK
  <2>2. Balanced(circuit) /\ Calm(State(circuit)) /\ Editing(recorded, circuit)
    BY <2>1, RestsIs
  <2>3. circuit.operations = <<>> /\ DOMAIN circuit.items = Ids(circuit)
    BY <2>2, CalmVisible
  <2>4. ASSUME NEW id \in Ids(circuit) PROVE circuit.items[id].display = "normal"
    <3>1. Sound(circuit)
      BY <2>2, EditingIs
    <3>2. /\ State(circuit).items[circuit.keys[id]] = circuit.items[id]
          /\ circuit.keys[id] \in DOMAIN State(circuit).items
      BY <2>3, <3>1, StateItems
    <3> QED
      BY <2>2, <3>2 DEF Calm
  <2> QED
    BY <2>2, <2>3, <2>4, EditingIs DEF NothingLeftOpen, Balanced, Finished, Unstored
<1> QED
  BY <1>1, GesturesCanEnd, PTL

-----------------------------------------------------------------------------
(***************************************************************************)
(* The records of a session are what undo and redo lead to.                *)
(***************************************************************************)

\* A set of natural numbers has a least member.
LEMMA LeastMember ==
    ASSUME NEW T \in SUBSET Nat, T # {}
    PROVE  \E m \in T : \A n \in T : m <= n
<1> DEFINE R == {ss \in Nat \X Nat : ss[1] < ss[2]}
<1>1. IsWellFoundedOn(R, Nat)
  BY NatLessThanWellFounded DEF OpToRel
<1> HIDE DEF R
<1>2. PICK m \in T : \A n \in T : <<n, m>> \notin R
  BY <1>1, WFMin
<1>3. \A n \in T : ~(n < m)
  BY <1>2 DEF R
<1> QED
  BY <1>3

\* A trail along a stack has as many members as the stack has groups.
LEMMA GroupsCounted ==
    ASSUME NEW s, IsSeq(s), NEW f, NEW list, Trail(list, s, f, Len(s))
    PROVE  IsSeq(list) /\ Len(list) = GroupCount(s)
<1> DEFINE n == Len(list)
           M == {i \in DOMAIN s : IsNewGroup(s[i])}
<1>1. IsSeq(list) /\ n \in Nat /\ Len(s) \in Nat /\ DOMAIN s = 1 .. Len(s)
  BY DEF Trail, IsSeq
<1>2. PICK at : Marks(s, at, n, Len(s))
  BY DEF Trail
<1> HIDE DEF n
<1>3. /\ at[0] = Len(s) /\ at[n] = 0
      /\ \A i \in 0 .. n : at[i] \in 0 .. Len(s) /\ (at[i] = 0 \/ s[at[i]].type = "new_group")
      /\ \A i, j \in 0 .. n : i < j => at[j] + 1 < at[i]
      /\ \A i \in 1 .. n : \A k \in 1 .. Len(s) :
             at[i] < k /\ k < at[i - 1] => s[k].type # "new_group"
  BY <1>2 DEF Marks, Bottom
<1>4. M = {k \in 1 .. Len(s) : s[k].type = "new_group"}
  BY <1>1 DEF IsNewGroup
<1> HIDE DEF M
<1> DEFINE m == [i \in 1 .. n |-> at[i - 1]]
<1>5. \A i \in 1 .. n : at[i - 1] \in M
  <2> SUFFICES ASSUME NEW i \in 1 .. n PROVE at[i - 1] \in M
    OBVIOUS
  <2>1. i \in 0 .. n /\ i - 1 \in 0 .. n /\ i - 1 < i
    BY <1>1
  <2>2. at[i] + 1 < at[i - 1] /\ at[i] \in 0 .. Len(s) /\ at[i - 1] \in 0 .. Len(s)
    BY <1>3, <2>1
  <2>3. at[i - 1] # 0 /\ at[i - 1] \in 1 .. Len(s)
    BY <1>1, <2>2
  <2> QED
    BY <1>3, <1>4, <2>1, <2>3
<1>6. \A i, j \in 1 .. n : i # j => at[i - 1] # at[j - 1]
  <2> SUFFICES ASSUME NEW i \in 1 .. n, NEW j \in 1 .. n, i < j
               PROVE  at[i - 1] # at[j - 1]
    BY <1>1
  <2>1. i - 1 \in 0 .. n /\ j - 1 \in 0 .. n /\ i - 1 < j - 1
    BY <1>1
  <2>2. at[j - 1] + 1 < at[i - 1] /\ at[i - 1] \in Int /\ at[j - 1] \in Int
    BY <1>3, <2>1
  <2> QED
    BY <2>2
<1>7. \A k \in M : \E i \in 1 .. n : at[i - 1] = k
  <2> SUFFICES ASSUME NEW k \in M PROVE \E i \in 1 .. n : at[i - 1] = k
    OBVIOUS
  <2>1. k \in 1 .. Len(s) /\ s[k].type = "new_group"
    BY <1>4
  <2> DEFINE T == {i \in 0 .. n : at[i] < k}
  <2>2. n \in T /\ T \in SUBSET Nat
    BY <1>1, <1>3, <2>1
  <2>3. PICK j \in T : \A i \in T : j <= i
    BY <2>2, LeastMember
  <2>4. 0 \notin T
    BY <1>1, <1>3, <2>1
  <2>5. j \in 1 .. n /\ j - 1 \in 0 .. n /\ j - 1 \notin T
    BY <1>1, <2>3, <2>4
  <2>6. ~(at[j - 1] < k) /\ at[j - 1] \in 0 .. Len(s) /\ at[j] < k
    BY <1>3, <2>3, <2>5
  <2>7. ~(k < at[j - 1])
    BY <1>3, <2>1, <2>5, <2>6
  <2>8. at[j - 1] = k
    BY <1>1, <2>1, <2>6, <2>7
  <2> QED
    BY <2>5, <2>8
<1>8. m \in Bijection(1 .. n, M)
  <2>1. m \in [1 .. n -> M]
    BY <1>5
  <2>2. \A i, j \in 1 .. n : m[i] = m[j] => i = j
    BY <1>6
  <2>3. \A k \in M : \E i \in 1 .. n : m[i] = k
    BY <1>7
  <2> HIDE DEF m
  <2> QED
    BY <2>1, <2>2, <2>3 DEF Bijection, Injection, Surjection, IsInjective
<1>9. IsFiniteSet(1 .. n) /\ Cardinality(1 .. n) = n
  BY <1>1, FS_Interval
<1>10. Cardinality(M) = n
  BY <1>8, <1>9, FS_Bijection DEF ExistsBijection
<1> QED
  BY <1>1, <1>10 DEF GroupCount, M, n

\* Between gestures the circuit is the one that the last finished group recorded, and there
\* is a record for every group of the undo stack and of the redo stack: no gesture changes
\* the circuit behind the back of its history.
THEOREM RestFollowsHistory ==
    ASSUME ~MayInterruptPaste PROVE UISpec => []RestIsRecorded
<1>1. UIInv => RestIsRecorded
  <2> SUFFICES ASSUME UIInv, logic.type = "none" PROVE RestIsRecorded
    BY DEF RestIsRecorded, AtRest
  <2>1. Rests(recorded, circuit)
    BY SessionIs, TypesOf DEF UIInv, SessionOK, NoneOK
  <2>2. PICK r : Settled(circuit, r) /\ RecordedAs(recorded, r)
    BY <2>1 DEF Rests
  <2>3. Snapshot(circuit) = Seen(State(circuit)) /\ r.start = Seen(State(circuit))
    BY <2>2, SettledIsRecorded, RecordedSeen DEF Settled
  <2>4. IsSeq(circuit.undo) /\ IsSeq(circuit.redo)
    <3>1. Good(circuit)
      BY <2>1, RestsIs, EditingIs
    <3> QED
      BY <3>1 DEF Good, Sound, Shape, StackOK
  <2>5. PICK f : Trail(r.past, circuit.undo, f, Len(circuit.undo))
    BY <2>2 DEF Settled, Lands
  <2>6. PICK g : Trail(r.future, circuit.redo, g, Len(circuit.redo))
    BY <2>2 DEF Settled, Lands
  <2>7. IsSeq(r.past) /\ Len(r.past) = GroupCount(circuit.undo)
    BY <2>4, <2>5, GroupsCounted
  <2>8. Len(r.future) = GroupCount(circuit.redo)
    BY <2>4, <2>6, GroupsCounted
  <2>9. recorded.past = Prepend(r.start, r.past) /\ recorded.future = r.future
    BY <2>2 DEF RecordedAs
  <2>10. Head(recorded.past) = r.start
    BY <2>7, <2>9, PrependTaken
  <2>11. Len(recorded.past) = Len(r.past) + 1
    BY <2>7, <2>9, PrependSeq
  <2> QED
    BY <2>3, <2>7, <2>8, <2>9, <2>10, <2>11 DEF RestIsRecorded
<1> QED
  BY <1>1, GesturesCanEnd, PTL

-----------------------------------------------------------------------------
(***************************************************************************)
(* Where the items lie, and where those that are moved came from.          *)
(***************************************************************************)

Spot(key, item) == [key |-> key, position |-> item.position, def |-> item.def]
Spots(c) == {Spot(c.keys[id], c.items[id]) : id \in DOMAIN c.items}
\* What is not selected.
Others(c) == {Spot(c.keys[id], c.items[id]) : id \in DOMAIN c.items \ c.initial}
\* The layout with what is selected moved back.
Origin(c, id, total) ==
    [key |-> c.keys[id], def |-> c.items[id].def,
     position |-> c.items[id].position - (IF id \in c.initial THEN total ELSE 0)]
Start(c, total) == {Origin(c, id, total) : id \in DOMAIN c.items}

Apart(spots) == \A x, y \in spots : x.position = y.position => x.key = y.key

\* An item is shown as colliding only where another one is.
Honest(items) == \A id \in DOMAIN items : items[id].display = "colliding"
    => \E j \in DOMAIN items \ {id} : items[j].position = items[id].position

\* The selected items are elsewhere, and otherwise the items differ in what they show.
Shifted(c, d, delta) ==
    /\ d.keys = c.keys /\ d.initial = c.initial /\ DOMAIN d.items = DOMAIN c.items
    /\ \A id \in DOMAIN c.items :
          /\ d.items[id].def = c.items[id].def
          /\ d.items[id].position
               = c.items[id].position + (IF id \in c.initial THEN delta ELSE 0)

Positioned(c) == \A id \in DOMAIN c.items : c.items[id].position \in Int

\* The layout by keys is the layout by ids.
LEMMA SpotsByKey ==
    ASSUME NEW c, Good(c), NEW st, st = State(c)
    PROVE  /\ Spots(c) = {Spot(k, st.items[k]) : k \in DOMAIN st.items}
           /\ Others(c) = {Spot(k, st.items[k]) : k \in DOMAIN st.items \ st.selected}
<1>1. /\ DOMAIN st.items = {c.keys[id] : id \in DOMAIN c.items}
      /\ \A id \in DOMAIN c.items :
            /\ st.items[c.keys[id]] = c.items[id]
            /\ c.keys[id] \in st.selected <=> id \in c.initial
  BY StateItems DEF Good
<1>2. \A id \in DOMAIN c.items : Spot(c.keys[id], c.items[id]) = Spot(c.keys[id], st.items[c.keys[id]])
  BY <1>1
<1>3. Spots(c) = {Spot(k, st.items[k]) : k \in DOMAIN st.items}
  BY <1>1, <1>2 DEF Spots
<1>4. Others(c) = {Spot(k, st.items[k]) : k \in DOMAIN st.items \ st.selected}
  BY <1>1, <1>2 DEF Others
<1> QED
  BY <1>3, <1>4

\* A snapshot of a circuit keeps its layout,
LEMMA LayoutSeen ==
    ASSUME NEW c, Good(c) PROVE LayoutOf(Snapshot(c)) = Spots(c)
<1> DEFINE Element(id) == [key |-> c.keys[id], item |-> c.items[id], selected |-> id \in c.initial]
           Laid(e) == [key |-> e.key, position |-> e.item.position, def |-> e.item.def]
<1>1. Ids(c) = DOMAIN c.items
  BY ItemIds DEF Good
<1>2. Snapshot(c).elements = {Element(id) : id \in DOMAIN c.items}
  BY <1>1 DEF Snapshot
<1>3. \A id : Laid(Element(id)) = Spot(c.keys[id], c.items[id])
  BY DEF Spot
<1>4. LayoutOf(Snapshot(c)) = {Laid(e) : e \in Snapshot(c).elements}
  BY DEF LayoutOf
<1> HIDE DEF Element, Laid
<1> QED
  BY <1>2, <1>3, <1>4 DEF Spots

\* and so does the last record of a circuit that rests,
LEMMA RestsLayout ==
    ASSUME NEW rec, NEW c, Rests(rec, c)
    PROVE  LayoutOf(Head(rec.past)) = Spots(c)
<1>1. PICK r : Settled(c, r) /\ RecordedAs(rec, r)
  BY DEF Rests
<1>2. Good(c)
  BY RestsIs, EditingIs
<1>3. Snapshot(c) = Seen(State(c)) /\ r.start = Seen(State(c))
  BY <1>1, SettledIsRecorded, RecordedSeen DEF Settled
<1>4. IsSeq(r.past)
  BY <1>1, SettledIsRecorded, RecordsAreSeqs
<1>5. Head(rec.past) = r.start
  BY <1>1, <1>4, PrependTaken DEF RecordedAs
<1> QED
  BY <1>2, <1>3, <1>5, LayoutSeen

\* where no two items are at the same place.
LEMMA CalmApart ==
    ASSUME NEW c, Good(c), Calm(State(c)) PROVE Apart(Spots(c)) /\ Honest(c.items)
<1>1. \A id \in DOMAIN c.items : c.items[id].display = "normal"
  BY StateItems DEF Good, Calm
<1>2. \A i, j \in DOMAIN c.items : c.items[i].position = c.items[j].position => i = j
  BY <1>1 DEF Good, Sound, Disjoint, IsInserted
<1> QED
  BY <1>1, <1>2 DEF Apart, Spots, Spot, Honest

\* Shifts add up,
LEMMA ShiftedTwice ==
    ASSUME NEW c, Positioned(c), NEW d, NEW e, NEW m \in Int, NEW n \in Int,
           Shifted(c, d, m), Shifted(d, e, n), NEW sum, sum = m + n
    PROVE  Shifted(c, e, sum)
<1>1. /\ e.keys = c.keys /\ e.initial = c.initial /\ d.initial = c.initial
      /\ DOMAIN e.items = DOMAIN c.items /\ DOMAIN d.items = DOMAIN c.items
  BY DEF Shifted
<1>2. ASSUME NEW id \in DOMAIN c.items
      PROVE  /\ e.items[id].def = c.items[id].def
             /\ e.items[id].position
                  = c.items[id].position + (IF id \in c.initial THEN sum ELSE 0)
  <2>1. /\ e.items[id].def = d.items[id].def /\ d.items[id].def = c.items[id].def
        /\ d.items[id].position = c.items[id].position + (IF id \in c.initial THEN m ELSE 0)
        /\ e.items[id].position = d.items[id].position + (IF id \in c.initial THEN n ELSE 0)
        /\ c.items[id].position \in Int
    BY <1>1 DEF Shifted, Positioned
  <2> QED
    BY <2>1
<1> QED
  BY <1>1, <1>2 DEF Shifted

\* and leave what was moved where it came from.
LEMMA StartShifted ==
    ASSUME NEW c, Positioned(c), NEW d, NEW delta \in Int, Shifted(c, d, delta),
           NEW m \in Int, NEW n \in Int, delta = n - m
    PROVE  Start(d, n) = Start(c, m) /\ Others(d) = Others(c)
<1>1. DOMAIN d.items = DOMAIN c.items /\ d.keys = c.keys /\ d.initial = c.initial
  BY DEF Shifted
<1>2. \A id \in DOMAIN c.items : Origin(d, id, n) = Origin(c, id, m)
  <2> SUFFICES ASSUME NEW id \in DOMAIN c.items PROVE Origin(d, id, n) = Origin(c, id, m)
    OBVIOUS
  <2>1. /\ d.items[id].def = c.items[id].def
        /\ d.items[id].position = c.items[id].position + (IF id \in c.initial THEN delta ELSE 0)
        /\ c.items[id].position \in Int
    BY DEF Shifted, Positioned
  <2>2. d.items[id].position - (IF id \in c.initial THEN n ELSE 0)
          = c.items[id].position - (IF id \in c.initial THEN m ELSE 0)
    BY <2>1
  <2> QED
    BY <1>1, <2>1, <2>2 DEF Origin
<1>3. \A id \in DOMAIN c.items \ c.initial :
          Spot(d.keys[id], d.items[id]) = Spot(c.keys[id], c.items[id])
  <2> SUFFICES ASSUME NEW id \in DOMAIN c.items \ c.initial
               PROVE  Spot(d.keys[id], d.items[id]) = Spot(c.keys[id], c.items[id])
    OBVIOUS
  <2>1. /\ d.items[id].def = c.items[id].def
        /\ d.items[id].position = c.items[id].position + 0
        /\ c.items[id].position \in Int
    BY DEF Shifted, Positioned
  <2>2. d.items[id].position = c.items[id].position
    BY <2>1
  <2> QED
    BY <1>1, <2>1, <2>2 DEF Spot
<1> QED
  BY <1>1, <1>2, <1>3 DEF Start, Others

\* What was not moved, or was moved back, is where it came from.
LEMMA StartIsHere ==
    ASSUME NEW c, Positioned(c), NEW none, none = 0
    PROVE  Start(c, none) = Spots(c) /\ Shifted(c, c, none)
<1>1. \A id \in DOMAIN c.items : Origin(c, id, none) = Spot(c.keys[id], c.items[id])
  <2> SUFFICES ASSUME NEW id \in DOMAIN c.items
               PROVE  Origin(c, id, none) = Spot(c.keys[id], c.items[id])
    OBVIOUS
  <2>1. c.items[id].position - (IF id \in c.initial THEN none ELSE 0) = c.items[id].position
    BY DEF Positioned
  <2> QED
    BY <2>1 DEF Origin, Spot
<1>2. Shifted(c, c, none)
  BY DEF Shifted, Positioned
<1> QED
  BY <1>1, <1>2 DEF Start, Spots

\* Positions are numbers.
LEMMA GoodPositions == ASSUME NEW c, Good(c) PROVE Positioned(c)
BY DEF Good, Item, Positioned

\* and so they are of all items.
LEMMA PositionsAre == ASSUME NEW c, ItemsAre(c.items) PROVE Positioned(c)
BY DEF ItemsAre, Item, Positioned

\* Nothing moves if only the mode changes, and nothing collides alone.
LEMMA ModeSetShifts ==
    ASSUME NEW c, Good(c), NEW d, Good(d), d.keys = c.keys, NEW mode, mode # "insert_or_discard",
           ModeSet(State(c), State(d), State(c).selected, mode), NEW none, none = 0
    PROVE  Shifted(c, d, none) /\ (Honest(c.items) => Honest(d.items))
<1> DEFINE st == State(c)
           ts == State(d)
<1>1. /\ DOMAIN d.items = DOMAIN c.items /\ c.initial \subseteq DOMAIN c.items
      /\ d.initial \subseteq DOMAIN d.items
  BY DEF Good, Sound, Shape, KeysOK
<1>2. /\ \A id \in DOMAIN c.items : /\ c.keys[id] \in DOMAIN st.items
                                    /\ st.items[c.keys[id]] = c.items[id]
                                    /\ c.keys[id] \in st.selected <=> id \in c.initial
      /\ DOMAIN st.items = {c.keys[id] : id \in DOMAIN c.items}
  BY StateItems DEF Good
<1>3. \A id \in DOMAIN c.items : /\ c.keys[id] \in DOMAIN ts.items
                                 /\ ts.items[c.keys[id]] = d.items[id]
                                 /\ c.keys[id] \in ts.selected <=> id \in d.initial
  BY <1>1, StateItems DEF Good
<1> HIDE DEF st, ts
<1>4. ModeSet(st, ts, st.selected, mode)
  BY DEF st, ts
<1>5. d.initial = c.initial
  <2>1. ts.selected = st.selected \cap DOMAIN ts.items
    BY <1>4 DEF ModeSet
  <2>2. \A id \in DOMAIN c.items : id \in d.initial <=> id \in c.initial
    BY <1>2, <1>3, <2>1
  <2> QED
    BY <1>1, <2>2
<1>6. \A id \in DOMAIN c.items : /\ d.items[id].position = c.items[id].position
                                 /\ d.items[id].def = c.items[id].def
  <2> SUFFICES ASSUME NEW id \in DOMAIN c.items
               PROVE  /\ d.items[id].position = c.items[id].position
                      /\ d.items[id].def = c.items[id].def
    OBVIOUS
  <2> DEFINE k == c.keys[id]
  <2>1. /\ k \in DOMAIN st.items /\ st.items[k] = c.items[id] /\ ts.items[k] = d.items[id]
    BY <1>2, <1>3
  <2> HIDE DEF k
  <2>2. ts.items[k].position = st.items[k].position /\ ts.items[k].def = st.items[k].def
    BY <1>4, <2>1 DEF ModeSet, InMode
  <2> QED
    BY <2>1, <2>2
<1>7. Shifted(c, d, none)
  <2>1. Positioned(c)
    BY GoodPositions
  <2> QED
    BY <1>1, <1>5, <1>6, <2>1 DEF Shifted, Positioned
<1>8. ASSUME Honest(c.items), NEW id \in DOMAIN d.items, d.items[id].display = "colliding"
      PROVE  \E j \in DOMAIN d.items \ {id} : d.items[j].position = d.items[id].position
  <2> DEFINE k == c.keys[id]
  <2>1. /\ k \in DOMAIN st.items /\ st.items[k] = c.items[id] /\ ts.items[k] = d.items[id]
    BY <1>1, <1>2, <1>3
  <2>2. CASE c.items[id].display = "colliding"
    BY <1>1, <1>6, <1>8, <2>2 DEF Honest
  <2>3. CASE c.items[id].display # "colliding"
    <3>1. Crowded(st, k)
      <4> HIDE DEF k
      <4> QED
        BY <1>4, <1>8, <2>1, <2>3 DEF ModeSet, InMode
    <3>2. PICK l \in DOMAIN st.items \ {k} : st.items[l].position = st.items[k].position
      BY <2>1, <2>3, <3>1 DEF Crowded
    <3>3. PICK j \in DOMAIN c.items : l = c.keys[j]
      BY <1>2, <3>2
    <3> QED
      BY <1>1, <1>2, <1>6, <2>1, <3>2, <3>3
  <2> QED
    BY <2>2, <2>3
<1> QED
  BY <1>7, <1>8 DEF Honest

\* Where no two items are at the same place, the insertion discards none.
LEMMA ApartInserts ==
    ASSUME NEW c, Good(c), NEW d, Good(d), Honest(c.items), Apart(Spots(c)), NEW keys, NEW mode,
           ModeSet(State(c), State(d), keys, mode)
    PROVE  Spots(d) = Spots(c)
<1> DEFINE st == State(c)
           ts == State(d)
<1>1. /\ \A id \in DOMAIN c.items : st.items[c.keys[id]] = c.items[id]
      /\ DOMAIN st.items = {c.keys[id] : id \in DOMAIN c.items}
      /\ \A i, j \in DOMAIN c.items : c.keys[i] = c.keys[j] => i = j
  BY StateItems DEF Good, Sound, Shape, KeysOK
<1>2. /\ Spots(c) = {Spot(k, st.items[k]) : k \in DOMAIN st.items}
      /\ Spots(d) = {Spot(k, ts.items[k]) : k \in DOMAIN ts.items}
  BY SpotsByKey
<1> HIDE DEF st, ts
<1>3. ModeSet(st, ts, keys, mode)
  BY DEF st, ts
<1>4. ASSUME NEW k \in DOMAIN st.items PROVE ~Crowded(st, k)
  <2>1. ASSUME NEW l \in DOMAIN st.items \ {k}, st.items[l].position = st.items[k].position
        PROVE  FALSE
    <3> DEFINE x == Spot(k, st.items[k])
               y == Spot(l, st.items[l])
    <3>1. /\ x.key = k /\ y.key = l /\ x.position = st.items[k].position
          /\ y.position = st.items[l].position
      BY DEF Spot
    <3>2. x \in Spots(c) /\ y \in Spots(c)
      BY <1>2
    <3> HIDE DEF x, y
    <3> QED
      BY <2>1, <3>1, <3>2 DEF Apart
  <2>2. CASE st.items[k].display = "colliding"
    <3>1. PICK id \in DOMAIN c.items : k = c.keys[id]
      BY <1>1
    <3>2. PICK j \in DOMAIN c.items \ {id} : c.items[j].position = c.items[id].position
      BY <1>1, <2>2, <3>1 DEF Honest
    <3>3. c.keys[j] \in DOMAIN st.items \ {k}
      BY <1>1, <3>1, <3>2
    <3> QED
      BY <1>1, <2>1, <3>1, <3>2, <3>3
  <2> QED
    BY <2>1, <2>2 DEF Crowded
<1>5. DOMAIN ts.items = DOMAIN st.items
  BY <1>3, <1>4 DEF ModeSet
<1>6. \A k \in DOMAIN st.items : Spot(k, ts.items[k]) = Spot(k, st.items[k])
  <2> SUFFICES ASSUME NEW k \in DOMAIN st.items
               PROVE  Spot(k, ts.items[k]) = Spot(k, st.items[k])
    OBVIOUS
  <2>1. ts.items[k].position = st.items[k].position /\ ts.items[k].def = st.items[k].def
    BY <1>3, <1>5 DEF ModeSet, InMode
  <2> QED
    BY <2>1 DEF Spot
<1> QED
  BY <1>2, <1>5, <1>6

-----------------------------------------------------------------------------
(***************************************************************************)
(* A move knows where it began.                                            *)
(***************************************************************************)

\* A change of the visible selection's mode is one of the items' modes.
LEMMA VisibleModeSets ==
    ASSUME NEW rec, NEW c, Editing(rec, c), NEW from, SelectionIn(c, from),
           NEW keys, Ordered(c, keys), NEW mode \in Mode,
           NEW d, d = ChangeVisibleMode(ApplyAllVisibleSelectionOperations(c), keys, mode)
    PROVE  /\ Good(c) /\ Good(d) /\ ModeSet(State(c), State(d), State(c).selected, mode)
           /\ mode # "insert_or_discard" => d.keys = c.keys
<1> DEFINE s == InOrder(c, keys)
<1>1. c.operations = <<>> /\ c.cached = {}
  BY DEF SelectionIn
<1>2. ApplyAllVisibleSelectionOperations(c) = c
  BY <1>1, Zenon DEF ApplyAllVisibleSelectionOperations
<1>3. d = ChangeSelectionMode(c, s, mode)
  BY <1>2 DEF ChangeVisibleMode
<1>4. Good(c) /\ c.initial \subseteq DOMAIN c.items /\ KeysOK(c.keys, DOMAIN c.items)
  BY EditingIs DEF Sound, Shape
<1>5. Distinct(s) /\ Members(s) = c.initial
  BY <1>1, <1>4, InOrderSelects DEF Ordered
<1> HIDE DEF s
<1>6. KeysOf(c, Members(s)) = State(c).selected
  BY <1>5 DEF State
<1>7. /\ Rewinds(c, d) /\ ModeSet(State(c), State(d), KeysOf(c, Members(s)), mode)
      /\ mode # "insert_or_discard" => d.keys = c.keys
  BY <1>3, <1>4, <1>5, ChangeSelectionModeSets
<1> QED
  BY <1>4, <1>6, <1>7 DEF Rewinds

\* Only items in the mode of collisions are shown as colliding.
LEMMA OtherModesHonest ==
    ASSUME NEW c, Good(c), NEW mode, mode # "collisions", SelectionIn(c, mode)
    PROVE  Honest(c.items)
<1>1. SelectionShown(c, mode)
  BY SelectionById
<1>2. ASSUME NEW id \in DOMAIN c.items PROVE c.items[id].display # "colliding"
  BY <1>1 DEF SelectionShown, ToMode
<1> QED
  BY <1>2 DEF Honest

HonestMove(s) == s.logic.mode = "collisions" => Honest(s.circuit.items)

\* Positions are numbers, also in a circuit whose selection is dragged.
LEMMA MovePositions == ASSUME NEW s, MoveOK(s) PROVE Positioned(s.circuit)
<1>1. CASE s.logic.mode = "temporary"
  BY <1>1, PositionsAre DEF MoveOK, Temporary, Untracked
<1>2. CASE s.logic.mode # "temporary"
  BY <1>2, EditingIs, GoodPositions DEF MoveOK, Placed
<1> QED
  BY <1>1, <1>2

\* What is repeated with history has not moved,
LEMMA LeftPlaces ==
    ASSUME NEW s, MoveOK(s), HonestMove(s), NEW t, Left(s, t), NEW none, none = 0
    PROVE  Shifted(s.circuit, t.circuit, none) /\ Honest(t.circuit.items)
<1>1. /\ t.circuit.items = s.circuit.items /\ t.circuit.keys = s.circuit.keys
      /\ t.circuit.initial = s.circuit.initial
  BY DEF Left
<1>2. Shifted(s.circuit, t.circuit, none)
  BY <1>1, MovePositions DEF Shifted, Positioned
<1>3. Honest(t.circuit.items)
  <2>1. CASE s.logic.mode = "collisions"
    BY <1>1, <2>1 DEF HonestMove
  <2>2. CASE s.logic.mode # "collisions"
    <3>1. Editing(t.recorded, t.circuit) /\ SelectionIn(t.circuit, s.logic.mode)
      BY DEF Left, Placed
    <3>2. Good(t.circuit)
      BY <3>1, EditingIs
    <3> QED
      BY <2>2, <3>1, <3>2, OtherModesHonest
  <2> QED
    BY <2>1, <2>2
<1> QED
  BY <1>2, <1>3

\* nor has what enters a mode without being inserted,
LEMMA EnteredPlaces ==
    ASSUME NEW s, NEW from, IsMove(s), Placed(s, from), Honest(s.circuit.items),
           NEW keys, Ordered(s.circuit, keys), NEW mode \in Mode, mode # "insert_or_discard",
           NEW t, t = EnterMode(s, keys, mode), NEW none, none = 0
    PROVE  Shifted(s.circuit, t.circuit, none) /\ Honest(t.circuit.items)
<1> DEFINE c == s.circuit
           d == ChangeVisibleMode(ApplyAllVisibleSelectionOperations(c), keys, mode)
<1>1. t = [s EXCEPT !.circuit = d, !.logic.mode = mode]
  BY DEF EnterMode
<1>2. Editing(s.recorded, c) /\ SelectionIn(c, from)
  BY DEF Placed
<1>3. /\ Good(c) /\ Good(d) /\ ModeSet(State(c), State(d), State(c).selected, mode)
      /\ d.keys = c.keys
  BY <1>2, VisibleModeSets
<1> HIDE DEF d
<1>4. t.circuit = d
  BY <1>1 DEF IsMove, SessionFields
<1>5. Shifted(c, d, none) /\ Honest(d.items)
  BY <1>3, ModeSetShifts
<1> QED
  BY <1>4, <1>5

\* nor when its history is switched off.
LEMMA StoppedPlaces ==
    ASSUME NEW s, IsMove(s), Placed(s, s.logic.mode),
           s.circuit = [f \in DOMAIN s.circuit |-> s.circuit[f]],
           NEW t, t = StopHistory(s), NEW none, none = 0
    PROVE  Shifted(s.circuit, t.circuit, none) /\ t.circuit.items = s.circuit.items
<1> DEFINE c == s.circuit
<1>1. Good(c) /\ Positioned(c)
  BY EditingIs, GoodPositions DEF Placed
<1>2. t.circuit.items = c.items /\ t.circuit.keys = c.keys /\ t.circuit.initial = c.initial
  <2>1. CASE s.logic.mode # "temporary"
    BY <2>1 DEF StopHistory
  <2>2. CASE s.logic.mode = "temporary"
    <3> DEFINE d == [c EXCEPT !.history = "disabled"]
    <3>1. t = [s EXCEPT !.circuit.history = "disabled", !.logic.historyExpected = FALSE]
      BY <2>2 DEF StopHistory
    <3>2. t.circuit = d
      BY <3>1 DEF IsMove, SessionFields
    <3>3. d.items = c.items /\ d.keys = c.keys /\ d.initial = c.initial
      BY <1>1 DEF Good, Sound, Shape, Fields
    <3> QED
      BY <3>2, <3>3
  <2> QED
    BY <2>1, <2>2
<1> QED
  BY <1>1, <1>2 DEF Shifted, Positioned

\* So a selection that becomes temporary, or collides, has not moved.
LEMMA ConvertedPlaces ==
    ASSUME NEW s, MoveOK(s), HonestMove(s), NEW keys, Ordered(s.circuit, keys),
           NEW mode \in Mode, mode # "insert_or_discard",
           NEW t, t = ConvertSelectionTo(s, keys, mode), NEW none, none = 0
    PROVE  Shifted(s.circuit, t.circuit, none) /\ HonestMove(t)
<1>1. Checked(s) = s
  BY ContractHolds
<1>2. CASE s.logic.mode = mode
  <2>1. t = s
    BY <1>1, <1>2 DEF ConvertSelectionTo
  <2> QED
    BY <2>1, MovePositions, StartIsHere
<1>3. CASE s.logic.mode # mode
  <2> DEFINE a == LeaveTemporary(s, keys)
             b == EnterMode(a, keys, mode)
             e == StopHistory(b)
  <2>1. t = Checked(e)
    BY <1>1, <1>3 DEF ConvertSelectionTo
  <2>2. Left(s, a)
    BY TemporaryLeft
  <2> HIDE DEF a
  <2>3. /\ IsMove(a) /\ Placed(a, s.logic.mode) /\ Ordered(a.circuit, keys)
        /\ a.logic.mode = s.logic.mode
    BY <2>2 DEF Left, SameMove, Ordered, KeysOf
  <2>4. Shifted(s.circuit, a.circuit, none) /\ Honest(a.circuit.items)
    BY <2>2, LeftPlaces
  <2>5. /\ SameMove(a, b) /\ b.logic.mode = mode /\ Placed(b, mode) /\ Ordered(b.circuit, keys)
        /\ b.circuit = [f \in DOMAIN b.circuit |-> b.circuit[f]]
    BY <2>3, ModeEntered
  <2>6. Shifted(a.circuit, b.circuit, none) /\ Honest(b.circuit.items)
    BY <2>3, <2>4, EnteredPlaces
  <2> HIDE DEF b
  <2>7. IsMove(b) /\ Placed(b, b.logic.mode)
    BY <2>5 DEF SameMove
  <2>8. /\ SameMove(b, e) /\ e.logic.mode = mode /\ MoveOK(e)
    BY <2>5, <2>7, Stopped
  <2>9. Shifted(b.circuit, e.circuit, none) /\ e.circuit.items = b.circuit.items
    BY <2>5, <2>7, StoppedPlaces
  <2> HIDE DEF e
  <2>10. t = e
    BY <2>1, <2>8, ContractHolds
  <2>11. none \in Int /\ none = none + none
    OBVIOUS
  <2>12. Positioned(s.circuit) /\ Positioned(a.circuit)
    BY <2>3, MovePositions, EditingIs, GoodPositions DEF Placed
  <2>13. Shifted(s.circuit, b.circuit, none)
    BY <2>4, <2>6, <2>11, <2>12, ShiftedTwice
  <2>14. Shifted(s.circuit, e.circuit, none)
    BY <2>9, <2>11, <2>12, <2>13, ShiftedTwice
  <2> QED
    BY <2>6, <2>9, <2>10, <2>14 DEF HonestMove
<1> QED
  BY <1>2, <1>3

\* A move by a distance shifts what is selected.
LEMMA MovedIsShifted ==
    ASSUME NEW c, Positioned(c), NEW delta \in Int, NEW d, ItemsOnly(c, d),
           d.items = MovedItems(c.items, c.initial, delta)
    PROVE  Shifted(c, d, delta)
<1>1. d.keys = c.keys /\ d.initial = c.initial /\ DOMAIN d.items = DOMAIN c.items
  BY DEF ItemsOnly, MovedItems
<1>2. ASSUME NEW id \in DOMAIN c.items
      PROVE  /\ d.items[id].def = c.items[id].def
             /\ d.items[id].position
                  = c.items[id].position + (IF id \in c.initial THEN delta ELSE 0)
  <2> DEFINE x == c.items[id]
             y == d.items[id]
  <2>1. y = IF id \in c.initial THEN MovedItem(x, delta) ELSE x
    BY DEF MovedItems
  <2>2. x.position \in Int
    BY DEF Positioned
  <2> HIDE DEF x, y
  <2>3. MovedItem(x, delta).def = x.def /\ MovedItem(x, delta).position = x.position + delta
    BY DEF MovedItem
  <2>4. y.def = x.def /\ y.position = x.position + (IF id \in c.initial THEN delta ELSE 0)
    BY <2>1, <2>2, <2>3
  <2> QED
    BY <2>4 DEF x, y
<1> QED
  BY <1>1, <1>2 DEF Shifted

\* The distance is added to the total of the move,
LEMMA MovedByPlaces ==
    ASSUME NEW s, MoveOK(s), s.logic.mode = "temporary", NEW keys, Ordered(s.circuit, keys),
           NEW delta \in Int, NEW t, t = MoveTemporaryBy(s, keys, delta)
    PROVE  /\ Shifted(s.circuit, t.circuit, t.logic.total - s.logic.total)
           /\ t.logic.total \in Int /\ t.logic.mode = "temporary"
<1> DEFINE c == s.circuit
           d == MoveVisible(c, keys, delta)
           m == s.logic.total
<1>1. IsMove(s) /\ Untracked(s.recorded, c, s.logic.offset) /\ m \in Int
  BY DEF MoveOK, Temporary, IsMove
<1>2. VisibleSelection(c) = c.initial
  BY <1>1, UntrackedIs, VisibleIsInitial
<1>3. Positioned(c)
  BY MovePositions
<1>4. CASE \E id \in VisibleSelection(c) : ~IsRepresentable(c.items[id].position + delta)
  <2>1. t = s
    BY <1>4 DEF MoveTemporaryBy
  <2> DEFINE none == m - m
  <2>2. none = 0
    BY <1>1
  <2> HIDE DEF none
  <2>3. Shifted(c, c, none)
    BY <1>3, <2>2, StartIsHere
  <2> QED
    BY <1>1, <2>1, <2>3 DEF none
<1>5. CASE \A id \in VisibleSelection(c) : IsRepresentable(c.items[id].position + delta)
  <2>1. /\ t.circuit = d /\ t.logic.total = m + delta /\ t.logic.mode = "temporary"
    <3> DEFINE a == [s EXCEPT !.circuit = d]
               l == [a.logic EXCEPT !.last = @ + delta]
               b == [a EXCEPT !.logic = l]
               k == [b.logic EXCEPT !.total = @ + delta]
               e == [b EXCEPT !.logic = k]
               j == [e.logic EXCEPT !.offset = @ + delta]
    <3>1. t = [e EXCEPT !.logic = j]
      BY <1>5 DEF MoveTemporaryBy
    <3>2. DOMAIN a = SessionFields /\ a.circuit = d /\ a.logic = s.logic
      BY <1>1, CircuitReplaced DEF IsMove
    <3> HIDE DEF a
    <3>3. /\ DOMAIN l = MoveFields /\ l.total = m /\ l.mode = "temporary"
      BY <1>1, <3>2 DEF IsMove, MoveFields
    <3> HIDE DEF l
    <3>4. DOMAIN b = SessionFields /\ b.circuit = d /\ b.logic = l
      BY <3>2, LogicReplaced
    <3> HIDE DEF b
    <3>5. /\ DOMAIN k = MoveFields /\ k.total = m + delta /\ k.mode = "temporary"
      BY <3>3, <3>4 DEF MoveFields
    <3> HIDE DEF k
    <3>6. DOMAIN e = SessionFields /\ e.circuit = d /\ e.logic = k
      BY <3>4, LogicReplaced
    <3> HIDE DEF e
    <3>7. /\ j.total = m + delta /\ j.mode = "temporary"
      BY <3>5, <3>6 DEF MoveFields
    <3> HIDE DEF j
    <3>8. t.circuit = d /\ t.logic = j
      BY <3>1, <3>6, LogicReplaced
    <3> QED
      BY <3>7, <3>8
  <2>2. ItemsOnly(c, d) /\ d.items = MovedItems(c.items, c.initial, delta)
    <3> DEFINE o == s.logic.offset
    <3>1. Untracked(s.recorded, c, o)
      BY <1>1
    <3> HIDE DEF o
    <3>2. \A id \in c.initial : IsRepresentable(c.items[id].position + delta)
      BY <1>2, <1>5
    <3> QED
      BY <3>1, <3>2, UntrackedMoves
  <2> HIDE DEF d
  <2>3. Shifted(c, d, delta)
    BY <1>3, <2>2, MovedIsShifted
  <2> HIDE DEF m
  <2>4. (m + delta) - m = delta /\ m + delta \in Int
    BY <1>1
  <2>5. t.logic.total - m = delta
    BY <2>1, <2>4
  <2> QED
    BY <2>1, <2>3, <2>4, <2>5 DEF m
<1> QED
  BY <1>4, <1>5

\* as for a move to a point,
LEMMA MovedToPlaces ==
    ASSUME NEW s, MoveOK(s), MovesBack(s), HonestMove(s), NEW keys, Ordered(s.circuit, keys),
           NEW p \in Int, NEW t, t = MoveSelectionTo(s, keys, p)
    PROVE  /\ Shifted(s.circuit, t.circuit, t.logic.total - s.logic.total)
           /\ t.logic.total \in Int /\ HonestMove(t)
<1>1. s.logic.total \in Int /\ s.logic.last \in Int /\ Positioned(s.circuit)
  BY MovePositions DEF MoveOK, IsMove
<1>2. CASE p = s.logic.last
  <2>1. t = s
    BY <1>2 DEF MoveSelectionTo
  <2> DEFINE m == s.logic.total
             none == m - m
  <2>2. none = 0
    BY <1>1
  <2> HIDE DEF none
  <2>3. Shifted(s.circuit, s.circuit, none)
    BY <1>1, <2>2, StartIsHere
  <2> QED
    BY <1>1, <2>1, <2>3 DEF none
<1>3. CASE p # s.logic.last
  <2> DEFINE a == ConvertSelectionTo(s, keys, "temporary")
             delta == p - s.logic.last
             none == 0
  <2>1. t = MoveTemporaryBy(a, keys, delta) /\ delta \in Int
    BY <1>1, <1>3 DEF MoveSelectionTo
  <2>2. "temporary" \in Mode /\ none = 0 /\ none \in Int
    BY DEF Mode
  <2> HIDE DEF none
  <2>3. SameMove(s, a) /\ a.logic.mode = "temporary" /\ MoveOK(a) /\ Ordered(a.circuit, keys)
    BY <2>2, Converted
  <2>4. Shifted(s.circuit, a.circuit, none)
    BY <2>2, ConvertedPlaces
  <2> HIDE DEF a, delta
  <2>5. /\ Shifted(a.circuit, t.circuit, t.logic.total - a.logic.total)
        /\ t.logic.total \in Int /\ t.logic.mode = "temporary"
    BY <2>1, <2>3, MovedByPlaces
  <2> DEFINE n == t.logic.total - s.logic.total
  <2>6. a.logic.total = s.logic.total
    BY <2>3 DEF SameMove
  <2>7. n \in Int /\ n = none + n /\ Shifted(a.circuit, t.circuit, n)
    BY <1>1, <2>2, <2>5, <2>6
  <2> HIDE DEF n
  <2>8. Shifted(s.circuit, t.circuit, n)
    BY <1>1, <2>2, <2>4, <2>7, ShiftedTwice
  <2> QED
    BY <2>5, <2>8 DEF n, HonestMove
<1> QED
  BY <1>2, <1>3

\* and the way back leads to the start.
LEMMA RestoredPlaces ==
    ASSUME NEW s, MoveOK(s), MovesBack(s), HonestMove(s), NEW keys, Ordered(s.circuit, keys),
           NEW t, t = RestoreOriginalPositions(s, keys)
    PROVE  Spots(t.circuit) = Start(s.circuit, s.logic.total) /\ HonestMove(t)
<1> DEFINE m == s.logic.total
<1>1. m \in Int /\ Positioned(s.circuit)
  BY MovePositions DEF MoveOK, IsMove
<1>2. CASE m = 0
  <2>1. t = s
    BY <1>2 DEF RestoreOriginalPositions
  <2> HIDE DEF m
  <2>2. Start(s.circuit, m) = Spots(s.circuit)
    BY <1>1, <1>2, StartIsHere
  <2> QED
    BY <2>1, <2>2 DEF m
<1>3. CASE m # 0
  <2> DEFINE a == ConvertSelectionTo(s, keys, "temporary")
             none == 0
  <2>1. t = TakeBack(a, keys)
    BY <1>3 DEF RestoreOriginalPositions
  <2>2. "temporary" \in Mode /\ none = 0 /\ none \in Int
    BY DEF Mode
  <2> HIDE DEF none
  <2>3. SameMove(s, a) /\ a.logic.mode = "temporary" /\ MoveOK(a) /\ Ordered(a.circuit, keys)
        /\ MovesBack(a)
    BY <2>2, Converted
  <2>4. Shifted(s.circuit, a.circuit, none)
    BY <2>2, ConvertedPlaces
  <2> HIDE DEF a
  <2> DEFINE c == a.circuit
             back == -m
             d == MoveVisible(c, keys, back)
  <2>5. /\ IsMove(a) /\ Untracked(s.recorded, c, a.logic.offset) /\ a.logic.total = m
    BY <2>3 DEF SameMove, MoveOK, Temporary
  <2>6. back \in Int /\ back = none - m /\ back = none + back /\ m + back = 0
    BY <1>1, <2>2
  <2>7. \A id \in c.initial : IsRepresentable(c.items[id].position + back)
    BY <2>3, <2>5 DEF MovesBack, Movable
  <2>8. t.circuit = d /\ t.logic.mode = "temporary"
    <3> DEFINE l == [a.logic EXCEPT !.offset = @ - a.logic.total]
               b == [a EXCEPT !.logic = l]
    <3>1. t = [b EXCEPT !.circuit = d]
      BY <2>1, <2>5 DEF TakeBack
    <3>2. l.mode = "temporary"
      BY <2>3, <2>5 DEF IsMove, MoveFields
    <3> HIDE DEF l
    <3>3. DOMAIN b = SessionFields /\ b.logic = l
      BY <2>5, LogicReplaced DEF IsMove
    <3> HIDE DEF b, d
    <3> QED
      BY <3>1, <3>2, <3>3, CircuitReplaced
  <2> HIDE DEF back, m
  <2>9. ItemsOnly(c, d) /\ d.items = MovedItems(c.items, c.initial, back)
    <3> DEFINE o == a.logic.offset
    <3>1. Untracked(s.recorded, c, o) /\ Ordered(c, keys)
      BY <2>3, <2>5
    <3> HIDE DEF o, c
    <3> QED
      BY <2>6, <2>7, <3>1, UntrackedMoves
  <2> HIDE DEF d
  <2>10. Positioned(c)
    BY <2>3, MovePositions
  <2>11. Shifted(c, d, back)
    BY <2>6, <2>9, <2>10, MovedIsShifted
  <2>12. Shifted(s.circuit, d, back)
    BY <1>1, <2>2, <2>4, <2>6, <2>11, ShiftedTwice
  <2>13. Start(d, none) = Start(s.circuit, m)
    BY <1>1, <2>2, <2>6, <2>12, StartShifted
  <2>14. Positioned(d)
    BY <1>1, <2>6, <2>12 DEF Shifted, Positioned
  <2>15. Start(d, none) = Spots(d)
    BY <2>2, <2>14, StartIsHere
  <2> QED
    BY <2>8, <2>13, <2>15 DEF m, HonestMove
<1> QED
  BY <1>2, <1>3

-----------------------------------------------------------------------------
(***************************************************************************)
(* A cancelled move ends where it began.                                   *)
(***************************************************************************)

\* The end of a group changes no items.
LEMMA FinishPlaces ==
    ASSUME NEW s, DOMAIN s = SessionFields, Good(s.circuit), NEW t, t = Finish(s)
    PROVE  Spots(t.circuit) = Spots(s.circuit)
<1> DEFINE c == s.circuit
           d == FinishUndoGroup(c)
           a == [s EXCEPT !.circuit = d]
           x == FinishedRecord(c, s.recorded)
<1>1. t = [a EXCEPT !.recorded = x]
  BY DEF Finish
<1>2. DOMAIN a = SessionFields /\ a.circuit = d
  BY CircuitReplaced
<1>3. d.items = c.items /\ d.keys = c.keys
  BY DEF FinishUndoGroup, Good, Sound, Shape, Fields
<1> HIDE DEF d, a, x
<1>4. t.circuit = d
  BY <1>1, <1>2 DEF SessionFields
<1> QED
  BY <1>3, <1>4 DEF Spots

\* Changing the mode of nothing changes nothing.
LEMMA NothingSet ==
    ASSUME NEW c, Good(c), NEW d, Good(d), NEW mode, ModeSet(State(c), State(d), {}, mode)
    PROVE  Spots(d) = Spots(c)
<1> DEFINE st == State(c)
           ts == State(d)
<1>1. /\ Spots(c) = {Spot(k, st.items[k]) : k \in DOMAIN st.items}
      /\ Spots(d) = {Spot(k, ts.items[k]) : k \in DOMAIN ts.items}
  BY SpotsByKey
<1>2. ModeSet(st, ts, {}, mode)
  OBVIOUS
<1> HIDE DEF st, ts
<1>3. DOMAIN ts.items = DOMAIN st.items /\ \A k \in DOMAIN st.items : ts.items[k] = st.items[k]
  BY <1>2 DEF ModeSet
<1> QED
  BY <1>1, <1>3

\* What is inserted stays where it is, if nothing is there already, or nothing is selected.
LEMMA InsertedPlaces ==
    ASSUME NEW s, MoveOK(s), NEW keys, Ordered(s.circuit, keys),
           \/ HonestMove(s) /\ Apart(Spots(s.circuit))
           \/ s.logic.mode = "collisions" /\ State(s.circuit).selected = {},
           NEW t, t = ConvertSelectionTo(s, keys, "insert_or_discard")
    PROVE  Spots(t.circuit) = Spots(s.circuit)
<1> DEFINE mode == "insert_or_discard"
<1>0. mode \in Mode /\ mode = "insert_or_discard"
  BY DEF Mode
<1> HIDE DEF mode
<1>1. Checked(s) = s /\ t = ConvertSelectionTo(s, keys, mode)
  BY <1>0, ContractHolds
<1>2. CASE s.logic.mode = mode
  BY <1>1, <1>2 DEF ConvertSelectionTo
<1>3. CASE s.logic.mode # mode
  <2> DEFINE a == LeaveTemporary(s, keys)
             b == EnterMode(a, keys, mode)
             e == StopHistory(b)
  <2>1. t = Checked(e)
    BY <1>1, <1>3 DEF ConvertSelectionTo
  <2>2. Left(s, a)
    BY TemporaryLeft
  <2>3. s.logic.mode = "collisions" => a = s
    BY DEF LeaveTemporary
  <2> HIDE DEF a
  <2>4. /\ IsMove(a) /\ Placed(a, s.logic.mode) /\ Ordered(a.circuit, keys)
        /\ a.circuit.items = s.circuit.items /\ a.circuit.keys = s.circuit.keys
    BY <2>2 DEF Left, SameMove, Ordered, KeysOf
  <2>5. Spots(a.circuit) = Spots(s.circuit)
    BY <2>4 DEF Spots
  <2> DEFINE c == a.circuit
             d == ChangeVisibleMode(ApplyAllVisibleSelectionOperations(c), keys, mode)
  <2>6. b.circuit = d
    BY <2>4 DEF EnterMode, IsMove, SessionFields
  <2>7. Good(c) /\ Good(d) /\ ModeSet(State(c), State(d), State(c).selected, mode)
    BY <1>0, <2>4, VisibleModeSets DEF Placed
  <2> HIDE DEF d
  <2>8. Spots(d) = Spots(c)
    <3>1. CASE HonestMove(s) /\ Apart(Spots(s.circuit))
      <4>1. Honest(c.items)
        BY <2>2, <3>1, LeftPlaces
      <4>2. Apart(Spots(c))
        BY <2>5, <3>1
      <4> HIDE DEF c
      <4> QED
        BY <2>7, <4>1, <4>2, ApartInserts
    <3>2. CASE s.logic.mode = "collisions" /\ State(s.circuit).selected = {}
      <4>1. State(c).selected = {}
        BY <2>3, <3>2
      <4> HIDE DEF c
      <4> QED
        BY <2>7, <4>1, NothingSet
    <3> QED
      BY <3>1, <3>2
  <2>9. /\ b.logic.mode = mode /\ Placed(b, mode) /\ Ordered(b.circuit, keys)
        /\ b.circuit = [f \in DOMAIN b.circuit |-> b.circuit[f]] /\ IsMove(b)
    BY <1>0, <2>4, ModeEntered DEF SameMove
  <2> HIDE DEF b
  <2>10. MoveOK(e)
    BY <2>9, Stopped
  <2>11. e = b
    BY <1>0, <2>9 DEF StopHistory
  <2> HIDE DEF e
  <2>12. t = e
    BY <2>1, <2>10, ContractHolds
  <2> QED
    BY <2>5, <2>6, <2>8, <2>11, <2>12
<1> QED
  BY <1>2, <1>3

\* A move that is cancelled brings everything back to where it was,
LEMMA CancelledPlaces ==
    ASSUME NEW s, MoveOK(s), MovesBack(s), HonestMove(s), NEW keys, Ordered(s.circuit, keys),
           ~IsFinished(s.logic), ~s.logic.deleteOnCancel,
           Apart(Start(s.circuit, s.logic.total)),
           NEW t, t = FinalizeMove(s, keys)
    PROVE  Spots(t.circuit) = Start(s.circuit, s.logic.total)
<1> DEFINE a == RestoreOriginalPositions(s, keys)
           b == ConvertSelectionTo(a, keys, "insert_or_discard")
<1>1. t = Finish(b)
  BY Zenon DEF FinalizeMove
<1>2. StillMoving(s, a) /\ MoveOK(a) /\ Ordered(a.circuit, keys)
  BY Restored
<1>3. Spots(a.circuit) = Start(s.circuit, s.logic.total) /\ HonestMove(a)
  BY RestoredPlaces
<1> HIDE DEF a
<1>4. Spots(b.circuit) = Spots(a.circuit)
  BY <1>2, <1>3, InsertedPlaces
<1>5. DOMAIN b = SessionFields /\ Good(b.circuit)
  <2>1. "insert_or_discard" \in Mode
    BY DEF Mode
  <2>2. MoveOK(b) /\ b.logic.mode = "insert_or_discard"
    BY <1>2, <2>1, Converted
  <2> HIDE DEF b
  <2> QED
    BY <2>2, EditingIs DEF MoveOK, IsMove, Placed
<1> HIDE DEF b
<1>6. Spots(t.circuit) = Spots(b.circuit)
  BY <1>1, <1>5, FinishPlaces
<1> QED
  BY <1>3, <1>4, <1>6

\* and a paste that is cancelled leaves what was there.
LEMMA PasteCancelledPlaces ==
    ASSUME NEW s, MoveOK(s), s.logic.mode = "collisions", NEW keys, Ordered(s.circuit, keys),
           ~IsFinished(s.logic), s.logic.deleteOnCancel,
           NEW t, t = FinalizeMove(s, keys)
    PROVE  Spots(t.circuit) = Others(s.circuit)
<1> DEFINE c == s.circuit
           order == InOrder(c, keys)
           d == DeleteAll(c, order)
           a == [s EXCEPT !.circuit = DeleteAll(@, InOrder(@, keys))]
           b == ConvertSelectionTo(a, keys, "insert_or_discard")
<1>1. t = Finish(b)
  BY Zenon DEF FinalizeMove
<1>2. StillMoving(s, a) /\ MoveOK(a) /\ Ordered(a.circuit, keys)
  BY PasteCancelled
<1>3. IsMove(s) /\ Editing(s.recorded, c) /\ SelectionIn(c, "collisions")
  BY DEF MoveOK, Placed
<1>4. a.circuit = d /\ a.logic = s.logic
  BY <1>3 DEF IsMove, SessionFields
<1>5. Good(c) /\ c.operations = <<>> /\ c.cached = {}
      /\ c.initial \subseteq DOMAIN c.items /\ KeysOK(c.keys, DOMAIN c.items)
  BY <1>3, EditingIs DEF SelectionIn, Sound, Shape
<1>6. Distinct(order) /\ Members(order) = c.initial
  BY <1>5, InOrderSelects DEF Ordered
<1> HIDE DEF order
<1>7. Good(d) /\ KeysGone(State(c), State(d), State(c).selected)
  <2>1. Rewinds(c, d) /\ KeysGone(State(c), State(d), KeysOf(c, Members(order)))
    BY <1>5, <1>6, DeleteAllGone
  <2>2. KeysOf(c, Members(order)) = State(c).selected
    BY <1>6 DEF State
  <2> QED
    BY <2>1, <2>2 DEF Rewinds
<1>8. State(d).selected = {}
  BY <1>7 DEF KeysGone
<1>9. Spots(d) = Others(c)
  <2> DEFINE st == State(c)
             ts == State(d)
  <2>1. /\ Others(c) = {Spot(k, st.items[k]) : k \in DOMAIN st.items \ st.selected}
        /\ Spots(d) = {Spot(k, ts.items[k]) : k \in DOMAIN ts.items}
    BY <1>5, <1>7, SpotsByKey
  <2>2. /\ DOMAIN ts.items = DOMAIN st.items \ st.selected
        /\ \A k \in DOMAIN ts.items : ts.items[k] = st.items[k]
    BY <1>7 DEF KeysGone
  <2> HIDE DEF st, ts
  <2> QED
    BY <2>1, <2>2
<1> HIDE DEF d, a
<1>10. Spots(b.circuit) = Spots(a.circuit)
  BY <1>2, <1>4, <1>8, InsertedPlaces
<1>11. DOMAIN b = SessionFields /\ Good(b.circuit)
  <2>1. "insert_or_discard" \in Mode
    BY DEF Mode
  <2>2. MoveOK(b) /\ b.logic.mode = "insert_or_discard"
    BY <1>2, <2>1, Converted
  <2> HIDE DEF b
  <2> QED
    BY <2>2, EditingIs DEF MoveOK, IsMove, Placed
<1> HIDE DEF b
<1>12. Spots(t.circuit) = Spots(b.circuit)
  BY <1>1, <1>11, FinishPlaces
<1> QED
  BY <1>4, <1>9, <1>10, <1>12

-----------------------------------------------------------------------------
(***************************************************************************)
(* What a gesture that is cancelled leaves.                                *)
(***************************************************************************)

\* What is laid out but for these keys.
LaidBut(c, keys) == {x \in Spots(c) : x.key \notin keys}

\* Cancelling the gesture leads to this layout.
Recalls(s, spots) ==
    /\ s.logic.type \in {"selection_area", "selection_single"} => Spots(s.circuit) = spots
    /\ s.logic.type = "insert_logicitem" => LaidBut(s.circuit, s.logic.temp) = spots
    /\ s.logic.type = "selection_move" =>
          /\ HonestMove(s)
          /\ s.logic.deleteOnCancel => Others(s.circuit) = spots
          /\ ~s.logic.deleteOnCancel => /\ Start(s.circuit, s.logic.total) = spots
                                        /\ Apart(spots)

\* Between gestures the circuit is laid out as recorded.
LEMMA NoneLayout ==
    ASSUME NEW s, NoneOK(s)
    PROVE  /\ LayoutOf(Head(s.recorded.past)) = Spots(s.circuit)
           /\ Apart(Spots(s.circuit)) /\ Honest(s.circuit.items)
           /\ Good(s.circuit) /\ Calm(State(s.circuit)) /\ DOMAIN s = SessionFields
<1>1. Rests(s.recorded, s.circuit) /\ DOMAIN s = SessionFields
  BY DEF NoneOK
<1>2. Good(s.circuit) /\ Calm(State(s.circuit))
  BY <1>1, RestsIs, EditingIs
<1> QED
  BY <1>1, <1>2, RestsLayout, CalmApart

\* The same items by their keys are the same layout.
LEMMA SamePlaces ==
    ASSUME NEW c, Good(c), NEW d, Good(d), State(d).items = State(c).items
    PROVE  Spots(d) = Spots(c)
<1> DEFINE st == State(c)
           ts == State(d)
<1>1. /\ Spots(c) = {Spot(k, st.items[k]) : k \in DOMAIN st.items}
      /\ Spots(d) = {Spot(k, ts.items[k]) : k \in DOMAIN ts.items}
      /\ ts.items = st.items
  BY SpotsByKey
<1> HIDE DEF st, ts
<1> QED
  BY <1>1

\* Selecting with a rectangle moves nothing: when it begins,
LEMMA AreaBegunPlaces ==
    ASSUME NEW s, DOMAIN s = SessionFields, Rests(s.recorded, s.circuit), NEW p \in Points,
           NEW modifier, NEW t, t = AreaPress(s, p, modifier)
    PROVE  Spots(t.circuit) = Spots(s.circuit)
<1> DEFINE c == s.circuit
           op == [function |-> IF modifier = "alt" THEN "substract" ELSE "add",
                  rect |-> Cover(p, p)]
           a == IF modifier = "none" THEN SetVisibleSelection(c, {}) ELSE c
           d == AddVisibleSelectionRect(a, op)
           l == SelectionArea(p)
<1>1. t = [s EXCEPT !.circuit = d, !.logic = l]
  BY DEF AreaPress
<1>2. op \in Operation
  BY PointsAreCovered DEF Operation, SelectionFunction
<1>3. Good(c) /\ Unstored(c)
  BY RestsIs, EditingIs
<1>4. Good(a) /\ Unstored(a) /\ State(a).items = State(c).items
  <2>1. CASE modifier = "none"
    <3>1. SelectedNow(c, SetVisibleSelection(c, {}), {})
      BY <1>3, SelectSets
    <3>2. SelectedNow(c, a, {})
      BY <2>1, <3>1
    <3> HIDE DEF a
    <3>3. Rewinds(c, a) /\ Unstored(a) /\ State(a).items = State(c).items
      BY <3>2 DEF SelectedNow
    <3> QED
      BY <3>3 DEF Rewinds
  <2>2. CASE modifier # "none"
    BY <1>3, <2>2
  <2> QED
    BY <2>1, <2>2
<1> HIDE DEF a, op
<1>5. Rewinds(a, d) /\ State(d) = WithOperations(State(a), Append(a.operations, op))
  BY <1>2, <1>4, AddRectRewinds
<1> HIDE DEF d
<1>6. Good(d) /\ State(d).items = State(a).items
  BY <1>5 DEF Rewinds, WithOperations, State
<1>7. t.circuit = d
  BY <1>1 DEF SessionFields
<1> QED
  BY <1>3, <1>4, <1>6, <1>7, SamePlaces

\* when it goes on,
LEMMA AreaUpdatedPlaces ==
    ASSUME NEW s, AreaOK(s), NEW p \in Points, NEW t, t = AreaUpdate(s, p)
    PROVE  Spots(t.circuit) = Spots(s.circuit)
<1>1. CASE s.circuit.operations = <<>>
  BY <1>1 DEF AreaUpdate
<1>2. CASE s.circuit.operations # <<>>
  <2> DEFINE c == s.circuit
             r == Cover(s.logic.first, p)
             d == UpdateLastVisibleSelectionRect(c, r)
  <2>1. t = [s EXCEPT !.circuit = d]
    BY <1>2 DEF AreaUpdate
  <2>2. r \in Rects
    BY PointsAreCovered DEF AreaOK, IsArea
  <2> HIDE DEF r
  <2>3. Good(c) /\ Unstored(c)
    BY EditingIs DEF AreaOK
  <2>4. Rewinds(c, d) /\ State(d) = WithOperations(State(c), WithRect(c.operations, r))
    BY <1>2, <2>2, <2>3, UpdateLastRewinds
  <2> HIDE DEF d
  <2>5. Good(d) /\ State(d).items = State(c).items
    BY <2>4 DEF Rewinds, WithOperations, State
  <2>6. t.circuit = d
    BY <2>1 DEF AreaOK, IsArea, SessionFields
  <2> QED
    BY <2>3, <2>5, <2>6, SamePlaces
<1> QED
  BY <1>1, <1>2

\* when its operations are applied,
LEMMA AppliedPlaces ==
    ASSUME NEW c, Good(c), Unstored(c), NEW d, Good(d), d = ApplyAllVisibleSelectionOperations(c)
    PROVE  Spots(d) = Spots(c)
<1>1. CASE c.operations = <<>>
  BY <1>1, Zenon DEF ApplyAllVisibleSelectionOperations
<1>2. CASE c.operations # <<>>
  <2> DEFINE ids == VisibleSelection(c)
  <2>1. d = SetVisibleSelection(c, ids)
    BY <1>2, Zenon DEF ApplyAllVisibleSelectionOperations
  <2>2. ids \subseteq DOMAIN c.items
    BY ReadSound, SelectionWithin DEF Good
  <2> HIDE DEF ids
  <2>3. SelectedNow(c, d, ids)
    BY <2>1, <2>2, SelectSets
  <2> QED
    BY <2>3, SamePlaces DEF SelectedNow
<1> QED
  BY <1>1, <1>2

\* and when it ends.
LEMMA AreaFinalizedPlaces ==
    ASSUME NEW s, AreaOK(s), NEW t, t = FinalizeArea(s)
    PROVE  Spots(t.circuit) = Spots(s.circuit)
<1> DEFINE c == s.circuit
           a == IF s.logic.keep \/ c.operations = <<>> THEN c
                ELSE PopLastVisibleSelectionRect(c)
           d == ApplyAllVisibleSelectionOperations(a)
           b == [s EXCEPT !.circuit = d]
<1>1. t = Finish(b)
  BY DEF FinalizeArea
<1>2. /\ Editing(s.recorded, c) /\ AllNormal(State(c)) /\ Good(c) /\ Unstored(c)
      /\ DOMAIN s = SessionFields
  BY EditingIs DEF AreaOK, IsArea
<1>3. Editing(s.recorded, a) /\ AllNormal(State(a)) /\ State(a).items = State(c).items
  <2>1. CASE s.logic.keep \/ c.operations = <<>>
    BY <1>2, <2>1
  <2>2. CASE ~(s.logic.keep \/ c.operations = <<>>)
    <3>1. a = PopLastVisibleSelectionRect(c)
      BY <2>2
    <3> HIDE DEF a
    <3>2. /\ Rewinds(c, a) /\ State(a) = WithOperations(State(c), Front(c.operations))
          /\ Unstored(a)
      BY <1>2, <2>2, <3>1, PopLastRewinds, VisibleUnstored
    <3>3. State(a).items = State(c).items
      BY <3>2 DEF WithOperations, State
    <3> QED
      BY <1>2, <3>2, <3>3, OperationsKeepItems
  <2> QED
    BY <2>1, <2>2
<1> HIDE DEF a
<1>4. Good(a) /\ Unstored(a) /\ Spots(a) = Spots(c)
  BY <1>2, <1>3, EditingIs, SamePlaces
<1>5. Good(d)
  BY <1>3, OperationsApplied, EditingIs
<1>6. Spots(d) = Spots(a)
  BY <1>4, <1>5, AppliedPlaces
<1> HIDE DEF d
<1>7. DOMAIN b = SessionFields /\ b.circuit = d
  BY <1>2 DEF SessionFields
<1> HIDE DEF b
<1> QED
  BY <1>1, <1>4, <1>5, <1>6, <1>7, FinishPlaces

\* Selecting an item moves nothing either.
LEMMA SingleBegunPlaces ==
    ASSUME NEW s, DOMAIN s = SessionFields, Rests(s.recorded, s.circuit), NEW p,
           NEW t, t = SinglePress(s, p)
    PROVE  Spots(t.circuit) = Spots(s.circuit)
<1> DEFINE c == s.circuit
           hit == Hit(c, p)
           old == VisibleSelection(c)
           ids == IF hit \subseteq old THEN old \ hit ELSE old \cup hit
           l == [type |-> "selection_single"]
           a == [s EXCEPT !.logic = l]
           d == SetVisibleSelection(c, ids)
<1>1. a.circuit = c /\ DOMAIN a = SessionFields
  BY DEF SessionFields
<1>2. t = [a EXCEPT !.circuit = d]
  BY <1>1 DEF SinglePress
<1>3. Editing(s.recorded, c) /\ Calm(State(c))
  BY RestsIs
<1>4. old \subseteq DOMAIN c.items /\ hit \subseteq DOMAIN c.items
  BY <1>3, CalmVisible DEF Hit
<1> HIDE DEF hit, old
<1>5. ids \subseteq DOMAIN c.items
  BY <1>4
<1> HIDE DEF ids
<1>6. d.items = c.items /\ d.keys = c.keys
  BY <1>3, <1>5, SelectedCalmly
<1> HIDE DEF d, a
<1>7. t.circuit = d
  BY <1>1, <1>2 DEF SessionFields
<1> QED
  BY <1>6, <1>7 DEF Spots

\* Taking away what is under the mouse leaves everything else in its place,
LEMMA TempGonePlaces ==
    ASSUME NEW s, InsertionOK(s), NEW t, t = DeleteTemp(s)
    PROVE  Spots(t.circuit) = LaidBut(s.circuit, s.logic.temp)
<1> DEFINE c == s.circuit
           temp == s.logic.temp
           d == DeleteAll(c, SetToSeq(IdsOf(c, temp)))
           a == [s EXCEPT !.circuit = d]
           l == [a.logic EXCEPT !.temp = {}]
<1>1. t = [a EXCEPT !.logic = l]
  BY DEF DeleteTemp
<1>2. Inserting(s.recorded, c, temp) /\ DOMAIN s = SessionFields
  BY DEF InsertionOK, IsInsertion
<1> HIDE DEF temp
<1>3. /\ Editing(s.recorded, d)
      /\ KeysGone(State(c), State(d), temp \cap DOMAIN State(c).items)
  BY <1>2, TempDeleted
<1>4. Good(c) /\ Good(d)
  BY <1>2, <1>3, EditingIs DEF Inserting
<1> HIDE DEF d
<1>5. DOMAIN a = SessionFields /\ a.circuit = d
  BY <1>2, CircuitReplaced
<1> HIDE DEF a, l
<1>6. t.circuit = d
  BY <1>1, <1>5, LogicReplaced
<1> DEFINE st == State(c)
           ts == State(d)
<1>7. /\ Spots(c) = {Spot(k, st.items[k]) : k \in DOMAIN st.items}
      /\ Spots(d) = {Spot(k, ts.items[k]) : k \in DOMAIN ts.items}
  BY <1>4, SpotsByKey
<1>8. /\ DOMAIN ts.items = DOMAIN st.items \ temp
      /\ \A k \in DOMAIN ts.items : ts.items[k] = st.items[k]
  BY <1>3 DEF KeysGone
<1> HIDE DEF st, ts
<1>9. \A k, item : Spot(k, item).key = k
  BY DEF Spot
<1>10. Spots(d) = LaidBut(c, temp)
  BY <1>7, <1>8, <1>9 DEF LaidBut
<1> QED
  BY <1>6, <1>10 DEF temp

\* so does putting another item there,
LEMMA TempAddedPlaces ==
    ASSUME NEW s, IsInsertion(s), Editing(s.recorded, s.circuit), Calm(State(s.circuit)),
           NEW p, NEW mode \in Mode, NEW t, t = InsertTemp(s, p, mode)
    PROVE  LaidBut(t.circuit, t.logic.temp) = Spots(s.circuit)
<1> DEFINE c == s.circuit
           def == s.logic.def
           d == TryAddLogicItem(c, def, p, mode)
           temp == KeyIndexSet(d) \ KeyIndexSet(c)
           a == [s EXCEPT !.circuit = d]
           l == [a.logic EXCEPT !.temp = temp]
<1>1. t = [a EXCEPT !.logic = l]
  BY DEF InsertTemp, WithTemp
<1>2. def \in Definition /\ DOMAIN s = SessionFields /\ DOMAIN s.logic = {"type", "def", "temp"}
  BY DEF IsInsertion
<1> HIDE DEF def
<1>3. d = TryAddLogicItem(c, def, p, mode)
  OBVIOUS
<1> HIDE DEF d
<1>4. /\ Inserting(s.recorded, d, temp)
      /\ \A k \in DOMAIN State(c).items :
            k \in DOMAIN State(d).items /\ State(d).items[k] = State(c).items[k]
  BY <1>2, <1>3, TempInserted
<1>5. Good(c) /\ Good(d)
  BY <1>4, EditingIs DEF Inserting
<1>6. DOMAIN a = SessionFields /\ a.circuit = d /\ a.logic = s.logic
  BY <1>2, CircuitReplaced
<1> HIDE DEF a
<1>7. l.temp = temp
  BY <1>2, <1>6
<1> HIDE DEF l
<1>8. t.circuit = d /\ t.logic.temp = temp
  BY <1>1, <1>6, <1>7, LogicReplaced
<1> DEFINE st == State(c)
           ts == State(d)
<1>9. /\ Spots(c) = {Spot(k, st.items[k]) : k \in DOMAIN st.items}
      /\ Spots(d) = {Spot(k, ts.items[k]) : k \in DOMAIN ts.items}
      /\ DOMAIN st.items = KeyIndexSet(c) /\ DOMAIN ts.items = KeyIndexSet(d)
  <2>1. /\ Spots(c) = {Spot(k, st.items[k]) : k \in DOMAIN st.items}
        /\ Spots(d) = {Spot(k, ts.items[k]) : k \in DOMAIN ts.items}
    BY <1>5, SpotsByKey
  <2>2. Sound(c) /\ Sound(d)
    BY <1>5 DEF Good
  <2>3. DOMAIN st.items = KeyIndexSet(c) /\ DOMAIN ts.items = KeyIndexSet(d)
    BY <2>2, StateItems
  <2> QED
    BY <2>1, <2>3
<1>10. \A k \in DOMAIN st.items : k \in DOMAIN ts.items /\ ts.items[k] = st.items[k]
  BY <1>4
<1> HIDE DEF st, ts
<1>11. \A k, item : Spot(k, item).key = k
  BY DEF Spot
<1>12. LaidBut(d, temp) = Spots(c)
  <2>1. ASSUME NEW x \in LaidBut(d, temp) PROVE x \in Spots(c)
    <3>1. PICK k \in DOMAIN ts.items : x = Spot(k, ts.items[k]) /\ k \notin temp
      BY <1>9, <1>11 DEF LaidBut
    <3>2. k \in DOMAIN st.items
      BY <1>9, <3>1
    <3> QED
      BY <1>9, <1>10, <3>1, <3>2
  <2>2. ASSUME NEW x \in Spots(c) PROVE x \in LaidBut(d, temp)
    <3>1. PICK k \in DOMAIN st.items : x = Spot(k, st.items[k])
      BY <1>9
    <3>2. k \notin temp /\ x.key = k
      BY <1>9, <1>11, <3>1
    <3>3. x \in Spots(d)
      BY <1>9, <1>10, <3>1
    <3> QED
      BY <3>2, <3>3 DEF LaidBut
  <2> QED
    BY <2>1, <2>2
<1> QED
  BY <1>8, <1>12

\* and so does moving it,
LEMMA ReinsertedPlaces ==
    ASSUME NEW s, InsertionOK(s), NEW p, NEW mode \in Mode,
           NEW t, t = RemoveAndInsert(s, p, mode)
    PROVE  LaidBut(t.circuit, t.logic.temp) = LaidBut(s.circuit, s.logic.temp)
<1> DEFINE a == DeleteTemp(s)
<1>1. /\ IsInsertion(a) /\ Editing(a.recorded, a.circuit) /\ Calm(State(a.circuit))
  BY TempGone
<1>2. Spots(a.circuit) = LaidBut(s.circuit, s.logic.temp)
  BY TempGonePlaces
<1>3. t = InsertTemp(a, p, mode)
  BY DEF RemoveAndInsert
<1> HIDE DEF a
<1> QED
  BY <1>1, <1>2, <1>3, TempAddedPlaces

\* beginning with nothing there.
LEMMA InsertionBegunPlaces ==
    ASSUME NEW s, NoneOK(s), NEW p, NEW def \in Definition,
           NEW t, t = RemoveAndInsert([s EXCEPT !.logic = InsertLogicItem(def)],
                                      p, "collisions")
    PROVE  LaidBut(t.circuit, t.logic.temp) = Spots(s.circuit)
<1> DEFINE l == InsertLogicItem(def)
           a == [s EXCEPT !.logic = l]
<1>0. DOMAIN s = SessionFields /\ Rests(s.recorded, s.circuit)
  BY DEF NoneOK
<1>1. t = RemoveAndInsert(a, p, "collisions") /\ "collisions" \in Mode
  BY DEF Mode
<1>2. l.type = "insert_logicitem" /\ l.def = def /\ DOMAIN l = {"type", "def", "temp"}
      /\ l.temp = {}
  BY DEF InsertLogicItem
<1> HIDE DEF l
<1>3. /\ DOMAIN a = SessionFields /\ a.logic = l /\ a.circuit = s.circuit
      /\ a.recorded = s.recorded
  BY <1>0, LogicReplaced
<1> HIDE DEF a
<1>4. Inserting(a.recorded, a.circuit, a.logic.temp)
  BY <1>0, <1>3, RestsIs, CalmInserting
<1>5. InsertionOK(a)
  BY <1>2, <1>3, <1>4 DEF InsertionOK, IsInsertion
<1>6. LaidBut(a.circuit, a.logic.temp) = Spots(s.circuit)
  BY <1>2, <1>3 DEF LaidBut
<1> QED
  BY <1>1, <1>5, <1>6, ReinsertedPlaces

\* A move begins where everything lies,
LEMMA MoveBegunPlaces ==
    ASSUME NEW s, NoneOK(s), NEW p \in Int, NEW t, t = MovePress(MoveCreated(s), p)
    PROVE  Recalls(t, Spots(s.circuit))
<1>1. /\ MoveOK(t) /\ t.logic.deleteOnCancel = FALSE
      /\ t.circuit.items = s.circuit.items /\ t.circuit.keys = s.circuit.keys
      /\ t.logic.total = 0 /\ t.logic.mode = "insert_or_discard"
  <2>1. DOMAIN s = SessionFields
    BY DEF NoneOK
  <2>2. Rests(s.recorded, s.circuit)
    BY DEF NoneOK
  <2>3. /\ MoveOK(t) /\ MovesBack(t) /\ t.state = s.state /\ t.recorded = s.recorded
        /\ t.logic.state = "move_selection" /\ t.logic.deleteOnCancel = FALSE
        /\ AtStart(s, t)
    <3>1. t = MovePress(MoveCreated(s), p)
      OBVIOUS
    <3>2. p \in Int
      OBVIOUS
    <3> QED
      BY <2>1, <2>2, <3>1, <3>2, MoveBegun
  <2> QED
    BY <2>3 DEF AtStart
<1>2. t.logic.type = "selection_move" /\ HonestMove(t)
  BY <1>1 DEF MoveOK, IsMove, HonestMove
<1>3. Start(t.circuit, t.logic.total) = Spots(t.circuit)
  <2> DEFINE n == t.logic.total
  <2>1. n = 0 /\ Positioned(t.circuit)
    BY <1>1, MovePositions
  <2> HIDE DEF n
  <2>2. Start(t.circuit, n) = Spots(t.circuit)
    BY <2>1, StartIsHere
  <2> QED
    BY <2>2 DEF n
<1>4. Spots(t.circuit) = Spots(s.circuit)
  BY <1>1 DEF Spots
<1>5. Apart(Spots(s.circuit))
  BY NoneLayout
<1> QED
  BY <1>1, <1>2, <1>3, <1>4, <1>5 DEF Recalls

\* and remembers it while it goes on.
LEMMA ShiftRecalls ==
    ASSUME NEW s, MoveOK(s), NEW spots, Recalls(s, spots), NEW t,
           t.logic.type = "selection_move" /\ t.logic.deleteOnCancel = s.logic.deleteOnCancel,
           t.logic.total \in Int, HonestMove(t),
           Shifted(s.circuit, t.circuit, t.logic.total - s.logic.total)
    PROVE  Recalls(t, spots)
<1> DEFINE m == s.logic.total
           n == t.logic.total
           delta == n - m
<1>1. m \in Int /\ n \in Int /\ delta \in Int /\ Positioned(s.circuit)
      /\ s.logic.type = "selection_move"
  BY MovePositions DEF MoveOK, IsMove
<1>2. Start(t.circuit, n) = Start(s.circuit, m) /\ Others(t.circuit) = Others(s.circuit)
  <2>1. Shifted(s.circuit, t.circuit, delta) /\ delta = n - m
    OBVIOUS
  <2> HIDE DEF delta, m, n
  <2> QED
    BY <1>1, <2>1, StartShifted
<1> QED
  BY <1>1, <1>2 DEF Recalls

\* A release places what was moved where it is.
LEMMA ReleasedPlaces ==
    ASSUME NEW s, MoveOK(s), MovesBack(s), s.logic.state = "move_selection",
           NEW spots, Recalls(s, spots),
           NEW keys, Ordered(s.circuit, keys), NEW p \in Int,
           NEW t, t = MoveRelease(s, keys, p)
    PROVE  Recalls(t, spots) /\ t.recorded = s.recorded
<1> DEFINE a == MoveSelectionTo(s, keys, p)
           b == ConvertSelectionTo(a, keys, "collisions")
           x == IF AnythingColliding(b.circuit) THEN "waiting_for_confirmation" ELSE "finished"
           m == s.logic.total
           none == 0
<1>1. t = [b EXCEPT !.logic.state = x]
  BY DEF MoveRelease, WaitOrFinish
<1>2. StillMoving(s, a) /\ MoveOK(a) /\ MovesBack(a) /\ Ordered(a.circuit, keys)
  BY MovedTo
<1>3. HonestMove(s) /\ s.logic.type = "selection_move"
  BY DEF Recalls, MoveOK, IsMove
<1>4. /\ Shifted(s.circuit, a.circuit, a.logic.total - m) /\ a.logic.total \in Int
      /\ HonestMove(a)
  BY <1>3, MovedToPlaces
<1> HIDE DEF a
<1>5. "collisions" \in Mode /\ "collisions" # "insert_or_discard"
  BY DEF Mode
<1>6. /\ SameMove(a, b) /\ MoveOK(b)
  BY <1>2, <1>5, Converted
<1>7. Shifted(a.circuit, b.circuit, none) /\ HonestMove(b)
  BY <1>2, <1>4, <1>5, ConvertedPlaces
<1> HIDE DEF b, x
<1>8. Recalls(a, spots)
  BY <1>2, <1>4, ShiftRecalls DEF StillMoving, IsMove
<1>9. b.logic.total = a.logic.total /\ b.logic.deleteOnCancel = a.logic.deleteOnCancel
      /\ b.logic.type = "selection_move" /\ IsMove(b) /\ b.recorded = s.recorded
  BY <1>2, <1>6 DEF SameMove, IsMove, StillMoving
<1>10. b.logic.total - a.logic.total = none
  BY <1>4, <1>9
<1>11. Recalls(b, spots)
  BY <1>2, <1>4, <1>7, <1>8, <1>9, <1>10, ShiftRecalls
<1> DEFINE l == [b.logic EXCEPT !.state = x]
<1>12. t = [b EXCEPT !.logic = l]
  BY <1>1
<1>13. /\ l.type = b.logic.type /\ l.mode = b.logic.mode
       /\ l.deleteOnCancel = b.logic.deleteOnCancel /\ l.total = b.logic.total
  BY <1>9 DEF IsMove, MoveFields
<1> HIDE DEF l
<1>14. t.circuit = b.circuit /\ t.recorded = b.recorded /\ t.logic = l
  BY <1>9, <1>12, LogicReplaced DEF IsMove
<1> QED
  BY <1>9, <1>11, <1>13, <1>14 DEF Recalls, HonestMove

\* A session recalls the layout that was recorded last.
LayoutOK(s) == Recalls(s, LayoutOf(Head(s.recorded.past)))

\* What is pasted lies beside what was there,
LEMMA CollisionsPlaces ==
    ASSUME NEW rec, NEW c, Editing(rec, c), Calm(State(c)), NEW clip, NEW p, CanBePasted(clip, p),
           NEW d, d = InsertAsCollisions(c, clip, p)
    PROVE  Others(d) = Spots(c) /\ Honest(d.items)
<1> DEFINE b == PastedIn(c, clip, p)
           s == PastedIds(c, clip)
           mode == "collisions"
           none == 0
<1>1. /\ d = ChangeSelectionMode(b, s, mode)
      /\ Editing(rec, b) /\ PasteSelected(c, b)
      /\ Distinct(s) /\ Members(s) \subseteq DOMAIN b.items
      /\ KeysOf(b, Members(s)) = State(b).selected
  BY PastedSelected
<1>2. mode \in Mode /\ mode # "insert_or_discard"
  BY DEF Mode
<1> HIDE DEF b, s, mode
<1>3. Good(b) /\ Positioned(b)
  BY <1>1, GoodPositions DEF PasteSelected
<1>4. /\ Rewinds(b, d) /\ ModeSet(State(b), State(d), State(b).selected, mode)
      /\ d.keys = b.keys
  BY <1>1, <1>2, <1>3, ChangeSelectionModeSets
<1>5. Good(d)
  BY <1>4 DEF Rewinds
<1>6. Honest(b.items)
  BY <1>1 DEF PasteSelected, Honest
<1>7. none = 0 /\ none = none - none /\ none \in Int
  OBVIOUS
<1> HIDE DEF none
<1>8. Shifted(b, d, none) /\ Honest(d.items)
  BY <1>2, <1>3, <1>4, <1>5, <1>6, <1>7, ModeSetShifts
<1>9. Others(d) = Others(b)
  BY <1>3, <1>7, <1>8, StartShifted
<1>10. Others(b) = Spots(c)
  BY <1>1 DEF PasteSelected, Others, Spots
<1> QED
  BY <1>8, <1>9, <1>10

\* and is remembered as pasted while it is moved.
LEMMA PastedRecalls ==
    ASSUME NEW s, NoneOK(s), NEW clip \in Clipboards, NEW p,
           \A i \in DOMAIN clip : IsRepresentable(p + clip[i].offset),
           NEW t, t = PasteAndSelect(s, clip, p)
    PROVE  NoneOK(t) \/ (MovingOK(t) /\ LayoutOK(t))
<1> DEFINE c == s.circuit
           d == InsertClipboardData(c, clip, p)
<1>1. CASE ~NoneOK(t)
  <2>1. /\ MovingOK(t) /\ t.recorded = s.recorded /\ t.logic.deleteOnCancel
        /\ t.circuit = d /\ AnythingColliding(d)
    BY <1>1, Pasted
  <2>2. Editing(s.recorded, c) /\ Calm(State(c))
    BY RestsIs DEF NoneOK
  <2>3. CanBePasted(clip, p)
    BY ClipboardsCanBePasted
  <2> HIDE DEF d
  <2>4. d = InsertAsCollisions(c, clip, p)
    BY <2>1, <2>2, <2>3, ClipboardPasted DEF d
  <2>5. Others(d) = Spots(c) /\ Honest(d.items)
    BY <2>2, <2>3, <2>4, CollisionsPlaces
  <2>6. t.logic.type = "selection_move"
    BY <2>1, TypesOf
  <2>7. Recalls(t, Spots(c))
    BY <2>1, <2>5, <2>6 DEF Recalls, HonestMove
  <2> QED
    BY <2>1, <2>7, NoneLayout DEF LayoutOK
<1> QED
  BY <1>1

\* A press recalls the layout that it starts from,
LEMMA PressRecalls ==
    ASSUME NEW s, SessionOK(s), LayoutOK(s), s.logic.type \notin PressedTypes, NEW p \in Points,
           NEW modifier, NEW def \in NewDefinitions,
           NEW t, t = PressLeft(s, p, modifier, def)
    PROVE  LayoutOK(t)
<1>0. p \in Int /\ def \in Definition
  BY PointsAreInts, CircuitConstants
<1>1. CASE NoneOK(s)
  <2> DEFINE spots == Spots(s.circuit)
  <2>1. t = CreateAndPress(s, p, modifier, def)
    BY <1>1, TypesOf DEF PressLeft
  <2>2. DOMAIN s = SessionFields /\ Rests(s.recorded, s.circuit)
        /\ LayoutOf(Head(s.recorded.past)) = spots
    BY <1>1, NoneLayout DEF NoneOK
  <2> HIDE DEF spots
  <2>3. CASE s.state = "inserting"
    <3>1. t = RemoveAndInsert([s EXCEPT !.logic = InsertLogicItem(def)], p, "collisions")
      <4>1. s.state # "selecting"
        BY <2>3
      <4> QED
        BY <2>1, <2>3, <4>1, Zenon DEF CreateAndPress
    <3>2. InsertionOK(t) /\ t.recorded = s.recorded
      BY <1>0, <2>2, <3>1, InsertionBegun
    <3>3. LaidBut(t.circuit, t.logic.temp) = spots
      BY <1>0, <1>1, <3>1, InsertionBegunPlaces DEF spots
    <3>4. t.logic.type = "insert_logicitem"
      BY <3>2, TypesOf
    <3> QED
      BY <2>2, <3>2, <3>3, <3>4 DEF LayoutOK, Recalls
  <2>4. CASE s.state = "selecting" /\ Hit(s.circuit, p) = {}
    <3>1. t = AreaPress(s, p, modifier)
      <4>1. s.state # "inserting"
        BY <2>4
      <4> QED
        BY <2>1, <2>4, <4>1, Zenon DEF CreateAndPress
    <3>2. AreaOK(t) /\ t.recorded = s.recorded
      BY <2>2, <3>1, AreaBegun
    <3>3. Spots(t.circuit) = spots
      BY <2>2, <3>1, AreaBegunPlaces DEF spots
    <3>4. t.logic.type = "selection_area"
      BY <3>2, TypesOf
    <3> QED
      BY <2>2, <3>2, <3>3, <3>4 DEF LayoutOK, Recalls
  <2>5. CASE s.state = "selecting" /\ Hit(s.circuit, p) # {} /\ modifier # "none"
    <3>1. t = SinglePress(s, p)
      <4>1. s.state # "inserting"
        BY <2>5
      <4> QED
        BY <2>1, <2>5, <4>1, Zenon DEF CreateAndPress
    <3>2. SingleOK(t) /\ t.recorded = s.recorded
      BY <2>2, <3>1, SingleBegun
    <3>3. Spots(t.circuit) = spots
      BY <2>2, <3>1, SingleBegunPlaces DEF spots
    <3>4. t.logic.type = "selection_single"
      BY <3>2, TypesOf
    <3> QED
      BY <2>2, <3>2, <3>3, <3>4 DEF LayoutOK, Recalls
  <2>6. CASE /\ s.state # "inserting" /\ ~(s.state = "selecting" /\ Hit(s.circuit, p) = {})
             /\ ~(s.state = "selecting" /\ Hit(s.circuit, p) # {} /\ modifier # "none")
    <3>1. t = MovePress(MoveCreated(s), p)
      <4> DEFINE l == SelectionMove("insert_or_discard", "waiting_for_first_click", FALSE)
      <4>1. t = MovePress(Checked([s EXCEPT !.logic = l]), p)
        BY <2>1, <2>6, Zenon DEF CreateAndPress
      <4> QED
        BY <4>1 DEF MoveCreated
    <3>2. Recalls(t, spots)
      BY <1>0, <1>1, <3>1, MoveBegunPlaces DEF spots
    <3>3. t.recorded = s.recorded
      <4>1. p \in Int
        BY <1>0
      <4>2. DOMAIN s = SessionFields
        BY <2>2
      <4>3. Rests(s.recorded, s.circuit)
        BY <2>2
      <4>4. /\ MoveOK(t) /\ MovesBack(t) /\ t.state = s.state /\ t.recorded = s.recorded
            /\ t.logic.state = "move_selection" /\ t.logic.deleteOnCancel = FALSE
            /\ AtStart(s, t)
        BY <3>1, <4>1, <4>2, <4>3, MoveBegun
      <4> QED
        BY <4>4
    <3> QED
      BY <2>2, <3>2, <3>3 DEF LayoutOK
  <2> QED
    BY <2>3, <2>4, <2>5, <2>6
<1>2. CASE MovingOK(s)
  <2>1. t = MovePress(s, p)
    BY <1>2, TypesOf DEF PressLeft
  <2>2. MoveOK(s) /\ MovesBack(s) /\ s.logic.state # "waiting_for_first_click"
    BY <1>2 DEF MovingOK
  <2>3. /\ MoveOK(t) /\ t.circuit = s.circuit /\ t.logic.total = s.logic.total
        /\ t.logic.mode = s.logic.mode /\ t.logic.deleteOnCancel = s.logic.deleteOnCancel
        /\ t.recorded = s.recorded
    BY <1>0, <2>1, <2>2, MovePressed
  <2>4. t.logic.type = "selection_move" /\ s.logic.type = "selection_move"
    BY <2>2, <2>3 DEF MoveOK, IsMove
  <2> QED
    BY <2>3, <2>4 DEF LayoutOK, Recalls, HonestMove
<1> QED
  BY <1>1, <1>2, TypesOf DEF SessionOK, PressedTypes

\* a move of the mouse does not forget it,
LEMMA MoveRecalls ==
    ASSUME NEW s, SessionOK(s), LayoutOK(s), NEW p \in Points, NEW keys, InKeys(s, keys),
           NEW t, t = MoveLeft(s, keys, p)
    PROVE  LayoutOK(t)
<1> DEFINE spots == LayoutOf(Head(s.recorded.past))
<1>0. Recalls(s, spots) /\ p \in Int
  BY PointsAreInts DEF LayoutOK
<1> HIDE DEF spots
<1>1. CASE MovingOK(s) /\ s.logic.state = "move_selection"
  <2>1. s.logic.type = "selection_move" /\ s.logic.type # "selection_area"
        /\ s.logic.type # "insert_logicitem"
    BY <1>1, TypesOf
  <2>2. t = MoveSelectionTo(s, keys, p)
    BY <1>1, <2>1, Zenon DEF MoveLeft
  <2>3. MoveOK(s) /\ MovesBack(s) /\ Ordered(s.circuit, keys) /\ HonestMove(s)
    BY <1>0, <1>1, <2>1 DEF MovingOK, InKeys, Recalls
  <2>4. StillMoving(s, t)
    BY <1>0, <2>2, <2>3, MovedTo
  <2>5. /\ Shifted(s.circuit, t.circuit, t.logic.total - s.logic.total)
        /\ t.logic.total \in Int /\ HonestMove(t)
    BY <1>0, <2>2, <2>3, MovedToPlaces
  <2>6. t.logic.type = "selection_move" /\ t.logic.deleteOnCancel = s.logic.deleteOnCancel
        /\ t.recorded = s.recorded
    BY <2>4 DEF StillMoving, IsMove
  <2>7. Recalls(t, spots)
    BY <1>0, <2>3, <2>5, <2>6, ShiftRecalls
  <2> QED
    BY <2>6, <2>7 DEF LayoutOK, spots
<1>2. CASE AreaOK(s)
  <2>1. s.logic.type = "selection_area" /\ s.logic.type # "selection_move"
        /\ s.logic.type # "insert_logicitem"
    BY <1>2, TypesOf
  <2>2. t = AreaUpdate(s, p)
    BY <2>1, Zenon DEF MoveLeft
  <2>3. t.logic = s.logic /\ t.recorded = s.recorded /\ Spots(t.circuit) = Spots(s.circuit)
    BY <1>2, <2>2, AreaUpdated, AreaUpdatedPlaces
  <2> QED
    BY <1>0, <2>1, <2>3 DEF LayoutOK, spots, Recalls
<1>3. CASE InsertionOK(s)
  <2>1. s.logic.type = "insert_logicitem" /\ s.logic.type # "selection_move"
        /\ s.logic.type # "selection_area" /\ "collisions" \in Mode
    BY <1>3, TypesOf DEF Mode
  <2>2. t = RemoveAndInsert(s, p, "collisions")
    BY <2>1, Zenon DEF MoveLeft
  <2>3. /\ InsertionOK(t) /\ t.recorded = s.recorded
        /\ LaidBut(t.circuit, t.logic.temp) = LaidBut(s.circuit, s.logic.temp)
    BY <1>3, <2>1, <2>2, Reinserted, ReinsertedPlaces
  <2>4. t.logic.type = "insert_logicitem"
    BY <2>3, TypesOf
  <2> QED
    BY <1>0, <2>1, <2>3, <2>4 DEF LayoutOK, spots, Recalls
<1>4. CASE NoneOK(s) \/ SingleOK(s) \/ (MovingOK(s) /\ s.logic.state # "move_selection")
  <2>1. /\ ~(s.logic.type = "selection_move" /\ s.logic.state = "move_selection")
        /\ s.logic.type # "selection_area" /\ s.logic.type # "insert_logicitem"
    BY <1>4, TypesOf
  <2>2. t = s
    BY <2>1, Zenon DEF MoveLeft
  <2> QED
    BY <2>2
<1> QED
  BY <1>1, <1>2, <1>3, <1>4 DEF SessionOK

\* nor does a release that ends no gesture.
LEMMA ReleaseRecalls ==
    ASSUME NEW s, SessionOK(s), LayoutOK(s), NEW p \in Points, NEW keys, InKeys(s, keys),
           NEW t, t = ReleaseLeft(s, keys, p)
    PROVE  NoneOK(t) \/ (MovingOK(t) /\ LayoutOK(t))
<1> DEFINE spots == LayoutOf(Head(s.recorded.past))
<1>1. Recalls(s, spots) /\ p \in Int
  BY PointsAreInts DEF LayoutOK
<1> HIDE DEF spots
<1>2. CASE MovingOK(t) /\ MovingOK(s) /\ t = Release(s, keys, p)
  <2>1. s.logic.type = "selection_move" /\ s.logic.type # "selection_area"
        /\ s.logic.type # "insert_logicitem"
    BY <1>2, TypesOf
  <2>2. t = MoveRelease(s, keys, p)
    BY <1>2, <2>1, Zenon DEF Release
  <2>3. MoveOK(s) /\ MovesBack(s) /\ Ordered(s.circuit, keys)
    BY <1>2, <2>1 DEF MovingOK, InKeys
  <2>4. Recalls(t, spots) /\ t.recorded = s.recorded
    <3>1. CASE s.logic.state = "move_selection"
      BY <1>1, <2>2, <2>3, <3>1, ReleasedPlaces
    <3>2. CASE s.logic.state # "move_selection"
      BY <1>1, <2>2, <3>2 DEF MoveRelease
    <3> QED
      BY <3>1, <3>2
  <2> QED
    BY <1>2, <2>4 DEF LayoutOK, spots
<1> QED
  BY <1>2, LeftReleased

\* A gesture that is cancelled leads back to the layout that it started from.
LEMMA FinalizedPlaces ==
    ASSUME NEW s, SessionOK(s), LayoutOK(s), NotDragging(s), s.logic.type # "none",
           NEW keys, InKeys(s, keys), NEW t, t = FinalizeEditing(s, keys)
    PROVE  Spots(t.circuit) = LayoutOf(Head(s.recorded.past))
<1> DEFINE spots == LayoutOf(Head(s.recorded.past))
<1>1. Recalls(s, spots)
  BY DEF LayoutOK
<1> HIDE DEF spots
<1>2. PICK a : a = FinalizeLogic(s, keys) /\ DOMAIN a = SessionFields /\ Spots(a.circuit) = spots
  <2>1. CASE AreaOK(s)
    <3>1. /\ s.logic.type = "selection_area" /\ s.logic.type # "none"
          /\ s.logic.type # "selection_move" /\ s.logic.type # "selection_single"
          /\ s.logic.type # "insert_logicitem"
      BY <2>1, TypesOf
    <3>2. FinalizeLogic(s, keys) = FinalizeArea(s)
      BY <3>1, Zenon DEF FinalizeLogic
    <3> QED
      BY <1>1, <2>1, <3>1, <3>2, AreaFinalized, AreaFinalizedPlaces DEF Ended, Recalls
  <2>2. CASE SingleOK(s)
    <3>1. /\ s.logic.type = "selection_single" /\ s.logic.type # "none"
          /\ s.logic.type # "selection_move" /\ s.logic.type # "selection_area"
          /\ s.logic.type # "insert_logicitem"
      BY <2>2, TypesOf
    <3>2. FinalizeLogic(s, keys) = Finish(s)
      BY <3>1, Zenon DEF FinalizeLogic
    <3>3. DOMAIN s = SessionFields /\ Editing(s.recorded, s.circuit) /\ Calm(State(s.circuit))
      BY <2>2 DEF SingleOK
    <3>4. Good(s.circuit)
      BY <3>3, EditingIs
    <3>5. Ended(s, Finish(s))
      BY <3>3, FinishEnds
    <3>6. Spots(Finish(s).circuit) = Spots(s.circuit)
      BY <3>3, <3>4, FinishPlaces
    <3> QED
      BY <1>1, <3>1, <3>2, <3>5, <3>6 DEF Ended, Recalls
  <2>3. CASE InsertionOK(s)
    <3> DEFINE b == DeleteTemp(s)
    <3>1. /\ s.logic.type = "insert_logicitem" /\ s.logic.type # "none"
          /\ s.logic.type # "selection_move" /\ s.logic.type # "selection_single"
          /\ s.logic.type # "selection_area"
      BY <2>3, TypesOf
    <3>2. FinalizeLogic(s, keys) = Finish(b)
      BY <3>1, Zenon DEF FinalizeLogic
    <3>3. Ended(s, Finish(b))
      BY <2>3, InsertionFinalized
    <3>4. IsInsertion(b) /\ Editing(b.recorded, b.circuit)
      BY <2>3, TempGone
    <3>5. Spots(b.circuit) = spots
      BY <1>1, <2>3, <3>1, TempGonePlaces DEF Recalls
    <3> HIDE DEF b
    <3>6. DOMAIN b = SessionFields /\ Good(b.circuit)
      BY <3>4, EditingIs DEF IsInsertion
    <3>7. Spots(Finish(b).circuit) = Spots(b.circuit)
      BY <3>6, FinishPlaces
    <3> QED
      BY <3>2, <3>3, <3>5, <3>7 DEF Ended
  <2>4. CASE MovingOK(s)
    <3> DEFINE b == FinalizeMove(s, keys)
    <3>1. s.logic.type = "selection_move" /\ s.logic.type # "none"
      BY <2>4, TypesOf
    <3>2. FinalizeLogic(s, keys) = b
      BY <3>1, Zenon DEF FinalizeLogic
    <3>3. /\ MoveOK(s) /\ MovesBack(s) /\ Ordered(s.circuit, keys) /\ ~IsFinished(s.logic)
          /\ s.logic.deleteOnCancel => s.logic.mode = "collisions"
      BY <2>4, <3>1 DEF MovingOK, NotDragging, InKeys, IsFinished
    <3>4. Ended(s, b)
      BY <3>3, MoveFinalized
    <3>5. Spots(b.circuit) = spots
      <4>1. CASE s.logic.deleteOnCancel
        <5>1. s.logic.mode = "collisions" /\ Others(s.circuit) = spots
          BY <1>1, <3>1, <3>3, <4>1 DEF Recalls
        <5> QED
          BY <3>3, <4>1, <5>1, PasteCancelledPlaces
      <4>2. CASE ~s.logic.deleteOnCancel
        <5>1. Start(s.circuit, s.logic.total) = spots /\ Apart(spots) /\ HonestMove(s)
          BY <1>1, <3>1, <4>2 DEF Recalls
        <5>2. Apart(Start(s.circuit, s.logic.total))
          BY <5>1
        <5> QED
          BY <3>3, <4>2, <5>1, <5>2, CancelledPlaces
      <4> QED
        BY <4>1, <4>2
    <3> HIDE DEF b
    <3> QED
      BY <3>2, <3>4, <3>5 DEF Ended
  <2> QED
    BY <2>1, <2>2, <2>3, <2>4, TypesOf DEF SessionOK
<1>3. t = [a EXCEPT !.logic = NoLogic]
  BY <1>2 DEF FinalizeEditing
<1> DEFINE l == NoLogic
<1>4. t = [a EXCEPT !.logic = l] /\ DOMAIN a = SessionFields
  BY <1>2, <1>3
<1> HIDE DEF l
<1>5. t.circuit = a.circuit
  BY ONLY <1>4, LogicReplaced
<1> QED
  BY <1>2, <1>5 DEF spots

-----------------------------------------------------------------------------
(***************************************************************************)
(* The layout is recalled through all steps.                               *)
(***************************************************************************)

LayoutInv == UIInv /\ LayoutOK(Session)

\* Between gestures there is nothing to recall.
LEMMA NoneRecalls == ASSUME NEW s, NoneOK(s) PROVE LayoutOK(s)
BY TypesOf DEF LayoutOK, Recalls

\* A step recalls the layout if its handler does.
LEMMA HandleRecalls ==
    ASSUME NEW t, LayoutOK(t), Handle(t) PROVE LayoutOK(Session')
BY DEF Handle, Session, LayoutOK, Recalls, HonestMove

\* So every step does: it begins a gesture, goes on with it or ends it.
LEMMA StepRecalls ==
    ASSUME ~MayInterruptPaste, LayoutInv, [UINext]_vars
    PROVE  LayoutOK(Session')
<1>0. UIInv /\ SessionOK(Session) /\ LayoutOK(Session)
  BY DEF LayoutInv, UIInv
<1>1. CASE MousePress
  <2>1. PICK p \in Points, modifier \in {"none", "control", "alt"}, def \in NewDefinitions :
          ~button /\ Handle(PressLeft(Session, p, modifier, def))
    BY <1>1 DEF MousePress, Begin
  <2> DEFINE t == PressLeft(Session, p, modifier, def)
  <2>2. Session.logic.type \notin PressedTypes
    BY <1>0, <2>1, SessionIs DEF UIInv
  <2>3. LayoutOK(t)
    BY <1>0, <2>2, PressRecalls
  <2> HIDE DEF t
  <2>4. Handle(t)
    BY <2>1 DEF t
  <2> QED
    BY <2>3, <2>4, HandleRecalls
<1>2. CASE MouseMove
  <2>1. PICK p \in Points, keys \in SelectionOrders : Handle(MoveLeft(Session, keys, p))
    BY <1>2 DEF MouseMove
  <2> DEFINE t == MoveLeft(Session, keys, p)
  <2>2. LayoutOK(t)
    BY <1>0, KeysInOrder, MoveRecalls
  <2> HIDE DEF t
  <2>3. Handle(t)
    BY <2>1 DEF t
  <2> QED
    BY <2>2, <2>3, HandleRecalls
<1>3. CASE MouseRelease
  <2>1. PICK p \in Points, keys \in SelectionOrders : Handle(ReleaseLeft(Session, keys, p))
    BY <1>3 DEF MouseRelease
  <2> DEFINE t == ReleaseLeft(Session, keys, p)
  <2>2. NoneOK(t) \/ (MovingOK(t) /\ LayoutOK(t))
    BY <1>0, KeysInOrder, ReleaseRecalls
  <2> HIDE DEF t
  <2>3. Handle(t) /\ LayoutOK(t)
    BY <2>1, <2>2, NoneRecalls DEF t
  <2> QED
    BY <2>3, HandleRecalls
<1>4. CASE Paste
  <2>1. PICK clip \in Clipboards, p \in Points, keys \in SelectionOrders :
          /\ \A i \in DOMAIN clip : IsRepresentable(p + clip[i].offset)
          /\ Action /\ Handle(PasteAndSelect(ReturnToSelecting(Session, keys), clip, p))
    BY <1>4 DEF Paste, Begin
  <2> DEFINE a == ReturnToSelecting(Session, keys)
             t == PasteAndSelect(a, clip, p)
  <2>2. NoneOK(a)
    BY <1>0, <2>1, Acting, KeysInOrder, Returned
  <2> HIDE DEF a
  <2>3. NoneOK(t) \/ (MovingOK(t) /\ LayoutOK(t))
    BY <2>1, <2>2, PastedRecalls
  <2> HIDE DEF t
  <2>4. Handle(t) /\ LayoutOK(t)
    BY <2>1, <2>3, NoneRecalls DEF t, a
  <2> QED
    BY <2>4, HandleRecalls
<1>5. CASE \/ Escape \/ Enter \/ Undo \/ Redo \/ SelectAll \/ DeleteSelected \/ Copy \/ SetState
  <2>1. PICK t : (t = Session \/ NoneOK(t)) /\ Handle(t)
    BY <1>0, <1>5, MenuEnds
  <2>2. LayoutOK(t)
    BY <1>0, <2>1, NoneRecalls
  <2> QED
    BY <2>1, <2>2, HandleRecalls
<1>6. CASE UNCHANGED vars
  <2>1. Session' = Session
    BY <1>6 DEF vars, Session
  <2> QED
    BY <1>0, <2>1 DEF LayoutOK, Recalls, HonestMove
<1> QED
  BY <1>1, <1>2, <1>3, <1>4, <1>5, <1>6 DEF UINext

\* Escape out of a gesture brings back what is recalled.
LEMMA EscapeBack ==
    ASSUME ~MayInterruptPaste, LayoutInv, Escape, logic # NoLogic
    PROVE  LayoutOf(Snapshot(circuit')) = LayoutOf(Head(recorded.past))
<1>1. PICK keys \in SelectionOrders : Action /\ Handle(AbortCurrentAction(Session, keys))
  BY DEF Escape
<1> DEFINE s == Session
           t == FinalizeEditing(s, keys)
<1>2. /\ UIInv /\ SessionOK(s) /\ LayoutOK(s) /\ NotDragging(s) /\ InKeys(s, keys)
      /\ s.recorded = recorded /\ s.logic = logic
  BY <1>1, Acting, KeysInOrder, SessionIs DEF LayoutInv
<1> HIDE DEF s
<1>3. s.logic.type # "none"
  BY <1>2, TypesOf DEF SessionOK, NoneOK
<1>4. AbortCurrentAction(s, keys) = t
  BY <1>3, Zenon DEF AbortCurrentAction
<1>5. Spots(t.circuit) = LayoutOf(Head(s.recorded.past))
  BY <1>2, <1>3, FinalizedPlaces
<1>6. NoneOK(t)
  BY <1>2, EditingFinalized
<1>7. circuit' = t.circuit
  BY <1>1, <1>4 DEF Handle, s
<1> HIDE DEF t
<1>8. Good(t.circuit)
  BY <1>6, NoneLayout
<1>9. LayoutOf(Snapshot(t.circuit)) = Spots(t.circuit)
  BY <1>8, LayoutSeen
<1> QED
  BY <1>2, <1>5, <1>7, <1>9

\* A mouse gesture that is cancelled brings back the layout it started from: dragged
\* items go back, what was not inserted yet is deleted, and nothing else has moved.
THEOREM EscapeBringsBack == ASSUME ~MayInterruptPaste PROVE UISpec => EscapeRestoresLayout
<1>1. UIInit => LayoutInv
  <2> SUFFICES ASSUME UIInit PROVE LayoutInv
    OBVIOUS
  <2>1. UIInv /\ logic = NoLogic
    BY SessionBegins DEF UIInit
  <2>2. Session.logic.type = "none"
    BY <2>1, SessionIs DEF NoLogic
  <2>3. NoneOK(Session)
    BY <2>1, <2>2, TypesOf DEF UIInv, SessionOK
  <2> QED
    BY <2>1, <2>3, NoneRecalls DEF LayoutInv
<1>2. LayoutInv /\ [UINext]_vars => LayoutInv'
  <2> SUFFICES ASSUME LayoutInv, [UINext]_vars PROVE LayoutInv'
    OBVIOUS
  <2>1. UIInv'
    BY NextKeepsSession DEF LayoutInv
  <2>2. LayoutOK(Session')
    BY StepRecalls
  <2>3. LayoutOK(Session)' <=> LayoutOK(Session')
    BY DEF LayoutOK, Recalls, HonestMove
  <2> QED
    BY <2>1, <2>2, <2>3 DEF LayoutInv
<1>3. /\ LayoutInv /\ [UINext]_vars
      => [Escape /\ logic # NoLogic
            => LayoutOf(Snapshot(circuit')) = LayoutOf(Head(recorded.past))]_vars
  BY EscapeBack
<1> QED
  BY <1>1, <1>2, <1>3, PTL DEF UISpec, EscapeRestoresLayout
==============================================================================
