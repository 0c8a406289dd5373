------------------------------ MODULE UndoProofs ------------------------------
(***************************************************************************)
(* Undo and redo of a circuit: no legal call throws.                       *)
(*                                                                         *)
(* A replay sees a circuit as its State: items and selection by key.  An   *)
(* entry Leads from one state to another if it can be replayed in the one  *)
(* and gives the other.  A stack is replayable when there is a path of     *)
(* states along its entries that ends in the present one; every edit keeps *)
(* such a path, however it pushes and cancels.  So no call throws, undo    *)
(* and redo are inverse, and undo leads to the circuit at the start of the *)
(* group.                                                                  *)
(*                                                                         *)
(* The snapshots that CircuitHistoryRefinement records are a Trail: what   *)
(* is seen where the path passes the end of a finished group.  Every call  *)
(* keeps the trail or moves its last snapshot from one stack's to the      *)
(* other's, so that CircuitHistory implements UndoSnapshots.               *)
(***************************************************************************)
EXTENDS CircuitHistoryProofs, CircuitHistoryRefinement

-----------------------------------------------------------------------------
(***************************************************************************)
(* What entries do.                                                        *)
(***************************************************************************)

\* What a replay sees of a circuit: items and the selection by their keys.
IdOf(c, key) == CHOOSE id \in Ids(c) : c.keys[id] = key

State(c) == [items |-> [key \in KeyIndexSet(c) |-> c.items[IdOf(c, key)]],
             selected |-> KeysOf(c, c.initial),
             operations |-> c.operations]

\* Nothing that is inserted is where the item of this key is.
Free(st, key) ==
    \A k \in DOMAIN st.items \ {key} :
        ~(IsInserted(st.items[k]) /\ st.items[k].position = st.items[key].position)

\* The state with another item for a key.
WithItem(st, key, x) == [st EXCEPT !.items = [@ EXCEPT ![key] = x]]

WithDisplay(item, display) == [item EXCEPT !.display = display]
MovedItem(item, delta) == [item EXCEPT !.position = @ + delta]
WithAttributes(item, attrs) == [item EXCEPT !.def.attrs = attrs]

NewItem(e) == [def |-> e.def, position |-> e.position, display |-> "temporary"]

\* The entry can be replayed in state st and leads to ts.
LeadsDisplay(e, st, ts, from, to) ==
    /\ e.key \in DOMAIN st.items /\ st.items[e.key].display \in from
    /\ ts = WithItem(st, e.key, WithDisplay(st.items[e.key], to))

LeadsItem(e, st, ts) ==
    \/ /\ e.type = "to_temporary"
       /\ LeadsDisplay(e, st, ts, {"colliding", "valid"}, "temporary")
    \/ /\ e.type = "to_colliding_expect_valid"
       /\ LeadsDisplay(e, st, ts, {"temporary", "normal"}, "valid")
       /\ st.items[e.key].display = "temporary" => Free(st, e.key)
    \/ /\ e.type = "to_colliding_assume_colliding"
       /\ LeadsDisplay(e, st, ts, {"temporary"}, "colliding")
    \/ /\ e.type = "to_insert"
       /\ LeadsDisplay(e, st, ts, {"valid"}, "normal")
    \/ /\ e.type = "move"
       /\ e.key \in DOMAIN st.items /\ st.items[e.key].display = "temporary"
       /\ e.delta \in Int /\ IsRepresentable(st.items[e.key].position + e.delta)
       /\ ts = WithItem(st, e.key, MovedItem(st.items[e.key], e.delta))
    \/ /\ e.type = "change_attributes"
       /\ e.key \in DOMAIN st.items /\ e.attrs \in Attributes
       /\ ts = WithItem(st, e.key, WithAttributes(st.items[e.key], e.attrs))

LeadsLayout(e, st, ts) ==
    \/ /\ e.type = "create"
       /\ e.key \in (Nat \ {0}) \ DOMAIN st.items
       /\ e.def \in Definition /\ e.position \in 1 .. Cells
       /\ ts = [st EXCEPT !.items = [key \in DOMAIN @ \cup {e.key} |->
                                        IF key = e.key THEN NewItem(e) ELSE @[key]]]
    \/ /\ e.type = "delete"
       /\ e.key \in DOMAIN st.items /\ st.items[e.key].display = "temporary"
       /\ ts = [st EXCEPT !.items = [key \in DOMAIN @ \ {e.key} |-> @[key]],
                          !.selected = @ \ {e.key}]

LeadsSelection(e, st, ts) ==
    \/ /\ e.type = "add_visible" /\ e.key \in DOMAIN st.items
       /\ ts = [st EXCEPT !.selected = @ \cup {e.key}]
    \/ /\ e.type = "remove_visible" /\ e.key \in DOMAIN st.items
       /\ ts = [st EXCEPT !.selected = @ \ {e.key}]
    \/ /\ e.type = "clear" /\ st.operations = <<>>
       /\ ts = [st EXCEPT !.selected = {}]
    \/ /\ e.type = "set" /\ st.operations = <<>> /\ e.keys \subseteq DOMAIN st.items
       /\ ts = [st EXCEPT !.selected = e.keys]
    \/ /\ e.type = "select_all" /\ st.operations = <<>>
       /\ ts = [st EXCEPT !.selected = DOMAIN st.items]
    \/ /\ e.type = "add_operation" /\ e.operation \in Operation
       /\ ts = [st EXCEPT !.operations = Append(@, e.operation)]
    \/ /\ e.type = "update_last" /\ st.operations # <<>> /\ e.rect \in Rects
       /\ ts = [st EXCEPT !.operations[Len(st.operations)].rect = e.rect]
    \/ /\ e.type = "pop_last" /\ st.operations # <<>>
       /\ ts = [st EXCEPT !.operations = Front(@)]

Leads(e, st, ts) == \/ e.type = "new_group" /\ ts = st
                    \/ LeadsItem(e, st, ts)
                    \/ LeadsLayout(e, st, ts)
                    \/ LeadsSelection(e, st, ts)

-----------------------------------------------------------------------------
(***************************************************************************)
(* Paths of states along a stack.                                          *)
(***************************************************************************)

PathOn(s, f) == /\ f = [i \in 0 .. Len(s) |-> f[i]]
                /\ \A i \in 1 .. Len(s) : Leads(s[i], f[i], f[i - 1])

Arrives(s, f, st) == PathOn(s, f) /\ f[Len(s)] = st

\* Entry b finishes a group, or there is none below.
Bottom(s, b) == b \in 0 .. Len(s) /\ (b = 0 \/ s[b].type = "new_group")

\* No group is finished above b.
OpenAbove(s, b) == \A i \in 1 .. Len(s) : i > b => s[i].type # "new_group"

SameBelow(s, f, t, h, b) ==
    /\ b \in 0 .. Len(t)
    /\ \A i \in 1 .. b : t[i] = s[i]
    /\ \A i \in 0 .. b : h[i] = f[i]
    /\ OpenAbove(s, b) => OpenAbove(t, b)

\* However the stack could be replayed from st, it can be from ts, and finished groups
\* stay as they are.
Rewound(s, st, t, ts) ==
    \A f, b : Arrives(s, f, st) /\ Bottom(s, b)
                 => \E h : Arrives(t, h, ts) /\ SameBelow(s, f, t, h, b)

LEMMA RewoundSame == ASSUME NEW s, NEW st PROVE Rewound(s, st, s, st)
BY DEF Rewound, SameBelow, Bottom

LEMMA BottomKept ==
    ASSUME NEW s, NEW t, NEW f, NEW h, NEW b, Bottom(s, b), IsSeq(s),
           SameBelow(s, f, t, h, b)
    PROVE  Bottom(t, b)
<1>1. Len(s) \in Nat
  BY DEF IsSeq
<1>2. b # 0 => b \in 1 .. b
  BY <1>1 DEF Bottom
<1> QED
  BY <1>2 DEF Bottom, SameBelow

LEMMA RewoundTwice ==
    ASSUME NEW s, NEW st, NEW t, NEW ts, NEW u, NEW us, IsSeq(s),
           Rewound(s, st, t, ts), Rewound(t, ts, u, us)
    PROVE  Rewound(s, st, u, us)
<1> SUFFICES ASSUME NEW f, NEW b, Arrives(s, f, st), Bottom(s, b)
             PROVE  \E k : Arrives(u, k, us) /\ SameBelow(s, f, u, k, b)
  BY DEF Rewound
<1>1. PICK h : Arrives(t, h, ts) /\ SameBelow(s, f, t, h, b)
  BY DEF Rewound
<1>2. Bottom(t, b)
  BY <1>1, BottomKept
<1>3. PICK k : Arrives(u, k, us) /\ SameBelow(t, h, u, k, b)
  BY <1>1, <1>2 DEF Rewound
<1>4. SameBelow(s, f, u, k, b)
  BY <1>1, <1>3 DEF SameBelow
<1> QED
  BY <1>3, <1>4

\* The path up to an earlier entry.
LEMMA PathCut ==
    ASSUME NEW s, IsSeq(s), NEW f, PathOn(s, f), NEW n \in 0 .. Len(s), NEW b \in 0 .. n,
           NEW t, IsSeq(t), Len(t) = n, \A i \in 1 .. n : t[i] = s[i]
    PROVE  \E h : Arrives(t, h, f[n]) /\ SameBelow(s, f, t, h, b)
<1> DEFINE h == [i \in 0 .. n |-> f[i]]
<1>1. Len(s) \in Nat /\ n \in Nat
  BY DEF IsSeq
<1>2. \A i \in 1 .. n : i \in 1 .. Len(s) /\ i \in 0 .. n /\ i - 1 \in 0 .. n
  BY <1>1
<1>3. h = [i \in 0 .. Len(t) |-> h[i]] /\ n \in 0 .. n
  BY <1>1
<1>4. PathOn(t, h)
  BY <1>2, <1>3 DEF PathOn
<1>5. h[Len(t)] = f[n]
  BY <1>3
<1>6. SameBelow(s, f, t, h, b)
  BY <1>1, <1>2 DEF SameBelow, OpenAbove
<1> QED
  BY <1>4, <1>5, <1>6 DEF Arrives

LEMMA RewoundAppend ==
    ASSUME NEW s, IsSeq(s), NEW st, NEW ts, NEW e, e.type # "new_group", Leads(e, ts, st)
    PROVE  Rewound(s, st, Append(s, e), ts)
<1> DEFINE t == Append(s, e)
           n == Len(s)
<1>1. /\ IsSeq(t) /\ n \in Nat /\ Len(t) = n + 1
      /\ \A i \in 1 .. n : t[i] = s[i]
      /\ t[n + 1] = e
  BY AppendSeq
<1> HIDE DEF t
<1> SUFFICES ASSUME NEW f, NEW b, Arrives(s, f, st), Bottom(s, b)
             PROVE  \E h : Arrives(t, h, ts) /\ SameBelow(s, f, t, h, b)
  BY DEF Rewound, t
<1> DEFINE h == [i \in 0 .. (n + 1) |-> IF i = n + 1 THEN ts ELSE f[i]]
<1>2. /\ f[n] = st /\ b \in 0 .. n
      /\ \A i \in 1 .. n : Leads(s[i], f[i], f[i - 1])
  BY DEF Arrives, PathOn, Bottom
<1> HIDE DEF n
<1>3. /\ h = [i \in 0 .. (n + 1) |-> h[i]] /\ h[n + 1] = ts
      /\ \A i \in 0 .. n : h[i] = f[i]
  BY <1>1
<1> HIDE DEF h
<1>4. ASSUME NEW i \in 1 .. (n + 1) PROVE Leads(t[i], h[i], h[i - 1])
  <2>1. CASE i = n + 1
    <3>1. h[i - 1] = st
      BY <1>1, <1>2, <1>3, <2>1
    <3>2. t[i] = e /\ h[i] = ts
      BY <1>1, <1>3, <2>1
    <3> QED
      BY <3>1, <3>2
  <2>2. CASE i \in 1 .. n
    <3>1. i \in 0 .. n /\ i - 1 \in 0 .. n
      BY <1>1, <2>2
    <3>2. h[i] = f[i] /\ h[i - 1] = f[i - 1] /\ t[i] = s[i]
      BY <1>1, <1>3, <2>2, <3>1
    <3> QED
      BY <1>2, <2>2, <3>2
  <2> QED
    BY <1>1, <2>1, <2>2
<1>5. Arrives(t, h, ts)
  BY <1>1, <1>3, <1>4 DEF Arrives, PathOn
<1>6. SameBelow(s, f, t, h, b)
  <2>1. ASSUME OpenAbove(s, b), NEW i \in 1 .. (n + 1), i > b PROVE t[i].type # "new_group"
    <3>1. CASE i = n + 1
      BY <1>1, <3>1
    <3>2. CASE i \in 1 .. n
      BY <1>1, <2>1, <3>2 DEF OpenAbove, n
    <3> QED
      BY <1>1, <3>1, <3>2
  <2>2. OpenAbove(s, b) => OpenAbove(t, b)
    BY <1>1, <2>1 DEF OpenAbove
  <2>3. b \in 0 .. Len(t) /\ \A i \in 1 .. b : i \in 1 .. n
    BY <1>1, <1>2
  <2>4. \A i \in 0 .. b : i \in 0 .. n
    BY <1>1, <1>2
  <2>5. b \in 0 .. Len(t) /\ (\A i \in 1 .. b : t[i] = s[i]) /\ \A i \in 0 .. b : h[i] = f[i]
    BY <1>1, <1>3, <2>3, <2>4
  <2> QED
    BY <2>2, <2>5 DEF SameBelow
<1> QED
  BY <1>5, <1>6

\* The entry on top, that the edit performs, is taken away.
LEMMA RewoundCancel ==
    ASSUME NEW s, IsSeq(s), s # <<>>, NEW st, NEW ts, Last(s).type # "new_group",
           \A x : Leads(Last(s), st, x) => x = ts
    PROVE  Rewound(s, st, Front(s), ts)
<1> DEFINE n == Len(s)
<1>1. /\ n \in Nat \ {0} /\ IsSeq(Front(s)) /\ Len(Front(s)) = n - 1
      /\ \A i \in 1 .. (n - 1) : Front(s)[i] = s[i]
  BY FrontSeq
<1> SUFFICES ASSUME NEW f, NEW b, Arrives(s, f, st), Bottom(s, b)
             PROVE  \E h : Arrives(Front(s), h, ts) /\ SameBelow(s, f, Front(s), h, b)
  BY DEF Rewound
<1>2. Last(s) = s[n]
  BY DEF Last
<1>3. f[n - 1] = ts
  <2>1. f[n] = st /\ \A i \in 1 .. n : Leads(s[i], f[i], f[i - 1])
    BY DEF Arrives, PathOn
  <2>2. Leads(s[n], f[n], f[n - 1])
    BY <1>1, <2>1
  <2> QED
    BY <1>2, <2>1, <2>2
<1>4. b \in 0 .. (n - 1)
  BY <1>1, <1>2 DEF Bottom
<1>5. PathOn(s, f) /\ n - 1 \in 0 .. Len(s)
  BY <1>1 DEF Arrives
<1>6. \E h : Arrives(Front(s), h, f[n - 1]) /\ SameBelow(s, f, Front(s), h, b)
  BY <1>1, <1>4, <1>5, PathCut
<1> QED
  BY <1>3, <1>6

\* The entry on top stands for the edit, too.
LEMMA RewoundKept ==
    ASSUME NEW s, IsSeq(s), s # <<>>, NEW st, NEW ts, Last(s).type # "new_group",
           \A x : Leads(Last(s), st, x) => Leads(Last(s), ts, x)
    PROVE  Rewound(s, st, s, ts)
<1> DEFINE n == Len(s)
<1>1. n \in Nat \ {0}
  BY FrontSeq
<1>2. Last(s) = s[n]
  BY DEF Last
<1> SUFFICES ASSUME NEW f, NEW b, Arrives(s, f, st), Bottom(s, b)
             PROVE  \E h : Arrives(s, h, ts) /\ SameBelow(s, f, s, h, b)
  BY DEF Rewound
<1> DEFINE h == [i \in 0 .. n |-> IF i = n THEN ts ELSE f[i]]
<1>3. /\ f[n] = st /\ b \in 0 .. n /\ b # n
      /\ \A i \in 1 .. n : Leads(s[i], f[i], f[i - 1])
  BY <1>1, <1>2 DEF Arrives, PathOn, Bottom
<1> HIDE DEF n
<1>4. /\ h = [i \in 0 .. n |-> h[i]] /\ h[n] = ts
      /\ \A i \in 0 .. (n - 1) : h[i] = f[i]
  BY <1>1
<1> HIDE DEF h
<1>5. ASSUME NEW i \in 1 .. n PROVE Leads(s[i], h[i], h[i - 1])
  <2>1. h[i - 1] = f[i - 1]
    <3>1. i - 1 \in 0 .. (n - 1)
      BY <1>1
    <3> QED
      BY <1>4, <3>1
  <2>2. CASE i = n
    BY <1>2, <1>3, <1>4, <2>1, <2>2
  <2>3. CASE i \in 0 .. (n - 1)
    BY <1>3, <1>4, <2>1, <2>3
  <2> QED
    BY <1>1, <2>2, <2>3
<1>6. Arrives(s, h, ts)
  BY <1>4, <1>5 DEF Arrives, PathOn, n
<1>7. SameBelow(s, f, s, h, b)
  BY <1>1, <1>3, <1>4 DEF SameBelow, n
<1> QED
  BY <1>6, <1>7

-----------------------------------------------------------------------------
(***************************************************************************)
(* Circuits and their states.                                              *)
(***************************************************************************)

Item == [def : Definition, position : 1 .. Cells, display : Display]

\* A circuit on which no call has thrown: it can be replayed, and keys are left.
Good(c) == /\ Sound(c) /\ c.failed = FALSE /\ c.nextKey \in Nat \ {0}
           /\ \A id \in DOMAIN c.items :
                 c.items[id] \in Item /\ c.keys[id] \in 1 .. (c.nextKey - 1)

LEMMA StateItems ==
    ASSUME NEW c, Sound(c)
    PROVE  /\ DOMAIN State(c).items = KeyIndexSet(c)
           /\ KeyIndexSet(c) = {c.keys[id] : id \in DOMAIN c.items}
           /\ \A id \in DOMAIN c.items :
                 /\ c.keys[id] \in KeyIndexSet(c) /\ IdOf(c, c.keys[id]) = id
                 /\ State(c).items[c.keys[id]] = c.items[id]
                 /\ c.keys[id] \in State(c).selected <=> id \in c.initial
           /\ \A key \in KeyIndexSet(c) :
                 IdOf(c, key) \in DOMAIN c.items /\ c.keys[IdOf(c, key)] = key
           /\ State(c).selected \subseteq KeyIndexSet(c)
           /\ State(c).operations = c.operations
<1>1. /\ Ids(c) = DOMAIN c.items /\ c.initial \subseteq DOMAIN c.items
      /\ \A i, j \in DOMAIN c.items : c.keys[i] = c.keys[j] => i = j
  BY ItemIds DEF Sound, Shape, KeysOK
<1>2. KeyIndexSet(c) = {c.keys[id] : id \in DOMAIN c.items}
  BY <1>1 DEF KeyIndexSet
<1>3. ASSUME NEW key \in KeyIndexSet(c)
      PROVE  IdOf(c, key) \in DOMAIN c.items /\ c.keys[IdOf(c, key)] = key
  <2>1. \E id \in Ids(c) : c.keys[id] = key
    BY <1>1, <1>2
  <2> QED
    BY <1>1, <2>1 DEF IdOf
<1>4. \A id \in DOMAIN c.items : c.keys[id] \in KeyIndexSet(c) /\ IdOf(c, c.keys[id]) = id
  BY <1>1, <1>2, <1>3
<1>5. /\ State(c).items = [key \in KeyIndexSet(c) |-> c.items[IdOf(c, key)]]
      /\ State(c).selected = {c.keys[id] : id \in c.initial}
      /\ State(c).operations = c.operations
  BY DEF State, KeysOf
<1> QED
  BY <1>1, <1>2, <1>3, <1>4, <1>5

\* A state is what it says of items, selection, and operations.
IsState(st) == /\ st = [items |-> st.items, selected |-> st.selected,
                        operations |-> st.operations]
               /\ st.items = [key \in DOMAIN st.items |-> st.items[key]]

LEMMA StateIsState == ASSUME NEW c PROVE IsState(State(c))
BY DEF State, IsState

LEMMA SameStates ==
    ASSUME NEW st, NEW ts, IsState(st), IsState(ts), DOMAIN st.items = DOMAIN ts.items,
           \A key \in DOMAIN st.items : st.items[key] = ts.items[key],
           st.selected = ts.selected, st.operations = ts.operations
    PROVE  st = ts
<1>1. st.items = ts.items
  BY DEF IsState
<1> QED
  BY <1>1 DEF IsState

LEMMA WithItemState ==
    ASSUME NEW st, IsState(st), NEW key \in DOMAIN st.items, NEW x, NEW ts,
           ts = WithItem(st, key, x)
    PROVE  /\ IsState(ts) /\ DOMAIN ts.items = DOMAIN st.items
           /\ \A k \in DOMAIN st.items : ts.items[k] = (IF k = key THEN x ELSE st.items[k])
           /\ ts.selected = st.selected /\ ts.operations = st.operations
<1> DEFINE items == [st.items EXCEPT ![key] = x]
<1>1. /\ DOMAIN items = DOMAIN st.items /\ items = [k \in DOMAIN items |-> items[k]]
      /\ \A k \in DOMAIN st.items : items[k] = (IF k = key THEN x ELSE st.items[k])
  BY DEF IsState
<1>2. ts = [st EXCEPT !.items = items]
  BY DEF WithItem
<1> HIDE DEF items
<1>3. ts = [items |-> items, selected |-> st.selected, operations |-> st.operations]
  BY <1>2 DEF IsState
<1> QED
  BY <1>1, <1>3 DEF IsState

LEMMA ItemReplacedState ==
    ASSUME NEW c, Sound(c), NEW d, NEW id \in DOMAIN c.items, NEW x,
           Sound(d), d.items = [c.items EXCEPT ![id] = x],
           d.keys = c.keys, d.initial = c.initial, d.operations = c.operations
    PROVE  State(d) = WithItem(State(c), c.keys[id], x)
<1> DEFINE st == WithItem(State(c), c.keys[id], x)
<1>0. DOMAIN d.items = DOMAIN c.items
  OBVIOUS
<1>1. /\ KeyIndexSet(d) = KeyIndexSet(c)
      /\ DOMAIN State(c).items = KeyIndexSet(c) /\ DOMAIN State(d).items = KeyIndexSet(c)
      /\ c.keys[id] \in KeyIndexSet(c)
  <2>1. KeyIndexSet(c) = {c.keys[i] : i \in DOMAIN c.items}
    BY StateItems
  <2>2. KeyIndexSet(d) = {d.keys[i] : i \in DOMAIN d.items}
    BY StateItems
  <2>3. KeyIndexSet(d) = KeyIndexSet(c)
    BY <1>0, <2>1, <2>2
  <2> QED
    BY <2>3, StateItems
<1>2. /\ IsState(st) /\ DOMAIN st.items = KeyIndexSet(c)
      /\ st.selected = State(c).selected /\ st.operations = State(c).operations
      /\ \A key \in KeyIndexSet(c) :
            st.items[key] = IF key = c.keys[id] THEN x ELSE State(c).items[key]
  BY <1>1, StateIsState, WithItemState
<1> HIDE DEF st
<1>3. ASSUME NEW key \in KeyIndexSet(c) PROVE State(d).items[key] = st.items[key]
  <2>1. PICK i \in DOMAIN c.items : c.keys[i] = key
    BY StateItems
  <2>2. State(d).items[key] = d.items[i] /\ State(c).items[key] = c.items[i]
    BY <1>0, <2>1, StateItems
  <2>3. key = c.keys[id] <=> i = id
    BY <2>1 DEF Sound, Shape, KeysOK
  <2> QED
    BY <1>2, <2>2, <2>3
<1>4. State(d).selected = State(c).selected
  <2>1. State(d).selected = KeysOf(d, d.initial) /\ State(c).selected = KeysOf(c, c.initial)
    BY DEF State
  <2> QED
    BY <2>1, Zenon DEF KeysOf
<1>5. State(d).operations = State(c).operations
  BY StateItems
<1>6. State(d) = st
  <2>1. IsState(State(d))
    BY StateIsState
  <2> HIDE DEF State
  <2> QED
    BY <1>1, <1>2, <1>3, <1>4, <1>5, <2>1, SameStates
<1> QED
  BY <1>6 DEF st

LEMMA ReplacedBack ==
    ASSUME NEW st, IsState(st), NEW key \in DOMAIN st.items, NEW x, NEW ts,
           ts = WithItem(st, key, x)
    PROVE  WithItem(ts, key, st.items[key]) = st
<1> DEFINE us == WithItem(ts, key, st.items[key])
<1>1. /\ IsState(ts) /\ DOMAIN ts.items = DOMAIN st.items
      /\ \A k \in DOMAIN st.items : ts.items[k] = (IF k = key THEN x ELSE st.items[k])
      /\ ts.selected = st.selected /\ ts.operations = st.operations
  BY WithItemState
<1>2. /\ IsState(us) /\ DOMAIN us.items = DOMAIN ts.items
      /\ \A k \in DOMAIN ts.items :
            us.items[k] = (IF k = key THEN st.items[key] ELSE ts.items[k])
      /\ us.selected = ts.selected /\ us.operations = ts.operations
  BY <1>1, WithItemState
<1> HIDE DEF us
<1>3. us = st
  BY <1>1, <1>2, SameStates
<1> QED
  BY <1>3 DEF us

LEMMA DisplayBack ==
    ASSUME NEW item \in Item, NEW display \in Display
    PROVE  /\ WithDisplay(item, display) \in Item
           /\ WithDisplay(item, display).display = display
           /\ WithDisplay(item, display).position = item.position
           /\ WithDisplay(WithDisplay(item, display), item.display) = item
BY DEF WithDisplay, Item

-----------------------------------------------------------------------------
(***************************************************************************)
(* Edits that can be rewound.                                              *)
(***************************************************************************)

\* The stack that is not pushed on.
Other(c) == IF c.history = "track_redo_replay" THEN "undo" ELSE "redo"

\* The edit from c to d can be rewound: the stack leads where it led before.
Rewinds(c, d) ==
    /\ Good(d) /\ d.history = c.history /\ d[Other(c)] = c[Other(c)]
    /\ Rewound(c[Tracked(c)], State(c), d[Tracked(c)], State(d))

LEMMA RewindsSelf == ASSUME NEW c, Good(c) PROVE Rewinds(c, c)
BY RewoundSame DEF Rewinds

LEMMA RewindsTwice ==
    ASSUME NEW c, NEW d, NEW e, Good(c), Rewinds(c, d), Rewinds(d, e)
    PROVE  Rewinds(c, e)
<1>1. Tracked(d) = Tracked(c) /\ Other(d) = Other(c)
  BY DEF Rewinds, Tracked, Other
<1>2. IsSeq(c[Tracked(c)])
  BY TrackedStack DEF Good, StackOK
<1> QED
  BY <1>1, <1>2, RewoundTwice DEF Rewinds

\* The circuit with t as the stack that is pushed on.
Pushing(c, b, t) == \/ b = [c EXCEPT ![Tracked(c)] = t]
                    \/ b = c /\ t = c[Tracked(c)]

\* What else there is in a circuit.
LEMMA TrackedReplaced ==
    ASSUME NEW c, NEW t, NEW d, Sound(c), Pushing(c, d, t)
    PROVE  /\ DOMAIN d = Fields /\ d[Tracked(c)] = t /\ d[Other(c)] = c[Other(c)]
           /\ d.items = c.items /\ d.keys = c.keys /\ d.nextKey = c.nextKey
           /\ d.loaded = c.loaded /\ d.stored = c.stored /\ d.initial = c.initial
           /\ d.operations = c.operations /\ d.cached = c.cached
           /\ d.history = c.history /\ d.failed = c.failed
<1>1. DOMAIN c = Fields
  BY DEF Sound, Shape
<1>2. \/ Tracked(c) = "undo" /\ Other(c) = "redo"
      \/ Tracked(c) = "redo" /\ Other(c) = "undo"
  BY DEF Tracked, Other
<1>3. CASE d = c /\ t = c[Tracked(c)]
  BY <1>1, <1>3
<1>4. CASE d = [c EXCEPT ![Tracked(c)] = t]
  <2>1. CASE Tracked(c) = "undo" /\ Other(c) = "redo"
    BY <1>1, <1>4, <2>1 DEF Fields
  <2>2. CASE Tracked(c) = "redo" /\ Other(c) = "undo"
    BY <1>1, <1>4, <2>2 DEF Fields
  <2> QED
    BY <1>2, <2>1, <2>2
<1> QED
  BY <1>3, <1>4 DEF Pushing

LEMMA EntryPushed ==
    ASSUME NEW c, Sound(c), NEW e
    PROVE  PushEntry(c, e) = [c EXCEPT ![Tracked(c)] = Append(c[Tracked(c)], e)]
<1> DEFINE s == c[Tracked(c)]
<1>1. IsSeq(s)
  BY TrackedStack DEF StackOK
<1>2. s \o <<e>> = Append(s, e)
  <2> DEFINE S == {s[i] : i \in 1 .. Len(s)} \cup {e}
  <2>1. s \in Seq({s[i] : i \in 1 .. Len(s)}) /\ e \in S
    BY <1>1 DEF IsSeq
  <2>2. {s[i] : i \in 1 .. Len(s)} \subseteq S
    OBVIOUS
  <2> HIDE DEF S, s
  <2>3. s \in Seq(S)
    BY <2>1, <2>2, Z3
  <2> QED
    BY <2>1, <2>3, AppendIsConcat
<1>3. PushEntry(c, e) = IF c.history = "disabled" THEN c
                        ELSE [c EXCEPT ![Tracked(c)] = s \o <<e>>]
  BY DEF PushEntry, PushEntries, Record
<1>4. c.history # "disabled"
  BY DEF Sound, Shape
<1> QED
  BY <1>2, <1>3, <1>4

OrCancelled(s, e, type) == IF TopIs(s, type, e.key) THEN Front(s) ELSE Append(s, e)

LEMMA EntryPushedOrCancelled ==
    ASSUME NEW c, Sound(c), NEW e, NEW type
    PROVE  PushOrCancel(c, e, type)
             = [c EXCEPT ![Tracked(c)] = OrCancelled(c[Tracked(c)], e, type)]
<1>1. c.history # "disabled"
  BY DEF Sound, Shape
<1> QED
  BY <1>1 DEF PushOrCancel, Record, OrCancelled

LEMMA RewoundPush ==
    ASSUME NEW s, IsSeq(s), NEW st, NEW ts, NEW e, e.type # "new_group", Leads(e, ts, st),
           NEW type, type # "new_group",
           \A top, x : top.type = type /\ top.key = e.key /\ Leads(top, st, x) => x = ts
    PROVE  Rewound(s, st, OrCancelled(s, e, type), ts)
<1>1. CASE TopIs(s, type, e.key)
  <2>1. /\ s # <<>> /\ Last(s).type = type /\ Last(s).key = e.key
        /\ OrCancelled(s, e, type) = Front(s)
    BY <1>1 DEF TopIs, OrCancelled
  <2>2. \A x : Leads(Last(s), st, x) => x = ts
    BY <2>1
  <2> QED
    BY <2>1, <2>2, RewoundCancel
<1>2. CASE ~TopIs(s, type, e.key)
  BY <1>2, RewoundAppend DEF OrCancelled
<1> QED
  BY <1>1, <1>2

-----------------------------------------------------------------------------
(***************************************************************************)
(* Insertion modes.                                                        *)
(***************************************************************************)

LEMMA ItemLeads ==
    ASSUME NEW e, NEW st, NEW ts
    PROVE  /\ e.type = "to_temporary" =>
                (Leads(e, st, ts)
                   <=> LeadsDisplay(e, st, ts, {"colliding", "valid"}, "temporary"))
           /\ e.type = "to_colliding_expect_valid" =>
                (Leads(e, st, ts)
                   <=> /\ LeadsDisplay(e, st, ts, {"temporary", "normal"}, "valid")
                       /\ st.items[e.key].display = "temporary" => Free(st, e.key))
           /\ e.type = "to_colliding_assume_colliding" =>
                (Leads(e, st, ts) <=> LeadsDisplay(e, st, ts, {"temporary"}, "colliding"))
           /\ e.type = "to_insert" =>
                (Leads(e, st, ts) <=> LeadsDisplay(e, st, ts, {"valid"}, "normal"))
BY DEF Leads, LeadsItem, LeadsLayout, LeadsSelection

\* The state with another display for an item.
Shown(c, id, display) == WithItem(State(c), c.keys[id], WithDisplay(c.items[id], display))

LEMMA ShownState ==
    ASSUME NEW c, Good(c), NEW id \in DOMAIN c.items, NEW to \in Display, NEW st, NEW ts,
           st = State(c), ts = Shown(c, id, to)
    PROVE  LET key == c.keys[id] IN
           /\ key \in DOMAIN st.items /\ DOMAIN ts.items = DOMAIN st.items
           /\ st.items[key] = c.items[id]
           /\ ts.items[key].display = to /\ ts.items[key].position = c.items[id].position
           /\ \A k \in DOMAIN st.items \ {key} : ts.items[k] = st.items[k]
           /\ st = WithItem(ts, key, WithDisplay(ts.items[key], c.items[id].display))
<1> DEFINE key == c.keys[id]
           x == WithDisplay(c.items[id], to)
<1>1. key \in DOMAIN st.items /\ st.items[key] = c.items[id] /\ IsState(st)
  BY StateItems, StateIsState DEF Good
<1>2. ts = WithItem(st, key, x)
  BY DEF Shown
<1>3. /\ x.display = to /\ x.position = c.items[id].position
      /\ WithDisplay(x, c.items[id].display) = c.items[id]
  <2>1. c.items[id] \in Item
    BY DEF Good
  <2> QED
    BY <2>1, DisplayBack
<1> HIDE DEF key, x
<1>4. /\ DOMAIN ts.items = DOMAIN st.items
      /\ \A k \in DOMAIN st.items : ts.items[k] = (IF k = key THEN x ELSE st.items[k])
      /\ WithItem(ts, key, st.items[key]) = st
  BY <1>1, <1>2, WithItemState, ReplacedBack
<1> QED
  BY <1>1, <1>3, <1>4 DEF key

\* Only the display of one item, and what is cached and pushed, differ.
DisplayChanged(c, d, id, to) ==
    /\ d.items = [c.items EXCEPT ![id] = WithDisplay(@, to)]
    /\ d.keys = c.keys /\ d.nextKey = c.nextKey /\ d.initial = c.initial
    /\ d.operations = c.operations /\ d.failed = c.failed
    /\ d.history = c.history /\ d[Other(c)] = c[Other(c)]

LEMMA DisplayRewinds ==
    ASSUME NEW c, Good(c), NEW id \in DOMAIN c.items, NEW to \in Display,
           NEW d, Sound(d), DisplayChanged(c, d, id, to),
           Rewound(c[Tracked(c)], State(c), d[Tracked(c)], Shown(c, id, to))
    PROVE  Rewinds(c, d) /\ State(d) = Shown(c, id, to)
<1>1. State(d) = Shown(c, id, to)
  <2> DEFINE x == WithDisplay(c.items[id], to)
  <2>1. Sound(c) /\ d.items = [c.items EXCEPT ![id] = x]
    BY DEF Good, DisplayChanged
  <2>2. d.keys = c.keys /\ d.initial = c.initial /\ d.operations = c.operations
    BY DEF DisplayChanged
  <2> HIDE DEF x
  <2>3. State(d) = WithItem(State(c), c.keys[id], x)
    BY <2>1, <2>2, ItemReplacedState
  <2> QED
    BY <2>3 DEF Shown, x
<1>2. Good(d)
  <2>1. ASSUME NEW i \in DOMAIN d.items PROVE d.items[i] \in Item
    <3>1. c.items[i] \in Item /\ c.items[id] \in Item
      BY <2>1 DEF Good, DisplayChanged
    <3>2. WithDisplay(c.items[id], to) \in Item
      BY <3>1, DisplayBack
    <3> QED
      BY <3>1, <3>2 DEF DisplayChanged
  <2> QED
    BY <2>1 DEF Good, DisplayChanged
<1>3. Tracked(d) = Tracked(c)
  BY DEF Tracked, DisplayChanged
<1> QED
  BY <1>1, <1>2, <1>3 DEF Rewinds, DisplayChanged

DisplayIsSet(b, d, id, to) == d = SetDisplay(b, id, to) \/ d = SetDisplay(Submit(b), id, to)

LEMMA DisplaySet ==
    ASSUME NEW c, NEW t, NEW b, NEW id, NEW to, NEW d,
           Sound(c), Pushing(c, b, t), DisplayIsSet(b, d, id, to)
    PROVE  DisplayChanged(c, d, id, to) /\ d[Tracked(c)] = t
<1>1. /\ DOMAIN b = Fields /\ b[Tracked(c)] = t /\ b[Other(c)] = c[Other(c)]
      /\ b.items = c.items /\ b.keys = c.keys /\ b.nextKey = c.nextKey
      /\ b.initial = c.initial /\ b.operations = c.operations
      /\ b.history = c.history /\ b.failed = c.failed
  BY TrackedReplaced
<1>2. /\ d.items = [b.items EXCEPT ![id] = WithDisplay(@, to)]
      /\ d.keys = b.keys /\ d.nextKey = b.nextKey /\ d.initial = b.initial
      /\ d.operations = b.operations /\ d.failed = b.failed
      /\ d.history = b.history /\ d.undo = b.undo /\ d.redo = b.redo
  BY <1>1 DEF DisplayIsSet, SetDisplay, Submit, Fields, WithDisplay
<1>3. Tracked(c) \in {"undo", "redo"} /\ Other(c) \in {"undo", "redo"}
  BY DEF Tracked, Other
<1>4. d[Tracked(c)] = b[Tracked(c)] /\ d[Other(c)] = b[Other(c)]
  BY <1>2, <1>3
<1> QED
  BY <1>1, <1>2, <1>4 DEF DisplayChanged

LEMMA FreeState ==
    ASSUME NEW c, Sound(c), NEW id \in DOMAIN c.items
    PROVE  Free(State(c), c.keys[id]) <=> ~IsColliding(c, id)
<1> DEFINE key == c.keys[id]
           st == State(c)
           At(item) == IsInserted(item) /\ item.position = c.items[id].position
<1>1. /\ DOMAIN st.items = {c.keys[i] : i \in DOMAIN c.items}
      /\ \A i \in DOMAIN c.items : st.items[c.keys[i]] = c.items[i]
  BY StateItems
<1>2. /\ Ids(c) = DOMAIN c.items
      /\ \A i \in DOMAIN c.items : c.keys[i] = key <=> i = id
  BY ItemIds DEF Sound, Shape, KeysOK
<1>3. Free(st, key) <=> \A k \in DOMAIN st.items \ {key} : ~At(st.items[k])
  BY <1>1 DEF Free
<1>4. IsColliding(c, id) <=> \E i \in DOMAIN c.items \ {id} : At(c.items[i])
  BY <1>2 DEF IsColliding
<1> HIDE DEF At, key, st
<1>5. ASSUME NEW i \in DOMAIN c.items \ {id}, At(c.items[i])
      PROVE  \E k \in DOMAIN st.items \ {key} : At(st.items[k])
  <2>1. c.keys[i] \in DOMAIN st.items \ {key} /\ st.items[c.keys[i]] = c.items[i]
    BY <1>1, <1>2
  <2> QED
    BY <1>5, <2>1
<1>6. ASSUME NEW k \in DOMAIN st.items \ {key}, At(st.items[k])
      PROVE  \E i \in DOMAIN c.items \ {id} : At(c.items[i])
  <2>1. PICK i \in DOMAIN c.items : c.keys[i] = k
    BY <1>1
  <2>2. i # id /\ st.items[k] = c.items[i]
    BY <1>1, <1>2, <2>1
  <2> QED
    BY <1>6, <2>1, <2>2
<1> QED
  BY <1>3, <1>4, <1>5, <1>6 DEF key, st

\* An entry that shows the item as it was, on top of the stack.
LEMMA ShownBack ==
    ASSUME NEW c, Good(c), NEW id \in DOMAIN c.items, NEW to \in Display,
           NEW from, to \in from, NEW e, e.key = c.keys[id]
    PROVE  LeadsDisplay(e, Shown(c, id, to), State(c), from, c.items[id].display)
BY ShownState DEF LeadsDisplay

\* An entry that shows the item as the edit does.
LEMMA ShownByEntry ==
    ASSUME NEW c, Good(c), NEW id \in DOMAIN c.items, NEW to \in Display, NEW from,
           NEW e, e.key = c.keys[id], NEW x, LeadsDisplay(e, State(c), x, from, to)
    PROVE  x = Shown(c, id, to)
<1>1. State(c).items[c.keys[id]] = c.items[id]
  BY StateItems DEF Good
<1> QED
  BY <1>1 DEF LeadsDisplay, Shown

LEMMA StackSeq ==
    ASSUME NEW c, Good(c) PROVE IsSeq(c[Tracked(c)])
BY TrackedStack DEF Good, StackOK

LEMMA Displays ==
    Display = {"temporary", "colliding", "valid", "normal"}
BY DEF Display

CollidingDisplay(c, id, hint) ==
    IF hint # "expect_valid" /\ (IsColliding(c, id) \/ hint = "assume_colliding")
    THEN "colliding" ELSE "valid"

LEMMA TemporaryToCollidingRewinds ==
    ASSUME NEW c, Good(c), NEW id \in DOMAIN c.items, NEW hint,
           c.items[id].display = "temporary", ~(IsColliding(c, id) /\ hint = "expect_valid")
    PROVE  /\ Rewinds(c, TemporaryToColliding(c, id, hint))
           /\ State(TemporaryToColliding(c, id, hint))
                = Shown(c, id, CollidingDisplay(c, id, hint))
           /\ DisplayChanged(c, TemporaryToColliding(c, id, hint), id,
                             CollidingDisplay(c, id, hint))
<1> DEFINE e == Entry("to_temporary", c.keys[id])
           b == PushEntry(c, e)
           t == Append(c[Tracked(c)], e)
           d == TemporaryToColliding(c, id, hint)
           to == CollidingDisplay(c, id, hint)
<1>1. to \in {"colliding", "valid"} /\ to \in Display
  BY DEF CollidingDisplay, Display
<1>2. Sound(c) /\ Sound(d)
  BY TemporaryToCollidingKeeps DEF Good, Kept
<1>3. Pushing(c, b, t)
  BY <1>2, EntryPushed DEF Pushing
<1>4. DisplayIsSet(b, d, id, to)
  BY DEF DisplayIsSet, TemporaryToColliding, CollidingDisplay
<1> HIDE DEF b, d, to, t
<1>5. DisplayChanged(c, d, id, to) /\ d[Tracked(c)] = t
  BY <1>2, <1>3, <1>4, DisplaySet
<1>6. /\ e.type = "to_temporary" /\ e.key = c.keys[id]
      /\ e.type # "new_group"
  BY DEF Entry
<1> HIDE DEF e
<1>7. Leads(e, Shown(c, id, to), State(c))
  BY <1>1, <1>6, ShownBack, ItemLeads
<1>8. Rewound(c[Tracked(c)], State(c), t, Shown(c, id, to))
  BY <1>6, <1>7, StackSeq, RewoundAppend DEF t
<1> QED
  BY <1>1, <1>2, <1>5, <1>8, DisplayRewinds DEF d, to

LEMMA CollidingToTemporaryRewinds ==
    ASSUME NEW c, Good(c), NEW id \in DOMAIN c.items,
           c.items[id].display \in {"valid", "colliding"}
    PROVE  /\ Rewinds(c, CollidingToTemporary(c, id))
           /\ State(CollidingToTemporary(c, id)) = Shown(c, id, "temporary")
           /\ DisplayChanged(c, CollidingToTemporary(c, id), id,
                             "temporary")
<1> DEFINE valid == c.items[id].display = "valid"
           e == Entry(IF valid THEN "to_colliding_expect_valid"
                      ELSE "to_colliding_assume_colliding", c.keys[id])
           b == PushOrCancel(c, e, "to_temporary")
           t == OrCancelled(c[Tracked(c)], e, "to_temporary")
           d == CollidingToTemporary(c, id)
           ts == Shown(c, id, "temporary")
<1>1. "temporary" \in Display
  BY DEF Display
<1>2. Sound(c) /\ Sound(d)
  BY CollidingToTemporaryKeeps DEF Good, Kept
<1>3. Pushing(c, b, t)
  BY <1>2, EntryPushedOrCancelled DEF Pushing
<1>4. DisplayIsSet(b, d, id, "temporary")
  BY DEF DisplayIsSet, CollidingToTemporary
<1>6. /\ e.type = IF valid THEN "to_colliding_expect_valid"
                  ELSE "to_colliding_assume_colliding"
      /\ e.key = c.keys[id] /\ e.type # "new_group"
  BY DEF Entry
<1> HIDE DEF b, d, t, e
<1>5. DisplayChanged(c, d, id, "temporary") /\ d[Tracked(c)] = t
  BY <1>2, <1>3, <1>4, DisplaySet
<1>7. Leads(e, ts, State(c))
  <2>1. CASE valid
    <3>1. ~IsColliding(c, id)
      BY <1>2, <2>1, OthersApart, ItemIds DEF IsColliding, IsInserted
    <3>2. Free(State(c), c.keys[id])
      BY <1>2, <3>1, FreeState
    <3>3. Free(ts, c.keys[id])
      <4>1. /\ DOMAIN ts.items = DOMAIN State(c).items
            /\ ts.items[c.keys[id]].position = State(c).items[c.keys[id]].position
            /\ \A k \in DOMAIN State(c).items \ {c.keys[id]} :
                  ts.items[k] = State(c).items[k]
        BY <1>1, ShownState
      <4> HIDE DEF ts
      <4> QED
        BY <3>2, <4>1 DEF Free
    <3>4. LeadsDisplay(e, ts, State(c), {"temporary", "normal"}, "valid")
      BY <1>1, <1>6, <2>1, ShownBack
    <3> QED
      BY <1>6, <2>1, <3>3, <3>4, ItemLeads
  <2>2. CASE ~valid
    <3>1. LeadsDisplay(e, ts, State(c), {"temporary"}, "colliding")
      BY <1>1, <1>6, <2>2, ShownBack
    <3> QED
      BY <1>6, <2>2, <3>1, ItemLeads
  <2> QED
    BY <2>1, <2>2
<1>8. \A top, x : top.type = "to_temporary" /\ top.key = e.key /\ Leads(top, State(c), x)
                    => x = ts
  BY <1>1, <1>6, ItemLeads, ShownByEntry
<1>9. Rewound(c[Tracked(c)], State(c), t, ts)
  BY <1>6, <1>7, <1>8, StackSeq, RewoundPush DEF t
<1> QED
  BY <1>1, <1>2, <1>5, <1>9, DisplayRewinds DEF d

LEMMA InsertToCollidingRewinds ==
    ASSUME NEW c, Good(c), NEW id \in DOMAIN c.items, c.items[id].display = "normal"
    PROVE  /\ Rewinds(c, InsertToColliding(c, id))
           /\ State(InsertToColliding(c, id)) = Shown(c, id, "valid")
           /\ DisplayChanged(c, InsertToColliding(c, id), id,
                             "valid")
<1> DEFINE e == Entry("to_insert", c.keys[id])
           b == PushOrCancel(c, e, "to_colliding_expect_valid")
           t == OrCancelled(c[Tracked(c)], e, "to_colliding_expect_valid")
           d == InsertToColliding(c, id)
           ts == Shown(c, id, "valid")
<1>1. "valid" \in Display
  BY DEF Display
<1>2. Sound(c) /\ Sound(d)
  BY InsertToCollidingKeeps DEF Good, Kept
<1>3. Pushing(c, b, t)
  BY <1>2, EntryPushedOrCancelled DEF Pushing
<1>4. DisplayIsSet(b, d, id, "valid")
  BY DEF DisplayIsSet, InsertToColliding
<1>5. /\ e.type = "to_insert" /\ e.key = c.keys[id] /\ e.type # "new_group"
  BY DEF Entry
<1> HIDE DEF b, d, t, e
<1>6. DisplayChanged(c, d, id, "valid") /\ d[Tracked(c)] = t
  BY <1>2, <1>3, <1>4, DisplaySet
<1>7. Leads(e, ts, State(c))
  <2>1. LeadsDisplay(e, ts, State(c), {"valid"}, "normal")
    BY <1>1, <1>5, ShownBack
  <2> QED
    BY <1>5, <2>1, ItemLeads
<1>8. \A top, x : (/\ top.type = "to_colliding_expect_valid" /\ top.key = e.key
                   /\ Leads(top, State(c), x)) => x = ts
  BY <1>1, <1>5, ItemLeads, ShownByEntry
<1>9. Rewound(c[Tracked(c)], State(c), t, ts)
  BY <1>5, <1>7, <1>8, StackSeq, RewoundPush DEF t
<1> QED
  BY <1>1, <1>2, <1>6, <1>9, DisplayRewinds DEF d

LEMMA ValidToInsertRewinds ==
    ASSUME NEW c, Good(c), NEW id \in DOMAIN c.items, NEW hint, c.items[id].display = "valid"
    PROVE  /\ Rewinds(c, CollidingToInsert(c, id, hint))
           /\ State(CollidingToInsert(c, id, hint)) = Shown(c, id, "normal")
           /\ DisplayChanged(c, CollidingToInsert(c, id, hint), id,
                             "normal")
<1> DEFINE e == Entry("to_colliding_expect_valid", c.keys[id])
           b == PushEntry(c, e)
           t == Append(c[Tracked(c)], e)
           d == CollidingToInsert(c, id, hint)
           ts == Shown(c, id, "normal")
<1>1. "normal" \in Display
  BY DEF Display
<1>2. Sound(c) /\ Sound(d)
  BY CollidingToInsertSound DEF Good
<1>3. Pushing(c, b, t)
  BY <1>2, EntryPushed DEF Pushing
<1>4. DisplayIsSet(b, d, id, "normal")
  BY DEF DisplayIsSet, CollidingToInsert
<1>5. /\ e.type = "to_colliding_expect_valid" /\ e.key = c.keys[id] /\ e.type # "new_group"
  BY DEF Entry
<1> HIDE DEF b, d, t, e
<1>6. DisplayChanged(c, d, id, "normal") /\ d[Tracked(c)] = t
  BY <1>2, <1>3, <1>4, DisplaySet
<1>7. Leads(e, ts, State(c))
  <2>1. LeadsDisplay(e, ts, State(c), {"temporary", "normal"}, "valid")
    BY <1>1, <1>5, ShownBack
  <2>2. ts.items[e.key].display = "normal"
    BY <1>1, <1>5, ShownState
  <2> HIDE DEF ts
  <2> QED
    BY <1>5, <2>1, <2>2, ItemLeads
<1>8. Rewound(c[Tracked(c)], State(c), t, ts)
  BY <1>5, <1>7, StackSeq, RewoundAppend DEF t
<1> QED
  BY <1>1, <1>2, <1>6, <1>8, DisplayRewinds DEF d

-----------------------------------------------------------------------------
(***************************************************************************)
(* Positions and attributes.                                               *)
(***************************************************************************)

\* Only item id, and what is pushed, differ.
ItemChanged(c, d, id, x) ==
    /\ d.items = [c.items EXCEPT ![id] = x]
    /\ d.keys = c.keys /\ d.nextKey = c.nextKey /\ d.initial = c.initial
    /\ d.operations = c.operations /\ d.failed = c.failed
    /\ d.history = c.history /\ d[Other(c)] = c[Other(c)]

\* The state with item id replaced.
Replaced(c, id, x) == WithItem(State(c), c.keys[id], x)

LEMMA ItemRewinds ==
    ASSUME NEW c, Good(c), NEW id \in DOMAIN c.items, NEW x \in Item,
           NEW d, Sound(d), ItemChanged(c, d, id, x),
           Rewound(c[Tracked(c)], State(c), d[Tracked(c)], Replaced(c, id, x))
    PROVE  Rewinds(c, d) /\ State(d) = Replaced(c, id, x)
<1>1. State(d) = Replaced(c, id, x)
  <2>1. Sound(c) /\ d.items = [c.items EXCEPT ![id] = x]
    BY DEF Good, ItemChanged
  <2>2. d.keys = c.keys /\ d.initial = c.initial /\ d.operations = c.operations
    BY DEF ItemChanged
  <2> QED
    BY <2>1, <2>2, ItemReplacedState DEF Replaced
<1>2. Good(d)
  <2>1. \A i \in DOMAIN d.items : i \in DOMAIN c.items /\ d.items[i] \in {x, c.items[i]}
    BY DEF ItemChanged
  <2> QED
    BY <2>1 DEF Good, ItemChanged
<1>3. Tracked(d) = Tracked(c)
  BY DEF Tracked, ItemChanged
<1> QED
  BY <1>1, <1>2, <1>3 DEF Rewinds, ItemChanged

LEMMA ItemSet ==
    ASSUME NEW c, NEW t, NEW b, NEW id, NEW x, NEW d,
           Sound(c), Pushing(c, b, t), d = [b EXCEPT !.items = [c.items EXCEPT ![id] = x]]
    PROVE  ItemChanged(c, d, id, x) /\ d[Tracked(c)] = t
<1>1. /\ DOMAIN b = Fields /\ b[Tracked(c)] = t /\ b[Other(c)] = c[Other(c)]
      /\ b.items = c.items /\ b.keys = c.keys /\ b.nextKey = c.nextKey
      /\ b.initial = c.initial /\ b.operations = c.operations
      /\ b.history = c.history /\ b.failed = c.failed
  BY TrackedReplaced
<1>2. /\ d.items = [c.items EXCEPT ![id] = x]
      /\ d.keys = b.keys /\ d.nextKey = b.nextKey /\ d.initial = b.initial
      /\ d.operations = b.operations /\ d.failed = b.failed
      /\ d.history = b.history /\ d.undo = b.undo /\ d.redo = b.redo
  BY <1>1 DEF Fields
<1>3. Tracked(c) \in {"undo", "redo"} /\ Other(c) \in {"undo", "redo"}
  BY DEF Tracked, Other
<1>4. d[Tracked(c)] = b[Tracked(c)] /\ d[Other(c)] = b[Other(c)]
  BY <1>2, <1>3
<1> QED
  BY <1>1, <1>2, <1>4 DEF ItemChanged

LEMMA ReplacedState ==
    ASSUME NEW c, Good(c), NEW id \in DOMAIN c.items, NEW x, NEW st, NEW ts,
           st = State(c), ts = Replaced(c, id, x)
    PROVE  LET key == c.keys[id] IN
           /\ key \in DOMAIN st.items /\ DOMAIN ts.items = DOMAIN st.items
           /\ st.items[key] = c.items[id] /\ ts.items[key] = x
           /\ st = WithItem(ts, key, c.items[id])
           /\ \A y : WithItem(ts, key, y) = WithItem(st, key, y)
<1> DEFINE key == c.keys[id]
<1>1. key \in DOMAIN st.items /\ st.items[key] = c.items[id] /\ IsState(st)
  BY StateItems, StateIsState DEF Good
<1>2. ts = WithItem(st, key, x)
  BY DEF Replaced
<1> HIDE DEF key
<1>3. /\ DOMAIN ts.items = DOMAIN st.items /\ IsState(ts)
      /\ \A k \in DOMAIN st.items : ts.items[k] = (IF k = key THEN x ELSE st.items[k])
      /\ ts.selected = st.selected /\ ts.operations = st.operations
      /\ WithItem(ts, key, st.items[key]) = st
  BY <1>1, <1>2, WithItemState, ReplacedBack
<1>4. ASSUME NEW y PROVE WithItem(ts, key, y) = WithItem(st, key, y)
  <2> DEFINE us == WithItem(ts, key, y)
             vs == WithItem(st, key, y)
  <2>1. /\ IsState(us) /\ DOMAIN us.items = DOMAIN ts.items
        /\ \A k \in DOMAIN ts.items : us.items[k] = (IF k = key THEN y ELSE ts.items[k])
        /\ us.selected = ts.selected /\ us.operations = ts.operations
    BY <1>1, <1>3, WithItemState
  <2>2. /\ IsState(vs) /\ DOMAIN vs.items = DOMAIN st.items
        /\ \A k \in DOMAIN st.items : vs.items[k] = (IF k = key THEN y ELSE st.items[k])
        /\ vs.selected = st.selected /\ vs.operations = st.operations
    BY <1>1, WithItemState
  <2> HIDE DEF us, vs
  <2>3. us = vs
    BY <1>3, <2>1, <2>2, SameStates
  <2> QED
    BY <2>3 DEF us, vs
<1> QED
  BY <1>1, <1>2, <1>3, <1>4 DEF key

LEMMA MoveLeads ==
    ASSUME NEW e, e.type = "move", NEW st, NEW ts
    PROVE  Leads(e, st, ts) <=>
             /\ e.key \in DOMAIN st.items /\ st.items[e.key].display = "temporary"
             /\ e.delta \in Int /\ IsRepresentable(st.items[e.key].position + e.delta)
             /\ ts = WithItem(st, e.key, MovedItem(st.items[e.key], e.delta))
BY DEF Leads, LeadsItem, LeadsLayout, LeadsSelection

LEMMA MoveRewinds ==
    ASSUME NEW c, Good(c), NEW id \in DOMAIN c.items, NEW delta \in Int,
           c.items[id].display = "temporary",
           IsRepresentable(c.items[id].position + delta)
    PROVE  /\ Rewinds(c, MoveTemporaryUnchecked(c, id, delta))
           /\ State(MoveTemporaryUnchecked(c, id, delta))
                = Replaced(c, id, MovedItem(c.items[id], delta))
<1> DEFINE e == [type |-> "move", key |-> c.keys[id], delta |-> -delta]
           b == PushEntry(c, e)
           t == Append(c[Tracked(c)], e)
           d == MoveTemporaryUnchecked(c, id, delta)
           x == MovedItem(c.items[id], delta)
<1>1. Sound(c) /\ Sound(d)
  BY MoveKeeps DEF Good, Kept
<1>2. Pushing(c, b, t)
  BY <1>1, EntryPushed DEF Pushing
<1>3. d = [b EXCEPT !.items = [c.items EXCEPT ![id] = x]]
  <2>1. b.items = c.items
    BY <1>1, <1>2, TrackedReplaced
  <2>2. d = [b EXCEPT !.items[id].position = @ + delta]
    BY DEF MoveTemporaryUnchecked
  <2> HIDE DEF b, d
  <2> QED
    BY <2>1, <2>2 DEF MovedItem
<1>4. c.items[id] \in Item /\ Cells \in Nat
  BY CircuitConstants DEF Good
<1>5. x \in Item /\ x.display = "temporary" /\ x.position = c.items[id].position + delta
  BY <1>4 DEF Item, MovedItem, IsRepresentable
<1>6. x.position + (-delta) = c.items[id].position /\ -delta \in Int
  BY <1>4, <1>5 DEF Item
<1>7. MovedItem(x, -delta) = c.items[id]
  BY <1>4, <1>6 DEF Item, MovedItem
<1>8. /\ e.type = "move" /\ e.key = c.keys[id] /\ e.delta = -delta /\ e.type # "new_group"
  OBVIOUS
<1> HIDE DEF b, d, t, e, x
<1>9. ItemChanged(c, d, id, x) /\ d[Tracked(c)] = t
  BY <1>1, <1>2, <1>3, ItemSet
<1>10. Leads(e, Replaced(c, id, x), State(c))
  <2> DEFINE ts == Replaced(c, id, x)
  <2>1. /\ c.keys[id] \in DOMAIN ts.items /\ ts.items[c.keys[id]] = x
        /\ State(c) = WithItem(ts, c.keys[id], c.items[id])
    BY ReplacedState
  <2>2. IsRepresentable(c.items[id].position)
    BY <1>4 DEF Item, IsRepresentable
  <2> HIDE DEF ts
  <2>3. Leads(e, ts, State(c))
    BY <1>5, <1>6, <1>7, <1>8, <2>1, <2>2, MoveLeads
  <2> QED
    BY <2>3 DEF ts
<1>11. Rewound(c[Tracked(c)], State(c), t, Replaced(c, id, x))
  BY <1>8, <1>10, StackSeq, RewoundAppend DEF t
<1>12. Rewinds(c, d) /\ State(d) = Replaced(c, id, x)
  BY <1>1, <1>5, <1>9, <1>11, ItemRewinds
<1> QED
  BY <1>12 DEF d, x

LEMMA AttributesLead ==
    ASSUME NEW e, e.type = "change_attributes", NEW st, NEW ts
    PROVE  Leads(e, st, ts) <=>
             /\ e.key \in DOMAIN st.items /\ e.attrs \in Attributes
             /\ ts = WithItem(st, e.key, WithAttributes(st.items[e.key], e.attrs))
BY DEF Leads, LeadsItem, LeadsLayout, LeadsSelection

LEMMA AttributesBack ==
    ASSUME NEW item \in Item, NEW attrs \in Attributes
    PROVE  /\ WithAttributes(item, attrs) \in Item /\ item.def.attrs \in Attributes
           /\ WithAttributes(WithAttributes(item, attrs), item.def.attrs) = item
           /\ \A old : WithAttributes(WithAttributes(item, attrs), old)
                         = WithAttributes(item, old)
BY DEF WithAttributes, Item, Definition

LEMMA SetAttributesRewinds ==
    ASSUME NEW c, Good(c), NEW id \in DOMAIN c.items, NEW attrs \in Attributes
    PROVE  /\ Rewinds(c, SetAttributes(c, id, attrs))
           /\ State(SetAttributes(c, id, attrs))
                = Replaced(c, id, WithAttributes(c.items[id], attrs))
<1> DEFINE key == c.keys[id]
           s == c[Tracked(c)]
           e == [type |-> "change_attributes", key |-> key, attrs |-> c.items[id].def.attrs]
           b == PushChangeAttributes(c, key, c.items[id].def.attrs)
           t == IF TopIs(s, "change_attributes", key) THEN s ELSE Append(s, e)
           d == SetAttributes(c, id, attrs)
           x == WithAttributes(c.items[id], attrs)
           ts == Replaced(c, id, x)
<1>1. Sound(c) /\ Sound(d)
  BY SetAttributesKeeps DEF Good, Kept
<1>2. Pushing(c, b, t)
  <2>1. c.history # "disabled"
    BY <1>1 DEF Sound, Shape
  <2> QED
    BY <2>1 DEF Pushing, PushChangeAttributes, Record
<1>3. d = [b EXCEPT !.items = [c.items EXCEPT ![id] = x]]
  <2>1. b.items = c.items
    BY <1>1, <1>2, TrackedReplaced
  <2>2. d = [b EXCEPT !.items[id].def.attrs = attrs]
    BY DEF SetAttributes
  <2> HIDE DEF b, d
  <2> QED
    BY <2>1, <2>2 DEF WithAttributes
<1>4. c.items[id] \in Item
  BY DEF Good
<1>5. /\ x \in Item /\ WithAttributes(x, c.items[id].def.attrs) = c.items[id]
      /\ \A old : WithAttributes(x, old) = WithAttributes(c.items[id], old)
      /\ c.items[id].def.attrs \in Attributes
  BY <1>4, AttributesBack
<1>6. /\ e.type = "change_attributes" /\ e.key = key /\ e.type # "new_group"
      /\ e.attrs = c.items[id].def.attrs
  OBVIOUS
<1> HIDE DEF b, d, e, x, key
<1>7. /\ key \in DOMAIN State(c).items /\ DOMAIN ts.items = DOMAIN State(c).items
      /\ State(c).items[key] = c.items[id] /\ ts.items[key] = x
      /\ State(c) = WithItem(ts, key, c.items[id])
      /\ \A y : WithItem(ts, key, y) = WithItem(State(c), key, y)
  BY ReplacedState DEF key
<1> HIDE DEF ts
<1>8. Leads(e, ts, State(c))
  BY <1>5, <1>6, <1>7, AttributesLead
<1>9. IsSeq(s)
  BY StackSeq
<1>10. Rewound(s, State(c), t, ts)
  <2>1. CASE TopIs(s, "change_attributes", key)
    <3> DEFINE top == Last(s)
    <3>1. s # <<>> /\ top.type = "change_attributes" /\ top.key = key
      BY <2>1 DEF TopIs
    <3> HIDE DEF top
    <3>2. ASSUME NEW y, Leads(top, State(c), y) PROVE Leads(top, ts, y)
      <4>1. /\ top.attrs \in Attributes
            /\ y = WithItem(State(c), key, WithAttributes(c.items[id], top.attrs))
        BY <1>7, <3>1, <3>2, AttributesLead
      <4>2. y = WithItem(ts, key, WithAttributes(x, top.attrs))
        BY <1>5, <1>7, <4>1
      <4> QED
        BY <1>7, <3>1, <4>1, <4>2, AttributesLead
    <3> QED
      BY <1>9, <2>1, <3>1, <3>2, RewoundKept DEF top
  <2>2. CASE ~TopIs(s, "change_attributes", key)
    BY <1>6, <1>8, <1>9, <2>2, RewoundAppend
  <2> QED
    BY <2>1, <2>2
<1> HIDE DEF t
<1>11. ItemChanged(c, d, id, x) /\ d[Tracked(c)] = t
  BY <1>1, <1>2, <1>3, ItemSet
<1>12. Rewinds(c, d) /\ State(d) = Replaced(c, id, x)
  BY <1>1, <1>5, <1>10, <1>11, ItemRewinds DEF ts
<1> QED
  BY <1>12 DEF d, x

-----------------------------------------------------------------------------
(***************************************************************************)
(* The visible selection, one item at a time.                              *)
(***************************************************************************)

WithSelected(st, keys) == [st EXCEPT !.selected = keys]
WithOperations(st, operations) == [st EXCEPT !.operations = operations]

LEMMA StateRecord ==
    ASSUME NEW i, NEW s, NEW o, NEW x, NEW st,
           st = [items |-> i, selected |-> s, operations |-> o]
    PROVE  /\ [st EXCEPT !.selected = x] = [items |-> i, selected |-> x, operations |-> o]
           /\ [st EXCEPT !.operations = x] = [items |-> i, selected |-> s, operations |-> x]
OBVIOUS

LEMMA WithSelectedState ==
    ASSUME NEW st, IsState(st), NEW keys, NEW ts, ts = WithSelected(st, keys)
    PROVE  /\ IsState(ts) /\ ts.items = st.items /\ ts.selected = keys
           /\ ts.operations = st.operations
           /\ \A other : WithSelected(ts, other) = WithSelected(st, other)
           /\ keys = st.selected => ts = st
<1>1. ts = [items |-> st.items, selected |-> keys, operations |-> st.operations]
  BY DEF WithSelected, IsState
<1>2. ts.items = [key \in DOMAIN ts.items |-> ts.items[key]]
  BY <1>1 DEF IsState
<1>3. ASSUME NEW other PROVE WithSelected(ts, other) = WithSelected(st, other)
  <2>1. WithSelected(ts, other)
          = [items |-> st.items, selected |-> other, operations |-> st.operations]
    <3>1. WithSelected(ts, other) = [ts EXCEPT !.selected = other]
      BY DEF WithSelected
    <3> QED
      BY <1>1, <3>1, StateRecord
  <2>2. WithSelected(st, other)
          = [items |-> st.items, selected |-> other, operations |-> st.operations]
    BY DEF WithSelected, IsState
  <2> QED
    BY <2>1, <2>2
<1>4. keys = st.selected => ts = st
  BY <1>1 DEF IsState
<1>5. IsState(ts)
  BY <1>1, <1>2 DEF IsState
<1>6. ts.items = st.items /\ ts.selected = keys /\ ts.operations = st.operations
  BY <1>1
<1> QED
  BY <1>3, <1>4, <1>5, <1>6

LEMMA WithOperationsState ==
    ASSUME NEW st, IsState(st), NEW operations, NEW ts, ts = WithOperations(st, operations)
    PROVE  /\ IsState(ts) /\ ts.items = st.items /\ ts.selected = st.selected
           /\ ts.operations = operations
           /\ \A other : WithOperations(ts, other) = WithOperations(st, other)
           /\ operations = st.operations => ts = st
<1>1. ts = [items |-> st.items, selected |-> st.selected, operations |-> operations]
  BY DEF WithOperations, IsState
<1>2. ts.items = [key \in DOMAIN ts.items |-> ts.items[key]]
  BY <1>1 DEF IsState
<1>3. ASSUME NEW other PROVE WithOperations(ts, other) = WithOperations(st, other)
  <2>1. WithOperations(ts, other)
          = [items |-> st.items, selected |-> st.selected, operations |-> other]
    <3>1. WithOperations(ts, other) = [ts EXCEPT !.operations = other]
      BY DEF WithOperations
    <3> QED
      BY <1>1, <3>1, StateRecord
  <2>2. WithOperations(st, other)
          = [items |-> st.items, selected |-> st.selected, operations |-> other]
    BY DEF WithOperations, IsState
  <2> QED
    BY <2>1, <2>2
<1>4. operations = st.operations => ts = st
  BY <1>1 DEF IsState
<1>5. IsState(ts)
  BY <1>1, <1>2 DEF IsState
<1>6. ts.items = st.items /\ ts.selected = st.selected /\ ts.operations = operations
  BY <1>1
<1> QED
  BY <1>3, <1>4, <1>5, <1>6

LEMMA VisibleLead ==
    ASSUME NEW e, NEW st, NEW ts
    PROVE  /\ e.type = "add_visible" =>
                (Leads(e, st, ts) <=> /\ e.key \in DOMAIN st.items
                                      /\ ts = WithSelected(st, st.selected \cup {e.key}))
           /\ e.type = "remove_visible" =>
                (Leads(e, st, ts) <=> /\ e.key \in DOMAIN st.items
                                      /\ ts = WithSelected(st, st.selected \ {e.key}))
BY DEF Leads, LeadsItem, LeadsLayout, LeadsSelection, WithSelected

\* A selected item is no longer selected.
LEMMA HiddenRewound ==
    ASSUME NEW s, IsSeq(s), NEW st, IsState(st), NEW key \in DOMAIN st.items,
           key \in st.selected, NEW e, e = Entry("add_visible", key),
           NEW ts, ts = WithSelected(st, st.selected \ {key})
    PROVE  Rewound(s, st, OrCancelled(s, e, "remove_visible"), ts)
<1>1. /\ e.type = "add_visible" /\ e.key = key /\ e.type # "new_group"
      /\ "remove_visible" # "new_group"
  BY DEF Entry
<1>2. /\ ts.items = st.items /\ ts.selected = st.selected \ {key}
      /\ \A other : WithSelected(ts, other) = WithSelected(st, other)
      /\ WithSelected(st, st.selected) = st
  BY WithSelectedState
<1>3. ts.selected \cup {key} = st.selected
  BY <1>2
<1>4. Leads(e, ts, st)
  BY <1>1, <1>2, <1>3, VisibleLead
<1>5. \A top, x : top.type = "remove_visible" /\ top.key = e.key /\ Leads(top, st, x) => x = ts
  BY <1>1, VisibleLead
<1> QED
  BY <1>1, <1>4, <1>5, RewoundPush

\* An item that was not selected is selected.
LEMMA VisibleRewound ==
    ASSUME NEW s, IsSeq(s), NEW st, IsState(st), NEW key \in DOMAIN st.items,
           key \notin st.selected, NEW e, e = Entry("remove_visible", key),
           NEW ts, ts = WithSelected(st, st.selected \cup {key})
    PROVE  Rewound(s, st, OrCancelled(s, e, "add_visible"), ts)
<1>1. /\ e.type = "remove_visible" /\ e.key = key /\ e.type # "new_group"
      /\ "add_visible" # "new_group"
  BY DEF Entry
<1>2. /\ ts.items = st.items /\ ts.selected = st.selected \cup {key}
      /\ \A other : WithSelected(ts, other) = WithSelected(st, other)
      /\ WithSelected(st, st.selected) = st
  BY WithSelectedState
<1>3. ts.selected \ {key} = st.selected
  BY <1>2
<1>4. Leads(e, ts, st)
  BY <1>1, <1>2, <1>3, VisibleLead
<1>5. \A top, x : top.type = "add_visible" /\ top.key = e.key /\ Leads(top, st, x) => x = ts
  BY <1>1, VisibleLead
<1> QED
  BY <1>1, <1>4, <1>5, RewoundPush

\* Only the selection, and what is pushed, differ.
SelectionChanged(c, d) ==
    /\ d.items = c.items /\ d.keys = c.keys /\ d.nextKey = c.nextKey
    /\ d.failed = c.failed /\ d.history = c.history /\ d[Other(c)] = c[Other(c)]

\* The state with another selection.
Selecting(c, ids, operations) ==
    WithOperations(WithSelected(State(c), KeysOf(c, ids)), operations)

LEMMA SelectionRewinds ==
    ASSUME NEW c, Good(c), NEW d, Sound(d), SelectionChanged(c, d),
           Rewound(c[Tracked(c)], State(c), d[Tracked(c)],
                   Selecting(c, d.initial, d.operations))
    PROVE  Rewinds(c, d) /\ State(d) = Selecting(c, d.initial, d.operations)
<1> DEFINE ts == Selecting(c, d.initial, d.operations)
<1>0. Sound(c) /\ d.items = c.items /\ d.keys = c.keys
  BY DEF Good, SelectionChanged
<1>1. KeyIndexSet(d) = KeyIndexSet(c)
  <2>1. /\ KeyIndexSet(c) = {c.keys[i] : i \in DOMAIN c.items}
        /\ KeyIndexSet(d) = {d.keys[i] : i \in DOMAIN d.items}
    BY <1>0, StateItems
  <2> QED
    BY <1>0, <2>1
<1>2. /\ IsState(ts) /\ ts.items = State(c).items /\ ts.selected = KeysOf(c, d.initial)
      /\ ts.operations = d.operations
  <2> DEFINE us == WithSelected(State(c), KeysOf(c, d.initial))
  <2>1. IsState(us) /\ us.items = State(c).items /\ us.selected = KeysOf(c, d.initial)
    BY StateIsState, WithSelectedState
  <2>2. ts = WithOperations(us, d.operations)
    BY DEF Selecting
  <2> HIDE DEF us, ts
  <2> QED
    BY <2>1, <2>2, WithOperationsState
<1> HIDE DEF ts
<1>3. ASSUME NEW key \in KeyIndexSet(c) PROVE State(d).items[key] = State(c).items[key]
  <2>1. PICK i \in DOMAIN c.items : c.keys[i] = key
    BY <1>0, StateItems
  <2> QED
    BY <1>0, <2>1, StateItems
<1>4. State(d).selected = KeysOf(c, d.initial)
  <2>1. State(d).selected = KeysOf(d, d.initial)
    BY DEF State
  <2> QED
    BY <1>0, <2>1, Zenon DEF KeysOf
<1>5. State(d) = ts
  <2>1. IsState(State(d)) /\ State(d).operations = d.operations
    BY StateIsState, StateItems
  <2>2. DOMAIN State(d).items = KeyIndexSet(c) /\ DOMAIN State(c).items = KeyIndexSet(c)
    BY <1>0, <1>1, StateItems
  <2> QED
    BY <1>2, <1>3, <1>4, <2>1, <2>2, SameStates
<1>6. Good(d)
  BY DEF Good, SelectionChanged
<1>7. Tracked(d) = Tracked(c)
  BY DEF Tracked, SelectionChanged
<1> QED
  BY <1>5, <1>6, <1>7 DEF Rewinds, SelectionChanged, ts

\* Nothing but the visible selection was set.
SelectionIsSet(b, d) ==
    /\ d.items = b.items /\ d.keys = b.keys /\ d.nextKey = b.nextKey
    /\ d.failed = b.failed /\ d.history = b.history
    /\ d.undo = b.undo /\ d.redo = b.redo

LEMMA SelectionSet ==
    ASSUME NEW c, NEW t, NEW b, NEW d, Sound(c), Pushing(c, b, t), SelectionIsSet(b, d)
    PROVE  SelectionChanged(c, d) /\ d[Tracked(c)] = t
<1>1. /\ DOMAIN b = Fields /\ b[Tracked(c)] = t /\ b[Other(c)] = c[Other(c)]
      /\ b.items = c.items /\ b.keys = c.keys /\ b.nextKey = c.nextKey
      /\ b.history = c.history /\ b.failed = c.failed
  BY TrackedReplaced
<1>2. Tracked(c) \in {"undo", "redo"} /\ Other(c) \in {"undo", "redo"}
  BY DEF Tracked, Other
<1>3. d[Tracked(c)] = b[Tracked(c)] /\ d[Other(c)] = b[Other(c)]
  BY <1>2 DEF SelectionIsSet
<1> QED
  BY <1>1, <1>3 DEF SelectionChanged, SelectionIsSet

LEMMA PushingNothing == ASSUME NEW c PROVE Pushing(c, c, c[Tracked(c)])
BY DEF Pushing

LEMMA PushingTwice ==
    ASSUME NEW c, Sound(c), NEW t, NEW b, NEW u, NEW d, Pushing(c, b, t), Pushing(b, d, u)
    PROVE  Pushing(c, d, u)
<1>1. b[Tracked(c)] = t /\ b.history = c.history
  BY TrackedReplaced
<1>2. Tracked(b) = Tracked(c)
  BY <1>1 DEF Tracked
<1>3. CASE d = b /\ u = b[Tracked(b)]
  BY <1>1, <1>2, <1>3
<1>4. CASE d = [b EXCEPT ![Tracked(c)] = u]
  <2>1. CASE b = c
    BY <1>4, <2>1 DEF Pushing
  <2>2. CASE b = [c EXCEPT ![Tracked(c)] = t]
    <3> DEFINE T == Tracked(c)
    <3> HIDE DEF T
    <3>1. b = [c EXCEPT ![T] = t] => [b EXCEPT ![T] = u] = [c EXCEPT ![T] = u]
      OBVIOUS
    <3> QED
      BY <1>4, <2>2, <3>1 DEF Pushing, T
  <2> QED
    BY <2>1, <2>2 DEF Pushing
<1> QED
  BY <1>2, <1>3, <1>4 DEF Pushing

\* What a rectangle-free change of the selection does to the state.
LEMMA SelectingState ==
    ASSUME NEW c, Good(c), NEW ids
    PROVE  Selecting(c, ids, c.operations) = WithSelected(State(c), KeysOf(c, ids))
<1> DEFINE us == WithSelected(State(c), KeysOf(c, ids))
<1>1. IsState(us) /\ us.operations = c.operations
  BY StateIsState, WithSelectedState, StateItems DEF Good
<1> HIDE DEF us
<1>2. WithOperations(us, c.operations) = us
  BY <1>1, WithOperationsState
<1> QED
  BY <1>2 DEF Selecting, us

LEMMA KeysOfIds ==
    ASSUME NEW c, Good(c), NEW id \in DOMAIN c.items, NEW ids, ids \subseteq DOMAIN c.items
    PROVE  /\ KeysOf(c, ids \cup {id}) = KeysOf(c, ids) \cup {c.keys[id]}
           /\ KeysOf(c, ids \ {id}) = KeysOf(c, ids) \ {c.keys[id]}
           /\ c.keys[id] \in KeysOf(c, ids) <=> id \in ids
           /\ KeysOf(c, c.initial) = State(c).selected
<1>1. \A i, j \in DOMAIN c.items : c.keys[i] = c.keys[j] => i = j
  BY DEF Good, Sound, Shape, KeysOK
<1>2. KeysOf(c, c.initial) = State(c).selected
  BY DEF State
<1> QED
  BY <1>1, <1>2 DEF KeysOf

LEMMA AddVisibleRewinds ==
    ASSUME NEW c, Good(c), NEW id \in DOMAIN c.items
    PROVE  /\ Rewinds(c, AddToVisibleSelection(c, id))
           /\ State(AddToVisibleSelection(c, id))
                = WithSelected(State(c), State(c).selected \cup {c.keys[id]})
<1> DEFINE key == c.keys[id]
           e == Entry("remove_visible", key)
           s == c[Tracked(c)]
           b == IF id \notin c.initial THEN PushRemoveVisible(c, key) ELSE c
           t == IF id \notin c.initial THEN OrCancelled(s, e, "add_visible") ELSE s
           d == AddToVisibleSelection(c, id)
           ts == WithSelected(State(c), State(c).selected \cup {key})
<1>1. Sound(c) /\ Sound(d) /\ c.initial \subseteq DOMAIN c.items /\ IsSeq(s)
  BY VisibilityKeeps, StackSeq DEF Good, Kept, Sound, Shape
<1>2. Pushing(c, b, t)
  <2>1. Pushing(c, PushRemoveVisible(c, key), OrCancelled(s, e, "add_visible"))
    BY <1>1, EntryPushedOrCancelled DEF Pushing, PushRemoveVisible
  <2>2. Pushing(c, c, s)
    BY <1>1, PushingNothing
  <2> QED
    BY <2>1, <2>2
<1>3. d = [b EXCEPT !.initial = @ \cup {id}, !.cached = {}]
  BY DEF AddToVisibleSelection
<1>4. /\ key \in DOMAIN State(c).items /\ IsState(State(c))
      /\ key \in State(c).selected <=> id \in c.initial
  BY <1>1, StateItems, StateIsState
<1> HIDE DEF b, d
<1>5. /\ DOMAIN b = Fields /\ b.initial = c.initial /\ b.operations = c.operations
  BY <1>1, <1>2, TrackedReplaced
<1>6. SelectionIsSet(b, d) /\ d.initial = c.initial \cup {id} /\ d.operations = c.operations
  BY <1>3, <1>5 DEF SelectionIsSet, Fields
<1>7. SelectionChanged(c, d) /\ d[Tracked(c)] = t
  BY <1>1, <1>2, <1>6, SelectionSet
<1>8. Selecting(c, d.initial, d.operations) = ts
  <2>1. KeysOf(c, c.initial \cup {id}) = State(c).selected \cup {key}
    <3>1. /\ KeysOf(c, c.initial \cup {id}) = KeysOf(c, c.initial) \cup {c.keys[id]}
          /\ KeysOf(c, c.initial) = State(c).selected
      BY <1>1, KeysOfIds
    <3> QED
      BY <3>1
  <2> QED
    BY <1>6, <2>1, SelectingState
<1>9. Rewound(s, State(c), t, ts)
  <2>1. CASE id \notin c.initial
    BY <1>1, <1>4, <2>1, VisibleRewound
  <2>2. CASE id \in c.initial
    <3>1. State(c).selected \cup {key} = State(c).selected
      BY <1>4, <2>2
    <3>2. WithSelected(State(c), State(c).selected) = State(c)
      BY <1>4, WithSelectedState
    <3>3. ts = State(c)
      BY <3>1, <3>2
    <3> QED
      BY <2>2, <3>3, RewoundSame
  <2> QED
    BY <2>1, <2>2
<1> HIDE DEF t, ts, s
<1>10. Rewinds(c, d) /\ State(d) = ts
  BY <1>1, <1>7, <1>8, <1>9, SelectionRewinds DEF s
<1> QED
  BY <1>10 DEF d, ts

LEMMA RemoveVisibleRewinds ==
    ASSUME NEW c, Good(c), NEW id \in DOMAIN c.items
    PROVE  /\ Rewinds(c, RemoveFromVisibleSelection(c, id))
           /\ State(RemoveFromVisibleSelection(c, id))
                = WithSelected(State(c), State(c).selected \ {c.keys[id]})
<1> DEFINE key == c.keys[id]
           e == Entry("add_visible", key)
           s == c[Tracked(c)]
           b == IF id \in c.initial THEN PushAddVisible(c, key) ELSE c
           t == IF id \in c.initial THEN OrCancelled(s, e, "remove_visible") ELSE s
           d == RemoveFromVisibleSelection(c, id)
           ts == WithSelected(State(c), State(c).selected \ {key})
<1>1. Sound(c) /\ Sound(d) /\ c.initial \subseteq DOMAIN c.items /\ IsSeq(s)
  BY VisibilityKeeps, StackSeq DEF Good, Kept, Sound, Shape
<1>2. Pushing(c, b, t)
  <2>1. Pushing(c, PushAddVisible(c, key), OrCancelled(s, e, "remove_visible"))
    BY <1>1, EntryPushedOrCancelled DEF Pushing, PushAddVisible
  <2>2. Pushing(c, c, s)
    BY <1>1, PushingNothing
  <2> QED
    BY <2>1, <2>2
<1>3. d = [b EXCEPT !.initial = @ \ {id}, !.cached = {}]
  BY DEF RemoveFromVisibleSelection
<1>4. /\ key \in DOMAIN State(c).items /\ IsState(State(c))
      /\ key \in State(c).selected <=> id \in c.initial
  BY <1>1, StateItems, StateIsState
<1> HIDE DEF b, d
<1>5. /\ DOMAIN b = Fields /\ b.initial = c.initial /\ b.operations = c.operations
  BY <1>1, <1>2, TrackedReplaced
<1>6. SelectionIsSet(b, d) /\ d.initial = c.initial \ {id} /\ d.operations = c.operations
  BY <1>3, <1>5 DEF SelectionIsSet, Fields
<1>7. SelectionChanged(c, d) /\ d[Tracked(c)] = t
  BY <1>1, <1>2, <1>6, SelectionSet
<1>8. Selecting(c, d.initial, d.operations) = ts
  <2>1. KeysOf(c, c.initial \ {id}) = State(c).selected \ {key}
    <3>1. /\ KeysOf(c, c.initial \ {id}) = KeysOf(c, c.initial) \ {c.keys[id]}
          /\ KeysOf(c, c.initial) = State(c).selected
      BY <1>1, KeysOfIds
    <3> QED
      BY <3>1
  <2> QED
    BY <1>6, <2>1, SelectingState
<1>9. Rewound(s, State(c), t, ts)
  <2>1. CASE id \in c.initial
    BY <1>1, <1>4, <2>1, HiddenRewound
  <2>2. CASE id \notin c.initial
    <3>1. State(c).selected \ {key} = State(c).selected
      BY <1>4, <2>2
    <3>2. WithSelected(State(c), State(c).selected) = State(c)
      BY <1>4, WithSelectedState
    <3>3. ts = State(c)
      BY <3>1, <3>2
    <3> QED
      BY <2>2, <3>3, RewoundSame
  <2> QED
    BY <2>1, <2>2
<1> HIDE DEF t, ts, s
<1>10. Rewinds(c, d) /\ State(d) = ts
  BY <1>1, <1>7, <1>8, <1>9, SelectionRewinds DEF s
<1> QED
  BY <1>10 DEF d, ts

-----------------------------------------------------------------------------
(***************************************************************************)
(* Items come and go.                                                      *)
(***************************************************************************)

Without(st, key) == [st EXCEPT !.items = [k \in DOMAIN @ \ {key} |-> @[k]],
                               !.selected = @ \ {key}]

With(st, key, x) == [st EXCEPT !.items = [k \in DOMAIN @ \cup {key} |->
                                             IF k = key THEN x ELSE @[k]]]

LEMMA WithoutState ==
    ASSUME NEW st, IsState(st), NEW key, NEW ts, ts = Without(st, key)
    PROVE  /\ IsState(ts) /\ DOMAIN ts.items = DOMAIN st.items \ {key}
           /\ \A k \in DOMAIN st.items \ {key} : ts.items[k] = st.items[k]
           /\ ts.selected = st.selected \ {key} /\ ts.operations = st.operations
<1> DEFINE items == [k \in DOMAIN st.items \ {key} |-> st.items[k]]
<1>1. ts = [items |-> items, selected |-> st.selected \ {key}, operations |-> st.operations]
  BY DEF Without, IsState
<1>2. /\ DOMAIN items = DOMAIN st.items \ {key}
      /\ \A k \in DOMAIN st.items \ {key} : items[k] = st.items[k]
      /\ items = [k \in DOMAIN items |-> items[k]]
  OBVIOUS
<1> HIDE DEF items
<1> QED
  BY <1>1, <1>2 DEF IsState

LEMMA WithState ==
    ASSUME NEW st, IsState(st), NEW key, NEW x, NEW ts, ts = With(st, key, x)
    PROVE  /\ IsState(ts) /\ DOMAIN ts.items = DOMAIN st.items \cup {key}
           /\ \A k \in DOMAIN st.items \cup {key} :
                 ts.items[k] = IF k = key THEN x ELSE st.items[k]
           /\ ts.selected = st.selected /\ ts.operations = st.operations
<1> DEFINE items == [k \in DOMAIN st.items \cup {key} |-> IF k = key THEN x ELSE st.items[k]]
<1>1. ts = [items |-> items, selected |-> st.selected, operations |-> st.operations]
  BY DEF With, IsState
<1>2. /\ DOMAIN items = DOMAIN st.items \cup {key}
      /\ \A k \in DOMAIN st.items \cup {key} : items[k] = IF k = key THEN x ELSE st.items[k]
      /\ items = [k \in DOMAIN items |-> items[k]]
  OBVIOUS
<1> HIDE DEF items
<1> QED
  BY <1>1, <1>2 DEF IsState

LEMMA LayoutLeads ==
    ASSUME NEW e, NEW st, NEW ts
    PROVE  /\ e.type = "create" =>
                (Leads(e, st, ts) <=> /\ e.key \in (Nat \ {0}) \ DOMAIN st.items
                                      /\ e.def \in Definition /\ e.position \in 1 .. Cells
                                      /\ ts = With(st, e.key, NewItem(e)))
           /\ e.type = "delete" =>
                (Leads(e, st, ts) <=> /\ e.key \in DOMAIN st.items
                                      /\ st.items[e.key].display = "temporary"
                                      /\ ts = Without(st, e.key))
BY DEF Leads, LeadsItem, LeadsLayout, LeadsSelection, With, Without

LEMMA WithoutAndWith ==
    ASSUME NEW st, IsState(st), NEW key \in DOMAIN st.items, key \notin st.selected
    PROVE  With(Without(st, key), key, st.items[key]) = st
<1> DEFINE ts == Without(st, key)
           us == With(ts, key, st.items[key])
<1>1. /\ IsState(ts) /\ DOMAIN ts.items = DOMAIN st.items \ {key}
      /\ \A k \in DOMAIN st.items \ {key} : ts.items[k] = st.items[k]
      /\ ts.selected = st.selected \ {key} /\ ts.operations = st.operations
  BY WithoutState
<1> HIDE DEF ts
<1>2. /\ IsState(us) /\ DOMAIN us.items = DOMAIN ts.items \cup {key}
      /\ \A k \in DOMAIN ts.items \cup {key} :
            us.items[k] = IF k = key THEN st.items[key] ELSE ts.items[k]
      /\ us.selected = ts.selected /\ us.operations = ts.operations
  BY <1>1, WithState
<1> HIDE DEF us
<1>3. us = st
  BY <1>1, <1>2, SameStates
<1> QED
  BY <1>3 DEF us, ts

LEMMA WithAndWithout ==
    ASSUME NEW st, IsState(st), NEW key, key \notin DOMAIN st.items,
           key \notin st.selected, NEW x
    PROVE  Without(With(st, key, x), key) = st
<1> DEFINE ts == With(st, key, x)
           us == Without(ts, key)
<1>1. /\ IsState(ts) /\ DOMAIN ts.items = DOMAIN st.items \cup {key}
      /\ \A k \in DOMAIN st.items \cup {key} :
            ts.items[k] = IF k = key THEN x ELSE st.items[k]
      /\ ts.selected = st.selected /\ ts.operations = st.operations
  BY WithState
<1> HIDE DEF ts
<1>2. /\ IsState(us) /\ DOMAIN us.items = DOMAIN ts.items \ {key}
      /\ \A k \in DOMAIN ts.items \ {key} : us.items[k] = ts.items[k]
      /\ us.selected = ts.selected \ {key} /\ us.operations = ts.operations
  BY <1>1, WithoutState
<1> HIDE DEF us
<1>3. us = st
  BY <1>1, <1>2, SameStates
<1> QED
  BY <1>3 DEF us, ts

LEMMA WithoutHidden ==
    ASSUME NEW st, IsState(st), NEW key
    PROVE  Without(WithSelected(st, st.selected \ {key}), key) = Without(st, key)
<1> DEFINE hidden == WithSelected(st, st.selected \ {key})
           ts == Without(hidden, key)
           us == Without(st, key)
<1>1. /\ IsState(hidden) /\ hidden.items = st.items
      /\ hidden.selected = st.selected \ {key} /\ hidden.operations = st.operations
  BY WithSelectedState
<1> HIDE DEF hidden
<1>2. /\ IsState(ts) /\ DOMAIN ts.items = DOMAIN hidden.items \ {key}
      /\ \A k \in DOMAIN hidden.items \ {key} : ts.items[k] = hidden.items[k]
      /\ ts.selected = hidden.selected \ {key} /\ ts.operations = hidden.operations
  BY <1>1, WithoutState
<1>3. /\ IsState(us) /\ DOMAIN us.items = DOMAIN st.items \ {key}
      /\ \A k \in DOMAIN st.items \ {key} : us.items[k] = st.items[k]
      /\ us.selected = st.selected \ {key} /\ us.operations = st.operations
  BY WithoutState
<1> HIDE DEF ts, us
<1>4. /\ DOMAIN ts.items = DOMAIN us.items
      /\ \A k \in DOMAIN ts.items : ts.items[k] = us.items[k]
      /\ ts.selected = us.selected /\ ts.operations = us.operations
  BY <1>1, <1>2, <1>3
<1>5. ts = us
  BY <1>2, <1>3, <1>4, SameStates
<1> QED
  BY <1>5 DEF ts, us, hidden

\* What a deletion does to items, keys, and selections.
ItemDeleted(c, d, id) ==
    /\ d.items = SwapAndDelete(c.items, id) /\ d.keys = SwapAndDelete(c.keys, id)
    /\ d.initial = AfterDelete(c.initial, id, Len(c.items))
    /\ d.operations = c.operations

LEMMA DeletedItems ==
    ASSUME NEW c, Good(c), NEW id \in DOMAIN c.items, NEW d, Sound(d), ItemDeleted(c, d, id),
           NEW n, n = Len(c.items)
    PROVE  /\ n \in Nat /\ DOMAIN c.items = 1 .. n /\ DOMAIN d.items = 1 .. (n - 1)
           /\ \A i \in 1 .. (n - 1) :
                 /\ d.items[i] = IF i = id THEN c.items[n] ELSE c.items[i]
                 /\ d.keys[i] = IF i = id THEN c.keys[n] ELSE c.keys[i]
<1>1. /\ Sound(c) /\ n \in Nat /\ DOMAIN c.items = 1 .. n /\ IsSeq(c.items)
      /\ KeysOK(c.keys, 1 .. n)
  BY ItemIds DEF Good, Sound, Shape, ItemsOK
<1>2. /\ Len(d.items) = n - 1
      /\ \A i \in 1 .. (n - 1) : d.items[i] = (IF i = id THEN c.items[n] ELSE c.items[i])
  BY <1>1, SwapAndDeleteItems DEF ItemDeleted
<1>3. \A i \in 1 .. (n - 1) : d.keys[i] = (IF i = id THEN c.keys[n] ELSE c.keys[i])
  BY <1>1, KeysSwapped DEF ItemDeleted
<1>4. DOMAIN d.items = 1 .. Len(d.items)
  BY ItemIds
<1> QED
  BY <1>1, <1>2, <1>3, <1>4

LEMMA DeletedState ==
    ASSUME NEW c, Good(c), NEW id \in DOMAIN c.items, NEW d, Sound(d), ItemDeleted(c, d, id)
    PROVE  /\ State(d) = Without(State(c), c.keys[id])
           /\ \A i \in DOMAIN d.items : \E j \in DOMAIN c.items :
                 d.items[i] = c.items[j] /\ d.keys[i] = c.keys[j]
<1> DEFINE n == Len(c.items)
           Old(i) == IF i = id THEN n ELSE i
           New(j) == IF j = n THEN id ELSE j
           key == c.keys[id]
           ts == Without(State(c), key)
           D == DOMAIN d.items
           C == DOMAIN c.items
<1>1. /\ n \in Nat /\ C = 1 .. n /\ D = 1 .. (n - 1)
      /\ \A i \in D : d.items[i] = c.items[Old(i)] /\ d.keys[i] = c.keys[Old(i)]
  <2>1. /\ n \in Nat /\ C = 1 .. n /\ D = 1 .. (n - 1)
        /\ \A i \in D : /\ d.items[i] = IF i = id THEN c.items[n] ELSE c.items[i]
                        /\ d.keys[i] = IF i = id THEN c.keys[n] ELSE c.keys[i]
    <3>1. n = Len(c.items)
      OBVIOUS
    <3> HIDE DEF n
    <3>2. /\ n \in Nat /\ C = 1 .. n /\ D = 1 .. (n - 1)
          /\ \A i \in 1 .. (n - 1) : /\ d.items[i] = IF i = id THEN c.items[n] ELSE c.items[i]
                                    /\ d.keys[i] = IF i = id THEN c.keys[n] ELSE c.keys[i]
      BY <3>1, DeletedItems
    <3> QED
      BY <3>2
  <2> HIDE DEF n, C, D
  <2>2. ASSUME NEW i \in D
        PROVE  d.items[i] = c.items[Old(i)] /\ d.keys[i] = c.keys[Old(i)]
    <3>1. CASE i = id
      BY <2>1, <3>1
    <3>2. CASE i # id
      BY <2>1, <3>2
    <3> QED
      BY <3>1, <3>2
  <2> QED
    BY <2>1, <2>2
<1>2. \A i \in D : Old(i) \in C \ {id}
  BY <1>1
<1>3. \A j \in C \ {id} : New(j) \in D /\ Old(New(j)) = j
  BY <1>1
<1>4. c.initial \subseteq C /\ d.initial = {New(j) : j \in c.initial \ {id}}
  BY DEF Good, Sound, Shape, ItemDeleted, AfterDelete
<1> HIDE DEF Old, New, n, C, D
<1>5. /\ \A i, j \in C : c.keys[i] = c.keys[j] => i = j
      /\ \A i, j \in D : d.keys[i] = d.keys[j] => i = j
      /\ Sound(c) /\ id \in C
  BY DEF Good, Sound, Shape, KeysOK, C, D
<1>6. /\ KeyIndexSet(c) = {c.keys[j] : j \in C} /\ KeyIndexSet(d) = {d.keys[i] : i \in D}
      /\ \A j \in C : State(c).items[c.keys[j]] = c.items[j]
      /\ \A i \in D : State(d).items[d.keys[i]] = d.items[i]
      /\ DOMAIN State(c).items = KeyIndexSet(c) /\ DOMAIN State(d).items = KeyIndexSet(d)
      /\ State(c).operations = c.operations /\ State(d).operations = d.operations
  BY <1>5, StateItems DEF C, D
<1>7. /\ IsState(ts) /\ DOMAIN ts.items = KeyIndexSet(c) \ {key}
      /\ \A k \in KeyIndexSet(c) \ {key} : ts.items[k] = State(c).items[k]
      /\ ts.selected = State(c).selected \ {key} /\ ts.operations = c.operations
  BY <1>6, StateIsState, WithoutState
<1> HIDE DEF ts
<1>8. KeyIndexSet(d) = KeyIndexSet(c) \ {key}
  <2>1. ASSUME NEW i \in D PROVE d.keys[i] \in KeyIndexSet(c) \ {key}
    <3>1. d.keys[i] = c.keys[Old(i)] /\ Old(i) \in C /\ Old(i) # id
      BY <1>1, <1>2
    <3>2. d.keys[i] # key
      BY <1>5, <3>1
    <3> QED
      BY <1>6, <3>1, <3>2
  <2>2. ASSUME NEW j \in C \ {id} PROVE c.keys[j] \in KeyIndexSet(d)
    <3>1. d.keys[New(j)] = c.keys[j]
      BY <1>1, <1>3
    <3> QED
      BY <1>3, <1>6, <3>1
  <2> QED
    BY <1>6, <2>1, <2>2
<1>9. ASSUME NEW k \in KeyIndexSet(d) PROVE State(d).items[k] = State(c).items[k]
  <2>1. PICK i \in D : d.keys[i] = k
    BY <1>6
  <2>2. k = c.keys[Old(i)] /\ State(d).items[k] = c.items[Old(i)]
    BY <1>1, <1>6, <2>1
  <2> QED
    BY <1>2, <1>6, <2>1, <2>2
<1>10. State(d).selected = State(c).selected \ {key}
  <2>1. /\ State(d).selected = {d.keys[i] : i \in d.initial}
        /\ State(c).selected = {c.keys[j] : j \in c.initial}
    BY DEF State, KeysOf
  <2>2. ASSUME NEW j \in c.initial \ {id}
        PROVE  New(j) \in d.initial /\ d.keys[New(j)] = c.keys[j] /\ c.keys[j] # key
    BY <1>1, <1>3, <1>4, <1>5
  <2>3. ASSUME NEW k \in State(d).selected PROVE k \in State(c).selected \ {key}
    <3>1. PICK i \in d.initial : k = d.keys[i]
      BY <2>1
    <3>2. PICK j \in c.initial \ {id} : i = New(j)
      BY <1>4, <3>1
    <3> QED
      BY <2>1, <2>2, <3>1, <3>2
  <2>4. ASSUME NEW k \in State(c).selected \ {key} PROVE k \in State(d).selected
    <3>1. PICK j \in c.initial : k = c.keys[j]
      BY <2>1
    <3>2. j # id
      BY <2>4, <3>1
    <3> QED
      BY <2>1, <2>2, <3>1, <3>2
  <2> QED
    BY <2>3, <2>4
<1>11. State(d) = ts
  <2>1. IsState(State(d)) /\ d.operations = c.operations
    BY StateIsState DEF ItemDeleted
  <2> QED
    BY <1>6, <1>7, <1>8, <1>9, <1>10, <2>1, SameStates
<1> QED
  BY <1>1, <1>2, <1>11 DEF ts, C, D

LEMMA OrCancelledSeq ==
    ASSUME NEW s, IsSeq(s), NEW e, NEW type PROVE IsSeq(OrCancelled(s, e, type))
BY FrontSeq, AppendSeq DEF OrCancelled, TopIs

\* An item that is temporary and not selected goes, or comes.
LEMMA GoneRewound ==
    ASSUME NEW s, IsSeq(s), NEW st, IsState(st), NEW key \in DOMAIN st.items,
           key \in Nat \ {0}, key \notin st.selected,
           st.items[key] \in Item, st.items[key].display = "temporary",
           NEW e, e.type = "create", e.key = key,
           e.def = st.items[key].def, e.position = st.items[key].position
    PROVE  Rewound(s, st, OrCancelled(s, e, "delete"), Without(st, key))
<1> DEFINE ts == Without(st, key)
<1>1. NewItem(e) = st.items[key] /\ e.def \in Definition /\ e.position \in 1 .. Cells
  BY DEF NewItem, Item
<1>2. With(ts, key, st.items[key]) = st /\ key \notin DOMAIN ts.items
  BY WithoutAndWith, WithoutState
<1> HIDE DEF ts
<1>3. Leads(e, ts, st)
  BY <1>1, <1>2, LayoutLeads
<1>4. \A top, x : top.type = "delete" /\ top.key = e.key /\ Leads(top, st, x) => x = ts
  BY LayoutLeads DEF ts
<1>5. e.type # "new_group" /\ "delete" # "new_group"
  OBVIOUS
<1> QED
  BY <1>3, <1>4, <1>5, RewoundPush DEF ts

LEMMA ComeRewound ==
    ASSUME NEW s, IsSeq(s), NEW st, IsState(st), NEW key, key \notin DOMAIN st.items,
           key \notin st.selected, NEW x, x.display = "temporary",
           NEW e, e = Entry("delete", key)
    PROVE  Rewound(s, st, Append(s, e), With(st, key, x))
<1> DEFINE ts == With(st, key, x)
<1>1. e.type = "delete" /\ e.key = key /\ e.type # "new_group"
  BY DEF Entry
<1>2. Without(ts, key) = st /\ key \in DOMAIN ts.items /\ ts.items[key] = x
  BY WithAndWithout, WithState
<1> HIDE DEF ts
<1>3. Leads(e, ts, st)
  BY <1>1, <1>2, LayoutLeads
<1> QED
  BY <1>1, <1>3, RewoundAppend DEF ts

LEMMA DeleteRewinds ==
    ASSUME NEW c, Good(c), NEW id \in DOMAIN c.items, c.items[id].display = "temporary"
    PROVE  /\ Rewinds(c, DeleteTemporary(c, id))
           /\ State(DeleteTemporary(c, id)) = Without(State(c), c.keys[id])
           /\ ItemDeleted(c, DeleteTemporary(c, id), id)
<1> DEFINE key == c.keys[id]
           item == c.items[id]
           n == Len(c.items)
           s == c[Tracked(c)]
           st == State(c)
           hide == Entry("add_visible", key)
           e == [type |-> "create", key |-> key, def |-> item.def,
                 position |-> item.position]
           c1 == IF id \in c.initial THEN PushAddVisible(c, key) ELSE c
           s1 == IF id \in c.initial THEN OrCancelled(s, hide, "remove_visible") ELSE s
           mid == WithSelected(st, st.selected \ {key})
           c2 == PushCreate(c1, key, item)
           s2 == OrCancelled(s1, e, "delete")
           d == DeleteTemporary(c, id)
           ts == Without(st, key)
<1>1. Sound(c) /\ Sound(d) /\ IsSeq(s)
  BY DeleteTemporarySound, StackSeq DEF Good
<1>2. Pushing(c, c1, s1) /\ Sound(c1) /\ IsSeq(s1)
  <2>1. Pushing(c, PushAddVisible(c, key), OrCancelled(s, hide, "remove_visible"))
    BY <1>1, EntryPushedOrCancelled DEF Pushing, PushAddVisible
  <2>2. Pushing(c, c, s)
    BY PushingNothing
  <2>3. Sound(PushAddVisible(c, key))
    BY <1>1, PushKeyKeeps, StacksKeepSound DEF PushAddVisible
  <2>4. IsSeq(OrCancelled(s, hide, "remove_visible"))
    BY <1>1, OrCancelledSeq
  <2> HIDE DEF hide, s
  <2> QED
    BY <1>1, <2>1, <2>2, <2>3, <2>4
<1>3. d = [Submit(c2) EXCEPT !.items = SwapAndDelete(@, id),
                       !.keys = SwapAndDelete(@, id),
                       !.initial = AfterDelete(@, id, n),
                       !.stored = StoredAfterDelete(@, id, n)]
  BY DEF DeleteTemporary
<1>4. Pushing(c, c2, s2)
  <2> HIDE DEF c1, s1, s
  <2>1. /\ c1[Tracked(c)] = s1 /\ Tracked(c1) = Tracked(c)
    BY <1>1, <1>2, TrackedReplaced DEF Tracked
  <2>2. e.key = key
    OBVIOUS
  <2>3. Pushing(c1, c2, OrCancelled(c1[Tracked(c1)], e, "delete"))
    <3>1. c2 = PushOrCancel(c1, e, "delete")
      BY DEF PushCreate
    <3> HIDE DEF e, c2
    <3> QED
      BY <1>2, <3>1, EntryPushedOrCancelled DEF Pushing
  <2> HIDE DEF e, c2
  <2> QED
    BY <1>1, <1>2, <2>1, <2>3, PushingTwice
<1>5. /\ e.type = "create" /\ e.key = key /\ e.def = item.def /\ e.position = item.position
  OBVIOUS
<1> HIDE DEF e, c1, s1, c2, d, n, hide
<1>6. /\ key \in DOMAIN st.items /\ IsState(st) /\ st.items[key] = item
      /\ key \in st.selected <=> id \in c.initial
  BY <1>1, StateItems, StateIsState
<1>7. item \in Item /\ key \in Nat \ {0} /\ item.display = "temporary"
  BY DEF Good
<1>8. /\ IsState(mid) /\ mid.items = st.items /\ mid.selected = st.selected \ {key}
      /\ mid.operations = st.operations
  BY <1>6, WithSelectedState
<1>9. Without(mid, key) = ts
  BY <1>6, WithoutHidden
<1>10. Rewound(s, st, s1, mid)
  <2>1. CASE id \in c.initial
    BY <1>1, <1>6, <2>1, HiddenRewound DEF s1, hide
  <2>2. CASE id \notin c.initial
    <3>1. st.selected \ {key} = st.selected
      BY <1>6, <2>2
    <3>2. WithSelected(st, st.selected) = st
      BY <1>6, WithSelectedState
    <3>3. mid = st
      BY <3>1, <3>2
    <3> QED
      BY <2>2, <3>3, RewoundSame DEF s1
  <2> QED
    BY <2>1, <2>2
<1> HIDE DEF mid, ts, st, item, key
<1>11. Rewound(s1, mid, s2, ts)
  <2>1. key \notin mid.selected /\ key \in DOMAIN mid.items /\ mid.items[key] = item
    BY <1>6, <1>8
  <2> QED
    BY <1>2, <1>5, <1>7, <1>8, <1>9, <2>1, GoneRewound
<1>12. Rewound(s, st, s2, ts)
  BY <1>1, <1>10, <1>11, RewoundTwice
<1>13. /\ DOMAIN c2 = Fields /\ c2[Tracked(c)] = s2 /\ c2[Other(c)] = c[Other(c)]
       /\ c2.items = c.items /\ c2.keys = c.keys /\ c2.nextKey = c.nextKey
       /\ c2.initial = c.initial /\ c2.operations = c.operations
       /\ c2.history = c.history /\ c2.failed = c.failed
  BY <1>1, <1>4, TrackedReplaced
<1> HIDE DEF s2
<1>14. /\ ItemDeleted(c, d, id) /\ d.nextKey = c.nextKey /\ d.failed = c.failed
       /\ d.history = c.history /\ d.undo = c2.undo /\ d.redo = c2.redo
  BY <1>3, <1>13 DEF ItemDeleted, Submit, Fields, n
<1>15. d[Tracked(c)] = s2 /\ d[Other(c)] = c[Other(c)] /\ Tracked(d) = Tracked(c)
  BY <1>13, <1>14 DEF Tracked, Other
<1>16. /\ State(d) = ts
       /\ \A i \in DOMAIN d.items : \E j \in DOMAIN c.items :
             d.items[i] = c.items[j] /\ d.keys[i] = c.keys[j]
  BY <1>1, <1>14, DeletedState DEF ts, st, key
<1>17. Good(d)
  BY <1>1, <1>14, <1>16 DEF Good
<1>18. Rewinds(c, d) /\ State(d) = ts
  BY <1>12, <1>14, <1>15, <1>16, <1>17 DEF Rewinds, st, s
<1> QED
  BY <1>14, <1>18 DEF d, ts, st, key

\* What a creation does to items and keys.
ItemCreated(c, d, key, x) ==
    /\ d.items = Append(c.items, x) /\ d.keys = Append(c.keys, key)
    /\ d.initial = c.initial /\ d.operations = c.operations

LEMMA CreatedState ==
    ASSUME NEW c, Good(c), NEW key, key \notin KeyIndexSet(c), NEW x,
           NEW d, Sound(d), ItemCreated(c, d, key, x)
    PROVE  /\ State(d) = With(State(c), key, x)
           /\ Len(d.items) \in DOMAIN d.items
           /\ d.keys[Len(d.items)] = key /\ d.items[Len(d.items)] = x
           /\ \A i \in DOMAIN d.items :
                 \/ d.keys[i] = key /\ d.items[i] = x
                 \/ i \in DOMAIN c.items /\ d.keys[i] = c.keys[i] /\ d.items[i] = c.items[i]
<1> DEFINE n == Len(c.items)
           ts == With(State(c), key, x)
<1>1. /\ Sound(c) /\ n \in Nat /\ DOMAIN c.items = 1 .. n /\ IsSeq(c.items)
      /\ KeysOK(c.keys, 1 .. n)
  BY ItemIds DEF Good, Sound, Shape, ItemsOK
<1>2. /\ Len(d.items) = n + 1 /\ d.items[n + 1] = x
      /\ \A i \in 1 .. n : d.items[i] = c.items[i]
  BY <1>1, AppendSeq DEF ItemCreated
<1>3. /\ \A i \in 1 .. n : d.keys[i] = c.keys[i]
      /\ d.keys[n + 1] = key
  <2>1. IsSeq(c.keys) /\ Len(c.keys) = n
    BY <1>1, KeysLen
  <2> QED
    BY <2>1, AppendSeq DEF ItemCreated
<1>4. DOMAIN d.items = 1 .. (n + 1)
  BY <1>2, ItemIds
<1> HIDE DEF n
<1>5. \A i \in 1 .. (n + 1) : i \in 1 .. n \/ i = n + 1
  BY <1>1
<1>6. \A i \in 1 .. n : i \in 1 .. (n + 1)
  BY <1>1
<1>7. /\ KeyIndexSet(c) = {c.keys[j] : j \in 1 .. n}
      /\ KeyIndexSet(d) = {d.keys[i] : i \in 1 .. (n + 1)}
      /\ \A j \in 1 .. n : State(c).items[c.keys[j]] = c.items[j]
      /\ \A i \in 1 .. (n + 1) : State(d).items[d.keys[i]] = d.items[i]
      /\ DOMAIN State(c).items = KeyIndexSet(c) /\ DOMAIN State(d).items = KeyIndexSet(d)
      /\ State(c).operations = c.operations /\ State(d).operations = d.operations
  BY <1>1, <1>4, StateItems
<1>8. /\ IsState(ts) /\ DOMAIN ts.items = KeyIndexSet(c) \cup {key}
      /\ \A k \in KeyIndexSet(c) \cup {key} :
            ts.items[k] = IF k = key THEN x ELSE State(c).items[k]
      /\ ts.selected = State(c).selected /\ ts.operations = c.operations
  BY <1>7, StateIsState, WithState
<1> HIDE DEF ts
<1>9. KeyIndexSet(d) = KeyIndexSet(c) \cup {key}
  <2>1. n + 1 \in 1 .. (n + 1)
    BY <1>1
  <2>2. ASSUME NEW k \in KeyIndexSet(c) \cup {key} PROVE k \in KeyIndexSet(d)
    <3>1. CASE k = key
      BY <1>3, <1>7, <2>1, <3>1
    <3>2. CASE k \in KeyIndexSet(c)
      <4>1. PICK j \in 1 .. n : k = c.keys[j]
        BY <1>7, <3>2
      <4>2. d.keys[j] = k /\ j \in 1 .. (n + 1)
        BY <1>3, <1>6, <4>1
      <4> QED
        BY <1>7, <4>2
    <3> QED
      BY <2>2, <3>1, <3>2
  <2>3. ASSUME NEW k \in KeyIndexSet(d) PROVE k \in KeyIndexSet(c) \cup {key}
    <3>1. PICK i \in 1 .. (n + 1) : k = d.keys[i]
      BY <1>7
    <3> QED
      BY <1>3, <1>5, <1>7, <3>1
  <2> QED
    BY <2>2, <2>3
<1>10. ASSUME NEW k \in KeyIndexSet(d) PROVE State(d).items[k] = ts.items[k]
  <2>1. PICK i \in 1 .. (n + 1) : k = d.keys[i]
    BY <1>7
  <2>2. State(d).items[k] = d.items[i]
    BY <1>7, <2>1
  <2>3. CASE i = n + 1
    BY <1>2, <1>3, <1>8, <2>1, <2>2, <2>3
  <2>4. CASE i \in 1 .. n
    <3>1. k = c.keys[i] /\ k \in KeyIndexSet(c) /\ d.items[i] = c.items[i]
      BY <1>2, <1>3, <1>7, <2>1, <2>4
    <3>2. ts.items[k] = State(c).items[k]
      BY <1>8, <3>1
    <3> QED
      BY <1>7, <2>2, <2>4, <3>1, <3>2
  <2> QED
    BY <1>5, <2>3, <2>4
<1>11. State(d).selected = State(c).selected
  <2>1. /\ State(d).selected = {d.keys[i] : i \in c.initial}
        /\ State(c).selected = {c.keys[j] : j \in c.initial}
    BY DEF State, KeysOf, ItemCreated
  <2>2. c.initial \subseteq 1 .. n
    BY <1>1 DEF Sound, Shape
  <2>3. \A i \in c.initial : d.keys[i] = c.keys[i]
    BY <1>3, <2>2
  <2> HIDE DEF State
  <2> QED
    BY <2>1, <2>3
<1>12. State(d) = ts
  <2>1. IsState(State(d)) /\ d.operations = c.operations
    BY StateIsState DEF ItemCreated
  <2> QED
    BY <1>7, <1>8, <1>9, <1>10, <1>11, <2>1, SameStates
<1>13. n + 1 \in 1 .. (n + 1)
  BY <1>1
<1> QED
  BY <1>1, <1>2, <1>3, <1>4, <1>5, <1>12, <1>13 DEF ts

LEMMA GreaterKey ==
    ASSUME NEW m \in Nat, NEW n \in Nat
    PROVE  /\ Max({m + 1, n + 1}) \in Nat \ {0}
           /\ m < Max({m + 1, n + 1}) /\ n < Max({m + 1, n + 1})
<1> DEFINE T == {m + 1, n + 1}
<1>1. T \in SUBSET (1 .. (m + n + 1)) /\ T # {} /\ m + n + 1 \in Nat
  OBVIOUS
<1>2. m + 1 \in T /\ n + 1 \in T /\ \A k \in T : k \in Nat \ {0}
  OBVIOUS
<1> HIDE DEF T
<1>3. Max(T) \in T /\ \A k \in T : k <= Max(T)
  BY <1>1, Greatest
<1>4. Max(T) \in Nat \ {0} /\ m + 1 <= Max(T) /\ n + 1 <= Max(T)
  BY <1>2, <1>3
<1> HIDE DEF Max
<1>5. m < Max(T) /\ n < Max(T)
  BY <1>4
<1> QED
  BY <1>4, <1>5 DEF T

TemporaryItem(def, position) ==
    [def |-> def, position |-> position, display |-> "temporary"]
NewKey(c, key) == IF key = 0 THEN c.nextKey ELSE key

LEMMA CreateRewinds ==
    ASSUME NEW c, Good(c), NEW def \in Definition, NEW position \in 1 .. Cells,
           NEW key \in Nat, key \notin KeyIndexSet(c),
           NEW d, d = CreateTemporary(c, def, position, key)
    PROVE  /\ Rewinds(c, d)
           /\ State(d) = With(State(c), NewKey(c, key), TemporaryItem(def, position))
           /\ Len(d.items) \in DOMAIN d.items
           /\ d.items[Len(d.items)] = TemporaryItem(def, position)
           /\ ItemCreated(c, d, NewKey(c, key), TemporaryItem(def, position))
<1> DEFINE item == TemporaryItem(def, position)
           new == NewKey(c, key)
           e == Entry("delete", new)
           s == c[Tracked(c)]
           t == Append(s, e)
           c1 == [Submit(c) EXCEPT !.items = Append(@, item), !.keys = Append(@, new),
                          !.nextKey = Max({@ + 1, key + 1})]
           ts == With(State(c), new, item)
<1>1. Sound(c) /\ Sound(d) /\ IsSeq(s) /\ DOMAIN c = Fields
  BY CreateTemporarySound, StackSeq DEF Good, Sound, Shape
<1>2. /\ c.nextKey \in Nat \ {0} /\ new \in Nat \ {0} /\ new \notin KeyIndexSet(c)
  <2>1. c.nextKey \in Nat \ {0} /\ \A id \in DOMAIN c.items : c.keys[id] \in 1 .. (c.nextKey - 1)
    BY DEF Good
  <2>2. KeyIndexSet(c) = {c.keys[id] : id \in DOMAIN c.items}
    BY <1>1, StateItems
  <2>3. c.nextKey \notin KeyIndexSet(c)
    BY <2>1, <2>2
  <2> QED
    BY <2>1, <2>3 DEF NewKey
<1>3. d = PushEntry(c1, e)
  BY <1>2 DEF CreateTemporary, NewKey, TemporaryItem
<1>4. /\ DOMAIN c1 = Fields /\ c1.items = Append(c.items, item)
      /\ c1.keys = Append(c.keys, new) /\ c1.nextKey = Max({c.nextKey + 1, key + 1})
      /\ c1.initial = c.initial /\ c1.operations = c.operations /\ c1.failed = c.failed
      /\ c1.history = c.history /\ c1.undo = c.undo /\ c1.redo = c.redo
  BY <1>1 DEF Submit, Fields
<1> HIDE DEF c1, item, new, e
<1>5. Tracked(c1) = Tracked(c) /\ c1[Tracked(c)] = s /\ c1[Other(c)] = c[Other(c)]
  BY <1>4 DEF Tracked, Other
<1>6. d = [c1 EXCEPT ![Tracked(c)] = t]
  <2>1. s \o <<e>> = Append(s, e)
    <3> DEFINE S == {s[i] : i \in 1 .. Len(s)} \cup {e}
    <3>1. s \in Seq({s[i] : i \in 1 .. Len(s)}) /\ e \in S
      BY <1>1 DEF IsSeq
    <3>2. {s[i] : i \in 1 .. Len(s)} \subseteq S
      OBVIOUS
    <3> HIDE DEF S, s
    <3>3. s \in Seq(S)
      BY <3>1, <3>2, Z3
    <3> QED
      BY <3>1, <3>3, AppendIsConcat
  <2>2. c1.history # "disabled"
    BY <1>1, <1>4 DEF Sound, Shape
  <2>3. PushEntry(c1, e) = IF c1.history = "disabled" THEN c1
                           ELSE [c1 EXCEPT ![Tracked(c1)] = c1[Tracked(c1)] \o <<e>>]
    BY DEF PushEntry, PushEntries, Record
  <2> HIDE DEF s
  <2> QED
    BY <1>3, <1>5, <2>1, <2>2, <2>3
<1>7. /\ d.items = c1.items /\ d.keys = c1.keys /\ d.nextKey = c1.nextKey
      /\ d.initial = c1.initial /\ d.operations = c1.operations /\ d.failed = c1.failed
      /\ d.history = c1.history /\ d[Tracked(c)] = t /\ d[Other(c)] = c[Other(c)]
  <2>1. \/ Tracked(c) = "undo" /\ Other(c) = "redo"
        \/ Tracked(c) = "redo" /\ Other(c) = "undo"
    BY DEF Tracked, Other
  <2>2. CASE Tracked(c) = "undo" /\ Other(c) = "redo"
    BY <1>4, <1>5, <1>6, <2>2 DEF Fields
  <2>3. CASE Tracked(c) = "redo" /\ Other(c) = "undo"
    BY <1>4, <1>5, <1>6, <2>3 DEF Fields
  <2> QED
    BY <2>1, <2>2, <2>3
<1>8. ItemCreated(c, d, new, item)
  BY <1>4, <1>7 DEF ItemCreated
<1>9. /\ State(d) = ts /\ Len(d.items) \in DOMAIN d.items
      /\ d.items[Len(d.items)] = item
      /\ \A i \in DOMAIN d.items :
            \/ d.keys[i] = new /\ d.items[i] = item
            \/ i \in DOMAIN c.items /\ d.keys[i] = c.keys[i] /\ d.items[i] = c.items[i]
  BY <1>1, <1>2, <1>8, CreatedState
<1>10. item \in Item /\ item.display = "temporary"
  BY DEF item, TemporaryItem, Item, Display
<1>11. /\ d.nextKey \in Nat \ {0} /\ new \in 1 .. (d.nextKey - 1)
       /\ \A k \in 1 .. (c.nextKey - 1) : k \in 1 .. (d.nextKey - 1)
  <2>1. /\ d.nextKey \in Nat \ {0} /\ c.nextKey < d.nextKey /\ key < d.nextKey
    BY <1>2, <1>4, <1>7, GreaterKey
  <2>2. new \in {c.nextKey, key}
    BY DEF new, NewKey
  <2> QED
    BY <1>2, <2>1, <2>2
<1>12. Good(d)
  <2>1. \A i \in DOMAIN d.items : d.items[i] \in Item /\ d.keys[i] \in 1 .. (d.nextKey - 1)
    BY <1>9, <1>10, <1>11 DEF Good
  <2> QED
    BY <1>1, <1>4, <1>7, <1>11, <2>1 DEF Good
<1>13. Rewound(s, State(c), t, ts)
  <2>1. new \notin DOMAIN State(c).items /\ new \notin State(c).selected
    BY <1>1, <1>2, StateItems
  <2> QED
    BY <1>1, <1>10, <2>1, StateIsState, ComeRewound DEF e
<1>14. Tracked(d) = Tracked(c)
  BY <1>4, <1>7 DEF Tracked
<1> QED
  BY <1>4, <1>7, <1>8, <1>9, <1>12, <1>13, <1>14 DEF Rewinds, new, item

-----------------------------------------------------------------------------
(***************************************************************************)
(* Changes of the insertion mode.                                          *)
(***************************************************************************)

LEMMA DisplayedItem ==
    ASSUME NEW c, NEW d, NEW id \in DOMAIN c.items, NEW to, DisplayChanged(c, d, id, to),
           c.items[id] \in Item, to \in Display
    PROVE  id \in DOMAIN d.items /\ d.items[id].display = to
<1>1. d.items[id] = WithDisplay(c.items[id], to) /\ id \in DOMAIN d.items
  BY DEF DisplayChanged
<1> QED
  BY <1>1, DisplayBack

LEMMA DiscardRewinds ==
    ASSUME NEW c, Good(c), NEW id \in DOMAIN c.items, NEW hint, hint # "expect_valid",
           c.items[id].display = "colliding"
    PROVE  Rewinds(c, CollidingToInsert(c, id, hint))
<1> DEFINE b == CollidingToTemporary(c, id)
<1>1. Rewinds(c, b) /\ DisplayChanged(c, b, id, "temporary")
  BY CollidingToTemporaryRewinds
<1>2. CollidingToInsert(c, id, hint) = DeleteTemporary(b, id)
  BY DEF CollidingToInsert
<1> HIDE DEF b
<1>3. id \in DOMAIN b.items /\ b.items[id].display = "temporary"
  BY <1>1, DisplayedItem DEF Good, Display
<1>4. Good(b)
  BY <1>1 DEF Rewinds
<1>5. Rewinds(b, DeleteTemporary(b, id))
  BY <1>3, <1>4, DeleteRewinds
<1> QED
  BY <1>1, <1>2, <1>5, RewindsTwice

LEMMA ToCollisionsRewinds ==
    ASSUME NEW c, Good(c), NEW id \in DOMAIN c.items, NEW hint, hint = "no_hint",
           NEW d, d = ToCollisions(c, id, hint)
    PROVE  Rewinds(c, d) /\ id \in DOMAIN d.items /\ d.items[id].display \in {"valid", "colliding"}
<1>1. c.items[id] \in Item /\ c.items[id].display \in Display
  BY DEF Good, Item
<1>2. CASE c.items[id].display = "temporary"
  <2> DEFINE to == CollidingDisplay(c, id, hint)
  <2>1. to \in {"valid", "colliding"} /\ to \in Display
    BY DEF CollidingDisplay, Display
  <2>2. d = TemporaryToColliding(c, id, hint)
    BY <1>2 DEF ToCollisions
  <2>3. Rewinds(c, d) /\ DisplayChanged(c, d, id, to)
    BY <1>2, <2>2, TemporaryToCollidingRewinds
  <2> HIDE DEF to
  <2> QED
    BY <1>1, <2>1, <2>3, DisplayedItem
<1>3. CASE c.items[id].display = "normal"
  <2>1. d = InsertToColliding(c, id)
    BY <1>3 DEF ToCollisions
  <2>2. Rewinds(c, d) /\ DisplayChanged(c, d, id, "valid")
    BY <1>3, <2>1, InsertToCollidingRewinds
  <2> QED
    BY <1>1, <2>2, DisplayedItem DEF Display
<1>4. CASE c.items[id].display \in {"valid", "colliding"}
  <2>1. d = c
    BY <1>4 DEF ToCollisions
  <2> QED
    BY <1>4, <2>1, RewindsSelf
<1> QED
  BY <1>1, <1>2, <1>3, <1>4 DEF Display

LEMMA FromCollisionsRewinds ==
    ASSUME NEW c, Good(c), NEW id \in DOMAIN c.items, NEW hint, hint = "no_hint",
           NEW mode \in Mode, c.items[id].display \in {"valid", "colliding"}
    PROVE  Rewinds(c, FromCollisions(c, id, mode, hint))
<1>1. c.failed = FALSE
  BY DEF Good
<1>2. CASE mode = "collisions"
  <2>1. FromCollisions(c, id, mode, hint) = c
    BY <1>2 DEF FromCollisions
  <2> QED
    BY <2>1, RewindsSelf
<1>3. CASE mode = "insert_or_discard"
  <2>1. FromCollisions(c, id, mode, hint) = CollidingToInsert(c, id, hint)
    BY <1>1, <1>3 DEF FromCollisions
  <2> QED
    BY <2>1, ValidToInsertRewinds, DiscardRewinds
<1>4. CASE mode = "temporary"
  <2>1. FromCollisions(c, id, mode, hint) = CollidingToTemporary(c, id)
    BY <1>1, <1>4 DEF FromCollisions
  <2> QED
    BY <2>1, CollidingToTemporaryRewinds
<1> QED
  BY <1>2, <1>3, <1>4 DEF Mode

LEMMA ChangeModeRewinds ==
    ASSUME NEW c, Good(c), NEW id \in DOMAIN c.items, NEW mode \in Mode
    PROVE  Rewinds(c, ChangeInsertionMode(c, id, mode, "no_hint"))
<1> DEFINE b == ToCollisions(c, id, "no_hint")
<1>1. CASE ToMode(c.items[id].display) = mode
  <2>1. ChangeInsertionMode(c, id, mode, "no_hint") = c
    BY <1>1 DEF ChangeInsertionMode
  <2> QED
    BY <2>1, RewindsSelf
<1>2. CASE ToMode(c.items[id].display) # mode
  <2>1. ChangeInsertionMode(c, id, mode, "no_hint") = FromCollisions(b, id, mode, "no_hint")
    BY <1>2 DEF ChangeInsertionMode
  <2>2. /\ Rewinds(c, b) /\ id \in DOMAIN b.items
        /\ b.items[id].display \in {"valid", "colliding"}
    BY ToCollisionsRewinds
  <2> HIDE DEF b
  <2>3. Rewinds(b, FromCollisions(b, id, mode, "no_hint"))
    BY <2>2, FromCollisionsRewinds DEF Rewinds
  <2> QED
    BY <2>1, <2>2, <2>3, RewindsTwice
<1> QED
  BY <1>1, <1>2

LEMMA AddLogicItemRewinds ==
    ASSUME NEW c, Good(c), NEW def \in Definition, NEW position \in 1 .. Cells,
           NEW mode \in Mode
    PROVE  Rewinds(c, AddLogicItem(c, def, position, mode))
<1> DEFINE b == CreateTemporary(c, def, position, 0)
<1>1. 0 \notin KeyIndexSet(c)
  <2>1. /\ KeyIndexSet(c) = {c.keys[id] : id \in DOMAIN c.items}
        /\ c.nextKey \in Nat /\ \A id \in DOMAIN c.items : c.keys[id] \in 1 .. (c.nextKey - 1)
    BY StateItems DEF Good
  <2> QED
    BY <2>1
<1>2. Rewinds(c, b) /\ Len(b.items) \in DOMAIN b.items
  BY <1>1, CreateRewinds
<1>3. AddLogicItem(c, def, position, mode)
        = ChangeInsertionMode(b, Len(b.items), mode, "no_hint")
  BY DEF AddLogicItem, ChangeLastInsertionMode
<1> HIDE DEF b
<1>4. Rewinds(b, ChangeInsertionMode(b, Len(b.items), mode, "no_hint"))
  BY <1>2, ChangeModeRewinds DEF Rewinds
<1> QED
  BY <1>2, <1>3, <1>4, RewindsTwice

-----------------------------------------------------------------------------
(***************************************************************************)
(* Several entries pushed in turn.                                         *)
(***************************************************************************)

\* What was pushed from c to b leads from st to where the stack led before.
PushedTo(c, b, st) ==
    /\ Sound(b) /\ Pushing(c, b, b[Tracked(c)]) /\ IsSeq(b[Tracked(c)])
    /\ Rewound(c[Tracked(c)], State(c), b[Tracked(c)], st)

LEMMA PushedSelf == ASSUME NEW c, Good(c) PROVE PushedTo(c, c, State(c))
BY RewoundSame, PushingNothing, StackSeq DEF PushedTo, Good

LEMMA PushedOn ==
    ASSUME NEW c, Good(c), NEW b, NEW st, PushedTo(c, b, st), NEW t, NEW d, Pushing(b, d, t),
           Sound(d), IsSeq(t), NEW ts, Rewound(b[Tracked(c)], st, t, ts)
    PROVE  PushedTo(c, d, ts)
<1>1. /\ Sound(c) /\ Sound(b) /\ Pushing(c, b, b[Tracked(c)]) /\ IsSeq(c[Tracked(c)])
      /\ Rewound(c[Tracked(c)], State(c), b[Tracked(c)], st)
  BY StackSeq DEF PushedTo, Good
<1>2. Tracked(b) = Tracked(c)
  BY <1>1, TrackedReplaced DEF Tracked
<1>3. Pushing(c, d, t) /\ d[Tracked(c)] = t
  BY <1>1, <1>2, PushingTwice, TrackedReplaced
<1>4. Rewound(c[Tracked(c)], State(c), t, ts)
  BY <1>1, RewoundTwice
<1> QED
  BY <1>3, <1>4 DEF PushedTo

LEMMA PushedTracked ==
    ASSUME NEW c, Good(c), NEW b, NEW st, PushedTo(c, b, st)
    PROVE  Sound(b) /\ Tracked(b) = Tracked(c) /\ IsSeq(b[Tracked(c)])
BY TrackedReplaced DEF PushedTo, Good, Tracked

LEMMA PushedEntry ==
    ASSUME NEW c, Good(c), NEW b, NEW st, PushedTo(c, b, st), NEW e, EntryOK(e),
           e.type # "new_group", NEW ts, Leads(e, ts, st), NEW d, d = PushEntry(b, e)
    PROVE  PushedTo(c, d, ts)
<1> DEFINE s == b[Tracked(c)]
           t == Append(s, e)
<1>1. Sound(b) /\ Tracked(b) = Tracked(c) /\ IsSeq(s)
  BY PushedTracked
<1>2. Pushing(b, d, t)
  BY <1>1, EntryPushed DEF Pushing
<1>3. Sound(d)
  BY <1>1, PushEntryKeeps, StacksKeepSound
<1>4. IsSeq(t)
  BY <1>1, AppendSeq
<1>5. Rewound(s, st, t, ts)
  BY <1>1, RewoundAppend
<1> QED
  BY <1>2, <1>3, <1>4, <1>5, PushedOn

LEMMA PushedOrCancelled ==
    ASSUME NEW c, Good(c), NEW b, NEW st, PushedTo(c, b, st), NEW e, EntryOK(e),
           e.type # "new_group", NEW ts, Leads(e, ts, st), NEW type, type # "new_group",
           \A top, x : (/\ top.type = type /\ top.key = e.key
                        /\ Leads(top, st, x)) => x = ts,
           NEW d, d = PushOrCancel(b, e, type)
    PROVE  PushedTo(c, d, ts)
<1> DEFINE s == b[Tracked(c)]
           t == OrCancelled(s, e, type)
<1>1. Sound(b) /\ Tracked(b) = Tracked(c) /\ IsSeq(s)
  BY PushedTracked
<1>2. Pushing(b, d, t)
  BY <1>1, EntryPushedOrCancelled DEF Pushing
<1>3. Sound(d)
  BY <1>1, PushOrCancelKeeps, StacksKeepSound
<1>4. IsSeq(t)
  BY <1>1, OrCancelledSeq
<1>5. Rewound(s, st, t, ts)
  BY <1>1, RewoundPush
<1> QED
  BY <1>2, <1>3, <1>4, <1>5, PushedOn

\* The state with another display for an item, by its key.
Shows(st, key, display) == WithItem(st, key, WithDisplay(st.items[key], display))

LEMMA ShowsState ==
    ASSUME NEW st, IsState(st), NEW key \in DOMAIN st.items, st.items[key] \in Item,
           NEW to \in Display, NEW ts, ts = Shows(st, key, to)
    PROVE  /\ IsState(ts) /\ DOMAIN ts.items = DOMAIN st.items
           /\ ts.items[key] \in Item /\ ts.items[key].display = to
           /\ ts.items[key].position = st.items[key].position
           /\ ts.items[key].def = st.items[key].def
           /\ ts.selected = st.selected /\ ts.operations = st.operations
           /\ \A k \in DOMAIN st.items \ {key} : ts.items[k] = st.items[k]
           /\ \A display \in Display : Shows(ts, key, display) = Shows(st, key, display)
           /\ to = st.items[key].display => ts = st
           /\ Free(ts, key) <=> Free(st, key)
           /\ Without(ts, key) = Without(st, key)
<1> DEFINE x == WithDisplay(st.items[key], to)
<1>1. /\ x \in Item /\ x.display = to /\ x.position = st.items[key].position
      /\ x.def = st.items[key].def
      /\ to = st.items[key].display => x = st.items[key]
      /\ \A display : WithDisplay(x, display) = WithDisplay(st.items[key], display)
  BY DEF WithDisplay, Item
<1> HIDE DEF x
<1>2. /\ IsState(ts) /\ DOMAIN ts.items = DOMAIN st.items
      /\ \A k \in DOMAIN st.items : ts.items[k] = (IF k = key THEN x ELSE st.items[k])
      /\ ts.selected = st.selected /\ ts.operations = st.operations
  BY WithItemState DEF Shows, x
<1>3. ASSUME NEW display \in Display PROVE Shows(ts, key, display) = Shows(st, key, display)
  <2> DEFINE y == WithDisplay(st.items[key], display)
             us == WithItem(ts, key, y)
             vs == WithItem(st, key, y)
  <2>1. Shows(ts, key, display) = us /\ Shows(st, key, display) = vs
    BY <1>1, <1>2 DEF Shows
  <2> HIDE DEF y
  <2>2. /\ IsState(us) /\ DOMAIN us.items = DOMAIN ts.items
        /\ \A k \in DOMAIN ts.items : us.items[k] = (IF k = key THEN y ELSE ts.items[k])
        /\ us.selected = ts.selected /\ us.operations = ts.operations
    BY <1>2, WithItemState
  <2>3. /\ IsState(vs) /\ DOMAIN vs.items = DOMAIN st.items
        /\ \A k \in DOMAIN st.items : vs.items[k] = (IF k = key THEN y ELSE st.items[k])
        /\ vs.selected = st.selected /\ vs.operations = st.operations
    BY WithItemState
  <2> HIDE DEF us, vs
  <2>4. us = vs
    BY <1>2, <2>2, <2>3, SameStates
  <2> QED
    BY <2>1, <2>4
<1>4. ASSUME to = st.items[key].display PROVE ts = st
  BY <1>1, <1>2, <1>4, SameStates
<1>5. Free(ts, key) <=> Free(st, key)
  BY <1>1, <1>2 DEF Free
<1>6. Without(ts, key) = Without(st, key)
  <2> DEFINE us == Without(ts, key)
             vs == Without(st, key)
  <2>1. /\ IsState(us) /\ DOMAIN us.items = DOMAIN ts.items \ {key}
        /\ \A k \in DOMAIN ts.items \ {key} : us.items[k] = ts.items[k]
        /\ us.selected = ts.selected \ {key} /\ us.operations = ts.operations
    BY <1>2, WithoutState
  <2>2. /\ IsState(vs) /\ DOMAIN vs.items = DOMAIN st.items \ {key}
        /\ \A k \in DOMAIN st.items \ {key} : vs.items[k] = st.items[k]
        /\ vs.selected = st.selected \ {key} /\ vs.operations = st.operations
    BY WithoutState
  <2> HIDE DEF us, vs
  <2>3. /\ DOMAIN us.items = DOMAIN vs.items
        /\ \A k \in DOMAIN us.items : us.items[k] = vs.items[k]
    BY <1>2, <2>1, <2>2
  <2>4. us.selected = vs.selected /\ us.operations = vs.operations
    BY <1>2, <2>1, <2>2
  <2>5. us = vs
    BY <2>1, <2>2, <2>3, <2>4, SameStates
  <2> QED
    BY <2>5 DEF us, vs
<1> QED
  BY <1>1, <1>2, <1>3, <1>4, <1>5, <1>6

\* An entry that shows an item as a state does leads there, and from there only there.
LEMMA ShowsLead ==
    ASSUME NEW st, NEW e, e.key \in DOMAIN st.items, NEW ts
    PROVE  /\ e.type = "to_temporary" =>
                (Leads(e, st, ts) <=> /\ st.items[e.key].display \in {"colliding", "valid"}
                                      /\ ts = Shows(st, e.key, "temporary"))
           /\ e.type = "to_colliding_expect_valid" =>
                (Leads(e, st, ts) <=>
                    /\ st.items[e.key].display \in {"temporary", "normal"}
                    /\ ts = Shows(st, e.key, "valid")
                    /\ st.items[e.key].display = "temporary" => Free(st, e.key))
           /\ e.type = "to_insert" =>
                (Leads(e, st, ts) <=> /\ st.items[e.key].display = "valid"
                                      /\ ts = Shows(st, e.key, "normal"))
BY ItemLeads DEF LeadsDisplay, Shows

LEMMA WithoutReplaced ==
    ASSUME NEW st, IsState(st), NEW key \in DOMAIN st.items, NEW x
    PROVE  Without(WithItem(st, key, x), key) = Without(st, key)
<1> DEFINE ts == WithItem(st, key, x)
           us == Without(ts, key)
           vs == Without(st, key)
<1>1. /\ IsState(ts) /\ DOMAIN ts.items = DOMAIN st.items
      /\ \A k \in DOMAIN st.items : ts.items[k] = (IF k = key THEN x ELSE st.items[k])
      /\ ts.selected = st.selected /\ ts.operations = st.operations
  BY WithItemState
<1> HIDE DEF ts
<1>2. /\ IsState(us) /\ DOMAIN us.items = DOMAIN ts.items \ {key}
      /\ \A k \in DOMAIN ts.items \ {key} : us.items[k] = ts.items[k]
      /\ us.selected = ts.selected \ {key} /\ us.operations = ts.operations
  BY <1>1, WithoutState
<1>3. /\ IsState(vs) /\ DOMAIN vs.items = DOMAIN st.items \ {key}
      /\ \A k \in DOMAIN st.items \ {key} : vs.items[k] = st.items[k]
      /\ vs.selected = st.selected \ {key} /\ vs.operations = st.operations
  BY WithoutState
<1> HIDE DEF us, vs
<1>4. /\ DOMAIN us.items = DOMAIN vs.items
      /\ \A k \in DOMAIN us.items : us.items[k] = vs.items[k]
      /\ us.selected = vs.selected /\ us.operations = vs.operations
  BY <1>1, <1>2, <1>3
<1>5. us = vs
  BY <1>2, <1>3, <1>4, SameStates
<1> QED
  BY <1>5 DEF us, vs, ts

-----------------------------------------------------------------------------
(***************************************************************************)
(* Inverters: what is pushed deletes the item and creates another one.     *)
(***************************************************************************)

Toggled(item) == [item EXCEPT !.def.inverted = ~@]

LEMMA ToggledItem ==
    ASSUME NEW item \in Item
    PROVE  /\ Toggled(item) \in Item /\ Toggled(item).display = item.display
           /\ Toggled(item).position = item.position
<1>1. item.def \in Definition /\ item.def.inverted \in BOOLEAN
  BY DEF Item, Definition
<1> QED
  BY <1>1 DEF Item, Definition, Toggled

\* The selection of an item is forgotten before it is deleted.
LEMMA PushedHidden ==
    ASSUME NEW c, Good(c), NEW id \in DOMAIN c.items, NEW key, key = c.keys[id],
           NEW d, d = (IF id \in c.initial THEN PushAddVisible(c, key) ELSE c)
    PROVE  PushedTo(c, d, WithSelected(State(c), State(c).selected \ {key}))
<1> DEFINE st == State(c)
           ts == WithSelected(st, st.selected \ {key})
           e == Entry("add_visible", key)
<1>1. /\ key \in DOMAIN st.items /\ IsState(st)
      /\ key \in st.selected <=> id \in c.initial
  BY StateItems, StateIsState DEF Good
<1>2. /\ ts.items = st.items /\ ts.selected = st.selected \ {key}
      /\ \A other : WithSelected(ts, other) = WithSelected(st, other)
      /\ WithSelected(st, st.selected) = st
  BY <1>1, WithSelectedState
<1>3. PushedTo(c, c, st)
  BY PushedSelf
<1> HIDE DEF st
<1>4. CASE id \in c.initial
  <2>1. /\ e.type = "add_visible" /\ e.key = key /\ e.type # "new_group" /\ EntryOK(e)
        /\ "remove_visible" # "new_group"
    BY KeyTypes, KeyEntry DEF Entry
  <2>2. d = PushOrCancel(c, e, "remove_visible")
    BY <1>4 DEF PushAddVisible
  <2> HIDE DEF e
  <2>3. ts.selected \cup {key} = st.selected
    BY <1>1, <1>2, <1>4
  <2>4. Leads(e, ts, st)
    <3>1. st = WithSelected(ts, ts.selected \cup {key}) /\ key \in DOMAIN ts.items
      BY <1>1, <1>2, <2>3
    <3> HIDE DEF ts
    <3> QED
      BY <2>1, <3>1, VisibleLead
  <2>5. \A top, x : (/\ top.type = "remove_visible" /\ top.key = e.key
                     /\ Leads(top, st, x)) => x = ts
    BY <2>1, VisibleLead
  <2> HIDE DEF ts
  <2>6. PushedTo(c, d, ts)
    BY <1>3, <2>1, <2>2, <2>4, <2>5, PushedOrCancelled
  <2> QED
    BY <2>6 DEF ts, st
<1>5. CASE id \notin c.initial
  <2>1. st.selected \ {key} = st.selected
    BY <1>1, <1>5
  <2>2. ts = st
    BY <1>2, <2>1
  <2> QED
    BY <1>3, <1>5, <2>2 DEF st
<1> QED
  BY <1>4, <1>5

\* An entry that shows an item otherwise is pushed, or the one that it undoes goes.
LEMMA PushedShown ==
    ASSUME NEW c, Good(c), NEW b, NEW st, PushedTo(c, b, st), IsState(st),
           NEW key \in DOMAIN st.items, st.items[key] \in Item, NEW d, NEW ts
    PROVE  /\ (/\ st.items[key].display = "normal" /\ ts = Shows(st, key, "valid")
               /\ d = PushOrCancel(b, Entry("to_insert", key), "to_colliding_expect_valid"))
                 => PushedTo(c, d, ts)
           /\ (/\ st.items[key].display = "valid" /\ ts = Shows(st, key, "temporary")
               /\ Free(st, key)
               /\ d = PushOrCancel(b, Entry("to_colliding_expect_valid", key), "to_temporary"))
                 => PushedTo(c, d, ts)
           /\ (/\ st.items[key].display = "temporary" /\ ts = Shows(st, key, "valid")
               /\ d = PushEntry(b, Entry("to_temporary", key)))
                 => PushedTo(c, d, ts)
           /\ (/\ st.items[key].display = "valid" /\ ts = Shows(st, key, "normal")
               /\ d = PushEntry(b, Entry("to_colliding_expect_valid", key)))
                 => PushedTo(c, d, ts)
<1>1. \A type \in {"to_insert", "to_colliding_expect_valid", "to_temporary"} :
         /\ Entry(type, key).type = type /\ Entry(type, key).key = key
         /\ EntryOK(Entry(type, key))
  BY KeyTypes, KeyEntry DEF Entry
<1>2. ASSUME NEW to \in Display, ts = Shows(st, key, to)
      PROVE  /\ DOMAIN ts.items = DOMAIN st.items /\ ts.items[key].display = to
             /\ \A display \in Display : Shows(ts, key, display) = Shows(st, key, display)
             /\ Shows(st, key, st.items[key].display) = st
             /\ Free(ts, key) <=> Free(st, key)
  <2>1. st.items[key].display \in Display
    BY DEF Item
  <2> QED
    BY <1>2, <2>1, ShowsState
<1>3. Display = {"temporary", "colliding", "valid", "normal"}
  BY DEF Display
<1>4. ASSUME st.items[key].display = "normal", ts = Shows(st, key, "valid"),
             d = PushOrCancel(b, Entry("to_insert", key), "to_colliding_expect_valid")
      PROVE  PushedTo(c, d, ts)
  <2> DEFINE e == Entry("to_insert", key)
  <2>1. e.type = "to_insert" /\ e.key = key /\ EntryOK(e)
    BY <1>1
  <2> HIDE DEF e
  <2>2. Leads(e, ts, st)
    BY <1>2, <1>3, <1>4, <2>1, ShowsLead
  <2>3. \A top, x : (/\ top.type = "to_colliding_expect_valid" /\ top.key = e.key
                     /\ Leads(top, st, x)) => x = ts
    BY <1>4, <2>1, ShowsLead
  <2> QED
    BY <1>4, <2>1, <2>2, <2>3, PushedOrCancelled DEF e
<1>5. ASSUME st.items[key].display = "valid", ts = Shows(st, key, "temporary"), Free(st, key),
             d = PushOrCancel(b, Entry("to_colliding_expect_valid", key), "to_temporary")
      PROVE  PushedTo(c, d, ts)
  <2> DEFINE e == Entry("to_colliding_expect_valid", key)
  <2>1. e.type = "to_colliding_expect_valid" /\ e.key = key /\ EntryOK(e)
    BY <1>1
  <2> HIDE DEF e
  <2>2. Leads(e, ts, st)
    BY <1>2, <1>3, <1>5, <2>1, ShowsLead
  <2>3. \A top, x : (/\ top.type = "to_temporary" /\ top.key = e.key
                     /\ Leads(top, st, x)) => x = ts
    BY <1>5, <2>1, ShowsLead
  <2> QED
    BY <1>5, <2>1, <2>2, <2>3, PushedOrCancelled DEF e
<1>6. ASSUME st.items[key].display = "temporary", ts = Shows(st, key, "valid"),
             d = PushEntry(b, Entry("to_temporary", key))
      PROVE  PushedTo(c, d, ts)
  <2> DEFINE e == Entry("to_temporary", key)
  <2>1. e.type = "to_temporary" /\ e.key = key /\ EntryOK(e)
    BY <1>1
  <2> HIDE DEF e
  <2>2. Leads(e, ts, st)
    BY <1>2, <1>3, <1>6, <2>1, ShowsLead
  <2> QED
    BY <1>6, <2>1, <2>2, PushedEntry DEF e
<1>7. ASSUME st.items[key].display = "valid", ts = Shows(st, key, "normal"),
             d = PushEntry(b, Entry("to_colliding_expect_valid", key))
      PROVE  PushedTo(c, d, ts)
  <2> DEFINE e == Entry("to_colliding_expect_valid", key)
  <2>1. e.type = "to_colliding_expect_valid" /\ e.key = key /\ EntryOK(e)
    BY <1>1
  <2> HIDE DEF e
  <2>2. Leads(e, ts, st)
    BY <1>2, <1>3, <1>7, <2>1, ShowsLead
  <2> QED
    BY <1>7, <2>1, <2>2, PushedEntry DEF e
<1> QED
  BY <1>4, <1>5, <1>6, <1>7

\* The creation of an item is pushed, or its deletion goes.
LEMMA PushedGone ==
    ASSUME NEW c, Good(c), NEW b, NEW st, PushedTo(c, b, st), IsState(st),
           NEW key \in DOMAIN st.items, key \in Nat \ {0}, key \notin st.selected,
           st.items[key] \in Item, st.items[key].display = "temporary", NEW item,
           item.def = st.items[key].def, item.position = st.items[key].position,
           NEW d, d = PushCreate(b, key, item)
    PROVE  PushedTo(c, d, Without(st, key))
<1> DEFINE ts == Without(st, key)
           e == [type |-> "create", key |-> key, def |-> item.def,
                 position |-> item.position]
<1>1. d = PushOrCancel(b, e, "delete")
  BY DEF PushCreate
<1>2. /\ e.type = "create" /\ e.key = key /\ e.def = st.items[key].def
      /\ e.position = st.items[key].position /\ EntryOK(e)
  BY DEF EntryOK, EntryTypes
<1> HIDE DEF e
<1>3. NewItem(e) = st.items[key] /\ e.def \in Definition /\ e.position \in 1 .. Cells
  BY <1>2 DEF NewItem, Item
<1>4. With(ts, key, st.items[key]) = st /\ key \notin DOMAIN ts.items
  BY WithoutAndWith, WithoutState
<1> HIDE DEF ts
<1>5. Leads(e, ts, st)
  BY <1>2, <1>3, <1>4, LayoutLeads
<1>6. \A top, x : (top.type = "delete" /\ top.key = e.key /\ Leads(top, st, x)) => x = ts
  BY <1>2, LayoutLeads DEF ts
<1>7. e.type # "new_group" /\ "delete" # "new_group"
  BY <1>2
<1>8. PushedTo(c, d, ts)
  BY <1>1, <1>2, <1>5, <1>6, <1>7, PushedOrCancelled
<1> QED
  BY <1>8 DEF ts

LEMMA ToggleRewinds ==
    ASSUME NEW c, Good(c), NEW id \in DOMAIN c.items, IsInserted(c.items[id])
    PROVE  Rewinds(c, ToggleInverter(c, id))
<1> DEFINE key == c.keys[id]
           item == c.items[id]
           normal == item.display = "normal"
           c1 == IF id \in c.initial THEN PushAddVisible(c, key) ELSE c
           p2 == PushOrCancel(c1, Entry("to_insert", key), "to_colliding_expect_valid")
           c2 == IF normal THEN p2 ELSE c1
           c3 == PushOrCancel(c2, Entry("to_colliding_expect_valid", key), "to_temporary")
           c4 == PushCreate(c3, key, item)
           c5 == PushEntry(c4, Entry("delete", key))
           c6 == PushEntry(c5, Entry("to_temporary", key))
           p7 == PushEntry(c6, Entry("to_colliding_expect_valid", key))
           c7 == IF normal THEN p7 ELSE c6
           st == State(c)
           st1 == WithSelected(st, st.selected \ {key})
           st3 == Shows(st1, key, "temporary")
           us == Replaced(c, id, Toggled(item))
           us5 == Shows(us, key, "temporary")
           us6 == Shows(us, key, "valid")
           d == ToggleInverter(c, id)
<1>1. PushToggleInverter(c, id) = c7
  BY DEF PushToggleInverter
<1>2. d = [c7 EXCEPT !.items[id].def.inverted = ~@]
  BY <1>1 DEF ToggleInverter
<1> HIDE DEF d, c7
<1>3. /\ item \in Item /\ item.display \in {"valid", "normal"} /\ key \in Nat \ {0}
      /\ Sound(c) /\ Sound(d)
  BY ToggleInverterKeeps DEF Good, IsInserted, Kept, d
<1>4. "temporary" \in Display /\ "valid" \in Display /\ "normal" \in Display
  BY DEF Display
<1>5. /\ key \in DOMAIN st.items /\ IsState(st) /\ st.items[key] = item
  BY <1>3, StateItems, StateIsState
<1>6. Free(st, key)
  <2>1. ~IsColliding(c, id)
    BY <1>3, OthersApart, ItemIds DEF IsColliding
  <2> QED
    BY <1>3, <2>1, FreeState
<1> HIDE DEF st
<1>7. /\ IsState(st1) /\ st1.items = st.items /\ st1.selected = st.selected \ {key}
      /\ Without(st1, key) = Without(st, key)
  BY <1>5, WithSelectedState, WithoutHidden
<1> HIDE DEF st1
<1>8. key \in DOMAIN st1.items /\ st1.items[key] = item /\ Free(st1, key)
  BY <1>5, <1>6, <1>7 DEF Free
<1>9. PushedTo(c, c1, st1)
  BY PushedHidden DEF st1, st
<1> HIDE DEF c1, item
\* The item becomes temporary.
<1>10. PushedTo(c, c3, st3)
  <2> DEFINE st2 == Shows(st1, key, "valid")
  <2>1. /\ IsState(st2) /\ DOMAIN st2.items = DOMAIN st1.items
        /\ st2.items[key] \in Item /\ st2.items[key].display = "valid"
        /\ Shows(st2, key, "temporary") = st3
        /\ item.display = "valid" => st2 = st1
        /\ Free(st2, key)
    BY <1>3, <1>4, <1>7, <1>8, ShowsState
  <2> HIDE DEF st2, st3
  <2>2. PushedTo(c, c2, st2)
    <3>1. CASE normal
      <4>1. PushedTo(c, p2, st2)
        BY <1>3, <1>7, <1>8, <1>9, <3>1, PushedShown DEF st2
      <4> HIDE DEF p2
      <4> QED
        BY <3>1, <4>1
    <3>2. CASE ~normal
      <4>1. c2 = c1 /\ st2 = st1
        BY <1>3, <2>1, <3>2
      <4> HIDE DEF c2
      <4> QED
        BY <1>9, <4>1
    <3> QED
      BY <3>1, <3>2
  <2> HIDE DEF c2
  <2>3. key \in DOMAIN st2.items
    BY <1>8, <2>1
  <2> QED
    BY <2>1, <2>2, <2>3, PushedShown
<1>11. /\ IsState(st3) /\ key \in DOMAIN st3.items /\ st3.items[key] \in Item
       /\ st3.items[key].display = "temporary" /\ st3.items[key].def = item.def
       /\ st3.items[key].position = item.position /\ key \notin st3.selected
       /\ Without(st3, key) = Without(st, key)
  BY <1>3, <1>4, <1>7, <1>8, ShowsState
<1> HIDE DEF c3, st3
\* It is deleted.
<1>12. PushedTo(c, c4, Without(st, key))
  <2>1. PushedTo(c, c4, Without(st3, key))
    BY <1>3, <1>10, <1>11, PushedGone
  <2> QED
    BY <1>11, <2>1
<1> HIDE DEF c4
\* Another one is created.
<1>13. /\ IsState(us) /\ DOMAIN us.items = DOMAIN st.items /\ us.items[key] = Toggled(item)
       /\ Without(us, key) = Without(st, key)
  <2>1. us = WithItem(st, key, Toggled(item))
    BY DEF Replaced, st
  <2> HIDE DEF us
  <2> QED
    BY <1>5, <2>1, WithItemState, WithoutReplaced
<1> HIDE DEF us
<1>14. /\ Toggled(item) \in Item /\ Toggled(item).display = item.display
       /\ key \in DOMAIN us.items
  BY <1>3, <1>5, <1>13, ToggledItem
<1>15. /\ IsState(us5) /\ DOMAIN us5.items = DOMAIN us.items
       /\ us5.items[key] \in Item /\ us5.items[key].display = "temporary"
       /\ Shows(us5, key, "valid") = us6
       /\ Without(us5, key) = Without(st, key)
  BY <1>4, <1>13, <1>14, ShowsState
<1>16. /\ IsState(us6) /\ DOMAIN us6.items = DOMAIN us.items
       /\ us6.items[key] \in Item /\ us6.items[key].display = "valid"
       /\ Shows(us6, key, "normal") = Shows(us, key, "normal")
       /\ item.display = "valid" => us6 = us
  BY <1>4, <1>13, <1>14, ShowsState
<1>17. Shows(us, key, "normal") = us \/ item.display # "normal"
  BY <1>4, <1>13, <1>14, ShowsState
<1> HIDE DEF us5, us6
<1>18. PushedTo(c, c5, us5)
  <2> DEFINE e == Entry("delete", key)
  <2>1. /\ e.type = "delete" /\ e.key = key /\ EntryOK(e)
    BY KeyTypes, KeyEntry DEF Entry
  <2> HIDE DEF e
  <2>2. Leads(e, us5, Without(st, key))
    BY <1>14, <1>15, <2>1, LayoutLeads
  <2> QED
    BY <1>12, <2>1, <2>2, PushedEntry DEF e
<1> HIDE DEF c5
<1>19. PushedTo(c, c6, us6)
  BY <1>14, <1>15, <1>18, PushedShown
<1> HIDE DEF c6
<1>20. PushedTo(c, c7, us)
  <2>1. CASE normal
    <3>1. PushedTo(c, p7, Shows(us, key, "normal"))
      BY <1>14, <1>16, <1>19, PushedShown
    <3>2. c7 = p7
      BY <2>1 DEF c7
    <3> HIDE DEF p7
    <3> QED
      BY <1>17, <2>1, <3>1, <3>2
  <2>2. CASE ~normal
    <3>1. c7 = c6
      BY <2>2 DEF c7
    <3> QED
      BY <1>3, <1>16, <1>19, <2>2, <3>1
  <2> QED
    BY <2>1, <2>2
<1>21. d = [c7 EXCEPT !.items = [c.items EXCEPT ![id] = Toggled(item)]]
  <2>1. c7.items = c.items
    BY <1>3, <1>20, TrackedReplaced DEF PushedTo
  <2> QED
    BY <1>2, <2>1 DEF Toggled, item
<1>22. ItemChanged(c, d, id, Toggled(item)) /\ d[Tracked(c)] = c7[Tracked(c)]
  <2> DEFINE t == c7[Tracked(c)]
             x == Toggled(item)
  <2>1. Pushing(c, c7, t)
    BY <1>20 DEF PushedTo
  <2>2. d = [c7 EXCEPT !.items = [c.items EXCEPT ![id] = x]]
    BY <1>21
  <2> HIDE DEF t, x, key
  <2>3. ItemChanged(c, d, id, x) /\ d[Tracked(c)] = t
    BY <1>3, <2>1, <2>2, ItemSet
  <2> QED
    BY <2>3 DEF t, x
<1>23. Rewound(c[Tracked(c)], State(c), d[Tracked(c)], us)
  BY <1>20, <1>22 DEF PushedTo
<1>24. Rewinds(c, d)
  BY <1>3, <1>14, <1>22, <1>23, ItemRewinds DEF us
<1> QED
  BY <1>24 DEF d

-----------------------------------------------------------------------------
(***************************************************************************)
(* Operations of the visible selection.                                    *)
(***************************************************************************)

LEMMA SeqsEqual ==
    ASSUME NEW s, NEW t, IsSeq(s), IsSeq(t), Len(s) = Len(t),
           \A i \in 1 .. Len(s) : s[i] = t[i]
    PROVE  s = t
<1>1. s = [i \in 1 .. Len(s) |-> s[i]] /\ t = [i \in 1 .. Len(t) |-> t[i]]
  BY DEF IsSeq
<1> QED
  BY <1>1

LEMMA FrontOfAppended ==
    ASSUME NEW s, IsSeq(s), NEW x
    PROVE  Front(Append(s, x)) = s /\ Append(s, x) # <<>>
<1> DEFINE t == Append(s, x)
<1>1. /\ IsSeq(t) /\ Len(s) \in Nat /\ Len(t) = Len(s) + 1
      /\ \A i \in 1 .. Len(s) : t[i] = s[i]
  BY AppendSeq
<1> HIDE DEF t
<1>2. t # <<>>
  BY <1>1
<1>3. /\ IsSeq(Front(t)) /\ Len(Front(t)) = Len(t) - 1
      /\ \A i \in 1 .. (Len(t) - 1) : Front(t)[i] = t[i]
  BY <1>1, <1>2, FrontSeq
<1>4. Front(t) = s
  BY <1>1, <1>3, SeqsEqual
<1> QED
  BY <1>2, <1>4 DEF t

LEMMA AppendedToFront ==
    ASSUME NEW s, IsSeq(s), s # <<>>
    PROVE  Append(Front(s), Last(s)) = s
<1> DEFINE t == Front(s)
<1>1. /\ IsSeq(t) /\ Len(s) \in Nat \ {0} /\ Len(t) = Len(s) - 1
      /\ \A i \in 1 .. (Len(s) - 1) : t[i] = s[i]
  BY FrontSeq
<1>2. Last(s) = s[Len(s)]
  BY DEF Last
<1> HIDE DEF t
<1> DEFINE u == Append(t, Last(s))
<1>3. /\ IsSeq(u) /\ Len(u) = Len(t) + 1
      /\ \A i \in 1 .. Len(t) : u[i] = t[i]
      /\ u[Len(t) + 1] = Last(s)
  BY <1>1, AppendSeq
<1> HIDE DEF u
<1>4. \A i \in 1 .. Len(s) : i \in 1 .. (Len(s) - 1) \/ i = Len(s)
  BY <1>1
<1>5. \A i \in 1 .. Len(s) : u[i] = s[i]
  BY <1>1, <1>2, <1>3, <1>4
<1>6. u = s
  BY <1>1, <1>3, <1>5, SeqsEqual
<1> QED
  BY <1>6 DEF u, t

\* The last operation gets another rectangle.
WithRect(operations, rect) == [operations EXCEPT ![Len(operations)].rect = rect]

LastIsReplaced(s, n, x, t) == n = Len(s) /\ t = [s EXCEPT ![n] = x]

LEMMA LastReplaced ==
    ASSUME NEW s, IsSeq(s), s # <<>>, NEW x, NEW n, NEW t, LastIsReplaced(s, n, x, t)
    PROVE  /\ IsSeq(t) /\ Len(t) = n
           /\ \A i \in 1 .. n : t[i] = (IF i = n THEN x ELSE s[i])
<1>0. n = Len(s) /\ t = [s EXCEPT ![n] = x]
  BY DEF LastIsReplaced
<1>1. n \in Nat \ {0}
  BY <1>0, FrontSeq
<1>2. DOMAIN s = 1 .. n
  BY <1>0 DEF IsSeq
<1>3. t = [i \in 1 .. n |-> t[i]]
  BY <1>0, <1>2
<1>4. \A i \in 1 .. n : t[i] = (IF i = n THEN x ELSE s[i])
  BY <1>0, <1>2
<1>5. IsSeq(t) /\ Len(t) = n
  BY <1>1, <1>3, Sequences
<1> QED
  BY <1>4, <1>5

LEMMA WithRectSeq ==
    ASSUME NEW s, OperationsOK(s), s # <<>>, NEW r \in Rects, NEW t, t = WithRect(s, r)
    PROVE  /\ OperationsOK(t) /\ t # <<>> /\ Front(t) = Front(s)
           /\ \A q \in Rects : WithRect(t, q) = WithRect(s, q)
           /\ WithRect(s, Last(s).rect) = s /\ Last(s).rect \in Rects
<1> DEFINE n == Len(s)
<1>1. /\ IsSeq(s) /\ n \in Nat \ {0} /\ n \in 1 .. n
      /\ \A i \in 1 .. n : s[i] \in Operation
  BY FrontSeq DEF OperationsOK
<1>2. Last(s) = s[n]
  BY DEF Last
<1>3. \A q : WithRect(s, q) = [s EXCEPT ![n] = [s[n] EXCEPT !.rect = q]]
  BY DEF WithRect
<1>4. \A q \in Rects : [s[n] EXCEPT !.rect = q] \in Operation
  BY <1>1 DEF Operation
<1>5. [s[n] EXCEPT !.rect = s[n].rect] = s[n] /\ s[n].rect \in Rects
  BY <1>1 DEF Operation
<1>6. /\ IsSeq(t) /\ Len(t) = n
      /\ \A i \in 1 .. n : t[i] = IF i = n THEN [s[n] EXCEPT !.rect = r] ELSE s[i]
  <2> DEFINE x == [s[n] EXCEPT !.rect = r]
  <2>1. LastIsReplaced(s, n, x, t)
    BY <1>3 DEF LastIsReplaced
  <2> HIDE DEF x, n
  <2>2. /\ IsSeq(t) /\ Len(t) = n
        /\ \A i \in 1 .. n : t[i] = (IF i = n THEN x ELSE s[i])
    BY <1>1, <2>1, LastReplaced
  <2> QED
    BY <2>2 DEF x
<1>7. OperationsOK(t)
  BY <1>1, <1>4, <1>6 DEF OperationsOK
<1>8. t # <<>>
  BY <1>1, <1>6
<1>9. Front(t) = Front(s)
  <2>1. /\ IsSeq(Front(s)) /\ Len(Front(s)) = n - 1
        /\ \A i \in 1 .. (n - 1) : Front(s)[i] = s[i]
    BY <1>1, FrontSeq
  <2>2. /\ IsSeq(Front(t)) /\ Len(Front(t)) = n - 1
        /\ \A i \in 1 .. (n - 1) : Front(t)[i] = t[i]
    BY <1>6, <1>8, FrontSeq
  <2>3. \A i \in 1 .. (n - 1) : i \in 1 .. n /\ i # n
    BY <1>1
  <2>4. \A i \in 1 .. (n - 1) : t[i] = s[i]
    BY <1>6, <2>3
  <2> HIDE DEF n
  <2> QED
    BY <2>1, <2>2, <2>4, SeqsEqual
<1>10. ASSUME NEW q \in Rects PROVE WithRect(t, q) = WithRect(s, q)
  <2> DEFINE u == WithRect(t, q)
             v == WithRect(s, q)
             x == [s[n] EXCEPT !.rect = q]
  <2>1. /\ IsSeq(v) /\ Len(v) = n
        /\ \A i \in 1 .. n : v[i] = IF i = n THEN x ELSE s[i]
    <3>1. LastIsReplaced(s, n, x, v)
      BY <1>3 DEF LastIsReplaced
    <3> HIDE DEF v, x, n
    <3> QED
      BY <1>1, <3>1, LastReplaced
  <2>2. [t[n] EXCEPT !.rect = q] = x
    BY <1>1, <1>6 DEF Operation
  <2>3. u = [t EXCEPT ![n] = x]
    BY <1>6, <2>2 DEF WithRect
  <2>4. /\ IsSeq(u) /\ Len(u) = n
        /\ \A i \in 1 .. n : u[i] = IF i = n THEN x ELSE t[i]
    <3>1. LastIsReplaced(t, n, x, u)
      BY <1>6, <2>3 DEF LastIsReplaced
    <3> HIDE DEF u, x, n
    <3> QED
      BY <1>6, <1>8, <3>1, LastReplaced
  <2> HIDE DEF u, v, x, n
  <2>5. \A i \in 1 .. n : u[i] = v[i]
    BY <1>6, <2>1, <2>4
  <2>6. u = v
    BY <2>1, <2>4, <2>5, SeqsEqual
  <2> QED
    BY <2>6 DEF u, v
<1>11. WithRect(s, Last(s).rect) = s
  <2> DEFINE v == WithRect(s, Last(s).rect)
  <2>1. /\ IsSeq(v) /\ Len(v) = n
        /\ \A i \in 1 .. n : v[i] = IF i = n THEN s[n] ELSE s[i]
    <3> DEFINE x == s[n]
    <3>1. LastIsReplaced(s, n, x, v)
      BY <1>2, <1>3, <1>5 DEF LastIsReplaced
    <3> HIDE DEF v, x, n
    <3>2. /\ IsSeq(v) /\ Len(v) = n
          /\ \A i \in 1 .. n : v[i] = (IF i = n THEN x ELSE s[i])
      BY <1>1, <3>1, LastReplaced
    <3> QED
      BY <3>2 DEF x
  <2> HIDE DEF v, n
  <2>2. \A i \in 1 .. n : v[i] = s[i]
    BY <2>1
  <2>3. v = s
    BY <1>1, <2>1, <2>2, SeqsEqual DEF n
  <2> QED
    BY <2>3 DEF v
<1> QED
  BY <1>2, <1>5, <1>7, <1>8, <1>9, <1>10, <1>11

LEMMA OperationsLead ==
    ASSUME NEW e, NEW st, NEW ts
    PROVE  /\ e.type = "add_operation" =>
                (Leads(e, st, ts) <=>
                    /\ e.operation \in Operation
                    /\ ts = WithOperations(st, Append(st.operations, e.operation)))
           /\ e.type = "update_last" =>
                (Leads(e, st, ts) <=>
                    /\ st.operations # <<>> /\ e.rect \in Rects
                    /\ ts = WithOperations(st, WithRect(st.operations, e.rect)))
           /\ e.type = "pop_last" =>
                (Leads(e, st, ts) <=>
                    /\ st.operations # <<>>
                    /\ ts = WithOperations(st, Front(st.operations)))
BY DEF Leads, LeadsItem, LeadsLayout, LeadsSelection, WithOperations, WithRect

LEMMA PushedFields ==
    ASSUME NEW c, Good(c), NEW b, NEW st, PushedTo(c, b, st)
    PROVE  /\ DOMAIN b = Fields /\ b.items = c.items /\ b.keys = c.keys
           /\ b.initial = c.initial /\ b.operations = c.operations
           /\ KeyIndexSet(b) = KeyIndexSet(c) /\ Ids(b) = Ids(c)
<1>1. Sound(c) /\ Pushing(c, b, b[Tracked(c)])
  BY DEF Good, PushedTo
<1>2. /\ DOMAIN b = Fields /\ b.items = c.items /\ b.keys = c.keys
      /\ b.initial = c.initial /\ b.operations = c.operations
  BY <1>1, TrackedReplaced
<1> QED
  BY <1>2 DEF KeyIndexSet, Ids

\* Entries were pushed, and then the selection was set.
LEMMA PushedSelection ==
    ASSUME NEW c, Good(c), NEW b, NEW ts, PushedTo(c, b, ts), NEW d, Sound(d),
           SelectionIsSet(b, d), ts = Selecting(c, d.initial, d.operations)
    PROVE  Rewinds(c, d) /\ State(d) = ts
<1>1. Sound(c) /\ Pushing(c, b, b[Tracked(c)])
  BY DEF Good, PushedTo
<1>2. SelectionChanged(c, d) /\ d[Tracked(c)] = b[Tracked(c)]
  BY <1>1, SelectionSet
<1>3. Rewound(c[Tracked(c)], State(c), d[Tracked(c)], ts)
  BY <1>2 DEF PushedTo
<1> QED
  BY <1>2, <1>3, SelectionRewinds

LEMMA SelectingOperations ==
    ASSUME NEW c, Good(c), NEW operations
    PROVE  Selecting(c, c.initial, operations) = WithOperations(State(c), operations)
<1>1. KeysOf(c, c.initial) = State(c).selected
  BY DEF State
<1>2. WithSelected(State(c), State(c).selected) = State(c)
  BY StateIsState, WithSelectedState
<1> QED
  BY <1>1, <1>2 DEF Selecting

LEMMA AddRectRewinds ==
    ASSUME NEW c, Good(c), NEW op \in Operation
    PROVE  /\ Rewinds(c, AddVisibleSelectionRect(c, op))
           /\ State(AddVisibleSelectionRect(c, op))
                = WithOperations(State(c), Append(c.operations, op))
<1> DEFINE e == [type |-> "pop_last"]
           b == PushEntry(c, e)
           d == AddVisibleSelectionRect(c, op)
           ts == WithOperations(State(c), Append(c.operations, op))
<1>1. /\ Sound(c) /\ Sound(d) /\ IsSeq(c.operations) /\ IsState(State(c))
      /\ State(c).operations = c.operations
  BY AddRectKeeps, StateIsState, StateItems DEF Good, Kept, Sound, Shape, OperationsOK
<1>2. /\ ts.operations = Append(c.operations, op)
      /\ \A other : WithOperations(ts, other) = WithOperations(State(c), other)
      /\ WithOperations(State(c), c.operations) = State(c)
  <2> DEFINE st == State(c)
             operations == Append(c.operations, op)
  <2>1. ts = WithOperations(st, operations) /\ IsState(st)
    BY <1>1
  <2>2. WithOperations(st, st.operations) = st
    BY StateIsState, WithOperationsState
  <2> HIDE DEF ts, st, operations
  <2>3. /\ ts.operations = operations
        /\ \A other : WithOperations(ts, other) = WithOperations(st, other)
    BY <2>1, WithOperationsState
  <2> QED
    BY <1>1, <2>2, <2>3 DEF st, operations
<1>3. /\ e.type = "pop_last" /\ e.type # "new_group" /\ EntryOK(e)
      /\ d = [b EXCEPT !.operations = Append(@, op), !.cached = {}]
  BY DEF EntryOK, EntryTypes, SelectionEntryTypes, AddVisibleSelectionRect
<1> HIDE DEF e, ts, d
<1>4. Leads(e, ts, State(c))
  <2>1. ts.operations # <<>> /\ Front(ts.operations) = c.operations
    BY <1>1, <1>2, FrontOfAppended
  <2>2. State(c) = WithOperations(ts, Front(ts.operations))
    BY <1>2, <2>1
  <2> QED
    BY <1>3, <2>1, <2>2, OperationsLead
<1>5. PushedTo(c, b, ts)
  BY <1>3, <1>4, PushedSelf, PushedEntry
<1> HIDE DEF b
<1>6. DOMAIN b = Fields /\ b.initial = c.initial /\ b.operations = c.operations
  BY <1>5, PushedFields
<1>7. SelectionIsSet(b, d) /\ d.initial = c.initial /\ d.operations = Append(c.operations, op)
  BY <1>3, <1>6 DEF SelectionIsSet, Fields
<1>8. ts = Selecting(c, d.initial, d.operations)
  <2>1. Selecting(c, c.initial, Append(c.operations, op)) = ts
    BY SelectingOperations DEF ts
  <2> QED
    BY <1>7, <2>1
<1>9. Rewinds(c, d) /\ State(d) = ts
  <2>1. SelectionIsSet(b, d) /\ Sound(d)
    BY <1>1, <1>7
  <2> QED
    BY <1>5, <1>8, <2>1, PushedSelection
<1> QED
  BY <1>9 DEF d, ts

\* The operations but the last one, which is all that its rectangle matters to.
LEMMA UpdatedState ==
    ASSUME NEW st, IsState(st), OperationsOK(st.operations), st.operations # <<>>,
           NEW r \in Rects, NEW us, us = WithOperations(st, WithRect(st.operations, r))
    PROVE  /\ IsState(us) /\ OperationsOK(us.operations) /\ us.operations # <<>>
           /\ WithOperations(us, Front(us.operations))
                = WithOperations(st, Front(st.operations))
<1>1. /\ IsState(us) /\ us.operations = WithRect(st.operations, r)
      /\ \A other : WithOperations(us, other) = WithOperations(st, other)
  BY WithOperationsState
<1>2. /\ OperationsOK(us.operations) /\ us.operations # <<>>
      /\ Front(us.operations) = Front(st.operations)
  BY <1>1, WithRectSeq
<1> QED
  BY <1>1, <1>2

\* Where the last operation was added, its updates come after.
LEMMA LastOperation ==
    ASSUME NEW s, IsSeq(s), NEW last,
           last = SelectLastInSeq(s, LAMBDA e : e.type # "update_last")
    PROVE  /\ last \in 0 .. Len(s) /\ Len(s) \in Nat
           /\ \A i \in 1 .. Len(s) : i > last => s[i].type = "update_last"
<1> DEFINE I == {i \in 1 .. Len(s) : s[i].type # "update_last"}
<1>1. Len(s) \in Nat
  BY DEF IsSeq
<1>2. last = IF I # {} THEN Max(I) ELSE 0
  BY DEF SelectLastInSeq
<1>3. I \in SUBSET (1 .. Len(s))
  OBVIOUS
<1>4. \A i \in 1 .. Len(s) : i \notin I => s[i].type = "update_last"
  OBVIOUS
<1> HIDE DEF I
<1>5. I # {} => (Max(I) \in I /\ \A k \in I : k <= Max(I))
  BY <1>1, <1>3, Greatest
<1>6. CASE I = {}
  <2>1. last = 0
    BY <1>2, <1>6
  <2> QED
    BY <1>1, <1>4, <1>6, <2>1
<1>7. CASE I # {}
  <2>1. last \in I /\ \A k \in I : k <= last
    BY <1>2, <1>5, <1>7
  <2>2. last \in 1 .. Len(s)
    BY <1>3, <2>1
  <2>3. \A i \in 1 .. Len(s) : i > last => i \notin I
    BY <2>1, <2>2
  <2> QED
    BY <1>1, <1>4, <2>2, <2>3
<1> QED
  BY <1>6, <1>7

\* The entry that takes the operation away is dropped, with all that update it.
LEMMA OperationDropped ==
    ASSUME NEW s, IsSeq(s), NEW n \in 1 .. Len(s), s[n].type = "pop_last",
           \A i \in 1 .. Len(s) : i > n => s[i].type = "update_last",
           NEW st, IsState(st), OperationsOK(st.operations), st.operations # <<>>,
           NEW ts, ts = WithOperations(st, Front(st.operations)),
           NEW t, t = SubSeq(s, 1, n - 1)
    PROVE  IsSeq(t) /\ Rewound(s, st, t, ts)
<1> DEFINE m == Len(s)
<1>1. m \in Nat /\ n \in 1 .. m
  BY DEF IsSeq
<1>2. /\ IsSeq(t) /\ Len(t) = n - 1
      /\ \A i \in 1 .. (n - 1) : t[i] = s[i]
  <2>1. 1 \in 1 .. (Len(s) + 1) /\ n - 1 \in 0 .. Len(s)
    BY <1>1
  <2>2. /\ IsSeq(t)
        /\ Len(t) = IF 1 <= n - 1 THEN (n - 1) - 1 + 1 ELSE 0
        /\ \A i \in 1 .. ((n - 1) - 1 + 1) : t[i] = s[1 + i - 1]
    BY <2>1, SubSeqSeq
  <2>3. /\ (IF 1 <= n - 1 THEN (n - 1) - 1 + 1 ELSE 0) = n - 1
        /\ (n - 1) - 1 + 1 = n - 1
        /\ \A i \in 1 .. (n - 1) : 1 + i - 1 = i
    BY <1>1
  <2> QED
    BY <2>2, <2>3
<1> SUFFICES ASSUME NEW f, NEW b, Arrives(s, f, st), Bottom(s, b)
             PROVE  \E h : Arrives(t, h, ts) /\ SameBelow(s, f, t, h, b)
  BY <1>2 DEF Rewound
<1>3. PathOn(s, f) /\ f[m] = st /\ \A i \in 1 .. m : Leads(s[i], f[i], f[i - 1])
  BY DEF Arrives, PathOn
<1>4. b \in 0 .. (n - 1)
  <2>1. b \in 0 .. m /\ (b = 0 \/ s[b].type = "new_group")
    BY DEF Bottom
  <2>2. \A i \in 1 .. m : i > n => s[i].type # "new_group"
    OBVIOUS
  <2>3. ~(b > n) /\ b # n
    BY <1>1, <2>1, <2>2
  <2> HIDE DEF m
  <2> QED
    BY <1>1, <2>1, <2>3
<1> DEFINE Q(x) == /\ IsState(x) /\ OperationsOK(x.operations) /\ x.operations # <<>>
                   /\ WithOperations(x, Front(x.operations)) = ts
           P == {k \in 0 .. (m - n) : Q(f[m - k])}
<1>5. 0 \in P
  <2>1. m - 0 = m /\ 0 \in 0 .. (m - n)
    BY <1>1
  <2> QED
    BY <1>3, <2>1
<1>6. ASSUME NEW k \in 1 .. (m - n), k - 1 \in P PROVE k \in P
  <2> DEFINE i == m - (k - 1)
  <2>1. i \in 1 .. m /\ i > n /\ i - 1 = m - k /\ k \in 0 .. (m - n)
    BY <1>1
  <2>2. Q(f[i])
    BY <1>6
  <2> HIDE DEF i, m
  <2>3. s[i].type = "update_last" /\ Leads(s[i], f[i], f[i - 1])
    BY <1>3, <2>1 DEF m
  <2>4. /\ s[i].rect \in Rects
        /\ f[i - 1] = WithOperations(f[i], WithRect(f[i].operations, s[i].rect))
    BY <2>3, OperationsLead
  <2>5. Q(f[i - 1])
    BY <2>2, <2>4, UpdatedState
  <2> HIDE DEF Q
  <2> QED
    BY <2>1, <2>5
<1>7. P \in SUBSET (0 .. (m - n))
  OBVIOUS
<1>8. \A k \in P : Q(f[m - k])
  OBVIOUS
<1> HIDE DEF P, m, Q
<1>9. P = 0 .. (m - n)
  <2> DEFINE l == m - n
  <2>1. l \in Nat
    BY <1>1
  <2> HIDE DEF l
  <2> QED
    BY <1>5, <1>6, <1>7, <2>1, AllRounds DEF l
<1>10. Q(f[n])
  <2>1. m - n \in 0 .. (m - n) /\ m - (m - n) = n
    BY <1>1
  <2> QED
    BY <1>8, <1>9, <2>1
<1>11. f[n - 1] = ts
  <2>1. Leads(s[n], f[n], f[n - 1])
    BY <1>1, <1>3
  <2>2. f[n - 1] = WithOperations(f[n], Front(f[n].operations))
    BY <2>1, OperationsLead
  <2> QED
    BY <1>10, <2>2 DEF Q
<1>12. n - 1 \in 0 .. Len(s)
  BY <1>1 DEF m
<1>13. \E h : Arrives(t, h, f[n - 1]) /\ SameBelow(s, f, t, h, b)
  BY <1>2, <1>3, <1>4, <1>12, PathCut
<1> QED
  BY <1>11, <1>13

\* The last operation is taken away.
LEMMA PushedAddOperation ==
    ASSUME NEW c, Good(c), NEW b, NEW st, PushedTo(c, b, st), IsState(st),
           OperationsOK(st.operations), st.operations # <<>>,
           NEW d, d = PushAddOperation(b, Last(st.operations)),
           NEW ts, ts = WithOperations(st, Front(st.operations))
    PROVE  PushedTo(c, d, ts)
<1> DEFINE op == Last(st.operations)
           e == [type |-> "add_operation", operation |-> op]
           s == b[Tracked(c)]
           last == SelectLastInSeq(s, LAMBDA x : x.type # "update_last")
           t == IF last # 0 /\ s[last].type = "pop_last" THEN SubSeq(s, 1, last - 1)
                ELSE Append(s, e)
<1>1. Sound(b) /\ Tracked(b) = Tracked(c) /\ IsSeq(s)
  BY PushedTracked
<1>2. op \in Operation /\ IsSeq(st.operations)
  BY PoppedOperation DEF OperationsOK
<1>3. Pushing(b, d, t)
  <2>1. b.history # "disabled"
    BY <1>1 DEF Sound, Shape
  <2>2. PushAddOperation(b, op) = IF b.history = "disabled" THEN b
                                  ELSE [b EXCEPT ![Tracked(b)] = t]
    BY <1>1 DEF PushAddOperation, Record
  <2> HIDE DEF t
  <2> QED
    BY <2>1, <2>2 DEF Pushing
<1>4. Sound(d)
  BY <1>1, <1>2, PushAddOperationKeeps, StacksKeepSound
<1>5. e.type = "add_operation" /\ e.operation = op /\ e.type # "new_group"
  OBVIOUS
<1>6. /\ last \in 0 .. Len(s) /\ Len(s) \in Nat
      /\ \A i \in 1 .. Len(s) : i > last => s[i].type = "update_last"
  BY <1>1, LastOperation
<1>7. t = IF last # 0 /\ s[last].type = "pop_last" THEN SubSeq(s, 1, last - 1)
          ELSE Append(s, e)
  OBVIOUS
<1> HIDE DEF e, last, t, s
<1>8. IsSeq(t) /\ Rewound(s, st, t, ts)
  <2>1. CASE last # 0 /\ s[last].type = "pop_last"
    <3>1. last \in 1 .. Len(s) /\ t = SubSeq(s, 1, last - 1)
      BY <1>6, <1>7, <2>1
    <3> QED
      BY <1>1, <1>6, <2>1, <3>1, OperationDropped
  <2>2. CASE ~(last # 0 /\ s[last].type = "pop_last")
    <3>1. t = Append(s, e)
      BY <1>7, <2>2
    <3>2. Leads(e, ts, st)
      <4>1. /\ ts.operations = Front(st.operations)
            /\ \A other : WithOperations(ts, other) = WithOperations(st, other)
            /\ WithOperations(st, st.operations) = st
        BY WithOperationsState
      <4>2. Append(Front(st.operations), op) = st.operations
        BY <1>2, AppendedToFront
      <4>3. st = WithOperations(ts, Append(ts.operations, e.operation))
        BY <1>5, <4>1, <4>2
      <4> QED
        BY <1>2, <1>5, <4>3, OperationsLead
    <3> QED
      BY <1>1, <1>5, <3>1, <3>2, AppendSeq, RewoundAppend
  <2> QED
    BY <2>1, <2>2
<1> QED
  BY <1>3, <1>4, <1>8, PushedOn DEF s

LEMMA PopLastRewinds ==
    ASSUME NEW c, Good(c), c.operations # <<>>
    PROVE  /\ Rewinds(c, PopLastVisibleSelectionRect(c))
           /\ State(PopLastVisibleSelectionRect(c))
                = WithOperations(State(c), Front(c.operations))
<1> DEFINE b == PushAddOperation(c, Last(c.operations))
           d == PopLastVisibleSelectionRect(c)
           ts == WithOperations(State(c), Front(c.operations))
<1>1. /\ Sound(c) /\ Sound(d) /\ OperationsOK(c.operations) /\ IsState(State(c))
      /\ State(c).operations = c.operations
  BY PopLastKeeps, StateIsState, StateItems DEF Good, Kept, Sound, Shape
<1>2. d = [b EXCEPT !.operations = Front(@), !.cached = {}]
  BY DEF PopLastVisibleSelectionRect
<1>3. PushedTo(c, b, ts)
  <2> DEFINE st == State(c)
  <2>1. PushedTo(c, c, st) /\ IsState(st) /\ OperationsOK(st.operations) /\ st.operations # <<>>
    BY <1>1, PushedSelf
  <2>2. b = PushAddOperation(c, Last(st.operations))
    BY <1>1
  <2>3. ts = WithOperations(st, Front(st.operations))
    BY <1>1
  <2> HIDE DEF b, st, ts
  <2> QED
    BY <2>1, <2>2, <2>3, PushedAddOperation
<1> HIDE DEF b, d
<1>4. DOMAIN b = Fields /\ b.initial = c.initial /\ b.operations = c.operations
  BY <1>3, PushedFields
<1>5. SelectionIsSet(b, d) /\ d.initial = c.initial /\ d.operations = Front(c.operations)
  BY <1>2, <1>4 DEF SelectionIsSet, Fields
<1>6. ts = Selecting(c, d.initial, d.operations)
  <2>1. Selecting(c, c.initial, Front(c.operations)) = ts
    BY SelectingOperations
  <2> QED
    BY <1>5, <2>1
<1> HIDE DEF ts
<1>7. Rewinds(c, d) /\ State(d) = ts
  <2>1. SelectionIsSet(b, d) /\ Sound(d)
    BY <1>1, <1>5
  <2> QED
    BY <1>3, <1>6, <2>1, PushedSelection
<1> QED
  BY <1>7 DEF d, ts

\* The first update of an operation in a group says what it was.
LEMMA PushedUpdateLast ==
    ASSUME NEW c, Good(c), NEW st, st = State(c), NEW operations, operations = c.operations,
           operations # <<>>, NEW rect \in Rects,
           NEW ts, ts = WithOperations(st, WithRect(operations, rect)),
           NEW b, b = PushUpdateLast(c, Last(operations).rect)
    PROVE  PushedTo(c, b, ts)
<1> DEFINE s == c[Tracked(c)]
           e == [type |-> "update_last", rect |-> Last(operations).rect]
           t == IF s # <<>> /\ Last(s).type = "update_last" THEN s ELSE Append(s, e)
<1>1. /\ Sound(c) /\ IsSeq(s) /\ IsState(st) /\ OperationsOK(operations)
      /\ st.operations = operations
  BY StackSeq, StateIsState, StateItems DEF Good, Sound, Shape
<1>2. /\ IsState(ts) /\ ts.operations = WithRect(operations, rect)
      /\ \A other : WithOperations(ts, other) = WithOperations(st, other)
      /\ WithOperations(st, operations) = st
  BY <1>1, WithOperationsState
<1>3. /\ ts.operations # <<>> /\ Last(operations).rect \in Rects
      /\ \A q \in Rects : WithRect(ts.operations, q) = WithRect(operations, q)
      /\ WithRect(operations, Last(operations).rect) = operations
  BY <1>1, <1>2, WithRectSeq
<1>4. Pushing(c, b, t)
  <2>1. c.history # "disabled"
    BY <1>1 DEF Sound, Shape
  <2>2. b = IF c.history = "disabled" THEN c ELSE [c EXCEPT ![Tracked(c)] = t]
    BY DEF PushUpdateLast, Record
  <2> HIDE DEF t
  <2> QED
    BY <2>1, <2>2 DEF Pushing
<1>5. Sound(b)
  BY <1>1, <1>3, PushUpdateLastKeeps, StacksKeepSound
<1>6. /\ e.type = "update_last" /\ e.rect = Last(operations).rect /\ e.type # "new_group"
      /\ "update_last" # "new_group"
      /\ t = IF s # <<>> /\ Last(s).type = "update_last" THEN s ELSE Append(s, e)
  OBVIOUS
<1> HIDE DEF e, t, s
<1>7. IsSeq(t) /\ Rewound(s, st, t, ts)
  <2>1. CASE s # <<>> /\ Last(s).type = "update_last"
    <3>1. ASSUME NEW x, Leads(Last(s), st, x) PROVE Leads(Last(s), ts, x)
      <4>1. /\ Last(s).rect \in Rects
            /\ x = WithOperations(st, WithRect(st.operations, Last(s).rect))
        BY <2>1, <3>1, OperationsLead
      <4>2. x = WithOperations(ts, WithRect(ts.operations, Last(s).rect))
        BY <1>1, <1>2, <1>3, <4>1
      <4> QED
        BY <1>3, <2>1, <4>1, <4>2, OperationsLead
    <3> QED
      BY <1>1, <1>6, <2>1, <3>1, RewoundKept
  <2>2. CASE ~(s # <<>> /\ Last(s).type = "update_last")
    <3>1. t = Append(s, e)
      BY <1>6, <2>2
    <3>2. st = WithOperations(ts, WithRect(ts.operations, e.rect))
      BY <1>2, <1>3, <1>6
    <3>3. Leads(e, ts, st)
      BY <1>3, <1>6, <3>2, OperationsLead
    <3> QED
      BY <1>1, <1>6, <3>1, <3>3, AppendSeq, RewoundAppend
  <2> QED
    BY <2>1, <2>2
<1> QED
  BY <1>4, <1>5, <1>7, PushedSelf, PushedOn DEF s

LEMMA UpdateLastRewinds ==
    ASSUME NEW c, Good(c), c.operations # <<>>, NEW rect \in Rects
    PROVE  /\ Rewinds(c, UpdateLastVisibleSelectionRect(c, rect))
           /\ State(UpdateLastVisibleSelectionRect(c, rect))
                = WithOperations(State(c), WithRect(c.operations, rect))
<1> DEFINE b == PushUpdateLast(c, Last(c.operations).rect)
           d == UpdateLastVisibleSelectionRect(c, rect)
           operations == WithRect(c.operations, rect)
           ts == WithOperations(State(c), operations)
<1>1. Sound(c) /\ Sound(d)
  BY UpdateLastKeeps DEF Good, Kept
<1>2. d = [b EXCEPT !.operations[Len(c.operations)].rect = rect,
                    !.cached = IF rect = Last(c.operations).rect THEN @ ELSE {}]
  BY DEF UpdateLastVisibleSelectionRect
<1>3. PushedTo(c, b, ts)
  BY PushedUpdateLast
<1> HIDE DEF b, d
<1>4. DOMAIN b = Fields /\ b.initial = c.initial /\ b.operations = c.operations
  BY <1>3, PushedFields
<1>5. SelectionIsSet(b, d) /\ d.initial = c.initial /\ d.operations = operations
  BY <1>2, <1>4 DEF SelectionIsSet, Fields, WithRect
<1>6. ts = Selecting(c, d.initial, d.operations)
  <2>1. Selecting(c, c.initial, operations) = ts
    BY SelectingOperations
  <2> QED
    BY <1>5, <2>1
<1> HIDE DEF ts, operations
<1>7. Rewinds(c, d) /\ State(d) = ts
  <2>1. SelectionIsSet(b, d) /\ Sound(d)
    BY <1>1, <1>5
  <2> QED
    BY <1>3, <1>6, <2>1, PushedSelection
<1> QED
  BY <1>7 DEF d, ts, operations

-----------------------------------------------------------------------------
(***************************************************************************)
(* Another visible selection.                                              *)
(***************************************************************************)

LEMMA SelectionLeads ==
    ASSUME NEW e, NEW st, NEW ts
    PROVE  /\ e.type = "clear" =>
                (Leads(e, st, ts) <=> st.operations = <<>> /\ ts = WithSelected(st, {}))
           /\ e.type = "set" =>
                (Leads(e, st, ts) <=> /\ st.operations = <<>>
                                      /\ e.keys \subseteq DOMAIN st.items
                                      /\ ts = WithSelected(st, e.keys))
           /\ e.type = "select_all" =>
                (Leads(e, st, ts) <=> /\ st.operations = <<>>
                                      /\ ts = WithSelected(st, DOMAIN st.items))
BY DEF Leads, LeadsItem, LeadsLayout, LeadsSelection, WithSelected

LEMMA OneOnly ==
    ASSUME NEW c, Sound(c), NEW ids, ids \subseteq DOMAIN c.items, IsSingle(ids)
    PROVE  \E x \in DOMAIN c.items : ids = {x} /\ KeyOf(c, ids) = c.keys[x]
<1>1. Len(c.items) \in Nat /\ DOMAIN c.items = 1 .. Len(c.items)
  BY ItemIds
<1>2. IsFiniteSet(DOMAIN c.items)
  BY <1>1, FS_Interval
<1>3. IsFiniteSet(ids)
  BY <1>2, FS_Subset
<1>4. PICK x : ids = {x}
  BY <1>3, FS_Singleton DEF IsSingle
<1>5. x \in DOMAIN c.items
  BY <1>4
<1>6. (CHOOSE id \in ids : TRUE) = x
  BY <1>4
<1> QED
  BY <1>4, <1>5, <1>6 DEF KeyOf

\* The entry that selects what was selected is pushed.
LEMMA PushedInitial ==
    ASSUME NEW c, Good(c), NEW b, NEW st, PushedTo(c, b, st), IsState(st),
           st.operations = <<>>, st.selected = KeysOf(c, c.initial),
           DOMAIN st.items = KeyIndexSet(c), NEW ids, ids \subseteq DOMAIN c.items,
           NEW ts, ts = WithSelected(st, KeysOf(c, ids)),
           NEW d, d = PushInitialSelection(b, ids)
    PROVE  PushedTo(c, d, ts)
<1> DEFINE old == c.initial
           all == [type |-> "select_all"]
           clear == [type |-> "clear"]
           set == [type |-> "set", keys |-> KeysOf(c, old)]
<1>1. /\ Sound(c) /\ old \subseteq DOMAIN c.items /\ Ids(c) = DOMAIN c.items
      /\ KeyIndexSet(c) = {c.keys[id] : id \in DOMAIN c.items}
  BY ItemIds, StateItems DEF Good, Sound, Shape
<1>2. /\ b.initial = old /\ b.keys = c.keys /\ Ids(b) = Ids(c)
      /\ KeysOf(b, old) = KeysOf(c, old) /\ KeyOf(b, ids) = KeyOf(c, ids)
      /\ KeyOf(b, old) = KeyOf(c, old)
  BY PushedFields DEF KeysOf, KeyOf
<1>3. /\ IsState(ts) /\ ts.items = st.items /\ ts.selected = KeysOf(c, ids)
      /\ ts.operations = <<>>
      /\ \A other : WithSelected(ts, other) = WithSelected(st, other)
      /\ KeysOf(c, ids) = st.selected => ts = st
  BY WithSelectedState
<1>4. WithSelected(st, KeysOf(c, old)) = st
  BY WithSelectedState
<1>5. WithSelected(ts, KeysOf(c, old)) = st
  BY <1>3, <1>4
<1>6. /\ all.type = "select_all" /\ clear.type = "clear" /\ set.type = "set"
      /\ set.keys = KeysOf(c, old)
      /\ EntryOK(all) /\ EntryOK(clear) /\ EntryOK(set)
  BY DEF EntryOK, EntryTypes, SelectionEntryTypes
<1>7. KeysOf(c, {}) = {} /\ KeysOf(c, DOMAIN c.items) = KeyIndexSet(c)
      /\ \A x \in DOMAIN c.items : KeysOf(c, {x}) = {c.keys[x]} /\ c.keys[x] \in KeyIndexSet(c)
  BY <1>1 DEF KeysOf
<1> HIDE DEF all, clear, set
<1>8. CASE old = ids
  <2>1. d = b
    BY <1>2, <1>8, NotSingle DEF PushInitialSelection
  <2> QED
    BY <1>3, <1>8, <2>1
<1>9. CASE old # ids /\ old = {} /\ IsSingle(ids)
  <2> DEFINE key == KeyOf(c, ids)
             e == Entry("remove_visible", key)
  <2>1. KeysOf(c, ids) = {key} /\ key \in KeyIndexSet(c)
    <3>1. PICK x \in DOMAIN c.items : ids = {x} /\ KeyOf(c, ids) = c.keys[x]
      BY <1>1, <1>9, OneOnly
    <3> QED
      BY <1>7, <3>1
  <2>2. d = PushOrCancel(b, e, "add_visible")
    BY <1>2, <1>9 DEF PushInitialSelection, PushRemoveVisible
  <2>3. /\ e.type = "remove_visible" /\ e.key = key /\ e.type # "new_group" /\ EntryOK(e)
        /\ "add_visible" # "new_group"
    BY DEF Entry, EntryOK, EntryTypes
  <2> HIDE DEF e, key
  <2>4. ts.selected \ {key} = KeysOf(c, old)
    BY <1>3, <1>7, <1>9, <2>1
  <2>5. Leads(e, ts, st)
    <3>1. e.key \in DOMAIN ts.items /\ st = WithSelected(ts, ts.selected \ {e.key})
      BY <1>3, <1>5, <2>1, <2>3, <2>4
    <3> QED
      BY <2>3, <3>1, VisibleLead
  <2>6. st.selected \cup {key} = KeysOf(c, ids)
    BY <1>7, <1>9, <2>1
  <2>7. \A top, x : (/\ top.type = "add_visible" /\ top.key = e.key
                     /\ Leads(top, st, x)) => x = ts
    BY <2>3, <2>6, VisibleLead
  <2> QED
    BY <2>2, <2>3, <2>5, <2>7, PushedOrCancelled
<1>10. CASE old # ids /\ old = {} /\ ~IsSingle(ids)
  <2>1. d = PushEntry(b, clear)
    BY <1>2, <1>10 DEF PushInitialSelection, clear
  <2>2. Leads(clear, ts, st)
    BY <1>3, <1>5, <1>6, <1>7, <1>10, SelectionLeads
  <2> QED
    BY <1>6, <2>1, <2>2, PushedEntry
<1>11. CASE old # ids /\ ids = {} /\ IsSingle(old)
  <2> DEFINE key == KeyOf(c, old)
             e == Entry("add_visible", key)
  <2>1. KeysOf(c, old) = {key} /\ key \in KeyIndexSet(c)
    <3>1. PICK x \in DOMAIN c.items : old = {x} /\ KeyOf(c, old) = c.keys[x]
      BY <1>1, <1>11, OneOnly
    <3> QED
      BY <1>7, <3>1
  <2>2. d = PushOrCancel(b, e, "remove_visible")
    BY <1>2, <1>11 DEF PushInitialSelection, PushAddVisible
  <2>3. /\ e.type = "add_visible" /\ e.key = key /\ e.type # "new_group" /\ EntryOK(e)
        /\ "remove_visible" # "new_group"
    BY DEF Entry, EntryOK, EntryTypes
  <2> HIDE DEF e, key
  <2>4. ts.selected \cup {key} = KeysOf(c, old)
    BY <1>3, <1>7, <1>11, <2>1
  <2>5. Leads(e, ts, st)
    <3>1. e.key \in DOMAIN ts.items /\ st = WithSelected(ts, ts.selected \cup {e.key})
      BY <1>3, <1>5, <2>1, <2>3, <2>4
    <3> QED
      BY <2>3, <3>1, VisibleLead
  <2>6. st.selected \ {key} = KeysOf(c, ids)
    BY <1>7, <1>11, <2>1
  <2>7. \A top, x : (/\ top.type = "remove_visible" /\ top.key = e.key
                     /\ Leads(top, st, x)) => x = ts
    BY <2>3, <2>6, VisibleLead
  <2> QED
    BY <2>2, <2>3, <2>5, <2>7, PushedOrCancelled
<1>12. CASE old # ids /\ old # {} /\ ~(ids = {} /\ IsSingle(old))
  <2>1. d = PushEntry(b, IF old = Ids(c) THEN all ELSE set)
    BY <1>2, <1>12 DEF PushInitialSelection, all, set
  <2>2. CASE old = Ids(c)
    <3>1. d = PushEntry(b, all)
      BY <2>1, <2>2
    <3>2. KeysOf(c, old) = DOMAIN ts.items
      BY <1>1, <1>3, <1>7, <2>2
    <3>3. Leads(all, ts, st)
      BY <1>3, <1>5, <1>6, <3>2, SelectionLeads
    <3> QED
      BY <1>6, <3>1, <3>3, PushedEntry
  <2>3. CASE old # Ids(c)
    <3>1. d = PushEntry(b, set)
      BY <2>1, <2>3
    <3>2. KeysOf(c, old) \subseteq DOMAIN ts.items
      BY <1>1, <1>3 DEF KeysOf
    <3>3. Leads(set, ts, st)
      BY <1>3, <1>5, <1>6, <3>2, SelectionLeads
    <3> QED
      BY <1>6, <3>1, <3>3, PushedEntry
  <2> QED
    BY <2>2, <2>3
<1> QED
  BY <1>8, <1>9, <1>10, <1>11, <1>12

LEMMA FrontIsPrefix ==
    ASSUME NEW s, IsSeq(s), NEW k \in 1 .. Len(s)
    PROVE  LET t == SubSeq(s, 1, k) IN
           /\ IsSeq(t) /\ t # <<>> /\ Last(t) = s[k] /\ Front(t) = SubSeq(s, 1, k - 1)
<1> DEFINE t == SubSeq(s, 1, k)
           u == SubSeq(s, 1, k - 1)
<1>1. Len(s) \in Nat /\ 1 \in 1 .. (Len(s) + 1) /\ k \in 0 .. Len(s) /\ k - 1 \in 0 .. Len(s)
  BY DEF IsSeq
<1>2. /\ IsSeq(t) /\ Len(t) = IF 1 <= k THEN k - 1 + 1 ELSE 0
      /\ \A i \in 1 .. (k - 1 + 1) : t[i] = s[1 + i - 1]
      /\ IsSeq(u) /\ Len(u) = IF 1 <= k - 1 THEN (k - 1) - 1 + 1 ELSE 0
      /\ \A i \in 1 .. ((k - 1) - 1 + 1) : u[i] = s[1 + i - 1]
  BY <1>1, SubSeqSeq
<1> HIDE DEF t, u
<1>3. /\ IsSeq(t) /\ Len(t) = k /\ \A i \in 1 .. k : t[i] = s[i]
  BY <1>1, <1>2
<1>4. /\ IsSeq(u) /\ Len(u) = k - 1 /\ \A i \in 1 .. (k - 1) : u[i] = s[i]
  BY <1>1, <1>2
<1>5. t # <<>> /\ Last(t) = s[k]
  BY <1>1, <1>3, EmptySeq DEF Last
<1>6. /\ IsSeq(Front(t)) /\ Len(Front(t)) = Len(t) - 1
      /\ \A i \in 1 .. (Len(t) - 1) : Front(t)[i] = t[i]
  BY <1>3, <1>5, FrontSeq
<1>7. \A i \in 1 .. (k - 1) : Front(t)[i] = u[i]
  <2>1. \A i \in 1 .. (k - 1) : i \in 1 .. k
    BY <1>1
  <2> QED
    BY <1>3, <1>4, <1>6, <2>1
<1>8. Front(t) = u
  BY <1>3, <1>4, <1>6, <1>7, SeqsEqual
<1> QED
  BY <1>3, <1>5, <1>8 DEF t, u

LEMMA WholeIsPrefix ==
    ASSUME NEW s, IsSeq(s)
    PROVE  SubSeq(s, 1, Len(s)) = s /\ SubSeq(s, 1, 0) = <<>>
<1> DEFINE n == Len(s)
           t == SubSeq(s, 1, n)
           u == SubSeq(s, 1, 0)
<1>1. n \in Nat /\ 1 \in 1 .. (Len(s) + 1) /\ n \in 0 .. Len(s) /\ 0 \in 0 .. Len(s)
  BY DEF IsSeq
<1>2. /\ IsSeq(t) /\ Len(t) = IF 1 <= n THEN n - 1 + 1 ELSE 0
      /\ \A i \in 1 .. (n - 1 + 1) : t[i] = s[1 + i - 1]
      /\ IsSeq(u) /\ Len(u) = IF 1 <= 0 THEN 0 - 1 + 1 ELSE 0
  BY <1>1, SubSeqSeq
<1> HIDE DEF t, u, n
<1>3. /\ IsSeq(t) /\ Len(t) = n /\ \A i \in 1 .. n : t[i] = s[i]
  BY <1>1, <1>2
<1>4. t = s
  BY <1>3, SeqsEqual DEF n
<1>5. u = <<>>
  BY <1>2, EmptySeq DEF IsSeq
<1> QED
  BY <1>4, <1>5 DEF t, u, n

\* All operations are taken away, the last one first.
LEMMA PushedAll ==
    ASSUME NEW c, Good(c), NEW st, st = State(c),
           NEW b, b = PushAll(c, Reverse(c.operations))
    PROVE  PushedTo(c, b, WithOperations(st, <<>>))
<1> DEFINE s == c.operations
           n == Len(s)
           r == Reverse(s)
           ts(i) == WithOperations(st, SubSeq(s, 1, n - i))
<1>1. /\ OperationsOK(s) /\ IsSeq(s) /\ IsState(st) /\ st.operations = s
      /\ \A i \in 1 .. n : s[i] \in Operation
  BY StateIsState, StateItems DEF Good, Sound, Shape, OperationsOK
<1>2. /\ n \in Nat /\ IsSeq(r) /\ Len(r) = n
      /\ \A i \in 1 .. n : r[i] = s[(n - i) + 1]
  BY <1>1, ReverseSeq
<1>3. PICK run : PushAll(c, r) = run[Len(r)] /\ PushRounds(run, c, r)
  BY <1>2, PushLoop
<1>4. run[0] = c /\ \A i \in 1 .. n : run[i] = PushAddOperation(run[i - 1], r[i])
  BY <1>2, <1>3 DEF PushRounds
<1> HIDE DEF r, n
<1> DEFINE P == {i \in 0 .. n : PushedTo(c, run[i], ts(i))}
<1>5. 0 \in P
  <2>1. n - 0 = n /\ SubSeq(s, 1, n) = s
    BY <1>1, <1>2, WholeIsPrefix DEF n
  <2>2. WithOperations(st, s) = st
    BY <1>1, WithOperationsState
  <2>3. PushedTo(c, c, st)
    BY PushedSelf
  <2>4. 0 \in 0 .. n
    BY <1>2
  <2> QED
    BY <1>4, <2>1, <2>2, <2>3, <2>4
<1>6. ASSUME NEW i \in 1 .. n, i - 1 \in P PROVE i \in P
  <2> DEFINE k == n - (i - 1)
             us == WithOperations(st, SubSeq(s, 1, k))
             vs == WithOperations(st, SubSeq(s, 1, k - 1))
             x == run[i - 1]
  <2>1. k \in 1 .. n /\ k - 1 = n - i /\ (n - i) + 1 = k /\ i \in 0 .. n
    BY <1>2
  <2>2. PushedTo(c, x, us)
    BY <1>6
  <2>3. run[i] = PushAddOperation(x, s[k])
    BY <1>2, <1>4, <2>1
  <2> HIDE DEF k, x
  <2> DEFINE operations == SubSeq(s, 1, k)
  <2>4. /\ IsSeq(operations) /\ operations # <<>> /\ Last(operations) = s[k]
        /\ Front(operations) = SubSeq(s, 1, k - 1)
    BY <1>1, <2>1, FrontIsPrefix DEF n
  <2>5. OperationsOK(operations)
    <3>1. k \in 0 .. Len(s) /\ k \in 1 .. Len(s) /\ 1 \in 1 .. (Len(s) + 1) /\ Len(s) \in Nat
      BY <1>2, <2>1 DEF n
    <3>2. /\ Len(operations) = IF 1 <= k THEN k - 1 + 1 ELSE 0
          /\ \A j \in 1 .. (k - 1 + 1) : operations[j] = s[1 + j - 1]
      BY <1>1, <3>1, SubSeqSeq
    <3> HIDE DEF operations
    <3>3. Len(operations) = k /\ \A j \in 1 .. k : operations[j] = s[j] /\ j \in 1 .. Len(s)
      BY <3>1, <3>2
    <3> QED
      BY <1>1, <2>4, <3>3 DEF OperationsOK, n
  <2>6. us = WithOperations(st, operations)
    OBVIOUS
  <2>7. vs = WithOperations(st, Front(operations))
    BY <2>4
  <2> HIDE DEF us, vs, operations
  <2>8. /\ IsState(us) /\ us.operations = operations
        /\ \A other : WithOperations(us, other) = WithOperations(st, other)
    BY <1>1, <2>6, WithOperationsState
  <2>9. /\ run[i] = PushAddOperation(x, Last(us.operations)) /\ OperationsOK(us.operations)
        /\ us.operations # <<>> /\ vs = WithOperations(us, Front(us.operations))
    BY <2>3, <2>4, <2>5, <2>7, <2>8
  <2>10. PushedTo(c, run[i], vs)
    BY <2>2, <2>8, <2>9, PushedAddOperation
  <2> QED
    BY <2>1, <2>10 DEF vs
<1>7. P \in SUBSET (0 .. n)
  OBVIOUS
<1>8. \A i \in P : PushedTo(c, run[i], ts(i))
  OBVIOUS
<1> HIDE DEF P
<1>9. P = 0 .. n
  BY <1>2, <1>5, <1>6, <1>7, AllRounds
<1>10. PushedTo(c, run[n], ts(n))
  BY <1>2, <1>8, <1>9
<1>11. n - n = 0 /\ SubSeq(s, 1, 0) = <<>>
  BY <1>1, <1>2, WholeIsPrefix
<1> QED
  BY <1>2, <1>3, <1>10, <1>11 DEF r

\* The items stay, and just these are selected.
SelectsOnly(c, d, ids) ==
    d.items = c.items /\ d.keys = c.keys /\ d.initial = ids /\ d.operations = <<>>

LEMMA SetVisibleSelectionRewinds ==
    ASSUME NEW c, Good(c), NEW ids, ids \subseteq DOMAIN c.items
    PROVE  /\ Rewinds(c, SetVisibleSelection(c, ids))
           /\ State(SetVisibleSelection(c, ids)) = Selecting(c, ids, <<>>)
           /\ State(SetVisibleSelection(c, ids))
                = WithOperations(WithSelected(State(c), KeysOf(c, ids)), <<>>)
           /\ SelectsOnly(c, SetVisibleSelection(c, ids), ids)
<1> DEFINE st == State(c)
           us == WithOperations(st, <<>>)
           ts == WithSelected(us, KeysOf(c, ids))
           a == PushAll(c, Reverse(c.operations))
           b == PushInitialSelection(a, ids)
           d == SetVisibleSelection(c, ids)
<1>1. /\ Sound(c) /\ Sound(d) /\ ids \subseteq Ids(c)
  BY SetVisibleSelectionKeeps, ItemIds DEF Good, Kept
<1>2. d = [b EXCEPT !.initial = ids, !.operations = <<>>, !.cached = {}]
  <2>1. PushVisibleSelection(c, ids) = b
    BY Zenon DEF PushVisibleSelection, PushAll, ForEach
  <2> QED
    BY <1>1, <2>1 DEF SetVisibleSelection
<1>3. PushedTo(c, a, us)
  BY PushedAll
<1>4. /\ IsState(st) /\ st.selected = KeysOf(c, c.initial)
      /\ DOMAIN st.items = KeyIndexSet(c)
  BY <1>1, StateIsState, StateItems DEF State
<1> HIDE DEF st
<1>5. /\ IsState(us) /\ us.operations = <<>> /\ us.selected = KeysOf(c, c.initial)
      /\ DOMAIN us.items = KeyIndexSet(c)
  BY <1>4, WithOperationsState
<1> HIDE DEF a, us, d
<1>6. PushedTo(c, b, ts)
  BY <1>3, <1>5, PushedInitial
<1> HIDE DEF b
<1>7. DOMAIN b = Fields /\ b.items = c.items /\ b.keys = c.keys
  BY <1>6, PushedFields
<1>8. SelectionIsSet(b, d) /\ d.initial = ids /\ d.operations = <<>>
  BY <1>2, <1>7 DEF SelectionIsSet, Fields
<1>9. ts = Selecting(c, d.initial, d.operations)
  <2> DEFINE keys == KeysOf(c, ids)
             vs == WithSelected(st, keys)
             ws == WithOperations(vs, <<>>)
  <2>1. IsState(vs) /\ vs.items = st.items /\ vs.selected = keys
    BY <1>4, WithSelectedState
  <2>2. IsState(ws) /\ ws.items = vs.items /\ ws.selected = vs.selected /\ ws.operations = <<>>
    BY <2>1, WithOperationsState
  <2>3. us.items = st.items
    BY <1>4, WithOperationsState DEF us
  <2>4. IsState(ts) /\ ts.items = us.items /\ ts.selected = keys /\ ts.operations = us.operations
    BY <1>5, WithSelectedState
  <2>5. Selecting(c, ids, <<>>) = ws
    BY DEF Selecting, st
  <2> HIDE DEF ts, ws, vs, keys
  <2>6. ts = ws
    BY <1>5, <2>1, <2>2, <2>3, <2>4, SameStates
  <2> QED
    BY <1>8, <2>5, <2>6
<1> HIDE DEF ts
<1>10. Rewinds(c, d) /\ State(d) = ts
  <2>1. SelectionIsSet(b, d) /\ Sound(d)
    BY <1>1, <1>8
  <2> QED
    BY <1>6, <1>9, <2>1, PushedSelection
<1>11. Selecting(c, ids, <<>>) = ts
  BY <1>8, <1>9
<1>12. SelectsOnly(c, d, ids)
  BY <1>7, <1>8 DEF SelectsOnly, SelectionIsSet
<1> QED
  BY <1>10, <1>11, <1>12 DEF d, Selecting

LEMMA ApplyAllRewinds ==
    ASSUME NEW c, Good(c)
    PROVE  Rewinds(c, ApplyAllVisibleSelectionOperations(c))
<1>1. VisibleSelection(c) \subseteq DOMAIN c.items
  BY ReadSound, SelectionWithin DEF Good
<1> QED
  BY <1>1, RewindsSelf, SetVisibleSelectionRewinds DEF ApplyAllVisibleSelectionOperations

-----------------------------------------------------------------------------
(***************************************************************************)
(* Edits of a whole selection.                                             *)
(***************************************************************************)

\* What an edit of item id does to the other items and to the tracked selection.
ItemStays(c, d, id) ==
    /\ d.stored = c.stored /\ DOMAIN d.items = DOMAIN c.items
    /\ \A j \in DOMAIN c.items \ {id} : d.items[j] = c.items[j]
ItemGoes(c, d, id, n) ==
    /\ DOMAIN c.items = 1 .. n /\ d.stored = StoredAfterDelete(c.stored, id, n)
    /\ DOMAIN d.items = 1 .. (n - 1)
    /\ \A i \in 1 .. (n - 1) : d.items[i] = IF i = id THEN c.items[n] ELSE c.items[i]
Follows(c, d, id) == ItemStays(c, d, id) \/ \E n \in Nat : ItemGoes(c, d, id, n)

LEMMA StaysAndFollows ==
    ASSUME NEW c, NEW b, NEW d, NEW id \in DOMAIN c.items, ItemStays(c, b, id),
           Follows(b, d, id)
    PROVE  Follows(c, d, id)
<1>1. CASE ItemStays(b, d, id)
  BY <1>1 DEF ItemStays, Follows
<1>2. ASSUME NEW n \in Nat, ItemGoes(b, d, id, n) PROVE ItemGoes(c, d, id, n)
  <2>1. /\ DOMAIN c.items = 1 .. n /\ id \in 1 .. n
        /\ d.stored = StoredAfterDelete(c.stored, id, n) /\ DOMAIN d.items = 1 .. (n - 1)
    BY <1>2 DEF ItemGoes, ItemStays
  <2>2. ASSUME NEW i \in 1 .. (n - 1)
        PROVE  d.items[i] = IF i = id THEN c.items[n] ELSE c.items[i]
    <3>1. d.items[i] = IF i = id THEN b.items[n] ELSE b.items[i]
      BY <1>2 DEF ItemGoes
    <3>2. CASE i = id
      <4>1. n \in 1 .. n /\ n # id
        BY <3>2
      <4> QED
        BY <2>1, <3>1, <3>2, <4>1 DEF ItemStays
    <3>3. CASE i # id
      BY <2>1, <3>1, <3>3 DEF ItemStays
    <3> QED
      BY <3>2, <3>3
  <2> QED
    BY <2>1, <2>2 DEF ItemGoes
<1> QED
  BY <1>1, <1>2 DEF Follows

LEMMA SameStays == ASSUME NEW c, NEW id PROVE ItemStays(c, c, id)
BY DEF ItemStays

LEMMA DisplayStays ==
    ASSUME NEW c, NEW id, NEW to, NEW d, DisplayChanged(c, d, id, to), d.stored = c.stored
    PROVE  ItemStays(c, d, id)
BY DEF DisplayChanged, ItemStays

LEMMA ModesStay ==
    ASSUME NEW c, Good(c), NEW id \in DOMAIN c.items
    PROVE  /\ c.items[id].display = "temporary" =>
                ItemStays(c, TemporaryToColliding(c, id, "no_hint"), id)
           /\ c.items[id].display \in {"valid", "colliding"} =>
                ItemStays(c, CollidingToTemporary(c, id), id)
           /\ c.items[id].display = "normal" => ItemStays(c, InsertToColliding(c, id), id)
           /\ c.items[id].display = "valid" =>
                ItemStays(c, CollidingToInsert(c, id, "no_hint"), id)
<1> DEFINE key == c.keys[id]
           valid == Entry("to_colliding_expect_valid", key)
           colliding == Entry("to_colliding_assume_colliding", key)
           Or(type) == PushOrCancel(c, Entry(type, key), "to_temporary")
<1>0. Sound(c)
  BY DEF Good
<1>1. ASSUME c.items[id].display = "temporary"
      PROVE  ItemStays(c, TemporaryToColliding(c, id, "no_hint"), id)
  <2> DEFINE b == PushEntry(c, Entry("to_temporary", key))
             d == TemporaryToColliding(c, id, "no_hint")
  <2>1. OnlyStacks(c, b)
    BY <1>0, PushKeyKeeps
  <2>2. d = SetDisplay(b, id, "colliding") \/ d = SetDisplay(Submit(b), id, "valid")
    BY <1>1 DEF TemporaryToColliding
  <2>3. \E to : DisplayChanged(c, d, id, to)
    BY <1>1, TemporaryToCollidingRewinds
  <2> HIDE DEF b, d
  <2>4. d.stored = c.stored
    BY <1>0, <2>1, <2>2, SetDisplayOnly DEF OnlyDisplay
  <2> QED
    BY <2>3, <2>4, DisplayStays DEF d
<1>2. ASSUME c.items[id].display \in {"valid", "colliding"}
      PROVE  ItemStays(c, CollidingToTemporary(c, id), id)
  <2> DEFINE b1 == PushOrCancel(c, valid, "to_temporary")
             b2 == PushOrCancel(c, colliding, "to_temporary")
             d == CollidingToTemporary(c, id)
  <2>1. OnlyStacks(c, b1) /\ OnlyStacks(c, b2)
    BY <1>0, PushKeyKeeps
  <2>2. d = SetDisplay(b2, id, "temporary") \/ d = SetDisplay(Submit(b1), id, "temporary")
    BY <1>2 DEF CollidingToTemporary
  <2>3. DisplayChanged(c, d, id, "temporary")
    BY <1>2, CollidingToTemporaryRewinds
  <2> HIDE DEF b1, b2, d
  <2>4. d.stored = c.stored
    BY <1>0, <2>1, <2>2, SetDisplayOnly DEF OnlyDisplay
  <2> QED
    BY <2>3, <2>4, DisplayStays DEF d
<1>3. ASSUME c.items[id].display = "normal" PROVE ItemStays(c, InsertToColliding(c, id), id)
  <2> DEFINE b == PushOrCancel(c, Entry("to_insert", key), "to_colliding_expect_valid")
             d == InsertToColliding(c, id)
  <2>1. OnlyStacks(c, b)
    BY <1>0, PushKeyKeeps
  <2>2. d = SetDisplay(b, id, "valid")
    BY <1>3 DEF InsertToColliding
  <2>3. DisplayChanged(c, d, id, "valid")
    BY <1>3, InsertToCollidingRewinds
  <2> HIDE DEF b, d
  <2>4. d.stored = c.stored
    BY <1>0, <2>1, <2>2, SetDisplayOnly DEF OnlyDisplay
  <2> QED
    BY <2>3, <2>4, DisplayStays DEF d
<1>4. ASSUME c.items[id].display = "valid"
      PROVE  ItemStays(c, CollidingToInsert(c, id, "no_hint"), id)
  <2> DEFINE b == PushEntry(c, valid)
             d == CollidingToInsert(c, id, "no_hint")
  <2>1. OnlyStacks(c, b)
    BY <1>0, PushKeyKeeps
  <2>2. d = SetDisplay(b, id, "normal")
    BY <1>4 DEF CollidingToInsert
  <2>3. DisplayChanged(c, d, id, "normal")
    BY <1>4, ValidToInsertRewinds
  <2> HIDE DEF b, d
  <2>4. d.stored = c.stored
    BY <1>0, <2>1, <2>2, SetDisplayOnly DEF OnlyDisplay
  <2> QED
    BY <2>3, <2>4, DisplayStays DEF d
<1> QED
  BY <1>1, <1>2, <1>3, <1>4

LEMMA DeleteFollows ==
    ASSUME NEW c, Good(c), NEW id \in DOMAIN c.items, c.items[id].display = "temporary"
    PROVE  Follows(c, DeleteTemporary(c, id), id)
<1> DEFINE d == DeleteTemporary(c, id)
           n == Len(c.items)
<1>1. Rewinds(c, d) /\ ItemDeleted(c, d, id)
  BY DeleteRewinds
<1>2. d.stored = StoredAfterDelete(c.stored, id, n)
  BY DeleteTemporarySound DEF Good, Deleted
<1> HIDE DEF d
<1>3. Sound(d)
  BY <1>1 DEF Rewinds, Good
<1>4. /\ n \in Nat /\ DOMAIN c.items = 1 .. n /\ DOMAIN d.items = 1 .. (n - 1)
      /\ \A i \in 1 .. (n - 1) : d.items[i] = IF i = id THEN c.items[n] ELSE c.items[i]
  <2>1. n = Len(c.items)
    OBVIOUS
  <2> HIDE DEF n
  <2>2. /\ n \in Nat /\ DOMAIN c.items = 1 .. n /\ DOMAIN d.items = 1 .. (n - 1)
        /\ \A i \in 1 .. (n - 1) :
              /\ d.items[i] = IF i = id THEN c.items[n] ELSE c.items[i]
              /\ d.keys[i] = IF i = id THEN c.keys[n] ELSE c.keys[i]
    BY <1>1, <1>3, <2>1, DeletedItems
  <2> QED
    BY <2>2
<1>5. ItemGoes(c, d, id, n)
  BY <1>2, <1>4 DEF ItemGoes
<1> QED
  BY <1>4, <1>5 DEF Follows, d

LEMMA ToCollisionsStays ==
    ASSUME NEW c, Good(c), NEW id \in DOMAIN c.items
    PROVE  ItemStays(c, ToCollisions(c, id, "no_hint"), id)
<1>1. c.items[id].display \in Display
  BY DEF Good, Item
<1> QED
  BY <1>1, ModesStay, SameStays DEF ToCollisions, Display

LEMMA FromCollisionsFollows ==
    ASSUME NEW c, Good(c), NEW id \in DOMAIN c.items, NEW mode \in Mode,
           c.items[id].display \in {"valid", "colliding"}
    PROVE  Follows(c, FromCollisions(c, id, mode, "no_hint"), id)
<1>1. c.failed = FALSE
  BY DEF Good
<1>2. CASE mode = "collisions"
  <2>1. FromCollisions(c, id, mode, "no_hint") = c
    BY <1>2 DEF FromCollisions
  <2> QED
    BY <2>1, SameStays DEF Follows
<1>3. CASE mode = "insert_or_discard"
  <2>1. FromCollisions(c, id, mode, "no_hint") = CollidingToInsert(c, id, "no_hint")
    BY <1>1, <1>3 DEF FromCollisions
  <2>2. CASE c.items[id].display = "valid"
    BY <2>1, <2>2, ModesStay DEF Follows
  <2>3. CASE c.items[id].display = "colliding"
    <3> DEFINE b == CollidingToTemporary(c, id)
    <3>1. CollidingToInsert(c, id, "no_hint") = DeleteTemporary(b, id)
      BY <2>3 DEF CollidingToInsert
    <3>2. /\ Rewinds(c, b) /\ DisplayChanged(c, b, id, "temporary") /\ ItemStays(c, b, id)
      BY <2>3, CollidingToTemporaryRewinds, ModesStay
    <3> HIDE DEF b
    <3>3. id \in DOMAIN b.items /\ b.items[id].display = "temporary"
      BY <3>2, DisplayedItem DEF Good, Display
    <3>4. Follows(b, DeleteTemporary(b, id), id)
      BY <3>2, <3>3, DeleteFollows DEF Rewinds
    <3> QED
      BY <2>1, <3>1, <3>2, <3>4, StaysAndFollows
  <2> QED
    BY <2>2, <2>3
<1>4. CASE mode = "temporary"
  <2>1. FromCollisions(c, id, mode, "no_hint") = CollidingToTemporary(c, id)
    BY <1>1, <1>4 DEF FromCollisions
  <2> QED
    BY <2>1, ModesStay DEF Follows
<1> QED
  BY <1>2, <1>3, <1>4 DEF Mode

LEMMA ChangeModeFollows ==
    ASSUME NEW c, Good(c), NEW id \in DOMAIN c.items, NEW mode \in Mode
    PROVE  Follows(c, ChangeInsertionMode(c, id, mode, "no_hint"), id)
<1> DEFINE b == ToCollisions(c, id, "no_hint")
<1>1. CASE ToMode(c.items[id].display) = mode
  BY <1>1, SameStays DEF ChangeInsertionMode, Follows
<1>2. CASE ToMode(c.items[id].display) # mode
  <2>1. ChangeInsertionMode(c, id, mode, "no_hint") = FromCollisions(b, id, mode, "no_hint")
    BY <1>2 DEF ChangeInsertionMode
  <2>2. /\ Rewinds(c, b) /\ id \in DOMAIN b.items /\ ItemStays(c, b, id)
        /\ b.items[id].display \in {"valid", "colliding"}
    BY ToCollisionsRewinds, ToCollisionsStays
  <2> HIDE DEF b
  <2>3. Follows(b, FromCollisions(b, id, mode, "no_hint"), id)
    BY <2>2, FromCollisionsFollows DEF Rewinds
  <2> QED
    BY <2>1, <2>2, <2>3, StaysAndFollows
<1> QED
  BY <1>1, <1>2

\* The selection store is not part of what is rewound.
LEMMA StoredRewinds ==
    ASSUME NEW c, Good(c), NEW stored, NEW d, d = [c EXCEPT !.stored = stored]
    PROVE  /\ Rewinds(c, d) /\ State(d) = State(c)
           /\ d.items = c.items /\ d.stored = stored
<1>1. Sound(c) /\ Sound(d)
  BY StoredKeeps DEF Good, Kept
<1>2. /\ d.items = c.items /\ d.keys = c.keys /\ d.nextKey = c.nextKey
      /\ d.initial = c.initial /\ d.operations = c.operations /\ d.failed = c.failed
      /\ d.history = c.history /\ d.undo = c.undo /\ d.redo = c.redo /\ d.stored = stored
  BY <1>1 DEF Sound, Shape, Fields
<1>3. Tracked(d) = Tracked(c) /\ d[Tracked(c)] = c[Tracked(c)] /\ d[Other(c)] = c[Other(c)]
  BY <1>2 DEF Tracked, Other
<1>4. State(d) = State(c)
  BY <1>2 DEF State, KeyIndexSet, IdOf, Ids, KeysOf
<1>5. Good(d)
  BY <1>1, <1>2 DEF Good
<1> QED
  BY <1>2, <1>3, <1>4, <1>5, RewoundSame DEF Rewinds

LEMMA MoveStays ==
    ASSUME NEW c, Good(c), NEW id \in DOMAIN c.items, NEW delta \in Int,
           c.items[id].display = "temporary",
           IsRepresentable(c.items[id].position + delta)
    PROVE  ItemStays(c, MoveTemporaryUnchecked(c, id, delta), id)
<1> DEFINE e == [type |-> "move", key |-> c.keys[id], delta |-> -delta]
           b == PushEntry(c, e)
           t == Append(c[Tracked(c)], e)
           d == MoveTemporaryUnchecked(c, id, delta)
<1>1. Pushing(c, b, t)
  BY EntryPushed DEF Pushing, Good
<1>2. d = [b EXCEPT !.items[id].position = @ + delta]
  BY DEF MoveTemporaryUnchecked
<1> HIDE DEF b, t, d
<1>3. DOMAIN b = Fields /\ b.items = c.items /\ b.stored = c.stored
  BY <1>1, TrackedReplaced DEF Good
<1>4. ItemStays(c, d, id)
  BY <1>2, <1>3 DEF ItemStays, Fields
<1> QED
  BY <1>4 DEF d

\* The tracked selection holds distinct ids of the layout.
Tracks(c) == Distinct(c.stored) /\ Members(c.stored) \subseteq DOMAIN c.items
AllTemporary(c) == \A j \in Members(c.stored) : c.items[j].display = "temporary"

\* It does so after an edit of an item that is no longer in it.
LEMMA TracksOn ==
    ASSUME NEW c, Tracks(c), NEW id \in DOMAIN c.items, id \notin Members(c.stored),
           NEW d, Follows(c, d, id)
    PROVE  Tracks(d) /\ (AllTemporary(c) => AllTemporary(d))
<1>1. CASE ItemStays(c, d, id)
  BY <1>1 DEF ItemStays, Tracks, AllTemporary
<1>2. ASSUME NEW n \in Nat, ItemGoes(c, d, id, n)
      PROVE  Tracks(d) /\ (AllTemporary(c) => AllTemporary(d))
  <2> DEFINE M == Members(c.stored)
             New(j) == IF j = n THEN id ELSE j
  <2>1. /\ DOMAIN c.items = 1 .. n /\ d.stored = StoredAfterDelete(c.stored, id, n)
        /\ DOMAIN d.items = 1 .. (n - 1)
        /\ \A i \in 1 .. (n - 1) : d.items[i] = IF i = id THEN c.items[n] ELSE c.items[i]
    BY <1>2 DEF ItemGoes
  <2>2. Distinct(c.stored) /\ M \subseteq 1 .. n /\ id \in 1 .. n /\ id \notin M
    BY <2>1 DEF Tracks
  <2>3. Distinct(d.stored) /\ Members(d.stored) = {New(j) : j \in M}
    BY <2>1, <2>2, StoredRenamed
  <2> HIDE DEF M
  <2>4. ASSUME NEW j \in M
        PROVE  New(j) \in 1 .. (n - 1) /\ d.items[New(j)] = c.items[j]
    <3>1. CASE j = n
      <4>1. id \in 1 .. (n - 1)
        BY <2>2, <3>1
      <4> QED
        BY <2>1, <3>1, <4>1
    <3>2. CASE j # n
      <4>1. j \in 1 .. (n - 1) /\ j # id
        BY <2>2, <3>2
      <4> QED
        BY <2>1, <3>2, <4>1
    <3> QED
      BY <3>1, <3>2
  <2> HIDE DEF New
  <2>5. Tracks(d)
    BY <2>1, <2>3, <2>4 DEF Tracks
  <2>6. AllTemporary(c) => AllTemporary(d)
    BY <2>3, <2>4 DEF AllTemporary, M
  <2> QED
    BY <2>5, <2>6
<1> QED
  BY <1>1, <1>2 DEF Follows

LEMMA MoveOrDeleteFollows ==
    ASSUME NEW c, Good(c), NEW id \in DOMAIN c.items, NEW delta \in Int,
           c.items[id].display = "temporary"
    PROVE  /\ Rewinds(c, MoveOrDeleteTemporary(c, id, delta))
           /\ Follows(c, MoveOrDeleteTemporary(c, id, delta), id)
<1>1. CASE delta = 0
  <2>1. MoveOrDeleteTemporary(c, id, delta) = c
    BY <1>1 DEF MoveOrDeleteTemporary
  <2> QED
    BY <2>1, RewindsSelf, SameStays DEF Follows
<1>2. CASE delta # 0 /\ ~IsRepresentable(c.items[id].position + delta)
  <2>1. MoveOrDeleteTemporary(c, id, delta) = DeleteTemporary(c, id)
    BY <1>2 DEF MoveOrDeleteTemporary
  <2> QED
    BY <2>1, DeleteRewinds, DeleteFollows
<1>3. CASE delta # 0 /\ IsRepresentable(c.items[id].position + delta)
  <2>1. MoveOrDeleteTemporary(c, id, delta) = MoveTemporaryUnchecked(c, id, delta)
    BY <1>3 DEF MoveOrDeleteTemporary
  <2> QED
    BY <1>3, <2>1, MoveRewinds, MoveStays DEF Follows
<1> QED
  BY <1>1, <1>2, <1>3

\* An item is made temporary and deleted.
LEMMA DeleteOneFollows ==
    ASSUME NEW c, Good(c), NEW id \in DOMAIN c.items, NEW b, NEW d,
           b = ChangeInsertionMode(c, id, "temporary", "no_hint"), d = DeleteTemporary(b, id)
    PROVE  Rewinds(c, d) /\ Follows(c, d, id)
<1>1. Rewinds(c, b) /\ Good(b)
  BY ChangeModeRewinds DEF Mode, Rewinds
<1>2. /\ Kept(c, b) /\ OnlyDisplay(c, b, id, "temporary")
  BY ToTemporary DEF Good
<1>3. id \in DOMAIN b.items /\ b.items[id].display = "temporary"
  BY <1>2 DEF Kept, OnlyDisplay
<1>4. Follows(c, b, id)
  BY ChangeModeFollows DEF Mode
<1>5. ItemStays(c, b, id)
  <2>1. ASSUME NEW n \in Nat, ItemGoes(c, b, id, n) PROVE FALSE
    <3>1. DOMAIN b.items = 1 .. (n - 1) /\ DOMAIN c.items = 1 .. n /\ id \in 1 .. n
      BY <2>1 DEF ItemGoes
    <3>2. DOMAIN b.items = DOMAIN c.items
      BY <1>2 DEF Kept
    <3>3. n \in 1 .. n /\ n \notin 1 .. (n - 1)
      BY <3>1
    <3> QED
      BY <3>1, <3>2, <3>3
  <2> QED
    BY <1>4, <2>1 DEF Follows
<1>6. Rewinds(b, d) /\ Follows(b, d, id)
  BY <1>1, <1>3, DeleteRewinds, DeleteFollows
<1> QED
  BY <1>1, <1>5, <1>6, RewindsTwice, StaysAndFollows

LEMMA ConsumeEditFollows ==
    ASSUME NEW c, Good(c), NEW id \in DOMAIN c.items, NEW e \in ConsumeEdits,
           e.edit = "move" => c.items[id].display = "temporary"
    PROVE  /\ Rewinds(c, ConsumeEdit(c, id, e))
           /\ Follows(c, ConsumeEdit(c, id, e), id)
<1>1. CASE e.edit = "mode" /\ e.mode \in Mode
  BY <1>1, ChangeModeRewinds, ChangeModeFollows DEF ConsumeEdit
<1>2. CASE e.edit = "move" /\ e.delta \in Int
  BY <1>2, MoveOrDeleteFollows DEF ConsumeEdit
<1>3. CASE e.edit = "delete"
  BY <1>3, DeleteOneFollows DEF ConsumeEdit
<1> QED
  BY <1>1, <1>2, <1>3 DEF ConsumeEdits

\* One round of the loop.
Consuming(c, e) == Good(c) /\ Tracks(c) /\ (e.edit = "move" => AllTemporary(c))

LEMMA ConsumeStepRewinds ==
    ASSUME NEW c, NEW e \in ConsumeEdits, Consuming(c, e), NEW d, d = ConsumeStep(c, e)
    PROVE  Consuming(d, e) /\ Rewinds(c, d)
<1> DEFINE id == c.stored[1]
           b == [c EXCEPT !.stored = Erase(@, id)]
<1>1. c.failed = FALSE /\ Good(c) /\ Ids(c) = DOMAIN c.items
  BY ItemIds DEF Consuming, Good
<1>2. CASE c.stored = <<>>
  <2>1. d = c
    BY <1>2 DEF ConsumeStep
  <2> QED
    BY <1>1, <2>1, RewindsSelf
<1>3. CASE c.stored # <<>>
  <2>1. id \in Members(c.stored)
    <3>1. Len(c.stored) \in Nat \ {0}
      BY <1>3, FrontSeq DEF Consuming, Tracks, Distinct
    <3>2. 1 \in 1 .. Len(c.stored)
      BY <3>1
    <3> QED
      BY <3>2 DEF Members
  <2>2. id \in DOMAIN c.items
    BY <2>1 DEF Consuming, Tracks
  <2>3. d = ConsumeEdit(b, id, e)
    BY <1>1, <1>3, <2>2 DEF ConsumeStep
  <2> HIDE DEF id
  <2>4. /\ Rewinds(c, b) /\ Good(b) /\ b.items = c.items
        /\ b.stored = Erase(c.stored, id)
    BY <1>1, StoredRewinds DEF Rewinds
  <2> HIDE DEF b
  <2>5. /\ Distinct(b.stored) /\ Members(b.stored) = Members(c.stored) \ {id}
    BY <2>1, <2>4, EraseMember DEF Consuming, Tracks
  <2>6. Tracks(b) /\ (AllTemporary(c) => AllTemporary(b))
    BY <2>4, <2>5 DEF Consuming, Tracks, AllTemporary
  <2>7. e.edit = "move" => b.items[id].display = "temporary"
    BY <2>1, <2>4 DEF Consuming, AllTemporary
  <2>8. Rewinds(b, d) /\ Follows(b, d, id)
    BY <2>2, <2>3, <2>4, <2>7, ConsumeEditFollows
  <2>9. Tracks(d) /\ (AllTemporary(b) => AllTemporary(d))
    BY <2>2, <2>4, <2>5, <2>6, <2>8, TracksOn
  <2>10. Consuming(d, e)
    BY <2>6, <2>8, <2>9 DEF Consuming, Rewinds
  <2> QED
    BY <1>1, <2>4, <2>8, <2>10, RewindsTwice
<1> QED
  BY <1>2, <1>3

\* The loop.
LEMMA ConsumeRewinds ==
    ASSUME NEW c, Good(c), NEW s, Distinct(s), Members(s) \subseteq DOMAIN c.items,
           NEW e \in ConsumeEdits,
           e.edit = "move" => \A j \in Members(s) : c.items[j].display = "temporary",
           NEW run, ConsumeRounds(run, c, s, e)
    PROVE  Rewinds(c, [run[Len(s)] EXCEPT !.stored = <<>>])
<1>1. Len(s) \in Nat
  BY DEF Distinct, IsSeq
<1> DEFINE n == Len(s)
           P == {i \in 0 .. n : Consuming(run[i], e) /\ Rewinds(c, run[i])}
<1>2. 0 \in P
  <2> DEFINE c0 == [c EXCEPT !.stored = s]
  <2>1. run[0] = c0
    BY DEF ConsumeRounds
  <2>2. Rewinds(c, c0) /\ c0.items = c.items /\ c0.stored = s
    BY StoredRewinds
  <2> HIDE DEF c0
  <2>3. Consuming(c0, e)
    BY <2>2 DEF Consuming, Tracks, AllTemporary, Rewinds
  <2> QED
    BY <1>1, <2>1, <2>2, <2>3
<1>3. ASSUME NEW i \in 1 .. n, i - 1 \in P PROVE i \in P
  <2>1. Consuming(run[i - 1], e) /\ Rewinds(c, run[i - 1])
    BY <1>3
  <2>2. run[i] = ConsumeStep(run[i - 1], e)
    BY DEF ConsumeRounds
  <2>3. Consuming(run[i], e) /\ Rewinds(run[i - 1], run[i])
    BY <2>1, <2>2, ConsumeStepRewinds
  <2>4. Rewinds(c, run[i])
    BY <2>1, <2>3, RewindsTwice
  <2>5. i \in 0 .. n
    OBVIOUS
  <2> QED
    BY <2>3, <2>4, <2>5
<1>4. P \in SUBSET (0 .. n)
  OBVIOUS
<1> HIDE DEF P, n
<1>5. P = 0 .. n
  BY <1>1, <1>2, <1>3, <1>4, AllRounds DEF n
<1>6. n \in P
  BY <1>1, <1>5 DEF n
<1>7. Rewinds(c, run[Len(s)])
  BY <1>6 DEF P, n
<1>8. Rewinds(run[Len(s)], [run[Len(s)] EXCEPT !.stored = <<>>])
  BY <1>7, StoredRewinds DEF Rewinds
<1> QED
  BY <1>7, <1>8, RewindsTwice

LEMMA SelectionEditsRewind ==
    ASSUME NEW c, Good(c), NEW s, Distinct(s), Members(s) \subseteq DOMAIN c.items
    PROVE  /\ \A mode \in Mode : Rewinds(c, ChangeSelectionMode(c, s, mode))
           /\ \A delta \in Int :
                 (\A j \in Members(s) : c.items[j].display = "temporary")
                     => Rewinds(c, MoveOrDeleteSelection(c, s, delta))
           /\ Rewinds(c, DeleteAll(c, s))
<1>0. IsSeq(s)
  BY DEF Distinct
<1>1. ASSUME NEW mode \in Mode PROVE Rewinds(c, ChangeSelectionMode(c, s, mode))
  <2> DEFINE e == [loop |-> "consume", edit |-> "mode", mode |-> mode]
  <2>1. e \in ConsumeEdits /\ e.edit # "move"
    BY DEF ConsumeEdits
  <2>2. PICK run : /\ ChangeSelectionMode(c, s, mode) = [run[Len(s)] EXCEPT !.stored = <<>>]
                   /\ ConsumeRounds(run, c, s, e)
    BY <1>0, ConsumeModeLoop
  <2> HIDE DEF e
  <2> QED
    BY <2>1, <2>2, ConsumeRewinds
<1>2. ASSUME NEW delta \in Int, \A j \in Members(s) : c.items[j].display = "temporary"
      PROVE  Rewinds(c, MoveOrDeleteSelection(c, s, delta))
  <2> DEFINE e == [loop |-> "consume", edit |-> "move", delta |-> delta]
  <2>1. e \in ConsumeEdits
    BY DEF ConsumeEdits
  <2>2. PICK run : /\ MoveOrDeleteSelection(c, s, delta)
                        = [run[Len(s)] EXCEPT !.stored = <<>>]
                   /\ ConsumeRounds(run, c, s, e)
    BY <1>0, ConsumeMoveLoop
  <2> HIDE DEF e
  <2> QED
    BY <1>2, <2>1, <2>2, ConsumeRewinds
<1>3. Rewinds(c, DeleteAll(c, s))
  <2> DEFINE e == [loop |-> "consume", edit |-> "delete"]
  <2>1. e \in ConsumeEdits /\ e.edit # "move"
    BY DEF ConsumeEdits
  <2>2. PICK run : /\ DeleteAll(c, s) = [run[Len(s)] EXCEPT !.stored = <<>>]
                   /\ ConsumeRounds(run, c, s, e)
    BY <1>0, ConsumeDeleteLoop
  <2> HIDE DEF e
  <2> QED
    BY <2>1, <2>2, ConsumeRewinds
<1> QED
  BY <1>1, <1>2, <1>3

\* Items that are moved all together, each of them once.
LEMMA MoveSelectionRewinds ==
    ASSUME NEW c, Good(c), NEW s, Distinct(s), Members(s) \subseteq DOMAIN c.items,
           NEW delta \in Int,
           \A j \in Members(s) : /\ c.items[j].display = "temporary"
                                 /\ IsRepresentable(c.items[j].position + delta)
    PROVE  Rewinds(c, MoveSelectionUnchecked(c, s, delta))
<1>1. IsSeq(s) /\ Len(s) \in Nat /\ \A i, j \in 1 .. Len(s) : s[i] = s[j] => i = j
  BY DEF Distinct, IsSeq
<1>2. PICK run : MoveAll(c, s, delta) = run[Len(s)] /\ MoveRounds(run, c, s, delta)
  BY <1>1, MoveLoop
<1> DEFINE n == Len(s)
           Inv(x, i) == /\ Rewinds(c, x) /\ DOMAIN x.items = DOMAIN c.items
                        /\ \A j \in 1 .. n : j > i => x.items[s[j]] = c.items[s[j]]
           P == {i \in 0 .. n : Inv(run[i], i)}
<1>3. 0 \in P
  BY <1>1, <1>2, RewindsSelf DEF MoveRounds
<1>4. ASSUME NEW i \in 1 .. n, i - 1 \in P PROVE i \in P
  <2> DEFINE x == run[i - 1]
             y == run[i]
             id == s[i]
  <2>1. Inv(x, i - 1) /\ i > i - 1 /\ i \in 0 .. n
    BY <1>1, <1>4
  <2>2. id \in Members(s)
    BY DEF Members
  <2>3. /\ id \in DOMAIN x.items /\ x.items[id] = c.items[id]
        /\ x.items[id].display = "temporary"
        /\ IsRepresentable(x.items[id].position + delta)
    BY <2>1, <2>2
  <2>4. y = MoveTemporaryUnchecked(x, id, delta)
    BY <1>2 DEF MoveRounds
  <2> HIDE DEF x, y, id
  <2>5. Rewinds(x, y) /\ ItemStays(x, y, id)
    BY <2>1, <2>3, <2>4, MoveRewinds, MoveStays DEF Rewinds
  <2>6. Rewinds(c, y)
    BY <2>1, <2>5, RewindsTwice
  <2>7. ASSUME NEW j \in 1 .. n, j > i PROVE y.items[s[j]] = c.items[s[j]]
    <3>1. j > i - 1 /\ s[j] # id /\ s[j] \in Members(s)
      BY <1>1, <2>7 DEF id, Members
    <3> QED
      BY <2>1, <2>5, <3>1 DEF ItemStays
  <2>8. DOMAIN y.items = DOMAIN c.items
    BY <2>1, <2>5 DEF ItemStays
  <2> QED
    BY <2>1, <2>6, <2>7, <2>8 DEF y
<1>5. P \in SUBSET (0 .. n)
  OBVIOUS
<1> HIDE DEF P, n
<1>6. P = 0 .. n
  BY <1>1, <1>3, <1>4, <1>5, AllRounds DEF n
<1>7. n \in P
  BY <1>1, <1>6 DEF n
<1>8. Rewinds(c, run[Len(s)])
  BY <1>7 DEF P, n
<1>9. MoveSelectionUnchecked(c, s, delta) = IF delta = 0 THEN c ELSE run[Len(s)]
  BY <1>2, Zenon DEF MoveSelectionUnchecked, MoveAll
<1> QED
  BY <1>8, <1>9, RewindsSelf

\* The orders of a selection hold each of its ids once.
LEMMA OrderTracks ==
    ASSUME NEW c, Sound(c), NEW ids, ids \subseteq DOMAIN c.items, NEW s \in SetToSeqs(ids)
    PROVE  Distinct(s) /\ Members(s) \subseteq ids
<1> DEFINE n == Cardinality(ids)
<1>1. IsSeq(s)
  BY OrderOf
<1>2. s \in [1 .. n -> ids] /\ \A i, j \in 1 .. n : i # j => s[i] # s[j]
  BY DEF SetToSeqs
<1> HIDE DEF n
<1>3. DOMAIN s = 1 .. n /\ DOMAIN s = 1 .. Len(s)
  BY <1>1, <1>2 DEF IsSeq
<1> QED
  BY <1>1, <1>2, <1>3 DEF Distinct, Members

LEMMA OrdersTrack ==
    ASSUME NEW ids, Sound(circuit), ids \subseteq DOMAIN circuit.items, NEW s \in Orders(ids)
    PROVE  /\ Distinct(s) /\ Members(s) \subseteq ids
           /\ Members(s) \subseteq DOMAIN circuit.items
<1>1. PICK t \in SUBSET ids : s \in SetToSeqs(t)
  BY DEF Orders, SetToAllKPermutations
<1>2. t \subseteq DOMAIN circuit.items
  BY <1>1
<1>3. Distinct(s) /\ Members(s) \subseteq t
  BY <1>1, <1>2, OrderTracks
<1> QED
  BY <1>1, <1>3

-----------------------------------------------------------------------------
(***************************************************************************)
(* Replaying an entry leads where the entry leads.                         *)
(***************************************************************************)

ItemTypes == {"to_temporary", "to_colliding_expect_valid", "to_colliding_assume_colliding",
              "to_insert", "move", "change_attributes", "delete", "add_visible",
              "remove_visible"}

LEMMA LeadTypes ==
    ASSUME NEW e, NEW st, NEW ts, Leads(e, st, ts), e.type # "new_group"
    PROVE  /\ e.type \in ItemTypes \cup {"create"} \cup SelectionEntryTypes
           /\ e.type \in ItemTypes => e.key \in DOMAIN st.items
BY DEF Leads, LeadsItem, LeadsDisplay, LeadsLayout, LeadsSelection, ItemTypes,
       SelectionEntryTypes

\* The mode that an entry asks for.
LEMMA ReplayMode ==
    ASSUME NEW c, Good(c), NEW id \in DOMAIN c.items, NEW e
    PROVE  LET d == ReplayOfItem(c, e, id)
               from == c.items[id].display
           IN /\ (e.type = "to_temporary" /\ from \in {"valid", "colliding"})
                   => d = CollidingToTemporary(c, id)
              /\ (e.type = "to_colliding_expect_valid" /\ from = "temporary")
                   => d = TemporaryToColliding(c, id, "expect_valid")
              /\ (e.type = "to_colliding_expect_valid" /\ from = "normal")
                   => d = InsertToColliding(c, id)
              /\ (e.type = "to_colliding_assume_colliding" /\ from = "temporary")
                   => d = TemporaryToColliding(c, id, "assume_colliding")
              /\ (e.type = "to_insert" /\ from = "valid")
                   => d = CollidingToInsert(c, id, "expect_valid")
<1> DEFINE d == ReplayOfItem(c, e, id)
           from == c.items[id].display
<1>1. c.failed = FALSE
  BY DEF Good
<1>2. e.type \in DOMAIN ModeChange =>
         d = ChangeInsertionMode(c, id, ModeChange[e.type].mode, ModeChange[e.type].hint)
  BY DEF ReplayOfItem, ModeChange
<1> HIDE DEF d
<1>3. ASSUME e.type = "to_temporary", from \in {"valid", "colliding"}
      PROVE  d = CollidingToTemporary(c, id)
  <2>1. d = ChangeInsertionMode(c, id, "temporary", "no_hint")
    BY <1>2, <1>3 DEF ModeChange
  <2> QED
    BY <1>1, <1>3, <2>1 DEF ChangeInsertionMode, ToMode, ToCollisions, FromCollisions
<1>4. ASSUME e.type = "to_colliding_expect_valid", from = "temporary"
      PROVE  d = TemporaryToColliding(c, id, "expect_valid")
  <2>1. d = ChangeInsertionMode(c, id, "collisions", "expect_valid")
    BY <1>2, <1>4 DEF ModeChange
  <2> QED
    BY <1>1, <1>4, <2>1 DEF ChangeInsertionMode, ToMode, ToCollisions, FromCollisions
<1>5. ASSUME e.type = "to_colliding_expect_valid", from = "normal"
      PROVE  d = InsertToColliding(c, id)
  <2>1. d = ChangeInsertionMode(c, id, "collisions", "expect_valid")
    BY <1>2, <1>5 DEF ModeChange
  <2> QED
    BY <1>1, <1>5, <2>1 DEF ChangeInsertionMode, ToMode, ToCollisions, FromCollisions
<1>6. ASSUME e.type = "to_colliding_assume_colliding", from = "temporary"
      PROVE  d = TemporaryToColliding(c, id, "assume_colliding")
  <2>1. d = ChangeInsertionMode(c, id, "collisions", "assume_colliding")
    BY <1>2, <1>6 DEF ModeChange
  <2> QED
    BY <1>1, <1>6, <2>1 DEF ChangeInsertionMode, ToMode, ToCollisions, FromCollisions
<1>7. ASSUME e.type = "to_insert", from = "valid"
      PROVE  d = CollidingToInsert(c, id, "expect_valid")
  <2>1. d = ChangeInsertionMode(c, id, "insert_or_discard", "expect_valid")
    BY <1>2, <1>7 DEF ModeChange
  <2> QED
    BY <1>1, <1>7, <2>1 DEF ChangeInsertionMode, ToMode, ToCollisions, FromCollisions
<1> QED
  BY <1>3, <1>4, <1>5, <1>6, <1>7 DEF d

\* The edits that entries for one item name.
ReplaysTo(c, d, ts) == Rewinds(c, d) /\ State(d) = ts

LEMMA ReplayModeRewinds ==
    ASSUME NEW c, Good(c), NEW id \in DOMAIN c.items, NEW e, e.key = c.keys[id],
           NEW ts, Leads(e, State(c), ts),
           e.type \in {"to_temporary", "to_colliding_expect_valid",
                       "to_colliding_assume_colliding", "to_insert"}
    PROVE  ReplaysTo(c, ReplayOfItem(c, e, id), ts)
<1> DEFINE st == State(c)
           from == c.items[id].display
           d == ReplayOfItem(c, e, id)
<1>1. Sound(c) /\ st.items[e.key] = c.items[id] /\ c.items[id] \in Item
  BY StateItems DEF Good
<1>2. \A froms, to : LeadsDisplay(e, st, ts, froms, to) => (from \in froms /\ ts = Shown(c, id, to))
  BY <1>1 DEF LeadsDisplay, Shown
<1> HIDE DEF st, d
<1>3. CASE e.type = "to_temporary"
  <2>1. LeadsDisplay(e, st, ts, {"colliding", "valid"}, "temporary")
    BY <1>3, ItemLeads DEF st
  <2>2. from \in {"valid", "colliding"} /\ ts = Shown(c, id, "temporary")
    BY <1>2, <2>1
  <2>3. d = CollidingToTemporary(c, id)
    BY <1>3, <2>2, ReplayMode DEF d
  <2> QED
    BY <2>2, <2>3, CollidingToTemporaryRewinds DEF ReplaysTo, d
<1>4. CASE e.type = "to_colliding_expect_valid"
  <2>1. /\ LeadsDisplay(e, st, ts, {"temporary", "normal"}, "valid")
        /\ st.items[e.key].display = "temporary" => Free(st, e.key)
    BY <1>4, ItemLeads DEF st
  <2>2. from \in {"temporary", "normal"} /\ ts = Shown(c, id, "valid")
    BY <1>2, <2>1
  <2>3. CASE from = "temporary"
    <3>1. ~IsColliding(c, id)
      BY <1>1, <2>1, <2>3, FreeState DEF st
    <3>2. d = TemporaryToColliding(c, id, "expect_valid")
      BY <1>4, <2>3, ReplayMode DEF d
    <3>3. CollidingDisplay(c, id, "expect_valid") = "valid"
      BY DEF CollidingDisplay
    <3> QED
      BY <2>2, <2>3, <3>1, <3>2, <3>3, TemporaryToCollidingRewinds DEF ReplaysTo, d
  <2>4. CASE from = "normal"
    <3>1. d = InsertToColliding(c, id)
      BY <1>4, <2>4, ReplayMode DEF d
    <3> QED
      BY <2>2, <2>4, <3>1, InsertToCollidingRewinds DEF ReplaysTo, d
  <2> QED
    BY <2>2, <2>3, <2>4
<1>5. CASE e.type = "to_colliding_assume_colliding"
  <2>1. LeadsDisplay(e, st, ts, {"temporary"}, "colliding")
    BY <1>5, ItemLeads DEF st
  <2>2. from = "temporary" /\ ts = Shown(c, id, "colliding")
    BY <1>2, <2>1
  <2>3. d = TemporaryToColliding(c, id, "assume_colliding")
    BY <1>5, <2>2, ReplayMode DEF d
  <2>4. CollidingDisplay(c, id, "assume_colliding") = "colliding"
    BY DEF CollidingDisplay
  <2> QED
    BY <2>2, <2>3, <2>4, TemporaryToCollidingRewinds DEF ReplaysTo, d
<1>6. CASE e.type = "to_insert"
  <2>1. LeadsDisplay(e, st, ts, {"valid"}, "normal")
    BY <1>6, ItemLeads DEF st
  <2>2. from = "valid" /\ ts = Shown(c, id, "normal")
    BY <1>2, <2>1
  <2>3. d = CollidingToInsert(c, id, "expect_valid")
    BY <1>6, <2>2, ReplayMode DEF d
  <2> QED
    BY <2>2, <2>3, ValidToInsertRewinds DEF ReplaysTo, d
<1> QED
  BY <1>3, <1>4, <1>5, <1>6 DEF d

LEMMA ReplayItemRewinds ==
    ASSUME NEW c, Good(c), NEW id \in DOMAIN c.items, NEW e, e.key = c.keys[id],
           NEW ts, Leads(e, State(c), ts), e.type \in ItemTypes
    PROVE  ReplaysTo(c, ReplayOfItem(c, e, id), ts)
<1> DEFINE st == State(c)
           d == ReplayOfItem(c, e, id)
<1>1. Sound(c) /\ st.items[e.key] = c.items[id]
  BY StateItems DEF Good
<1>2. /\ e.type = "delete" => d = DeleteTemporary(c, id)
      /\ e.type = "move" => d = MoveTemporaryUnchecked(c, id, e.delta)
      /\ e.type = "change_attributes" => d = SetAttributes(c, id, e.attrs)
      /\ e.type = "add_visible" => d = AddToVisibleSelection(c, id)
      /\ e.type = "remove_visible" => d = RemoveFromVisibleSelection(c, id)
  BY DEF ReplayOfItem, ModeChange
<1> HIDE DEF st, d
<1>3. CASE e.type = "delete"
  <2>1. st.items[e.key].display = "temporary" /\ ts = Without(st, e.key)
    BY <1>3, LayoutLeads DEF st
  <2> QED
    BY <1>1, <1>2, <1>3, <2>1, DeleteRewinds DEF ReplaysTo, d, st
<1>4. CASE e.type = "move"
  <2>1. /\ st.items[e.key].display = "temporary"
        /\ e.delta \in Int /\ IsRepresentable(st.items[e.key].position + e.delta)
        /\ ts = WithItem(st, e.key, MovedItem(st.items[e.key], e.delta))
    BY <1>4, MoveLeads DEF st
  <2>2. ts = Replaced(c, id, MovedItem(c.items[id], e.delta))
    BY <1>1, <2>1 DEF Replaced, st
  <2> QED
    BY <1>1, <1>2, <1>4, <2>1, <2>2, MoveRewinds DEF ReplaysTo, d
<1>5. CASE e.type = "change_attributes"
  <2>1. /\ e.attrs \in Attributes
        /\ ts = WithItem(st, e.key, WithAttributes(st.items[e.key], e.attrs))
    BY <1>5, AttributesLead DEF st
  <2>2. ts = Replaced(c, id, WithAttributes(c.items[id], e.attrs))
    BY <1>1, <2>1 DEF Replaced, st
  <2> QED
    BY <1>2, <1>5, <2>1, <2>2, SetAttributesRewinds DEF ReplaysTo, d
<1>6. CASE e.type = "add_visible"
  <2>1. ts = WithSelected(st, st.selected \cup {e.key})
    BY <1>6, VisibleLead DEF st
  <2> QED
    BY <1>2, <1>6, <2>1, AddVisibleRewinds DEF ReplaysTo, d, st
<1>7. CASE e.type = "remove_visible"
  <2>1. ts = WithSelected(st, st.selected \ {e.key})
    BY <1>7, VisibleLead DEF st
  <2> QED
    BY <1>2, <1>7, <2>1, RemoveVisibleRewinds DEF ReplaysTo, d, st
<1>8. CASE e.type \in {"to_temporary", "to_colliding_expect_valid",
                       "to_colliding_assume_colliding", "to_insert"}
  BY <1>8, ReplayModeRewinds DEF d
<1> QED
  BY <1>3, <1>4, <1>5, <1>6, <1>7, <1>8 DEF ItemTypes, d

\* Without operations, only the items that are selected change.
LEMMA SelectedRewinds ==
    ASSUME NEW c, Good(c), State(c).operations = <<>>, NEW ids, ids \subseteq DOMAIN c.items
    PROVE  ReplaysTo(c, SetVisibleSelection(c, ids), WithSelected(State(c), KeysOf(c, ids)))
<1> DEFINE st == State(c)
           ts == WithSelected(st, KeysOf(c, ids))
<1>1. IsState(st)
  BY StateIsState
<1> HIDE DEF st
<1>2. IsState(ts) /\ ts.operations = st.operations
  BY <1>1, WithSelectedState
<1> HIDE DEF ts
<1>3. WithOperations(ts, <<>>) = ts
  BY <1>2, WithOperationsState DEF st
<1> QED
  BY <1>3, SetVisibleSelectionRewinds DEF ReplaysTo, ts, st

LEMMA ReplaySelectionRewinds ==
    ASSUME NEW c, Good(c), NEW e, NEW ts, Leads(e, State(c), ts),
           e.type \in SelectionEntryTypes
    PROVE  ReplaysTo(c, ReplayOfSelection(c, e), ts)
<1> DEFINE st == State(c)
           d == ReplayOfSelection(c, e)
           ids == {id \in Ids(c) : c.keys[id] \in e.keys}
<1>1. /\ Sound(c) /\ st.operations = c.operations /\ DOMAIN st.items = KeyIndexSet(c)
      /\ Ids(c) = DOMAIN c.items
  BY StateItems, ItemIds DEF Good
<1>2. /\ e.type = "clear" => d = SetVisibleSelection(c, {})
      /\ (e.type = "set" /\ e.keys \subseteq KeyIndexSet(c)) => d = SetVisibleSelection(c, ids)
      /\ e.type = "select_all" => d = SetVisibleSelection(c, Ids(c))
      /\ e.type = "add_operation" => d = AddVisibleSelectionRect(c, e.operation)
      /\ e.type = "update_last" => d = UpdateLastVisibleSelectionRect(c, e.rect)
      /\ e.type = "pop_last" => d = PopLastVisibleSelectionRect(c)
  BY DEF ReplayOfSelection
<1> HIDE DEF st, d, ids
<1>3. CASE e.type = "clear"
  <2>1. st.operations = <<>> /\ ts = WithSelected(st, {})
    BY <1>3, SelectionLeads DEF st
  <2>2. KeysOf(c, {}) = {} /\ {} \subseteq DOMAIN c.items
    BY DEF KeysOf
  <2> QED
    BY <1>2, <1>3, <2>1, <2>2, SelectedRewinds DEF st, d
<1>4. CASE e.type = "set"
  <2>1. /\ st.operations = <<>> /\ ts = WithSelected(st, e.keys)
        /\ e.keys \subseteq DOMAIN st.items
    BY <1>4, SelectionLeads DEF st
  <2>2. KeysOf(c, ids) = e.keys /\ ids \subseteq DOMAIN c.items
    BY <1>1, <2>1 DEF KeysOf, ids, KeyIndexSet
  <2> QED
    BY <1>1, <1>2, <1>4, <2>1, <2>2, SelectedRewinds DEF st, d
<1>5. CASE e.type = "select_all"
  <2>1. st.operations = <<>> /\ ts = WithSelected(st, DOMAIN st.items)
    BY <1>5, SelectionLeads DEF st
  <2>2. KeysOf(c, Ids(c)) = DOMAIN st.items
    BY <1>1 DEF KeysOf, KeyIndexSet
  <2> QED
    BY <1>1, <1>2, <1>5, <2>1, <2>2, SelectedRewinds DEF st, d
<1>6. CASE e.type = "add_operation"
  <2>1. /\ e.operation \in Operation
        /\ ts = WithOperations(st, Append(st.operations, e.operation))
    BY <1>6, OperationsLead DEF st
  <2> QED
    BY <1>1, <1>2, <1>6, <2>1, AddRectRewinds DEF ReplaysTo, st, d
<1>7. CASE e.type = "update_last"
  <2>1. /\ st.operations # <<>> /\ e.rect \in Rects
        /\ ts = WithOperations(st, WithRect(st.operations, e.rect))
    BY <1>7, OperationsLead DEF st
  <2> QED
    BY <1>1, <1>2, <1>7, <2>1, UpdateLastRewinds DEF ReplaysTo, st, d
<1>8. CASE e.type = "pop_last"
  <2>1. st.operations # <<>> /\ ts = WithOperations(st, Front(st.operations))
    BY <1>8, OperationsLead DEF st
  <2> QED
    BY <1>1, <1>2, <1>8, <2>1, PopLastRewinds DEF ReplaysTo, st, d
<1> QED
  BY <1>3, <1>4, <1>5, <1>6, <1>7, <1>8 DEF SelectionEntryTypes, d

LEMMA ReplayRewinds ==
    ASSUME NEW c, Good(c), NEW e, NEW ts, Leads(e, State(c), ts), e.type # "new_group"
    PROVE  ReplaysTo(c, ReplayEntry(c, e), ts)
<1> DEFINE st == State(c)
<1>1. /\ c.failed = FALSE /\ Sound(c) /\ Ids(c) = DOMAIN c.items
      /\ DOMAIN st.items = KeyIndexSet(c)
  BY StateItems, ItemIds DEF Good
<1>2. /\ e.type \in ItemTypes \cup {"create"} \cup SelectionEntryTypes
      /\ e.type \in ItemTypes => e.key \in DOMAIN st.items
  BY LeadTypes
<1>3. /\ ItemTypes \cap SelectionEntryTypes = {} /\ "create" \notin ItemTypes
      /\ "create" \notin SelectionEntryTypes
  BY DEF ItemTypes, SelectionEntryTypes
<1>4. CASE e.type \in SelectionEntryTypes
  <2>1. ReplayEntry(c, e) = ReplayOfSelection(c, e)
    BY <1>1, <1>3, <1>4 DEF ReplayEntry
  <2> QED
    BY <1>4, <2>1, ReplaySelectionRewinds
<1>5. CASE e.type = "create"
  <2>1. ReplayEntry(c, e) = CreateTemporary(c, e.def, e.position, e.key)
    BY <1>1, <1>3, <1>5 DEF ReplayEntry
  <2>2. /\ e.key \in (Nat \ {0}) \ DOMAIN st.items
        /\ e.def \in Definition /\ e.position \in 1 .. Cells
        /\ ts = With(st, e.key, NewItem(e))
    BY <1>5, LayoutLeads
  <2>3. /\ e.key \in Nat /\ e.key \notin KeyIndexSet(c) /\ NewKey(c, e.key) = e.key
        /\ NewItem(e) = TemporaryItem(e.def, e.position)
    BY <1>1, <2>2 DEF NewKey, NewItem, TemporaryItem
  <2> QED
    BY <2>1, <2>2, <2>3, CreateRewinds DEF ReplaysTo
<1>6. CASE e.type \in ItemTypes
  <2> DEFINE id == CHOOSE i \in Ids(c) : c.keys[i] = e.key
  <2>1. e.key \in KeyIndexSet(c)
    BY <1>1, <1>2, <1>6
  <2>2. ReplayEntry(c, e) = ReplayOfItem(c, e, id)
    BY <1>1, <1>3, <1>6, <2>1 DEF ReplayEntry
  <2>3. id \in DOMAIN c.items /\ c.keys[id] = e.key
    BY <1>1, <2>1 DEF KeyIndexSet
  <2> HIDE DEF id
  <2> QED
    BY <1>6, <2>2, <2>3, ReplayItemRewinds
<1> QED
  BY <1>2, <1>4, <1>5, <1>6

-----------------------------------------------------------------------------
(***************************************************************************)
(* Replaying a group.                                                      *)
(***************************************************************************)

LEMMA ReplayAllRewinds ==
    ASSUME NEW c, Good(c), NEW s, IsSeq(s), NEW w, w[0] = State(c),
           \A i \in 1 .. Len(s) : Leads(s[i], w[i - 1], w[i]) /\ s[i].type # "new_group"
    PROVE  ReplaysTo(c, ReplayAll(c, s), w[Len(s)])
<1> DEFINE n == Len(s)
<1>1. n \in Nat
  BY DEF IsSeq
<1>2. PICK run : ReplayAll(c, s) = run[n] /\ ReplayRounds(run, c, s)
  BY ReplayLoop
<1>3. run[0] = c /\ \A i \in 1 .. n : run[i] = ReplayEntry(run[i - 1], s[i])
  BY <1>2 DEF ReplayRounds
<1> HIDE DEF n
<1> DEFINE P == {i \in 0 .. n : ReplaysTo(c, run[i], w[i])}
<1>4. 0 \in P
  BY <1>1, <1>3, RewindsSelf DEF ReplaysTo
<1>5. ASSUME NEW i \in 1 .. n, i - 1 \in P PROVE i \in P
  <2>1. Rewinds(c, run[i - 1]) /\ State(run[i - 1]) = w[i - 1] /\ Good(run[i - 1])
    BY <1>5 DEF ReplaysTo, Rewinds
  <2>2. Leads(s[i], State(run[i - 1]), w[i]) /\ s[i].type # "new_group"
    BY <2>1 DEF n
  <2>3. ReplaysTo(run[i - 1], run[i], w[i])
    BY <1>3, <2>1, <2>2, ReplayRewinds
  <2>4. Rewinds(c, run[i])
    BY <2>1, <2>3, RewindsTwice DEF ReplaysTo
  <2> QED
    BY <1>1, <2>3, <2>4 DEF ReplaysTo
<1>6. P \in SUBSET (0 .. n)
  OBVIOUS
<1> HIDE DEF P
<1>7. P = 0 .. n
  BY <1>1, <1>4, <1>5, <1>6, AllRounds
<1>8. n \in P
  BY <1>1, <1>7
<1> QED
  BY <1>2, <1>8 DEF P, n

\* The stack ends in a finished group and can be replayed from st.
Finished(s, st) == ~HasUngrouped(s) /\ \E f : Arrives(s, f, st)

LEMMA LastOf ==
    ASSUME NEW s, IsSeq(s), s # <<>>
    PROVE  Len(s) \in Nat \ {0} /\ Last(s) = s[Len(s)]
BY FrontSeq DEF Last

LEMMA GroupFinished ==
    ASSUME NEW s, IsSeq(s), NEW st, NEW f, Arrives(s, f, st)
    PROVE  /\ ~HasUngrouped(PushNewGroup(s))
           /\ \E h : /\ Arrives(PushNewGroup(s), h, st)
                     /\ \A i \in 0 .. Len(s) : h[i] = f[i]
<1> DEFINE e == [type |-> "new_group"]
           n == Len(s)
           t == Append(s, e)
           h == [i \in 0 .. (n + 1) |-> IF i = n + 1 THEN st ELSE f[i]]
<1>1. CASE ~HasUngrouped(s)
  BY <1>1 DEF PushNewGroup
<1>2. CASE HasUngrouped(s)
  <2>1. /\ IsSeq(t) /\ n \in Nat /\ Len(t) = n + 1
        /\ (\A i \in 1 .. n : t[i] = s[i]) /\ t[n + 1] = e
    BY AppendSeq
  <2> HIDE DEF n, t
  <2>2. (\A i \in 1 .. n : Leads(s[i], f[i], f[i - 1])) /\ f[n] = st
    BY DEF Arrives, PathOn, n
  <2>3. ASSUME NEW i \in 1 .. (n + 1) PROVE Leads(t[i], h[i], h[i - 1])
    <3>1. CASE i = n + 1
      <4>1. h[i] = st /\ h[i - 1] = st /\ t[i] = e
        BY <2>1, <2>2, <3>1
      <4> QED
        BY <4>1 DEF Leads
    <3>2. CASE i # n + 1
      <4>1. i \in 1 .. n /\ i \in 0 .. (n + 1) /\ i - 1 \in 0 .. (n + 1) /\ i - 1 # n + 1
        BY <2>1, <3>2
      <4>2. h[i] = f[i] /\ h[i - 1] = f[i - 1] /\ t[i] = s[i]
        BY <2>1, <3>2, <4>1
      <4> QED
        BY <2>2, <4>1, <4>2
    <3> QED
      BY <3>1, <3>2
  <2>4. h = [i \in 0 .. Len(t) |-> h[i]] /\ h[Len(t)] = st
    BY <2>1
  <2>8. \A i \in 0 .. n : h[i] = f[i]
    BY <2>1
  <2> HIDE DEF h
  <2>5. Arrives(t, h, st)
    BY <2>1, <2>3, <2>4 DEF Arrives, PathOn
  <2>6. ~HasUngrouped(t)
    BY <2>1, LastOf DEF HasUngrouped, IsNewGroup
  <2>7. PushNewGroup(s) = t
    BY <1>2 DEF PushNewGroup, t
  <2> QED
    BY <2>5, <2>6, <2>7, <2>8 DEF n
<1> QED
  BY <1>1, <1>2

LEMMA NewGroupLeads ==
    ASSUME NEW e, NEW st, NEW ts, Leads(e, st, ts), e.type = "new_group"
    PROVE  ts = st
BY DEF Leads, LeadsItem, LeadsLayout, LeadsSelection

\* Taking the last group from a stack: its entries lead where the rest arrives.
Takes(u, f, st, s, start, cut, group) ==
    /\ StackOK(cut) /\ IsSeq(group) /\ Len(cut) = start
    /\ Bottom(s, start) /\ OpenAbove(s, start) /\ Finished(cut, f[start])
    /\ \E h : Arrives(cut, h, f[start]) /\ SameBelow(u, f, cut, h, start)
    /\ \E w : /\ w[0] = st /\ w[Len(group)] = f[start]
              /\ \A i \in 1 .. Len(group) : /\ Leads(group[i], w[i - 1], w[i])
                                            /\ group[i].type # "new_group"

LEMMA GroupTaken ==
    ASSUME NEW u, StackOK(u), u # <<>>, ~HasUngrouped(u), NEW f, NEW st, Arrives(u, f, st),
           NEW s, s = Front(u),
           NEW start, start = LastStart(s),
           NEW group, group = Reverse(SubSeq(s, start + 1, Len(s)))
    PROVE  Takes(u, f, st, s, start, SubSeq(s, 1, start), group)
<1> DEFINE n == Len(s)
           cut == SubSeq(s, 1, start)
<1>1. /\ IsSeq(u) /\ StackOK(s) /\ IsSeq(s) /\ Len(u) \in Nat \ {0} /\ n = Len(u) - 1
      /\ \A i \in 1 .. n : s[i] = u[i]
  BY FrontSeq, StackPopped DEF StackOK
<1>2. /\ start \in 0 .. n /\ n \in Nat /\ GroupOK(group)
      /\ start # 0 => IsNewGroup(s[start])
      /\ Len(group) = n - start
      /\ \A i \in 1 .. (n - start) : group[i] = s[(n - i) + 1]
  <2>1. LastGroupIs(s, start, group)
    BY <1>1, LastGroup
  <2> QED
    BY <2>1 DEF LastGroupIs
<1>3. Bottom(s, start) /\ OpenAbove(s, start)
  BY <1>1, <1>2, LastGroup DEF Bottom, OpenAbove, IsNewGroup, LastGroupIs
<1>4. f[n] = st
  <2>1. Last(u) = u[Len(u)] /\ u[Len(u)].type = "new_group"
    BY <1>1, LastOf DEF HasUngrouped, IsNewGroup
  <2>2. Len(u) \in 1 .. Len(u)
    BY <1>1
  <2>3. Leads(u[Len(u)], f[Len(u)], f[n]) /\ f[Len(u)] = st
    BY <1>1, <2>2 DEF Arrives, PathOn
  <2> QED
    BY <2>1, <2>3, NewGroupLeads
<1>5. StackOK(cut) /\ IsSeq(cut) /\ Len(cut) = start /\ \A i \in 1 .. start : cut[i] = s[i]
  <2>1. 1 \in 1 .. (n + 1)
    BY <1>2
  <2>2. /\ IsSeq(cut) /\ Len(cut) = (IF 1 <= start THEN start - 1 + 1 ELSE 0)
        /\ \A i \in 1 .. (start - 1 + 1) : cut[i] = s[1 + i - 1]
    BY <1>1, <1>2, <2>1, SubSeqSeq
  <2>3. /\ (IF 1 <= start THEN start - 1 + 1 ELSE 0) = start
        /\ start - 1 + 1 = start /\ \A i \in 1 .. start : 1 + i - 1 = i
    BY <1>2
  <2>4. StackOK(cut)
    BY <1>1, <1>2, StackCut
  <2> QED
    BY <2>2, <2>3, <2>4
<1> HIDE DEF cut, n
<1>6. \E h : Arrives(cut, h, f[start]) /\ SameBelow(u, f, cut, h, start)
  <2>1. start \in 0 .. Len(u) /\ start \in 0 .. start /\ \A i \in 1 .. start : i \in 1 .. n
    BY <1>1, <1>2
  <2>2. \A i \in 1 .. start : cut[i] = u[i]
    BY <1>1, <1>5, <2>1
  <2>3. PathOn(u, f)
    BY DEF Arrives
  <2> QED
    BY <1>1, <1>5, <2>1, <2>2, <2>3, PathCut
<1>7. Finished(cut, f[start])
  <2>1. CASE cut = <<>>
    BY <1>6, <2>1 DEF Finished, HasUngrouped
  <2>2. CASE cut # <<>>
    <3>1. Last(cut) = cut[start] /\ start \in 1 .. start /\ start # 0
      BY <1>2, <1>5, <2>2, LastOf
    <3>2. IsNewGroup(Last(cut))
      BY <1>2, <1>5, <3>1
    <3> QED
      BY <1>6, <3>2 DEF Finished, HasUngrouped
  <2> QED
    BY <2>1, <2>2
<1> DEFINE w == [i \in 0 .. (n - start) |-> f[n - i]]
<1>8. w[0] = st /\ w[n - start] = f[start]
  <2>1. 0 \in 0 .. (n - start) /\ n - start \in 0 .. (n - start)
        /\ n - 0 = n /\ n - (n - start) = start
    BY <1>2
  <2> QED
    BY <1>4, <2>1
<1>9. ASSUME NEW i \in 1 .. (n - start)
      PROVE  Leads(group[i], w[i - 1], w[i]) /\ group[i].type # "new_group"
  <2> DEFINE j == (n - i) + 1
  <2>1. /\ j \in 1 .. n /\ j \in 1 .. Len(u) /\ n - (i - 1) = j /\ j - 1 = n - i
        /\ i \in 0 .. (n - start) /\ i - 1 \in 0 .. (n - start)
    BY <1>1, <1>2
  <2>2. w[i] = f[n - i] /\ w[i - 1] = f[n - (i - 1)]
    BY <2>1
  <2>3. group[i] = s[j]
    BY <1>2
  <2> HIDE DEF j, w
  <2>4. group[i] = u[j] /\ w[i] = f[j - 1] /\ w[i - 1] = f[j]
    BY <1>1, <2>1, <2>2, <2>3
  <2>5. Leads(u[j], f[j], f[j - 1])
    BY <2>1 DEF Arrives, PathOn
  <2>6. group[i].type # "new_group"
    BY <1>2 DEF GroupOK, IsNewGroup
  <2> QED
    BY <2>4, <2>5, <2>6
<1> HIDE DEF w
<1>10. IsSeq(group)
  BY <1>2 DEF GroupOK, StackOK
<1>11. /\ w[0] = st /\ w[Len(group)] = f[start]
       /\ \A i \in 1 .. Len(group) : /\ Leads(group[i], w[i - 1], w[i])
                                     /\ group[i].type # "new_group"
  BY <1>2, <1>8, <1>9
<1> QED
  BY <1>3, <1>5, <1>6, <1>7, <1>10, <1>11 DEF Takes, cut

\* Every group is finished, and both stacks can be replayed.
Balanced(c) ==
    /\ Good(c) /\ c.history = "track_undo_new"
    /\ Finished(c.undo, State(c)) /\ Finished(c.redo, State(c))

\* The two circuits differ in their stacks and what is tracked.
StacksReplaced(c, d) ==
    /\ DOMAIN d = Fields /\ d.items = c.items /\ d.keys = c.keys /\ d.nextKey = c.nextKey
    /\ d.initial = c.initial /\ d.operations = c.operations /\ d.cached = c.cached
    /\ d.failed = c.failed
    /\ d.history \in {"track_undo_new", "track_redo_replay", "track_undo_replay"}
    /\ StackOK(d.undo) /\ StackOK(d.redo)

LEMMA StacksReplacedGood ==
    ASSUME NEW c, Good(c), NEW d, StacksReplaced(c, d)
    PROVE  Good(d) /\ State(d) = State(c)
<1>1. Sound(d)
  BY HistorySound DEF StacksReplaced, Good
<1>2. State(d) = State(c)
  BY DEF StacksReplaced, State, KeyIndexSet, IdOf, Ids, KeysOf
<1> QED
  BY <1>1, <1>2 DEF StacksReplaced, Good

LEMMA FinishReplayBalanced ==
    ASSUME NEW c, Good(c), NEW f, Arrives(c[Tracked(c)], f, State(c)),
           Finished(c[Other(c)], State(c))
    PROVE  /\ Balanced(FinishReplay(c)) /\ State(FinishReplay(c)) = State(c)
           /\ FinishReplay(c)[Tracked(c)] = PushNewGroup(c[Tracked(c)])
           /\ FinishReplay(c)[Other(c)] = c[Other(c)]
<1> DEFINE t == PushNewGroup(c[Tracked(c)])
           d == FinishReplay(c)
<1>1. StackOK(c[Tracked(c)]) /\ IsSeq(c[Tracked(c)])
  BY TrackedStack DEF StackOK, Good
<1>2. StackOK(t) /\ Finished(t, State(c))
  BY <1>1, GroupPushed, GroupFinished DEF Finished
<1>3. d = [c EXCEPT ![Tracked(c)] = t, !.history = "track_undo_new"]
  BY DEF FinishReplay
<1> HIDE DEF t, d
<1>4. /\ StacksReplaced(c, d) /\ d.history = "track_undo_new"
      /\ Finished(d.undo, State(c)) /\ Finished(d.redo, State(c))
      /\ d[Tracked(c)] = t /\ d[Other(c)] = c[Other(c)]
  <2>1. DOMAIN c = Fields /\ StackOK(c.undo) /\ StackOK(c.redo)
    BY DEF Good, Sound, Shape
  <2>2. CASE c.history = "track_redo_replay"
    <3>1. Tracked(c) = "redo" /\ Other(c) = "undo"
      BY <2>2 DEF Tracked, Other
    <3>2. d = [c EXCEPT !.redo = t, !.history = "track_undo_new"]
      BY <1>3, <3>1
    <3>3. /\ StacksReplaced(c, d) /\ d.history = "track_undo_new"
          /\ d.undo = c.undo /\ d.redo = t
      BY <1>2, <2>1, <3>2 DEF StacksReplaced, Fields
    <3> QED
      BY <1>2, <3>1, <3>3
  <2>3. CASE c.history # "track_redo_replay"
    <3>1. Tracked(c) = "undo" /\ Other(c) = "redo"
      BY <2>3 DEF Tracked, Other
    <3>2. d = [c EXCEPT !.undo = t, !.history = "track_undo_new"]
      BY <1>3, <3>1
    <3>3. /\ StacksReplaced(c, d) /\ d.history = "track_undo_new"
          /\ d.redo = c.redo /\ d.undo = t
      BY <1>2, <2>1, <3>2 DEF StacksReplaced, Fields
    <3> QED
      BY <1>2, <3>1, <3>3
  <2> QED
    BY <2>2, <2>3
<1>5. Good(d) /\ State(d) = State(c)
  BY <1>4, StacksReplacedGood
<1> QED
  BY <1>4, <1>5 DEF Balanced, d, t

LEMMA FinishedBottom ==
    ASSUME NEW s, IsSeq(s), ~HasUngrouped(s)
    PROVE  /\ Bottom(s, Len(s)) /\ OpenAbove(s, Len(s))
           /\ \A b : Bottom(s, b) /\ OpenAbove(s, b) => b = Len(s)
<1>1. Len(s) \in Nat
  BY DEF IsSeq
<1>2. Len(s) # 0 => s[Len(s)].type = "new_group"
  <2>1. Len(s) # 0 => s # <<>>
    BY EmptySeq
  <2> QED
    BY <2>1, LastOf DEF HasUngrouped, IsNewGroup
<1>3. Bottom(s, Len(s)) /\ OpenAbove(s, Len(s))
  BY <1>1, <1>2 DEF Bottom, OpenAbove
<1>4. ASSUME NEW b, Bottom(s, b), OpenAbove(s, b) PROVE b = Len(s)
  <2>1. b \in 0 .. Len(s)
    BY <1>4 DEF Bottom
  <2>2. Len(s) # 0 => Len(s) \in 1 .. Len(s)
    BY <1>1
  <2>3. ~(Len(s) > b)
    BY <1>2, <1>4, <2>1, <2>2 DEF OpenAbove
  <2> QED
    BY <1>1, <2>1, <2>3
<1> QED
  BY <1>3, <1>4

OtherStack(name) == IF name = "undo" THEN "redo" ELSE "undo"

\* Undo and redo replay a group without an exception, and what they leave can be replayed:
\* the group that they took leads to where it began, and the group that they left leads
\* back.
LEMMA GroupReplayed ==
    ASSUME NEW c, Balanced(c), NEW name \in {"undo", "redo"}
    PROVE  LET d == ReplayStack(c, name, ReplayEntry)
               o == OtherStack(name)
               m == Len(c[o])
           IN /\ Balanced(d)
              /\ c[name] = <<>> => d = c
              /\ c[name] # <<>> =>
                   \A g : Arrives(c[o], g, State(c)) =>
                       \E t, h : /\ IsSeq(t) /\ Arrives(t, h, State(d))
                                 /\ d[o] = PushNewGroup(t)
                                 /\ Bottom(t, m) /\ OpenAbove(t, m) /\ h[m] = State(c)
                                 /\ SameBelow(c[o], g, t, h, m)
              /\ c[name] # <<>> =>
                   \A f : Arrives(c[name], f, State(c)) =>
                       \E b : /\ Bottom(Front(c[name]), b) /\ OpenAbove(Front(c[name]), b)
                              /\ State(d) = f[b]
                              /\ \E k : /\ Arrives(d[name], k, State(d)) /\ Len(d[name]) = b
                                        /\ SameBelow(c[name], f, d[name], k, b)
<1> DEFINE s == Front(c[name])
           start == LastStart(s)
           popped == [c EXCEPT ![name] = SubSeq(s, 1, start),
                            !.history = IF name = "undo" THEN "track_redo_replay"
                                        ELSE "track_undo_replay"]
           group == Reverse(SubSeq(s, start + 1, Len(s)))
           guard == \/ c.history # "track_undo_new"
                    \/ HasUngrouped(c.undo)
                    \/ HasUngrouped(c.redo)
           d == ReplayStack(c, name, ReplayEntry)
           o == OtherStack(name)
           m == Len(c[o])
<1>1. ~guard
  BY DEF Balanced, Finished
<1>2. CASE c[name] = <<>>
  <2>1. ReplayStack(c, name, ReplayEntry) = c
    BY <1>1, <1>2, Zenon DEF ReplayStack
  <2> QED
    BY <1>2, <2>1
<1>3. CASE c[name] # <<>>
  <2>1. d = FinishReplay(ReplayAll(popped, group))
    BY <1>1, <1>3, Zenon DEF ReplayStack, ReplayOneGroup, ReplayAll, ForEach, LastStart
  <2>2. /\ Good(c) /\ StackOK(c[name]) /\ DOMAIN c = Fields /\ StackOK(c.undo)
        /\ StackOK(c.redo) /\ ~HasUngrouped(c[name])
    BY DEF Balanced, Good, Sound, Shape, Finished
  <2> DEFINE cut == SubSeq(s, 1, start)
             other == c[o]
  <2> HIDE DEF s, start, group, d
  <2>3. ASSUME NEW f, Arrives(c[name], f, State(c))
        PROVE  Takes(c[name], f, State(c), s, start, cut, group)
    BY <1>3, <2>2, <2>3, GroupTaken DEF s, start, group
  <2>4. PICK f0 : Arrives(c[name], f0, State(c))
    BY DEF Balanced, Finished
  <2>5. StackOK(cut) /\ IsSeq(group)
    BY <2>3, <2>4 DEF Takes
  <2>6. /\ StacksReplaced(c, popped)
        /\ popped[Other(popped)] = cut /\ popped[o] = other /\ Tracked(popped) = o
    <3>1. popped = [c EXCEPT ![name] = cut,
                             !.history = IF name = "undo" THEN "track_redo_replay"
                                         ELSE "track_undo_replay"]
      OBVIOUS
    <3> HIDE DEF popped, cut
    <3>2. CASE name = "undo"
      <4>1. popped = [c EXCEPT !.undo = cut, !.history = "track_redo_replay"]
        BY <3>1, <3>2
      <4>2. /\ StacksReplaced(c, popped) /\ popped.history = "track_redo_replay"
            /\ popped.undo = cut /\ popped.redo = c.redo
        BY <2>2, <2>5, <4>1 DEF Fields, StacksReplaced
      <4> QED
        BY <3>2, <4>2 DEF Tracked, Other, OtherStack
    <3>3. CASE name = "redo"
      <4>1. popped = [c EXCEPT !.redo = cut, !.history = "track_undo_replay"]
        BY <3>1, <3>3
      <4>2. /\ StacksReplaced(c, popped) /\ popped.history = "track_undo_replay"
            /\ popped.redo = cut /\ popped.undo = c.undo
        BY <2>2, <2>5, <4>1 DEF Fields, StacksReplaced
      <4> QED
        BY <3>3, <4>2 DEF Tracked, Other, OtherStack
    <3> QED
      BY <3>2, <3>3
  <2>7. StackOK(other) /\ ~HasUngrouped(other) /\ \E g : Arrives(other, g, State(c))
    BY <2>2 DEF Balanced, Finished, OtherStack
  <2> DEFINE q == ReplayAll(popped, group)
  <2> HIDE DEF popped, other, cut, o
  <2>8. Good(popped) /\ State(popped) = State(c)
    BY <2>2, <2>6, StacksReplacedGood
  <2>9. ASSUME NEW f, Arrives(c[name], f, State(c))
        PROVE  Rewinds(popped, q) /\ State(q) = f[start]
    <3>1. PICK w : /\ w[0] = State(c) /\ w[Len(group)] = f[start]
                   /\ \A i \in 1 .. Len(group) : /\ Leads(group[i], w[i - 1], w[i])
                                                 /\ group[i].type # "new_group"
      BY <2>3, <2>9 DEF Takes
    <3> QED
      BY <2>5, <2>8, <3>1, ReplayAllRewinds DEF ReplaysTo
  <2> HIDE DEF q
  <2>10. Rewinds(popped, q) /\ State(q) = f0[start]
    BY <2>4, <2>9
  <2>11. Tracked(q) = o /\ Other(q) = Other(popped) /\ Good(q)
    BY <2>6, <2>10 DEF Rewinds, Tracked, Other
  <2>12. Finished(q[Other(q)], State(q))
    BY <2>3, <2>4, <2>6, <2>10, <2>11 DEF Rewinds, Takes
  <2>13. ASSUME NEW g, Arrives(other, g, State(c))
         PROVE  \E h : /\ Arrives(q[o], h, State(q)) /\ Bottom(q[o], m) /\ OpenAbove(q[o], m)
                       /\ h[m] = State(c) /\ SameBelow(other, g, q[o], h, m)
    <3>1. Rewound(other, State(c), q[o], State(q))
      BY <2>6, <2>8, <2>10, <2>11 DEF Rewinds
    <3>3. IsSeq(other) /\ m = Len(other) /\ m \in Nat
      BY <2>7 DEF StackOK, IsSeq, other
    <3>4. Bottom(other, m) /\ OpenAbove(other, m)
      BY <2>7, <3>3, FinishedBottom
    <3> HIDE DEF m
    <3>5. PICK h : Arrives(q[o], h, State(q)) /\ SameBelow(other, g, q[o], h, m)
      BY <2>13, <3>1, <3>4 DEF Rewound
    <3>6. Bottom(q[o], m)
      BY <3>3, <3>4, <3>5, BottomKept
    <3>7. m \in 0 .. m /\ g[m] = State(c)
      BY <2>13, <3>3 DEF Arrives
    <3>8. OpenAbove(q[o], m) /\ h[m] = State(c)
      BY <3>4, <3>5, <3>7 DEF SameBelow
    <3> QED
      BY <3>5, <3>6, <3>8
  <2>14. /\ Balanced(d) /\ State(d) = State(q) /\ d[o] = PushNewGroup(q[o])
         /\ d[name] = cut
    <3>1. PICK h : Arrives(q[o], h, State(q))
      BY <2>7, <2>13
    <3>2. Other(q) = name /\ q[Other(q)] = cut
      BY <2>6, <2>10, <2>11 DEF Rewinds, Tracked, Other, OtherStack, o
    <3> QED
      BY <2>1, <2>11, <2>12, <3>1, <3>2, FinishReplayBalanced DEF q
  <2>15. IsSeq(q[o])
    BY <2>11, TrackedStack DEF Good, StackOK
  <2>16. ASSUME NEW g, Arrives(other, g, State(c))
         PROVE  \E t, h1 : /\ IsSeq(t) /\ Arrives(t, h1, State(d)) /\ d[o] = PushNewGroup(t)
                           /\ Bottom(t, m) /\ OpenAbove(t, m) /\ h1[m] = State(c)
                           /\ SameBelow(other, g, t, h1, m)
    BY <2>13, <2>14, <2>15, <2>16
  <2>17. ASSUME NEW f, Arrives(c[name], f, State(c))
         PROVE  \E b : /\ Bottom(s, b) /\ OpenAbove(s, b) /\ State(d) = f[b]
                       /\ \E k : /\ Arrives(d[name], k, State(d)) /\ Len(d[name]) = b
                                 /\ SameBelow(c[name], f, d[name], k, b)
    BY <2>3, <2>9, <2>14, <2>17 DEF Takes
  <2> QED
    BY <1>3, <2>14, <2>16, <2>17 DEF d, o, s, other
<1> QED
  BY <1>2, <1>3

-----------------------------------------------------------------------------
(***************************************************************************)
(* Between calls.                                                          *)
(***************************************************************************)

\* The undo stack can be replayed, and the redo stack from where the open group began.
ReplayableFrom(c, f, g, b) ==
    /\ Arrives(c.undo, f, State(c)) /\ Bottom(c.undo, b) /\ OpenAbove(c.undo, b)
    /\ Arrives(c.redo, g, f[b])

Replayable(c) ==
    /\ Good(c) /\ c.history = "track_undo_new" /\ ~HasUngrouped(c.redo)
    /\ \E f, g, b : ReplayableFrom(c, f, g, b)

LEMMA UndoIsTracked ==
    ASSUME NEW c, Good(c), c.history = "track_undo_new"
    PROVE  Tracked(c) = "undo" /\ Other(c) = "redo" /\ IsSeq(c.undo) /\ Len(c.undo) \in Nat
BY DEF Tracked, Other, Good, Sound, Shape, StackOK, IsSeq

\* An edit changes neither the redo stack nor where the open group began.
LEMMA EditReplayable ==
    ASSUME NEW c, Replayable(c), NEW d, Rewinds(c, d),
           NEW f, NEW g, NEW b, ReplayableFrom(c, f, g, b)
    PROVE  /\ Replayable(d) /\ d.redo = c.redo
           /\ \E h : /\ ReplayableFrom(d, h, g, b) /\ h[b] = f[b]
                     /\ SameBelow(c.undo, f, d.undo, h, b)
<1>1. /\ Good(c) /\ c.history = "track_undo_new" /\ ~HasUngrouped(c.redo)
      /\ Tracked(c) = "undo" /\ Other(c) = "redo" /\ IsSeq(c.undo)
  BY UndoIsTracked DEF Replayable
<1>2. /\ Good(d) /\ d.history = "track_undo_new" /\ d.redo = c.redo
      /\ Rewound(c.undo, State(c), d.undo, State(d))
  BY <1>1 DEF Rewinds
<1>3. PICK h : Arrives(d.undo, h, State(d)) /\ SameBelow(c.undo, f, d.undo, h, b)
  BY <1>2 DEF Rewound, ReplayableFrom
<1>4. Bottom(d.undo, b)
  BY <1>1, <1>3, BottomKept DEF ReplayableFrom
<1>5. OpenAbove(d.undo, b) /\ h[b] = f[b]
  <2>1. b \in 0 .. b
    BY DEF ReplayableFrom, Bottom
  <2> QED
    BY <1>3, <2>1 DEF ReplayableFrom, SameBelow
<1>6. ReplayableFrom(d, h, g, b)
  BY <1>2, <1>3, <1>4, <1>5 DEF ReplayableFrom
<1> QED
  BY <1>1, <1>2, <1>3, <1>5, <1>6 DEF Replayable

LEMMA BalancedIsReplayable ==
    ASSUME NEW c, Balanced(c) PROVE Replayable(c)
<1>1. Good(c) /\ c.history = "track_undo_new" /\ IsSeq(c.undo)
  BY UndoIsTracked DEF Balanced
<1>2. PICK f : Arrives(c.undo, f, State(c))
  BY DEF Balanced, Finished
<1>3. PICK g : Arrives(c.redo, g, State(c))
  BY DEF Balanced, Finished
<1>4. ReplayableFrom(c, f, g, Len(c.undo))
  <2>1. f[Len(c.undo)] = State(c)
    BY <1>2 DEF Arrives
  <2> QED
    BY <1>1, <1>2, <1>3, <2>1, FinishedBottom DEF ReplayableFrom, Balanced, Finished
<1> QED
  BY <1>1, <1>4 DEF Replayable, Balanced, Finished

LEMMA ReplayableIsBalanced ==
    ASSUME NEW c, Replayable(c), ~HasUngrouped(c.undo) PROVE Balanced(c)
<1>1. /\ Good(c) /\ c.history = "track_undo_new" /\ IsSeq(c.undo)
      /\ ~HasUngrouped(c.redo)
  BY UndoIsTracked DEF Replayable
<1>2. PICK f, g, b : ReplayableFrom(c, f, g, b)
  BY DEF Replayable
<1>3. b = Len(c.undo)
  BY <1>1, <1>2, FinishedBottom DEF ReplayableFrom
<1>4. f[b] = State(c)
  BY <1>2, <1>3 DEF ReplayableFrom, Arrives
<1> QED
  BY <1>1, <1>2, <1>4 DEF Balanced, Finished, ReplayableFrom

\* Nothing is left to replay.
LEMMA EmptyFinished ==
    ASSUME NEW st PROVE Finished(<<>>, st) /\ StackOK(<<>>)
<1> DEFINE f == [i \in 0 .. 0 |-> st]
<1>1. Len(<<>>) = 0 /\ 1 .. Len(<<>>) = {}
  BY EmptySeq
<1>2. f = [i \in 0 .. Len(<<>>) |-> f[i]] /\ f[Len(<<>>)] = st
  BY <1>1
<1> HIDE DEF f
<1>3. Arrives(<<>>, f, st)
  BY <1>1, <1>2 DEF Arrives, PathOn
<1> QED
  BY <1>3, NoOperations DEF Finished, HasUngrouped, OperationsOK, StackOK

\* Finishing a group drops what could be redone.
LEMMA OpenGroupFinished ==
    ASSUME NEW c, Good(c), c.history = "track_undo_new", HasUngrouped(c.undo),
           NEW f, Arrives(c.undo, f, State(c))
    PROVE  /\ Balanced(FinishUndoGroup(c)) /\ State(FinishUndoGroup(c)) = State(c)
           /\ FinishUndoGroup(c).undo = PushNewGroup(c.undo)
           /\ FinishUndoGroup(c).redo = <<>>
<1> DEFINE t == PushNewGroup(c.undo)
           d == [c EXCEPT !.undo = t, !.redo = <<>>]
<1>1. IsSeq(c.undo) /\ StackOK(c.undo) /\ DOMAIN c = Fields
  BY UndoIsTracked DEF Good, Sound, Shape
<1>2. StackOK(t) /\ Finished(t, State(c))
  BY <1>1, GroupPushed, GroupFinished DEF Finished
<1> HIDE DEF t
<1>3. /\ StacksReplaced(c, d) /\ d.history = "track_undo_new" /\ d.undo = t /\ d.redo = <<>>
  BY <1>1, <1>2, EmptyFinished DEF StacksReplaced, Fields
<1> HIDE DEF d
<1>4. Good(d) /\ State(d) = State(c)
  BY <1>3, StacksReplacedGood
<1>5. Balanced(d)
  BY <1>2, <1>3, <1>4, EmptyFinished DEF Balanced
<1> QED
  BY <1>3, <1>4, <1>5 DEF FinishUndoGroup, d, t

LEMMA FinishUndoGroupBalanced ==
    ASSUME NEW c, Replayable(c)
    PROVE  Balanced(FinishUndoGroup(c)) /\ State(FinishUndoGroup(c)) = State(c)
<1>1. CASE HasUngrouped(c.undo)
  <2>1. PICK f, g, b : ReplayableFrom(c, f, g, b)
    BY DEF Replayable
  <2> QED
    BY <1>1, <2>1, OpenGroupFinished DEF Replayable, ReplayableFrom
<1>2. CASE ~HasUngrouped(c.undo)
  <2>1. FinishUndoGroup(c) = c
    BY <1>2 DEF FinishUndoGroup
  <2> QED
    BY <1>2, <2>1, ReplayableIsBalanced
<1> QED
  BY <1>1, <1>2

LEMMA UndoReplayable ==
    ASSUME NEW c, Replayable(c)
    PROVE  /\ Replayable(UndoGroup(c))
           /\ ~HasUngrouped(c.undo) => Replayable(RedoGroup(c))
<1>1. Balanced(UndoGroup(c))
  BY FinishUndoGroupBalanced, GroupReplayed, Zenon DEF UndoGroup
<1>2. ASSUME ~HasUngrouped(c.undo) PROVE Balanced(RedoGroup(c))
  BY <1>2, ReplayableIsBalanced, GroupReplayed, Zenon DEF RedoGroup
<1> QED
  BY <1>1, <1>2, BalancedIsReplayable

\* Entries that only finish groups lead nowhere else.
LEMMA SkipGroups ==
    ASSUME NEW s, IsSeq(s), NEW f, PathOn(s, f), NEW m \in 0 .. Len(s),
           \A i \in 1 .. Len(s) : i > m => s[i].type = "new_group"
    PROVE  f[m] = f[Len(s)]
<1> DEFINE n == Len(s) - m
           P == {i \in 0 .. n : f[m + i] = f[m]}
<1>1. Len(s) \in Nat /\ m \in Nat /\ n \in Nat /\ m + n = Len(s) /\ m + 0 = m
  BY DEF IsSeq
<1> HIDE DEF n
<1>2. 0 \in P
  BY <1>1
<1>3. ASSUME NEW i \in 1 .. n, i - 1 \in P PROVE i \in P
  <2>1. /\ m + i \in 1 .. Len(s) /\ m + i > m /\ (m + i) - 1 = m + (i - 1)
        /\ i \in 0 .. n
    BY <1>1
  <2>2. Leads(s[m + i], f[m + i], f[m + (i - 1)]) /\ s[m + i].type = "new_group"
    BY <2>1 DEF PathOn
  <2>3. f[m + (i - 1)] = f[m + i]
    BY <2>2, NewGroupLeads
  <2> QED
    BY <1>3, <2>1, <2>3
<1>4. P \in SUBSET (0 .. n)
  OBVIOUS
<1> HIDE DEF P
<1>5. P = 0 .. n
  BY <1>1, <1>2, <1>3, <1>4, AllRounds
<1>6. n \in P
  BY <1>1, <1>5
<1> QED
  BY <1>1, <1>6 DEF P

\* Reopening the last group takes what finishes it from the stack, and nothing else.
\* The stack t is s without what finishes its last group.
Reopens(s, f, t, st) ==
    /\ IsSeq(t) /\ Len(t) \in 1 .. Len(s) /\ s[Len(t)].type # "new_group"
    /\ \A i \in 1 .. Len(s) : i > Len(t) => s[i].type = "new_group"
    /\ \E h : Arrives(t, h, st) /\ SameBelow(s, f, t, h, Len(t))

LEMMA ReopenKeepsPath ==
    ASSUME NEW c, Good(c), c.history = "track_undo_new", NEW f, Arrives(c.undo, f, State(c))
    PROVE  LET d == ReopenAttributeGroup(c)
           IN /\ Good(d) /\ d.history = "track_undo_new" /\ d.items = c.items
              /\ State(d) = State(c) /\ \E h : Arrives(d.undo, h, State(d))
              /\ ~ReopensGroup(c) => d = c
              /\ ReopensGroup(c) => ~HasUngrouped(c.undo) /\ Reopens(c.undo, f, d.undo, State(c))
<1> DEFINE s == c.undo
           last == SelectLastInSeq(s, LAMBDA e : ~IsNewGroup(e))
           I == {i \in 1 .. Len(s) : ~IsNewGroup(s[i])}
           t == SubSeq(s, 1, last)
           d == [c EXCEPT !.undo = t]
<1>1. StackOK(s) /\ IsSeq(s) /\ Len(s) \in Nat /\ DOMAIN c = Fields /\ StackOK(c.redo)
  BY DEF Good, Sound, Shape, StackOK, IsSeq
<1>2. last = IF I # {} THEN Max(I) ELSE 0
  BY DEF SelectLastInSeq
<1>3. I \in SUBSET (1 .. Len(s))
  OBVIOUS
<1> HIDE DEF I
<1>4. I # {} => (Max(I) \in I /\ \A k \in I : k <= Max(I))
  BY <1>1, <1>3, Greatest
<1> HIDE DEF last
<1>5. last \in 0 .. Len(s) /\ \A i \in I : i <= last
  <2>1. CASE I = {}
    BY <1>1, <1>2, <2>1
  <2>2. CASE I # {}
    <3>1. last \in I /\ \A i \in I : i <= last
      BY <1>2, <1>4, <2>2
    <3>2. last \in 1 .. Len(s)
      BY <1>3, <3>1
    <3> QED
      BY <1>1, <3>1, <3>2
  <2> QED
    BY <2>1, <2>2
<1>6. StackOK(t) /\ IsSeq(t) /\ Len(t) = last /\ \A i \in 1 .. last : t[i] = s[i]
  <2>1. 1 \in 1 .. (Len(s) + 1)
    BY <1>1
  <2>2. /\ IsSeq(t) /\ Len(t) = (IF 1 <= last THEN last - 1 + 1 ELSE 0)
        /\ \A i \in 1 .. (last - 1 + 1) : t[i] = s[1 + i - 1]
    BY <1>1, <1>5, <2>1, SubSeqSeq
  <2>3. /\ (IF 1 <= last THEN last - 1 + 1 ELSE 0) = last
        /\ last - 1 + 1 = last /\ \A i \in 1 .. last : 1 + i - 1 = i
    BY <1>1, <1>5
  <2>4. StackOK(t)
    BY <1>1, <1>5, StackCut
  <2> QED
    BY <2>2, <2>3, <2>4
<1>7. ReopenAttributeGroup(c) = IF ReopensGroup(c) THEN d ELSE c
  BY Zenon DEF ReopenAttributeGroup, ReopenGroup, last
<1> HIDE DEF t, s
<1>8. /\ StacksReplaced(c, d) /\ d.history = "track_undo_new" /\ d.undo = t
  BY <1>1, <1>6 DEF StacksReplaced, Fields, s
<1> HIDE DEF d
<1>9. Good(d) /\ State(d) = State(c) /\ d.items = c.items
  BY <1>8, StacksReplacedGood DEF StacksReplaced
<1>10. PathOn(s, f) /\ f[Len(s)] = State(c)
  BY DEF Arrives, s
<1>11. \A i \in 1 .. Len(s) : i > last => s[i].type = "new_group"
  <2> SUFFICES ASSUME NEW i \in 1 .. Len(s), i > last PROVE s[i].type = "new_group"
    OBVIOUS
  <2>1. i \notin I
    BY <1>1, <1>5
  <2> QED
    BY <2>1 DEF I, IsNewGroup
<1>12. f[last] = State(c)
  BY <1>1, <1>5, <1>10, <1>11, SkipGroups
<1>13. \E h : Arrives(t, h, State(c)) /\ SameBelow(s, f, t, h, last)
  <2>1. last \in 0 .. last
    BY <1>1, <1>5
  <2> QED
    BY <1>1, <1>5, <1>6, <1>10, <1>12, <2>1, PathCut
<1>14. \E h : Arrives(d.undo, h, State(d))
  BY <1>8, <1>9, <1>13
<1>15. ASSUME ReopensGroup(c)
       PROVE  ~HasUngrouped(c.undo) /\ Reopens(c.undo, f, d.undo, State(c))
  <2>1. /\ ~HasUngrouped(c.undo) /\ last # 0 /\ s[last].type = "change_attributes"
    BY <1>15, Zenon DEF ReopensGroup, last, s
  <2>2. last \in 1 .. Len(s)
    BY <1>1, <1>5, <2>1
  <2> QED
    BY <1>6, <1>8, <1>11, <1>13, <2>1, <2>2 DEF Reopens, s
<1> QED
  BY <1>7, <1>8, <1>9, <1>14, <1>15

LEMMA AttributesOpenGroup ==
    ASSUME NEW c, Good(c), c.history = "track_undo_new", NEW id, NEW attrs
    PROVE  HasUngrouped(SetAttributes(c, id, attrs).undo)
<1> DEFINE key == c.keys[id]
           a == c.items[id].def.attrs
           e == [type |-> "change_attributes", key |-> key, attrs |-> a]
           s == c.undo
           t == IF TopIs(s, "change_attributes", key) THEN s ELSE Append(s, e)
           b == PushChangeAttributes(c, key, a)
           d == SetAttributes(c, id, attrs)
<1>1. Tracked(c) = "undo" /\ IsSeq(s) /\ DOMAIN c = Fields
  BY UndoIsTracked DEF Good, Sound, Shape
<1>2. d.undo = b.undo
  <2>1. d = [b EXCEPT !.items[id].def.attrs = attrs]
    BY DEF SetAttributes
  <2> HIDE DEF b, d
  <2> QED
    BY <2>1
<1>3. b = [c EXCEPT !["undo"] = t]
  BY <1>1 DEF PushChangeAttributes, Record
<1>4. b.undo = t
  <2> HIDE DEF t, b
  <2> QED
    BY <1>1, <1>3 DEF Fields
<1>5. HasUngrouped(t)
  <2>1. CASE TopIs(s, "change_attributes", key)
    BY <2>1 DEF HasUngrouped, TopIs, IsNewGroup
  <2>2. CASE ~TopIs(s, "change_attributes", key)
    <3>1. /\ IsSeq(Append(s, e)) /\ Len(s) \in Nat /\ Len(Append(s, e)) = Len(s) + 1
          /\ Append(s, e)[Len(s) + 1] = e
      BY <1>1, AppendSeq
    <3> DEFINE u == Append(s, e)
    <3> HIDE DEF u
    <3>2. u # <<>> /\ Last(u) = e
      <4>1. Len(u) # 0
        BY <3>1 DEF u
      <4>2. u # <<>>
        BY <4>1, EmptySeq
      <4>3. IsSeq(u) /\ u[Len(u)] = e
        BY <3>1 DEF u
      <4> QED
        BY <4>2, <4>3, LastOf
    <3>3. t = u
      BY <2>2 DEF u
    <3>4. e.type # "new_group"
      OBVIOUS
    <3> HIDE DEF t, e
    <3>5. t # <<>> /\ Last(t).type # "new_group"
      BY <3>2, <3>3, <3>4
    <3> QED
      BY <3>5 DEF HasUngrouped, IsNewGroup
  <2> QED
    BY <2>1, <2>2
<1> QED
  BY <1>2, <1>4, <1>5

LEMMA ChangeSettingReplayable ==
    ASSUME NEW c, Replayable(c), NEW id \in DOMAIN c.items, NEW attrs \in Attributes
    PROVE  Replayable(ChangeSettingAttributes(c, id, attrs))
<1> DEFINE b == ReopenAttributeGroup(c)
           d == SetAttributes(b, id, attrs)
<1>1. PICK f : Arrives(c.undo, f, State(c))
  BY DEF Replayable, ReplayableFrom
<1>2. /\ Good(b) /\ b.history = "track_undo_new" /\ b.items = c.items
      /\ \E h : Arrives(b.undo, h, State(b))
  BY <1>1, ReopenKeepsPath DEF Replayable
<1> HIDE DEF b
<1>3. Rewinds(b, d) /\ HasUngrouped(d.undo)
  BY <1>2, SetAttributesRewinds, AttributesOpenGroup
<1> HIDE DEF d
<1>4. /\ Good(d) /\ d.history = "track_undo_new" /\ IsSeq(b.undo) /\ Len(b.undo) \in Nat
      /\ Rewound(b.undo, State(b), d.undo, State(d))
  BY <1>2, <1>3, UndoIsTracked DEF Rewinds
<1>5. Bottom(b.undo, 0)
  BY <1>4 DEF Bottom
<1>6. PICK h : Arrives(d.undo, h, State(d))
  BY <1>2, <1>4, <1>5 DEF Rewound
<1>7. Balanced(FinishUndoGroup(d))
  BY <1>3, <1>4, <1>6, OpenGroupFinished
<1> QED
  BY <1>7, BalancedIsReplayable DEF ChangeSettingAttributes, b, d

-----------------------------------------------------------------------------
(***************************************************************************)
(* The invariant.                                                          *)
(***************************************************************************)

ReplayInv == Replayable(circuit)

LEMMA LoadedIsReplayable == Init => ReplayInv
<1> SUFFICES ASSUME NEW loaded \in Loaded, circuit = LoadedCircuit(loaded)
             PROVE  Replayable(circuit)
  BY DEF Init, ReplayInv
<1> DEFINE n == Len(loaded.items)
           items == [i \in DOMAIN loaded.items |-> LoadedItem(loaded.items[i])]
           keys == [i \in DOMAIN loaded.items |-> i]
<1>1. Sound(circuit)
  BY LoadedIsSound DEF Init, SoundInv
<1>2. loaded.items \in Seq([def : Definition, position : 1 .. Cells])
  BY CircuitConstants
<1>3. /\ n \in Nat /\ DOMAIN loaded.items = 1 .. n
      /\ \A i \in 1 .. n : loaded.items[i] \in [def : Definition, position : 1 .. Cells]
  <2>1. n \in Nat /\ DOMAIN loaded.items = 1 .. n
    BY <1>2, SequenceOf
  <2> DEFINE S == [def : Definition, position : 1 .. Cells]
  <2>2. loaded.items \in Seq(S)
    BY <1>2
  <2> HIDE DEF S, n, items, keys
  <2>3. \A i \in 1 .. n : loaded.items[i] \in S
    BY <2>1, <2>2, ElementOfSeq DEF n
  <2> QED
    BY <2>1, <2>3 DEF S
<1> HIDE DEF n
<1>4. /\ DOMAIN items = 1 .. n /\ \A i \in 1 .. n : items[i] = LoadedItem(loaded.items[i])
      /\ \A i \in 1 .. n : keys[i] = i
  BY <1>3
<1>5. \A i \in 1 .. n : items[i] \in Item
  BY <1>3, <1>4 DEF LoadedItem, Item, Display
<1>6. /\ circuit.items = items /\ circuit.keys = keys /\ circuit.nextKey = n + 1
      /\ circuit.history = "track_undo_new" /\ circuit.failed = FALSE
      /\ circuit.undo = <<>> /\ circuit.redo = <<>>
  BY DEF LoadedCircuit, n
<1> HIDE DEF items, keys
<1>7. Good(circuit)
  <2>1. n + 1 \in Nat \ {0} /\ (n + 1) - 1 = n
    BY <1>3
  <2> QED
    BY <1>1, <1>4, <1>5, <1>6, <2>1 DEF Good
<1>8. Balanced(circuit)
  BY <1>6, <1>7, EmptyFinished DEF Balanced
<1> QED
  BY <1>8, BalancedIsReplayable

\* Drawing the circuit changes nothing that a replay sees.
LEMMA ReadSame ==
    ASSUME NEW c, Replayable(c)
    PROVE  LET d == ReadVisibleSelection(c)
           IN /\ Good(d) /\ State(d) = State(c) /\ d.history = c.history
              /\ d.undo = c.undo /\ d.redo = c.redo
<1> DEFINE d == ReadVisibleSelection(c)
<1>1. /\ Sound(c) /\ Sound(d)
      /\ d.items = c.items /\ d.initial = c.initial /\ d.operations = c.operations
      /\ d.history = c.history /\ d.keys = c.keys /\ d.nextKey = c.nextKey
      /\ d.failed = c.failed /\ d.undo = c.undo /\ d.redo = c.redo
  <2>1. Sound(c) /\ DOMAIN c = Fields
    BY DEF Replayable, Good, Sound, Shape
  <2>2. Sound(d)
    BY <2>1, ReadSound
  <2> DEFINE x == IF c.operations = <<>> THEN c.cached ELSE {VisibleSelection(c)}
  <2>3. d = [c EXCEPT !.cached = x]
    BY DEF ReadVisibleSelection
  <2> HIDE DEF x, d
  <2> QED
    BY <2>1, <2>2, <2>3 DEF Fields
<1> HIDE DEF d
<1>2. State(d) = State(c)
  BY <1>1 DEF State, KeyIndexSet, IdOf, Ids, KeysOf
<1>3. Good(d)
  BY <1>1 DEF Good, Replayable
<1> QED
  BY <1>1, <1>2, <1>3 DEF d

LEMMA ReadReplayable ==
    ASSUME NEW c, Replayable(c)
    PROVE  /\ Replayable(ReadVisibleSelection(c))
           /\ \A f, g, b : ReplayableFrom(c, f, g, b)
                              => ReplayableFrom(ReadVisibleSelection(c), f, g, b)
BY ReadSame DEF Replayable, ReplayableFrom

LEMMA CallReplayable ==
    ASSUME NEW name, NEW c, Replayable(c), Call(name, c)
    PROVE  ReplayInv'
<1>1. Replayable(ReadVisibleSelection(c))
  BY ReadReplayable
<1> QED
  BY <1>1 DEF Call, ReplayInv

\* A call whose edit can be rewound.
RewindingCall == \E name, c : Rewinds(circuit, c) /\ Call(name, c)

LEMMA RewindingCallReplayable ==
    ASSUME ReplayInv, RewindingCall PROVE ReplayInv'
<1>1. PICK name, c : Rewinds(circuit, c) /\ Call(name, c)
  BY DEF RewindingCall
<1>2. PICK f, g, b : ReplayableFrom(circuit, f, g, b)
  BY DEF ReplayInv, Replayable
<1>3. Replayable(c)
  BY <1>1, <1>2, EditReplayable DEF ReplayInv
<1> QED
  BY <1>1, <1>3, CallReplayable

LEMMA SelectionCallsRewind ==
    ASSUME ReplayInv
    PROVE  /\ DoChangeInsertionMode => RewindingCall
           /\ DoMoveOrDelete => RewindingCall
           /\ DoMoveUnchecked => RewindingCall
           /\ DoDeleteAll => RewindingCall
           /\ DoVisibleSelectionDeleteAll => RewindingCall
<1>1. Good(circuit) /\ Sound(circuit) /\ Ids(circuit) = DOMAIN circuit.items
  BY ItemIds DEF ReplayInv, Replayable, Good
<1>2. ASSUME DoChangeInsertionMode PROVE RewindingCall
  <2>1. PICK order \in Orders(Ids(circuit)), mode \in Mode :
          Call("change_insertion_mode", ChangeSelectionMode(circuit, order, mode))
    BY <1>2 DEF DoChangeInsertionMode
  <2>2. Distinct(order) /\ Members(order) \subseteq DOMAIN circuit.items
    BY <1>1, OrdersTrack
  <2>3. Rewinds(circuit, ChangeSelectionMode(circuit, order, mode))
    BY <1>1, <2>2, SelectionEditsRewind
  <2> QED
    BY <2>1, <2>3 DEF RewindingCall
<1>3. \A order \in Orders(Temporaries) :
         /\ Distinct(order) /\ Members(order) \subseteq DOMAIN circuit.items
         /\ \A j \in Members(order) : circuit.items[j].display = "temporary"
  <2>1. Temporaries \subseteq DOMAIN circuit.items
    BY <1>1 DEF Temporaries
  <2>2. \A order \in Orders(Temporaries) :
          /\ Distinct(order) /\ Members(order) \subseteq Temporaries
          /\ Members(order) \subseteq DOMAIN circuit.items
    BY <1>1, <2>1, OrdersTrack
  <2> QED
    BY <2>2 DEF Temporaries
<1>4. ASSUME DoMoveOrDelete PROVE RewindingCall
  <2>1. PICK order \in Orders(Temporaries), delta \in {-1, 1} :
          Call("move_or_delete_temporary", MoveOrDeleteSelection(circuit, order, delta))
    BY <1>4 DEF DoMoveOrDelete
  <2>2. delta \in Int
    OBVIOUS
  <2>3. Rewinds(circuit, MoveOrDeleteSelection(circuit, order, delta))
    BY <1>1, <1>3, <2>2, SelectionEditsRewind
  <2> QED
    BY <2>1, <2>3 DEF RewindingCall
<1>5. ASSUME DoMoveUnchecked PROVE RewindingCall
  <2>1. PICK order \in Orders(Temporaries), delta \in {-1, 1} :
          /\ \A i \in DOMAIN order :
               IsRepresentable(circuit.items[order[i]].position + delta)
          /\ Call("move_temporary_unchecked", MoveSelectionUnchecked(circuit, order, delta))
    BY <1>5 DEF DoMoveUnchecked
  <2>2. delta \in Int
    OBVIOUS
  <2>3. DOMAIN order = 1 .. Len(order)
    BY <1>3 DEF Distinct, IsSeq
  <2>4. \A j \in Members(order) : IsRepresentable(circuit.items[j].position + delta)
    BY <2>1, <2>3 DEF Members
  <2>5. Rewinds(circuit, MoveSelectionUnchecked(circuit, order, delta))
    BY <1>1, <1>3, <2>2, <2>4, MoveSelectionRewinds
  <2> QED
    BY <2>1, <2>5 DEF RewindingCall
<1>6. ASSUME DoDeleteAll PROVE RewindingCall
  <2>1. PICK order \in Orders(Ids(circuit)) : Call("delete_all", DeleteAll(circuit, order))
    BY <1>6 DEF DoDeleteAll
  <2>2. Distinct(order) /\ Members(order) \subseteq DOMAIN circuit.items
    BY <1>1, OrdersTrack
  <2>3. Rewinds(circuit, DeleteAll(circuit, order))
    BY <1>1, <2>2, SelectionEditsRewind
  <2> QED
    BY <2>1, <2>3 DEF RewindingCall
<1>7. ASSUME DoVisibleSelectionDeleteAll PROVE RewindingCall
  <2> DEFINE b == SetVisibleSelection(circuit, {})
  <2>1. PICK order \in SetToSeqs(VisibleSelection(circuit)) :
          Call("visible_selection_delete_all", DeleteAll(b, order))
    BY <1>7 DEF DoVisibleSelectionDeleteAll
  <2>2. VisibleSelection(circuit) \subseteq DOMAIN circuit.items
    BY <1>1, ReadSound, SelectionWithin
  <2>3. Distinct(order) /\ Members(order) \subseteq DOMAIN circuit.items
    BY <1>1, <2>1, <2>2, OrderTracks
  <2>4. Rewinds(circuit, b) /\ DOMAIN b.items = DOMAIN circuit.items
    BY <1>1, SetVisibleSelectionRewinds, SetVisibleSelectionKeeps DEF Kept
  <2> HIDE DEF b
  <2>5. Rewinds(b, DeleteAll(b, order))
    BY <2>3, <2>4, SelectionEditsRewind DEF Rewinds
  <2>6. Rewinds(circuit, DeleteAll(b, order))
    BY <1>1, <2>4, <2>5, RewindsTwice
  <2> QED
    BY <2>1, <2>6 DEF RewindingCall
<1> QED
  BY <1>2, <1>4, <1>5, <1>6, <1>7

LEMMA EditRewinds ==
    ASSUME ReplayInv, Edit PROVE RewindingCall
<1>1. Good(circuit) /\ Ids(circuit) = DOMAIN circuit.items
  BY ItemIds DEF ReplayInv, Replayable, Good
<1>2. ASSUME DoAddLogicItem PROVE RewindingCall
  BY <1>1, <1>2, AddLogicItemRewinds, CircuitConstants DEF DoAddLogicItem, RewindingCall
<1>3. ASSUME DoToggleInverter PROVE RewindingCall
  BY <1>1, <1>3, ToggleRewinds DEF DoToggleInverter, RewindingCall
<1>4. ASSUME DoSetAttributes PROVE RewindingCall
  BY <1>1, <1>4, SetAttributesRewinds DEF DoSetAttributes, RewindingCall
<1>5. ASSUME DoSetVisibleSelection PROVE RewindingCall
  BY <1>1, <1>5, SetVisibleSelectionRewinds DEF DoSetVisibleSelection, RewindingCall
<1>6. ASSUME DoAddRect PROVE RewindingCall
  BY <1>1, <1>6, AddRectRewinds DEF DoAddRect, RewindingCall
<1>7. ASSUME DoTryPopLast PROVE RewindingCall
  BY <1>1, <1>7, PopLastRewinds DEF DoTryPopLast, RewindingCall
<1>8. ASSUME DoTryUpdateLast PROVE RewindingCall
  BY <1>1, <1>8, UpdateLastRewinds DEF DoTryUpdateLast, RewindingCall
<1>9. ASSUME DoApplyAll PROVE RewindingCall
  BY <1>1, <1>9, ApplyAllRewinds DEF DoApplyAll, RewindingCall
<1> QED
  BY <1>2, <1>3, <1>4, <1>5, <1>6, <1>7, <1>8, <1>9, SelectionCallsRewind DEF Edit

LEMMA NextReplayable == ReplayInv /\ [Next]_circuit => ReplayInv'
<1> SUFFICES ASSUME ReplayInv, [Next]_circuit PROVE ReplayInv'
  OBVIOUS
<1>1. Ids(circuit) = DOMAIN circuit.items /\ Replayable(circuit)
  BY ItemIds DEF ReplayInv, Replayable, Good
<1>2. ASSUME Edit PROVE ReplayInv'
  BY <1>2, EditRewinds, RewindingCallReplayable
<1>3. ASSUME DoChangeSettingAttributes PROVE ReplayInv'
  BY <1>1, <1>3, ChangeSettingReplayable, CallReplayable DEF DoChangeSettingAttributes
<1>4. ASSUME DoFinishUndoGroup PROVE ReplayInv'
  BY <1>1, <1>4, FinishUndoGroupBalanced, BalancedIsReplayable, CallReplayable
     DEF DoFinishUndoGroup
<1>5. ASSUME DoUndoGroup PROVE ReplayInv'
  BY <1>1, <1>5, UndoReplayable, CallReplayable DEF DoUndoGroup
<1>6. ASSUME DoRedoGroup PROVE ReplayInv'
  BY <1>1, <1>6, UndoReplayable, CallReplayable DEF DoRedoGroup
<1>7. ASSUME UNCHANGED circuit PROVE ReplayInv'
  BY <1>7 DEF ReplayInv
<1> QED
  BY <1>2, <1>3, <1>4, <1>5, <1>6, <1>7 DEF Next

\* What is on the stacks can always be replayed: the undo stack from the present circuit,
\* the redo stack from the one at the end of the last finished group.
THEOREM StacksCanBeReplayed == Spec => []ReplayInv
<1>1. Init => ReplayInv
  BY LoadedIsReplayable
<1>2. ReplayInv /\ [Next]_circuit => ReplayInv'
  BY NextReplayable
<1> QED
  BY <1>1, <1>2, PTL DEF Spec

\* No legal call throws, whatever was edited, undone and redone before: an inverse entry
\* always finds its element, in the mode it expects, and free of collisions when it
\* expects that (edit_logicitem.cpp, key_index.cpp, the Ensures of _replay_stack).
THEOREM NoCallThrows == Spec => []NeverThrows
<1>1. ReplayInv => NeverThrows
  BY DEF ReplayInv, Replayable, Good, NeverThrows
<1> QED
  BY <1>1, StacksCanBeReplayed, PTL

\* Deleting a selection deletes its items and no other, in whatever order its ids come
\* and although every deletion renames the last item
\* (LogicItemDeletion through temporary_selection, Modifier::delete_all).
THEOREM DeletionsAreExact == Spec => []DeletesExactly
<1>1. ReplayInv => DeletesExactly
  <2> SUFFICES ASSUME Sound(circuit), ~circuit.failed,
                      NEW order \in SetToAllKPermutations(Ids(circuit))
               PROVE  KeyIndexSet(DeleteAll(circuit, order))
                          = KeyIndexSet(circuit) \ KeysOf(circuit, Range(order))
    BY DEF ReplayInv, Replayable, Good, DeletesExactly
  <2> QED
    BY OrderDistinct, DeletesJustThese
<1> QED
  BY <1>1, StacksCanBeReplayed, PTL

-----------------------------------------------------------------------------
(***************************************************************************)
(* Undo and redo are inverse.                                              *)
(***************************************************************************)

LEMMA OneBottom ==
    ASSUME NEW s, NEW t, IsSeq(s), Len(t) = Len(s), \A i \in 1 .. Len(s) : t[i] = s[i],
           NEW b, Bottom(s, b), OpenAbove(s, b), NEW m, Bottom(t, m), OpenAbove(t, m)
    PROVE  b = m
<1>1. Len(s) \in Nat /\ b \in 0 .. Len(s) /\ m \in 0 .. Len(s)
  BY DEF IsSeq, Bottom
<1>2. ASSUME b < m PROVE FALSE
  <2>1. m \in 1 .. Len(s) /\ m # 0 /\ m > b
    BY <1>1, <1>2
  <2> QED
    BY <2>1 DEF Bottom, OpenAbove
<1>3. ASSUME m < b PROVE FALSE
  <2>1. b \in 1 .. Len(s) /\ b # 0 /\ b > m
    BY <1>1, <1>3
  <2> QED
    BY <2>1 DEF Bottom, OpenAbove
<1> QED
  BY <1>1, <1>2, <1>3

\* Replaying the group above b leads to where it began.
LEMMA GroupLeadsBack ==
    ASSUME NEW c, Balanced(c), NEW name \in {"undo", "redo"},
           NEW t, IsSeq(t), HasUngrouped(t), c[name] = PushNewGroup(t),
           NEW f, Arrives(t, f, State(c)), NEW b, Bottom(t, b), OpenAbove(t, b)
    PROVE  State(ReplayStack(c, name, ReplayEntry)) = f[b]
<1> DEFINE e == [type |-> "new_group"]
           u == Append(t, e)
<1>1. c[name] = u
  BY DEF PushNewGroup
<1>2. /\ IsSeq(u) /\ Len(t) \in Nat /\ Len(u) = Len(t) + 1
      /\ \A i \in 1 .. Len(t) : u[i] = t[i]
  BY AppendSeq
<1>3. PICK h : Arrives(u, h, State(c)) /\ \A i \in 0 .. Len(t) : h[i] = f[i]
  BY GroupFinished DEF PushNewGroup
<1> HIDE DEF u
<1>4. u # <<>>
  <2>1. Len(u) # 0
    BY <1>2
  <2> QED
    BY <2>1, EmptySeq
<1>5. Len(Front(u)) = Len(t) /\ \A i \in 1 .. Len(t) : Front(u)[i] = t[i]
  <2>1. /\ Len(Front(u)) = Len(u) - 1
        /\ \A i \in 1 .. (Len(u) - 1) : Front(u)[i] = u[i]
    BY <1>2, <1>4, FrontSeq
  <2>2. Len(u) - 1 = Len(t)
    BY <1>2
  <2> QED
    BY <1>2, <2>1, <2>2
<1>6. PICK m : /\ Bottom(Front(u), m) /\ OpenAbove(Front(u), m)
               /\ State(ReplayStack(c, name, ReplayEntry)) = h[m]
  BY <1>1, <1>3, <1>4, GroupReplayed
<1>7. b = m
  BY <1>5, <1>6, OneBottom
<1>8. b \in 0 .. Len(t)
  BY DEF Bottom
<1> QED
  BY <1>3, <1>6, <1>7, <1>8

LEMMA ReplayedBack ==
    ASSUME NEW c, Balanced(c), NEW name \in {"undo", "redo"},
           NEW d, d = ReplayStack(c, name, ReplayEntry), State(d) # State(c)
    PROVE  State(ReplayStack(d, OtherStack(name), ReplayEntry)) = State(c)
<1> DEFINE o == OtherStack(name)
           m == Len(c[o])
<1>1. Balanced(d) /\ c[name] # <<>>
  BY GroupReplayed
<1>2. \E t, h : /\ IsSeq(t) /\ Arrives(t, h, State(d)) /\ d[o] = PushNewGroup(t)
                /\ Bottom(t, m) /\ OpenAbove(t, m) /\ h[m] = State(c)
  <2>1. PICK g : Arrives(c[o], g, State(c))
    BY DEF Balanced, Finished, OtherStack
  <2>2. \E t, h : /\ IsSeq(t) /\ Arrives(t, h, State(d)) /\ d[o] = PushNewGroup(t)
                  /\ Bottom(t, m) /\ OpenAbove(t, m) /\ h[m] = State(c)
                  /\ SameBelow(c[o], g, t, h, m)
    BY <1>1, <2>1, GroupReplayed
  <2> QED
    BY <2>2
<1> HIDE DEF m
<1>3. PICK t, h : /\ IsSeq(t) /\ Arrives(t, h, State(d)) /\ d[o] = PushNewGroup(t)
                  /\ Bottom(t, m) /\ OpenAbove(t, m) /\ h[m] = State(c)
  BY <1>2
<1>4. HasUngrouped(t)
  <2>1. Len(t) \in Nat /\ m \in 0 .. Len(t) /\ h[Len(t)] = State(d)
    BY <1>3 DEF IsSeq, Bottom, Arrives
  <2>2. m # Len(t)
    BY <1>3, <2>1
  <2>3. Len(t) \in 1 .. Len(t) /\ Len(t) > m /\ Len(t) # 0
    BY <2>1, <2>2
  <2>4. t[Len(t)].type # "new_group"
    BY <1>3, <2>3 DEF OpenAbove
  <2>5. t # <<>>
    BY <2>3, EmptySeq
  <2> QED
    BY <1>3, <2>4, <2>5, LastOf DEF HasUngrouped, IsNewGroup
<1>5. o \in {"undo", "redo"}
  BY DEF OtherStack
<1>6. State(ReplayStack(d, o, ReplayEntry)) = h[m]
  BY <1>1, <1>3, <1>4, <1>5, GroupLeadsBack
<1> QED
  BY <1>3, <1>6

\* What is seen of a circuit is its state.
Seen(st) ==
    [elements |-> {[key |-> key, item |-> st.items[key], selected |-> key \in st.selected] :
                       key \in DOMAIN st.items},
     operations |-> st.operations]

LEMMA SnapshotOfState ==
    ASSUME NEW c, Sound(c) PROVE Snapshot(c) = Seen(State(c))
<1> DEFINE st == State(c)
           Element(id) == [key |-> c.keys[id], item |-> c.items[id],
                           selected |-> id \in c.initial]
           SeenElement(key) == [key |-> key, item |-> st.items[key],
                                selected |-> key \in st.selected]
<1>1. /\ Ids(c) = DOMAIN c.items /\ DOMAIN st.items = {c.keys[id] : id \in DOMAIN c.items}
      /\ \A id \in DOMAIN c.items : /\ st.items[c.keys[id]] = c.items[id]
                                    /\ c.keys[id] \in st.selected <=> id \in c.initial
      /\ st.operations = c.operations
  BY StateItems, ItemIds
<1>2. \A id \in DOMAIN c.items : SeenElement(c.keys[id]) = Element(id)
  <2> SUFFICES ASSUME NEW id \in DOMAIN c.items PROVE SeenElement(c.keys[id]) = Element(id)
    OBVIOUS
  <2>1. (c.keys[id] \in st.selected) = (id \in c.initial)
    BY <1>1
  <2>2. st.items[c.keys[id]] = c.items[id]
    BY <1>1
  <2> QED
    BY <2>1, <2>2, Zenon
<1> HIDE DEF Element, SeenElement, st
<1>3. {Element(id) : id \in DOMAIN c.items} = {SeenElement(key) : key \in DOMAIN st.items}
  BY <1>1, <1>2
<1>4. Snapshot(c) = [elements |-> {Element(id) : id \in DOMAIN c.items},
                     operations |-> c.operations]
  BY <1>1, Zenon DEF Snapshot, Element
<1>5. Seen(st) = [elements |-> {SeenElement(key) : key \in DOMAIN st.items},
                  operations |-> st.operations]
  BY Zenon DEF Seen, SeenElement
<1> QED
  BY <1>1, <1>3, <1>4, <1>5 DEF st

LEMMA NothingToFinish ==
    ASSUME NEW c, Balanced(c) PROVE FinishUndoGroup(c) = c
BY DEF FinishUndoGroup, Balanced, Finished

LEMMA BalancedSnapshot ==
    ASSUME NEW c, Balanced(c) PROVE Snapshot(c) = Seen(State(c))
BY SnapshotOfState DEF Balanced, Good

\* Redo after undo, or undo after redo, gives what was there before, in an open group too.
UndoneIsRedone ==
    /\ LET undone == UndoGroup(circuit)
       IN Snapshot(undone) # Snapshot(circuit)
             => Snapshot(RedoGroup(undone)) = Snapshot(circuit)
    /\ LET redone == RedoGroup(circuit)
       IN ~HasUngrouped(circuit.undo) /\ Snapshot(redone) # Snapshot(circuit)
             => Snapshot(UndoGroup(redone)) = Snapshot(circuit)

LEMMA UndoneIsRedoneLater == ReplayInv => UndoneIsRedone
<1> SUFFICES ASSUME Replayable(circuit) PROVE UndoneIsRedone
  BY DEF ReplayInv
<1>1. Snapshot(circuit) = Seen(State(circuit))
  BY SnapshotOfState DEF Replayable, Good
<1> DEFINE undone == UndoGroup(circuit)
           redone == RedoGroup(circuit)
<1>2. ASSUME Snapshot(undone) # Snapshot(circuit)
      PROVE  Snapshot(RedoGroup(undone)) = Snapshot(circuit)
  <2> DEFINE c == FinishUndoGroup(circuit)
  <2>1. Balanced(c) /\ State(c) = State(circuit)
    BY FinishUndoGroupBalanced
  <2>2. undone = ReplayStack(c, "undo", ReplayEntry)
    BY Zenon DEF UndoGroup
  <2> HIDE DEF c, undone
  <2>3. Balanced(undone)
    BY <2>1, <2>2, GroupReplayed
  <2>4. State(undone) # State(c)
    BY <1>1, <1>2, <2>1, <2>3, BalancedSnapshot
  <2>5. RedoGroup(undone) = ReplayStack(undone, OtherStack("undo"), ReplayEntry)
    BY Zenon DEF RedoGroup, OtherStack
  <2>6. State(RedoGroup(undone)) = State(circuit)
    BY <2>1, <2>2, <2>4, <2>5, ReplayedBack
  <2>7. Balanced(RedoGroup(undone))
    BY <2>3, GroupReplayed, Zenon DEF RedoGroup
  <2> QED
    BY <1>1, <2>6, <2>7, BalancedSnapshot
<1>3. ASSUME ~HasUngrouped(circuit.undo), Snapshot(redone) # Snapshot(circuit)
      PROVE  Snapshot(UndoGroup(redone)) = Snapshot(circuit)
  <2>1. Balanced(circuit)
    BY <1>3, ReplayableIsBalanced
  <2>2. redone = ReplayStack(circuit, "redo", ReplayEntry)
    BY Zenon DEF RedoGroup
  <2> HIDE DEF redone
  <2>3. Balanced(redone)
    BY <2>1, <2>2, GroupReplayed
  <2>4. State(redone) # State(circuit)
    BY <1>1, <1>3, <2>3, BalancedSnapshot
  <2>5. OtherStack("redo") = "undo"
    BY DEF OtherStack
  <2>6. UndoGroup(redone) = ReplayStack(redone, "undo", ReplayEntry)
    BY <2>3, NothingToFinish, Zenon DEF UndoGroup
  <2>7. State(UndoGroup(redone)) = State(circuit)
    BY <2>1, <2>2, <2>4, <2>5, <2>6, ReplayedBack
  <2>8. Balanced(UndoGroup(redone))
    BY <2>3, <2>6, GroupReplayed
  <2> QED
    BY <1>1, <2>7, <2>8, BalancedSnapshot
<1> QED
  BY <1>2, <1>3 DEF UndoneIsRedone

\* Redo brings back what undo took, and undo takes back what redo brought, whatever was
\* edited before: a replay pushes the inverse of every entry that it performs
\* (edit_history.cpp, _replay_one_group).
THEOREM UndoAndRedoAreInverse == Spec => []UndoneIsRedone
BY UndoneIsRedoneLater, StacksCanBeReplayed, PTL

\* What the circuit was when the open group began, if there is one.
GroupStart(c) == IF HasUngrouped(c.undo) THEN Snapshot(UndoGroup(c)) ELSE Snapshot(c)

LEMMA GroupStartLeads ==
    ASSUME NEW c, Replayable(c), NEW f, NEW g, NEW b, ReplayableFrom(c, f, g, b)
    PROVE  GroupStart(c) = Seen(f[b])
<1>1. IsSeq(c.undo) /\ Sound(c)
  BY UndoIsTracked DEF Replayable, Good
<1>2. CASE HasUngrouped(c.undo)
  <2> DEFINE d == FinishUndoGroup(c)
  <2>1. Balanced(d) /\ State(d) = State(c) /\ d.undo = PushNewGroup(c.undo)
    BY <1>2, OpenGroupFinished DEF Replayable, ReplayableFrom
  <2>2. UndoGroup(c) = ReplayStack(d, "undo", ReplayEntry)
    BY Zenon DEF UndoGroup
  <2> HIDE DEF d
  <2>3. State(UndoGroup(c)) = f[b]
    BY <1>1, <1>2, <2>1, <2>2, GroupLeadsBack DEF ReplayableFrom
  <2>4. Balanced(UndoGroup(c))
    BY <2>1, <2>2, GroupReplayed
  <2> QED
    BY <1>2, <2>3, <2>4, BalancedSnapshot DEF GroupStart
<1>3. CASE ~HasUngrouped(c.undo)
  <2>1. b = Len(c.undo)
    BY <1>1, <1>3, FinishedBottom DEF ReplayableFrom
  <2>2. f[b] = State(c)
    BY <2>1 DEF ReplayableFrom, Arrives
  <2> QED
    BY <1>1, <1>3, <2>2, SnapshotOfState DEF GroupStart
<1> QED
  BY <1>2, <1>3

LEMMA EditKeepsGroupStart ==
    ASSUME ReplayInv, Edit PROVE GroupStart(circuit') = GroupStart(circuit)
<1>1. PICK name, c : Rewinds(circuit, c) /\ Call(name, c)
  BY EditRewinds DEF RewindingCall
<1>2. PICK f, g, b : ReplayableFrom(circuit, f, g, b)
  BY DEF ReplayInv, Replayable
<1>3. Replayable(c) /\ \E h : ReplayableFrom(c, h, g, b) /\ h[b] = f[b]
  BY <1>1, <1>2, EditReplayable DEF ReplayInv
<1>4. PICK h : ReplayableFrom(c, h, g, b) /\ h[b] = f[b]
  BY <1>3
<1> DEFINE d == ReadVisibleSelection(c)
<1>5. Replayable(d) /\ ReplayableFrom(d, h, g, b)
  BY <1>3, <1>4, ReadReplayable
<1>6. circuit' = d
  BY <1>1 DEF Call
<1> HIDE DEF d
<1>7. GroupStart(d) = Seen(h[b])
  BY <1>5, GroupStartLeads
<1>8. GroupStart(circuit) = Seen(f[b])
  BY <1>2, GroupStartLeads DEF ReplayInv
<1> QED
  BY <1>4, <1>6, <1>7, <1>8

\* However many edits are made in a group, and however their entries cancel each other,
\* undo leads to the circuit as it was when the group began (edit_history.cpp).
THEOREM UndoLeadsToGroupStart ==
    Spec => [][Edit => GroupStart(circuit') = GroupStart(circuit)]_circuit
<1>1. ReplayInv /\ [Next]_circuit
        => [Edit => GroupStart(circuit') = GroupStart(circuit)]_circuit
  BY EditKeepsGroupStart
<1> QED
  BY <1>1, StacksCanBeReplayed, PTL DEF Spec

-----------------------------------------------------------------------------
(***************************************************************************)
(* Lists of snapshots.                                                     *)
(***************************************************************************)

Prepend(x, s) == <<x>> \o s

LEMMA PrependSeq ==
    ASSUME NEW s, IsSeq(s), NEW x, NEW t, t = Prepend(x, s)
    PROVE  /\ IsSeq(t) /\ Len(s) \in Nat /\ Len(t) = Len(s) + 1 /\ t[1] = x
           /\ \A i \in 1 .. Len(s) : t[i + 1] = s[i]
<1> DEFINE S == {s[i] : i \in 1 .. Len(s)} \cup {x}
<1>1. s \in Seq(S) /\ x \in S
  <2>1. s \in Seq({s[i] : i \in 1 .. Len(s)})
    BY DEF IsSeq
  <2>2. {s[i] : i \in 1 .. Len(s)} \subseteq S
    OBVIOUS
  <2> HIDE DEF S
  <2>3. x \in S
    BY DEF S
  <2> QED
    BY <2>1, <2>2, <2>3
<1> HIDE DEF S
<1>2. /\ t \in Seq(S) /\ Len(s) \in Nat /\ Len(t) = Len(s) + 1 /\ t[1] = x
      /\ \A i \in 1 .. Len(s) : t[i + 1] = s[i]
  BY <1>1 DEF Prepend
<1>3. IsSeq(t)
  BY <1>2, SequenceOf
<1> QED
  BY <1>2, <1>3

LEMMA ConcatNothing == ASSUME NEW s, IsSeq(s) PROVE <<>> \o s = s
<1>1. s \in Seq({s[i] : i \in 1 .. Len(s)})
  BY DEF IsSeq
<1> DEFINE S == {s[i] : i \in 1 .. Len(s)}
<1> HIDE DEF S
<1>2. s \in Seq(S)
  BY <1>1 DEF S
<1> QED
  BY <1>2

LEMMA TailSeq ==
    ASSUME NEW s, IsSeq(s), s # <<>>
    PROVE  /\ IsSeq(Tail(s)) /\ Len(s) \in Nat \ {0} /\ Len(Tail(s)) = Len(s) - 1
           /\ \A i \in 1 .. (Len(s) - 1) : Tail(s)[i] = s[i + 1]
           /\ Head(s) = s[1]
           /\ SubSeq(s, 2, Len(s)) = Tail(s)
           /\ <<Head(s)>> \o Tail(s) = s
<1> DEFINE S == {s[i] : i \in 1 .. Len(s)}
<1>1. s \in Seq(S) /\ Len(s) \in Nat /\ Len(s) # 0
  BY EmptySeq DEF IsSeq
<1> HIDE DEF S
<1>2. /\ Tail(s) \in Seq(S) /\ Len(Tail(s)) = Len(s) - 1
      /\ \A i \in 1 .. (Len(s) - 1) : Tail(s)[i] = s[i + 1]
      /\ Head(s) = s[1]
  BY <1>1
<1>3. IsSeq(Tail(s))
  BY <1>2, SequenceOf
<1>4. SubSeq(s, 2, Len(s)) = Tail(s)
  <2>1. 2 \in 1 .. (Len(s) + 1) /\ Len(s) \in 0 .. Len(s)
    BY <1>1
  <2>2. /\ IsSeq(SubSeq(s, 2, Len(s)))
        /\ Len(SubSeq(s, 2, Len(s))) = (IF 2 <= Len(s) THEN Len(s) - 2 + 1 ELSE 0)
        /\ \A i \in 1 .. (Len(s) - 2 + 1) : SubSeq(s, 2, Len(s))[i] = s[2 + i - 1]
    BY <2>1, SubSeqSeq, Zenon
  <2>3. /\ (IF 2 <= Len(s) THEN Len(s) - 2 + 1 ELSE 0) = Len(s) - 1
        /\ Len(s) - 2 + 1 = Len(s) - 1
        /\ \A i \in 1 .. (Len(s) - 1) : 2 + i - 1 = i + 1
    <3> DEFINE n == Len(s)
    <3>1. n \in Nat \ {0}
      BY <1>1
    <3> HIDE DEF n
    <3>2. /\ (IF 2 <= n THEN n - 2 + 1 ELSE 0) = n - 1 /\ n - 2 + 1 = n - 1
          /\ \A i \in 1 .. (n - 1) : 2 + i - 1 = i + 1
      BY <3>1
    <3> QED
      BY <3>2 DEF n
  <2> DEFINE u == SubSeq(s, 2, Len(s))
             t == Tail(s)
  <2>4. /\ IsSeq(u) /\ Len(u) = Len(s) - 1
        /\ \A i \in 1 .. (Len(s) - 1) : u[i] = s[i + 1]
    BY <2>2, <2>3
  <2>5. /\ IsSeq(t) /\ Len(t) = Len(s) - 1
        /\ \A i \in 1 .. (Len(s) - 1) : t[i] = s[i + 1]
    BY <1>2, <1>3
  <2> HIDE DEF u, t
  <2>6. u = t
    BY <2>4, <2>5, SeqsEqual
  <2> QED
    BY <2>6 DEF u, t
<1>5. <<Head(s)>> \o Tail(s) = s
  <2> DEFINE t == <<Head(s)>> \o Tail(s)
  <2>1. /\ IsSeq(t) /\ Len(t) = (Len(s) - 1) + 1 /\ t[1] = s[1]
        /\ \A i \in 1 .. (Len(s) - 1) : t[i + 1] = Tail(s)[i]
    <3> DEFINE r == Tail(s)
               x == Head(s)
    <3>1. IsSeq(r) /\ Len(r) = Len(s) - 1 /\ t = Prepend(x, r)
      BY <1>2, <1>3 DEF Prepend
    <3> HIDE DEF r, x, t
    <3>2. /\ IsSeq(t) /\ Len(t) = Len(r) + 1 /\ t[1] = x
          /\ \A i \in 1 .. Len(r) : t[i + 1] = r[i]
      BY <3>1, PrependSeq
    <3>3. /\ IsSeq(t) /\ Len(t) = (Len(s) - 1) + 1 /\ t[1] = x
          /\ \A i \in 1 .. (Len(s) - 1) : t[i + 1] = r[i]
      BY <3>1, <3>2
    <3> QED
      BY <1>2, <3>3 DEF r, x
  <2> HIDE DEF t
  <2>2. ASSUME NEW i \in 1 .. Len(s) PROVE t[i] = s[i]
    <3>1. CASE i = 1
      BY <2>1, <3>1
    <3>2. CASE i # 1
      <4>1. i - 1 \in 1 .. (Len(s) - 1) /\ (i - 1) + 1 = i
        BY <1>1, <3>2
      <4> QED
        BY <1>2, <2>1, <4>1
    <3> QED
      BY <3>1, <3>2
  <2>3. Len(t) = Len(s)
    BY <1>1, <2>1
  <2> QED
    BY <2>1, <2>2, <2>3, SeqsEqual DEF t
<1> QED
  BY <1>1, <1>2, <1>3, <1>4, <1>5

-----------------------------------------------------------------------------
(***************************************************************************)
(* The snapshots that were recorded are met on the way along a stack.      *)
(***************************************************************************)

\* The ends of the finished groups of a stack, from b down to the lowest entry: each
\* group has an entry besides the one that finishes it.
Marks(s, at, n, b) ==
    /\ at[0] = b /\ at[n] = 0
    /\ \A i \in 0 .. n : Bottom(s, at[i])
    /\ \A i, j \in 0 .. n : i < j => at[j] + 1 < at[i]
    /\ \A i \in 1 .. n : \A k \in 1 .. Len(s) :
           at[i] < k /\ k < at[i - 1] => s[k].type # "new_group"

\* The list holds what is seen at these ends, below b, along the path f.
Trail(list, s, f, b) ==
    /\ IsSeq(list)
    /\ \E at : /\ Marks(s, at, Len(list), b)
               /\ \A i \in 1 .. Len(list) : list[i] = Seen(f[at[i]])

\* One group lies between m and b.
OneGroup(s, m, b) ==
    /\ Bottom(s, m) /\ Bottom(s, b) /\ m + 1 < b
    /\ \A k \in 1 .. Len(s) : m < k /\ k < b => s[k].type # "new_group"

\* The trail below b depends only on what is there.
LEMMA TrailKept ==
    ASSUME NEW s, IsSeq(s), NEW t, IsSeq(t), NEW f, NEW h, NEW b, Bottom(s, b),
           b \in 0 .. Len(t), \A i \in 1 .. b : t[i] = s[i], \A i \in 0 .. b : h[i] = f[i],
           NEW list, Trail(list, s, f, b)
    PROVE  Trail(list, t, h, b)
<1> DEFINE n == Len(list)
<1>1. n \in Nat /\ Len(s) \in Nat /\ Len(t) \in Nat /\ b \in 0 .. Len(s) /\ b \in 0 .. Len(t)
  BY DEF Trail, IsSeq, Bottom
<1>2. PICK at : Marks(s, at, n, b) /\ \A i \in 1 .. n : list[i] = Seen(f[at[i]])
  BY DEF Trail
<1> HIDE DEF n
<1>3. ASSUME NEW i \in 0 .. n PROVE at[i] \in 0 .. b
  <2>1. at[i] \in 0 .. Len(s)
    BY <1>2 DEF Marks, Bottom
  <2>2. at[0] = b /\ 0 \in 0 .. n
    BY <1>1, <1>2 DEF Marks
  <2>3. i # 0 => at[i] + 1 < at[0]
    BY <1>1, <1>2, <2>2 DEF Marks
  <2> QED
    BY <1>1, <2>1, <2>2, <2>3
<1>4. ASSUME NEW i \in 0 .. n PROVE Bottom(t, at[i]) /\ h[at[i]] = f[at[i]]
  <2>1. at[i] \in 0 .. b /\ at[i] \in 0 .. Len(t) /\ (at[i] # 0 => at[i] \in 1 .. b)
    BY <1>1, <1>3
  <2> QED
    BY <1>2, <2>1 DEF Marks, Bottom
<1>5. ASSUME NEW i \in 1 .. n, NEW k \in 1 .. Len(t), at[i] < k, k < at[i - 1]
      PROVE  t[k].type # "new_group"
  <2>1. i \in 0 .. n /\ i - 1 \in 0 .. n
    BY <1>1
  <2>2. at[i - 1] \in 0 .. b
    BY <1>3, <2>1
  <2>3. k \in 1 .. b /\ k \in 1 .. Len(s)
    BY <1>1, <1>5, <2>2
  <2>4. s[k].type # "new_group"
    BY <1>2, <1>5, <2>3 DEF Marks
  <2> QED
    BY <2>3, <2>4
<1>6. Marks(t, at, n, b)
  BY <1>2, <1>4, <1>5 DEF Marks
<1>7. \A i \in 1 .. n : list[i] = Seen(h[at[i]])
  BY <1>1, <1>2, <1>4
<1> QED
  BY <1>6, <1>7 DEF Trail, n

\* Below the last group of the trail lies the rest of it.
LEMMA TrailTaken ==
    ASSUME NEW s, IsSeq(s), NEW f, NEW b, b # 0, NEW list, Trail(list, s, f, b)
    PROVE  /\ list # <<>>
           /\ \E m : /\ OneGroup(s, m, b) /\ Head(list) = Seen(f[m])
                     /\ Trail(Tail(list), s, f, m)
<1> DEFINE n == Len(list)
<1>1. n \in Nat /\ IsSeq(list)
  BY DEF Trail, IsSeq
<1>2. PICK at : Marks(s, at, n, b) /\ \A i \in 1 .. n : list[i] = Seen(f[at[i]])
  BY DEF Trail
<1>3. n # 0
  BY <1>2 DEF Marks
<1>4. list # <<>>
  BY <1>3, EmptySeq
<1> DEFINE r == Tail(list)
           ar == [i \in 0 .. (n - 1) |-> at[i + 1]]
<1>5. /\ IsSeq(r) /\ Len(r) = n - 1 /\ \A i \in 1 .. (n - 1) : r[i] = list[i + 1]
      /\ Head(list) = list[1]
  BY <1>1, <1>4, TailSeq
<1> HIDE DEF n, r
<1>6. /\ \A i \in 0 .. (n - 1) : i + 1 \in 0 .. n /\ i + 1 \in 1 .. n /\ ar[i] = at[i + 1]
      /\ 0 \in 0 .. (n - 1) /\ n - 1 \in 0 .. (n - 1) /\ 0 \in 0 .. n /\ 1 \in 0 .. n
      /\ 1 \in 1 .. n /\ 1 - 1 = 0 /\ (n - 1) + 1 = n /\ 0 + 1 = 1
  BY <1>1, <1>3
<1> HIDE DEF ar
<1>7. OneGroup(s, at[1], b)
  <2>1. Bottom(s, at[0]) /\ Bottom(s, at[1]) /\ at[0] = b /\ at[1] + 1 < at[0]
    BY <1>2, <1>6 DEF Marks
  <2>2. \A k \in 1 .. Len(s) : at[1] < k /\ k < at[0] => s[k].type # "new_group"
    BY <1>2, <1>6 DEF Marks
  <2> QED
    BY <2>1, <2>2 DEF OneGroup
<1>8. Marks(s, ar, n - 1, at[1])
  <2>1. ar[0] = at[1] /\ ar[n - 1] = 0
    BY <1>2, <1>6 DEF Marks
  <2>2. \A i \in 0 .. (n - 1) : Bottom(s, ar[i])
    BY <1>2, <1>6 DEF Marks
  <2>3. ASSUME NEW i \in 0 .. (n - 1), NEW j \in 0 .. (n - 1), i < j
        PROVE  ar[j] + 1 < ar[i]
    <3>1. i + 1 < j + 1
      BY <1>1, <2>3
    <3> QED
      BY <1>2, <1>6, <3>1 DEF Marks
  <2>4. ASSUME NEW i \in 1 .. (n - 1), NEW k \in 1 .. Len(s), ar[i] < k, k < ar[i - 1]
        PROVE  s[k].type # "new_group"
    <3>1. i \in 0 .. (n - 1) /\ i - 1 \in 0 .. (n - 1) /\ (i - 1) + 1 = i /\ (i + 1) - 1 = i
      BY <1>1
    <3>2. ar[i] = at[i + 1] /\ ar[i - 1] = at[i] /\ i + 1 \in 1 .. n
      BY <1>6, <3>1
    <3> QED
      BY <1>2, <2>4, <3>1, <3>2 DEF Marks
  <2> QED
    BY <2>1, <2>2, <2>3, <2>4 DEF Marks
<1>9. \A i \in 1 .. (n - 1) : r[i] = Seen(f[ar[i]])
  <2> SUFFICES ASSUME NEW i \in 1 .. (n - 1) PROVE r[i] = Seen(f[ar[i]])
    OBVIOUS
  <2>1. i \in 0 .. (n - 1)
    BY <1>1
  <2> QED
    BY <1>2, <1>5, <1>6, <2>1
<1>10. Trail(r, s, f, at[1])
  BY <1>5, <1>8, <1>9 DEF Trail
<1>11. Head(list) = Seen(f[at[1]])
  BY <1>2, <1>5, <1>6
<1> QED
  BY <1>4, <1>7, <1>10, <1>11 DEF r

\* A group on top of the trail.
LEMMA TrailPushed ==
    ASSUME NEW s, IsSeq(s), NEW f, NEW m, NEW b, OneGroup(s, m, b),
           NEW list, Trail(list, s, f, m), NEW t, t = Prepend(Seen(f[m]), list)
    PROVE  Trail(t, s, f, b)
<1> DEFINE n == Len(list)
<1>1. /\ IsSeq(t) /\ n \in Nat /\ Len(t) = n + 1 /\ t[1] = Seen(f[m])
      /\ \A i \in 1 .. n : t[i + 1] = list[i]
  BY PrependSeq DEF Trail
<1>2. PICK at : Marks(s, at, n, m) /\ \A i \in 1 .. n : list[i] = Seen(f[at[i]])
  BY DEF Trail
<1> HIDE DEF n
<1> DEFINE up == [i \in 0 .. (n + 1) |-> IF i = 0 THEN b ELSE at[i - 1]]
<1>3. /\ up[0] = b
      /\ \A i \in 1 .. (n + 1) : up[i] = at[i - 1] /\ i - 1 \in 0 .. n
  BY <1>1
<1>4. m \in Int /\ b \in Int /\ m + 1 < b /\ at[0] = m /\ 0 \in 0 .. n
  BY <1>1, <1>2 DEF OneGroup, Bottom, Marks
<1>5. \A i \in 0 .. n : at[i] \in Int
  BY <1>2 DEF Marks, Bottom
<1> HIDE DEF up
<1>6. up[n + 1] = 0
  <2>1. n + 1 \in 1 .. (n + 1) /\ (n + 1) - 1 = n
    BY <1>1
  <2> QED
    BY <1>2, <1>3, <2>1 DEF Marks
<1>7. ASSUME NEW i \in 0 .. (n + 1) PROVE Bottom(s, up[i])
  <2>1. CASE i = 0
    BY <1>3, <2>1 DEF OneGroup
  <2>2. CASE i # 0
    <3>1. i \in 1 .. (n + 1)
      BY <1>1, <2>2
    <3> QED
      BY <1>2, <1>3, <3>1 DEF Marks
  <2> QED
    BY <2>1, <2>2
<1>8. ASSUME NEW i \in 0 .. (n + 1), NEW j \in 0 .. (n + 1), i < j
      PROVE  up[j] + 1 < up[i]
  <2>1. j \in 1 .. (n + 1)
    BY <1>1, <1>8
  <2>2. up[j] = at[j - 1] /\ j - 1 \in 0 .. n
    BY <1>3, <2>1
  <2>3. CASE i = 0
    <3>1. j - 1 # 0 => at[j - 1] + 1 < at[0]
      BY <1>1, <1>2, <1>4, <2>2 DEF Marks
    <3>2. at[j - 1] + 1 < b
      <4>1. CASE j - 1 = 0
        BY <1>4, <4>1
      <4>2. CASE j - 1 # 0
        BY <1>4, <1>5, <2>2, <3>1, <4>2
      <4> QED
        BY <4>1, <4>2
    <3> QED
      BY <1>3, <2>2, <2>3, <3>2
  <2>4. CASE i # 0
    <3>1. i \in 1 .. (n + 1) /\ i - 1 < j - 1
      BY <1>1, <1>8, <2>4
    <3>2. up[i] = at[i - 1] /\ i - 1 \in 0 .. n
      BY <1>3, <3>1
    <3> QED
      BY <1>2, <2>2, <3>1, <3>2 DEF Marks
  <2> QED
    BY <2>3, <2>4
<1>9. ASSUME NEW i \in 1 .. (n + 1), NEW k \in 1 .. Len(s), up[i] < k, k < up[i - 1]
      PROVE  s[k].type # "new_group"
  <2>1. up[i] = at[i - 1] /\ i - 1 \in 0 .. n
    BY <1>3
  <2>2. CASE i = 1
    <3>1. i - 1 = 0
      BY <2>2
    <3>2. up[i] = m /\ up[i - 1] = b
      BY <1>3, <1>4, <2>1, <3>1
    <3> QED
      BY <1>9, <3>2 DEF OneGroup
  <2>3. CASE i # 1
    <3>1. i - 1 \in 1 .. (n + 1) /\ i - 1 \in 1 .. n
      BY <1>1, <2>3
    <3>2. up[i - 1] = at[(i - 1) - 1]
      BY <1>3, <3>1
    <3> QED
      BY <1>2, <1>9, <2>1, <3>1, <3>2 DEF Marks
  <2> QED
    BY <2>2, <2>3
<1>10. Marks(s, up, n + 1, b)
  BY <1>3, <1>6, <1>7, <1>8, <1>9 DEF Marks
<1>11. ASSUME NEW i \in 1 .. (n + 1) PROVE t[i] = Seen(f[up[i]])
  <2>1. up[i] = at[i - 1]
    BY <1>3
  <2>2. CASE i = 1
    BY <1>1, <1>4, <2>1, <2>2
  <2>3. CASE i # 1
    <3>1. i - 1 \in 1 .. n /\ (i - 1) + 1 = i
      BY <1>1, <2>3
    <3> QED
      BY <1>1, <1>2, <2>1, <3>1
  <2> QED
    BY <2>2, <2>3
<1> QED
  BY <1>1, <1>10, <1>11 DEF Trail

\* Nothing is recorded below the lowest entry.
LEMMA TrailBelowAll ==
    ASSUME NEW s, IsSeq(s), NEW f
    PROVE  /\ Trail(<<>>, s, f, 0)
           /\ \A list : Trail(list, s, f, 0) => list = <<>>
<1>1. Len(s) \in Nat /\ 0 \in 0 .. Len(s)
  BY DEF IsSeq
<1>2. Trail(<<>>, s, f, 0)
  <2> DEFINE at == [i \in 0 .. 0 |-> 0]
  <2>1. Len(<<>>) = 0 /\ IsSeq(<<>>)
    BY EmptySeq, EmptyFinished DEF StackOK
  <2>2. 1 .. 0 = {} /\ at[0] = 0 /\ 0 .. 0 = {0}
    OBVIOUS
  <2> HIDE DEF at
  <2>3. Marks(s, at, 0, 0)
    BY <1>1, <2>2 DEF Marks, Bottom
  <2> QED
    BY <2>1, <2>2, <2>3 DEF Trail
<1>3. ASSUME NEW list, Trail(list, s, f, 0) PROVE list = <<>>
  <2> DEFINE n == Len(list)
  <2>1. n \in Nat /\ IsSeq(list)
    BY <1>3 DEF Trail, IsSeq
  <2>2. PICK at : Marks(s, at, n, 0)
    BY <1>3 DEF Trail
  <2>3. n = 0
    <3> SUFFICES ASSUME n # 0 PROVE FALSE
      OBVIOUS
    <3> HIDE DEF n
    <3>1. 0 \in 0 .. n /\ n \in 0 .. n /\ 0 < n
      BY <2>1
    <3>2. at[n] + 1 < at[0] /\ at[0] = 0 /\ at[n] = 0
      BY <2>2, <3>1 DEF Marks
    <3> QED
      BY <3>2
  <2> QED
    BY <2>1, <2>3, EmptySeq
<1> QED
  BY <1>2, <1>3

\* Finishing the open group puts its start on the trail.
LEMMA TrailFinished ==
    ASSUME NEW s, IsSeq(s), NEW f, NEW st, Arrives(s, f, st),
           NEW b, Bottom(s, b), OpenAbove(s, b), NEW list, Trail(list, s, f, b),
           NEW t, t = PushNewGroup(s)
    PROVE  \E h : /\ Arrives(t, h, st)
                  /\ Trail(IF HasUngrouped(s) THEN Prepend(Seen(f[b]), list) ELSE list,
                           t, h, Len(t))
<1>1. CASE ~HasUngrouped(s)
  <2>1. t = s
    BY <1>1 DEF PushNewGroup
  <2>2. b = Len(s)
    BY <1>1, FinishedBottom
  <2> QED
    BY <1>1, <2>1, <2>2
<1>2. CASE HasUngrouped(s)
  <2> DEFINE e == [type |-> "new_group"]
             n == Len(s)
  <2>1. t = Append(s, e) /\ e.type = "new_group"
    BY <1>2 DEF PushNewGroup
  <2>2. /\ IsSeq(t) /\ n \in Nat /\ Len(t) = n + 1
        /\ (\A i \in 1 .. n : t[i] = s[i]) /\ t[n + 1] = e
    BY <2>1, AppendSeq
  <2> HIDE DEF e
  <2>3. PICK h : Arrives(t, h, st) /\ \A i \in 0 .. n : h[i] = f[i]
    BY GroupFinished
  <2>4. b \in 0 .. n /\ b < n
    <3>1. b \in 0 .. n /\ (b = 0 \/ s[b].type = "new_group")
      BY DEF Bottom
    <3>2. s # <<>> /\ s[n].type # "new_group" /\ n # 0
      BY <1>2, LastOf DEF HasUngrouped, IsNewGroup
    <3> QED
      BY <2>2, <3>1, <3>2
  <2> HIDE DEF n
  <2>5. /\ b \in 0 .. Len(t) /\ (\A i \in 1 .. b : t[i] = s[i])
        /\ \A i \in 0 .. b : h[i] = f[i]
    BY <2>2, <2>3, <2>4
  <2>6. Bottom(t, b)
    <3>1. b # 0 => b \in 1 .. b
      BY <2>4, <2>2
    <3> QED
      BY <2>5, <3>1 DEF Bottom
  <2>7. Trail(list, t, h, b)
    BY <2>2, <2>5, TrailKept
  <2>8. OneGroup(t, b, n + 1)
    <3>1. n + 1 \in 0 .. Len(t) /\ b + 1 < n + 1
      BY <2>2, <2>4
    <3>2. Bottom(t, n + 1)
      BY <2>1, <2>2, <3>1 DEF Bottom
    <3>3. ASSUME NEW k \in 1 .. Len(t), b < k, k < n + 1 PROVE t[k].type # "new_group"
      <4>1. k \in 1 .. n
        BY <2>2, <3>3
      <4> QED
        BY <2>2, <3>3, <4>1 DEF OpenAbove, n
    <3> QED
      BY <2>6, <3>1, <3>2, <3>3 DEF OneGroup
  <2>9. Seen(h[b]) = Seen(f[b])
    <3>1. b \in 0 .. b
      BY <2>4, <2>2
    <3> QED
      BY <2>5, <3>1
  <2>10. Trail(Prepend(Seen(f[b]), list), t, h, n + 1)
    BY <2>2, <2>7, <2>8, <2>9, TrailPushed
  <2> QED
    BY <1>2, <2>2, <2>3, <2>10
<1> QED
  BY <1>1, <1>2

\* The list is the trail of the whole stack, along some path.
Lands(list, s, st) == \E f : Arrives(s, f, st) /\ Trail(list, s, f, Len(s))

\* What becomes of the trails, when the last group of a stack is replayed.
Moved(c, d, name, o, taken, other) ==
    /\ Balanced(d) /\ taken # <<>> /\ Head(taken) = Seen(State(d))
    /\ Lands(Tail(taken), d[name], State(d))
    /\ Lands(IF d[o] = c[o] THEN other ELSE Prepend(Seen(State(c)), other),
             d[o], State(d))
    /\ d[o] = c[o] => State(d) = State(c)

\* A replay takes a group from one trail, and puts one on the other unless nothing changed.
LEMMA GroupRecorded ==
    ASSUME NEW c, Balanced(c), NEW name \in {"undo", "redo"}, c[name] # <<>>,
           NEW o, o = OtherStack(name),
           NEW taken, Lands(taken, c[name], State(c)),
           NEW other, Lands(other, c[o], State(c)), NEW d, d = ReplayStack(c, name, ReplayEntry)
    PROVE  Moved(c, d, name, o, taken, other)
<1> DEFINE m == Len(c[o])
           n == Len(c[name])
           s == Front(c[name])
<1> PICK f : Arrives(c[name], f, State(c)) /\ Trail(taken, c[name], f, Len(c[name]))
  BY DEF Lands
<1> PICK g : Arrives(c[o], g, State(c)) /\ Trail(other, c[o], g, Len(c[o]))
  BY DEF Lands
<1>1. /\ Balanced(d) /\ o \in {"undo", "redo"} /\ IsSeq(c[name]) /\ IsSeq(c[o])
      /\ ~HasUngrouped(c[o]) /\ IsSeq(d[name]) /\ IsSeq(d[o])
  <2>1. Balanced(d)
    BY GroupReplayed
  <2>2. \A e, x : Balanced(e) /\ x \in {"undo", "redo"} => IsSeq(e[x]) /\ ~HasUngrouped(e[x])
    BY DEF Balanced, Good, Sound, Shape, StackOK, Finished
  <2>3. o \in {"undo", "redo"}
    BY DEF OtherStack
  <2> QED
    BY <2>1, <2>2, <2>3
<1>2. m \in Nat /\ n \in Nat \ {0}
  BY <1>1, LastOf DEF IsSeq
<1>3. \E t, h : /\ IsSeq(t) /\ Arrives(t, h, State(d)) /\ d[o] = PushNewGroup(t)
                /\ Bottom(t, m) /\ OpenAbove(t, m) /\ h[m] = State(c)
                /\ SameBelow(c[o], g, t, h, m)
  BY GroupReplayed
<1>4. \E b : /\ Bottom(s, b) /\ OpenAbove(s, b) /\ State(d) = f[b]
             /\ \E k : /\ Arrives(d[name], k, State(d)) /\ Len(d[name]) = b
                       /\ SameBelow(c[name], f, d[name], k, b)
  BY GroupReplayed
<1>5. Bottom(c[o], m)
  BY <1>1, FinishedBottom
<1>6. /\ IsSeq(s) /\ Len(s) = n - 1 /\ \A i \in 1 .. (n - 1) : s[i] = c[name][i]
  BY <1>1, FrontSeq
<1>7. Trail(other, c[o], g, m) /\ Trail(taken, c[name], f, n)
  OBVIOUS
<1> HIDE DEF m, s
<1>8. PICK t, h : /\ IsSeq(t) /\ Arrives(t, h, State(d)) /\ d[o] = PushNewGroup(t)
                  /\ Bottom(t, m) /\ OpenAbove(t, m) /\ h[m] = State(c)
                  /\ SameBelow(c[o], g, t, h, m)
  BY <1>3
<1>9. /\ \E k : /\ Arrives(d[o], k, State(d))
                /\ Trail(IF d[o] = c[o] THEN other ELSE Prepend(Seen(State(c)), other),
                         d[o], k, Len(d[o]))
      /\ d[o] = c[o] => State(d) = State(c)
  <2>1. Trail(other, t, h, m)
    BY <1>1, <1>5, <1>7, <1>8, TrailKept DEF SameBelow
  <2>2. PICK k : /\ Arrives(d[o], k, State(d))
                 /\ Trail(IF HasUngrouped(t) THEN Prepend(Seen(h[m]), other) ELSE other,
                          d[o], k, Len(d[o]))
    BY <1>8, <2>1, TrailFinished
  <2>3. CASE HasUngrouped(t)
    <3>1. d[o] = Append(t, [type |-> "new_group"])
      BY <1>8, <2>3 DEF PushNewGroup
    <3>2. Len(d[o]) = Len(t) + 1 /\ Len(t) \in Nat
      BY <1>8, <3>1, AppendSeq
    <3>3. m <= Len(t)
      BY <1>8, <3>2 DEF Bottom
    <3>4. d[o] # c[o]
      BY <1>2, <3>2, <3>3 DEF m
    <3> QED
      BY <1>8, <2>2, <2>3, <3>4
  <2>4. CASE ~HasUngrouped(t)
    <3>1. d[o] = t /\ m = Len(t)
      BY <1>8, <2>4, FinishedBottom DEF PushNewGroup
    <3>2. Len(c[o]) = Len(t)
      BY <3>1 DEF m
    <3>3. \A i \in 1 .. Len(t) : t[i] = c[o][i]
      BY <1>8, <3>1 DEF SameBelow
    <3>4. t = c[o]
      BY <1>1, <1>8, <3>2, <3>3, SeqsEqual
    <3>5. State(d) = State(c)
      BY <1>8, <3>1 DEF Arrives
    <3> QED
      BY <2>2, <2>4, <3>1, <3>4, <3>5
  <2> QED
    BY <2>3, <2>4
<1>10. PICK b : /\ Bottom(s, b) /\ OpenAbove(s, b) /\ State(d) = f[b]
                /\ \E k : /\ Arrives(d[name], k, State(d)) /\ Len(d[name]) = b
                          /\ SameBelow(c[name], f, d[name], k, b)
  BY <1>4
<1>11. PICK k : /\ Arrives(d[name], k, State(d)) /\ Len(d[name]) = b
                /\ SameBelow(c[name], f, d[name], k, b)
  BY <1>10
<1>12. /\ taken # <<>>
       /\ \E a : /\ OneGroup(c[name], a, n) /\ Head(taken) = Seen(f[a])
                 /\ Trail(Tail(taken), c[name], f, a)
  BY <1>1, <1>2, <1>7, TrailTaken
<1> HIDE DEF n
<1>13. PICK a : /\ OneGroup(c[name], a, n) /\ Head(taken) = Seen(f[a])
                /\ Trail(Tail(taken), c[name], f, a)
  BY <1>12
<1>14. a = b
  <2>1. Bottom(s, a)
    <3>1. a \in 0 .. (n - 1) /\ (a = 0 \/ c[name][a].type = "new_group")
      BY <1>2, <1>13 DEF OneGroup, Bottom
    <3>2. a # 0 => a \in 1 .. (n - 1)
      BY <1>2, <3>1
    <3> QED
      BY <1>6, <3>1, <3>2 DEF Bottom
  <2>2. OpenAbove(s, a)
    <3> SUFFICES ASSUME NEW i \in 1 .. Len(s), i > a PROVE s[i].type # "new_group"
      BY DEF OpenAbove
    <3>1. i \in 1 .. (n - 1) /\ i \in 1 .. n /\ i < n
      BY <1>2, <1>6
    <3>2. a \in Int
      BY <1>13 DEF OneGroup, Bottom
    <3>3. a < i
      BY <3>1, <3>2
    <3>4. c[name][i].type # "new_group"
      BY <1>13, <3>1, <3>3 DEF OneGroup, n
    <3> QED
      BY <1>6, <3>1, <3>4
  <2> QED
    BY <1>6, <1>10, <2>1, <2>2, OneBottom
<1>15. Trail(Tail(taken), d[name], k, b)
  <2>1. Bottom(c[name], b) /\ Trail(Tail(taken), c[name], f, b)
    BY <1>13, <1>14 DEF OneGroup
  <2> QED
    BY <1>1, <1>11, <2>1, TrailKept DEF SameBelow
<1> QED
  BY <1>1, <1>9, <1>10, <1>11, <1>12, <1>13, <1>14, <1>15 DEF Lands, Moved

-----------------------------------------------------------------------------
(***************************************************************************)
(* The snapshots that are recorded, and the steps of UndoSnapshots.        *)
(***************************************************************************)

RecordedFrom(c, r, f, g, b) ==
    /\ r.start = Seen(f[b])
    /\ Trail(r.past, c.undo, f, b) /\ Trail(r.future, c.redo, g, Len(c.redo))

\* The records are where the stacks lead.
Recorded(c, r) ==
    /\ Replayable(c)
    /\ \E f, g, b : ReplayableFrom(c, f, g, b) /\ RecordedFrom(c, r, f, g, b)

RecordedInv == Recorded(circuit, snapshots)

\* Every group is finished, and the records are where the stacks lead.
Settled(c, r) ==
    /\ Balanced(c) /\ r.start = Seen(State(c))
    /\ Lands(r.past, c.undo, State(c)) /\ Lands(r.future, c.redo, State(c))

LEMMA SettledIsRecorded ==
    ASSUME NEW c, NEW r, Settled(c, r) PROVE Recorded(c, r)
<1>1. PICK f : Arrives(c.undo, f, State(c)) /\ Trail(r.past, c.undo, f, Len(c.undo))
  BY DEF Settled, Lands
<1>2. PICK g : Arrives(c.redo, g, State(c)) /\ Trail(r.future, c.redo, g, Len(c.redo))
  BY DEF Settled, Lands
<1>3. Good(c) /\ c.history = "track_undo_new" /\ IsSeq(c.undo) /\ ~HasUngrouped(c.undo)
  BY UndoIsTracked DEF Settled, Balanced, Finished
<1>4. f[Len(c.undo)] = State(c)
  BY <1>1 DEF Arrives
<1>5. ReplayableFrom(c, f, g, Len(c.undo))
  BY <1>1, <1>2, <1>3, <1>4, FinishedBottom DEF ReplayableFrom
<1>6. RecordedFrom(c, r, f, g, Len(c.undo))
  BY <1>1, <1>2, <1>4 DEF RecordedFrom, Settled
<1> QED
  BY <1>5, <1>6, BalancedIsReplayable DEF Recorded, Settled

LEMMA RecordedIsSettled ==
    ASSUME NEW c, NEW r, Recorded(c, r), ~HasUngrouped(c.undo) PROVE Settled(c, r)
<1>1. Balanced(c)
  BY ReplayableIsBalanced DEF Recorded
<1>2. PICK f, g, b : ReplayableFrom(c, f, g, b) /\ RecordedFrom(c, r, f, g, b)
  BY DEF Recorded
<1>3. b = Len(c.undo)
  BY <1>1, <1>2, UndoIsTracked, FinishedBottom DEF ReplayableFrom, Balanced
<1>4. f[b] = State(c)
  BY <1>2, <1>3 DEF ReplayableFrom, Arrives
<1> QED
  BY <1>1, <1>2, <1>3, <1>4 DEF Settled, Lands, ReplayableFrom, RecordedFrom

\* What is seen of a circuit after a call.
LEMMA CallSeen ==
    ASSUME NEW name, NEW c, Call(name, c), Replayable(c)
    PROVE  /\ Snapshot(circuit') = Seen(State(c)) /\ State(circuit') = State(c)
           /\ circuit'.undo = c.undo /\ circuit'.redo = c.redo
<1>1. circuit' = ReadVisibleSelection(c)
  BY DEF Call
<1>2. /\ Good(circuit') /\ State(circuit') = State(c)
      /\ circuit'.undo = c.undo /\ circuit'.redo = c.redo
  BY <1>1, ReadSame
<1>3. Snapshot(circuit') = Seen(State(circuit'))
  BY <1>2, SnapshotOfState DEF Good
<1> QED
  BY <1>2, <1>3

LEMMA CallRecorded ==
    ASSUME NEW name, NEW c, Call(name, c), Recorded(c, snapshots')
    PROVE  RecordedInv'
<1>1. circuit' = ReadVisibleSelection(c) /\ Replayable(c)
  BY DEF Call, Recorded
<1>2. circuit'.undo = c.undo /\ circuit'.redo = c.redo
  BY <1>1, CallSeen
<1>3. PICK f, g, b : ReplayableFrom(c, f, g, b) /\ RecordedFrom(c, snapshots', f, g, b)
  BY DEF Recorded
<1>4. Replayable(circuit') /\ ReplayableFrom(circuit', f, g, b)
  BY <1>1, <1>3, ReadReplayable
<1>5. RecordedFrom(circuit', snapshots', f, g, b)
  BY <1>2, <1>3 DEF RecordedFrom
<1> QED
  BY <1>4, <1>5 DEF RecordedInv, Recorded

LEMMA RecordedSeen ==
    ASSUME NEW c, NEW r, Recorded(c, r) PROVE Snapshot(c) = Seen(State(c))
BY SnapshotOfState DEF Recorded, Replayable, Good

\* An edit leaves the records where the stacks lead.
LEMMA EditRecorded ==
    ASSUME NEW c, NEW r, Recorded(c, r), NEW d, Rewinds(c, d)
    PROVE  Recorded(d, r)
<1>1. PICK f, g, b : ReplayableFrom(c, f, g, b) /\ RecordedFrom(c, r, f, g, b)
  BY DEF Recorded
<1>2. /\ Replayable(d) /\ d.redo = c.redo
      /\ \E h : ReplayableFrom(d, h, g, b) /\ h[b] = f[b] /\ SameBelow(c.undo, f, d.undo, h, b)
  BY <1>1, EditReplayable DEF Recorded
<1>3. PICK h : ReplayableFrom(d, h, g, b) /\ h[b] = f[b] /\ SameBelow(c.undo, f, d.undo, h, b)
  BY <1>2
<1>4. IsSeq(c.undo) /\ IsSeq(d.undo) /\ Bottom(c.undo, b)
  BY <1>1, <1>2, UndoIsTracked DEF Recorded, Replayable, ReplayableFrom
<1>5. Trail(r.past, d.undo, h, b)
  BY <1>1, <1>3, <1>4, TrailKept DEF RecordedFrom, SameBelow
<1>6. RecordedFrom(d, r, h, g, b)
  BY <1>1, <1>2, <1>3, <1>5 DEF RecordedFrom
<1> QED
  BY <1>2, <1>3, <1>6 DEF Recorded

\* The list holds the start of the open group on top of the trail.
Starts(list, c) ==
    \E f, b, rest : /\ Arrives(c.undo, f, State(c)) /\ Bottom(c.undo, b)
                    /\ OpenAbove(c.undo, b) /\ Trail(rest, c.undo, f, b)
                    /\ list = Prepend(Seen(f[b]), rest)

\* Finishing the open group puts its start on the trail, and nothing can be redone.
LEMMA OpenGroupRecorded ==
    ASSUME NEW c, Good(c), c.history = "track_undo_new", HasUngrouped(c.undo),
           NEW d, d = FinishUndoGroup(c),
           NEW r, r.start = Seen(State(d)), r.future = <<>>, Starts(r.past, c)
    PROVE  Settled(d, r) /\ State(d) = State(c) /\ d.redo = <<>>
<1> PICK f, b, list : /\ Arrives(c.undo, f, State(c)) /\ Bottom(c.undo, b)
                      /\ OpenAbove(c.undo, b) /\ Trail(list, c.undo, f, b)
                      /\ r.past = Prepend(Seen(f[b]), list)
  BY DEF Starts
<1>1. /\ Balanced(d) /\ State(d) = State(c) /\ d.undo = PushNewGroup(c.undo)
      /\ d.redo = <<>> /\ IsSeq(c.undo)
  BY OpenGroupFinished, UndoIsTracked
<1>2. \E h : /\ Arrives(d.undo, h, State(d)) /\ Trail(r.past, d.undo, h, Len(d.undo))
  BY <1>1, TrailFinished
<1>3. PICK g : Arrives(d.redo, g, State(d))
  BY <1>1 DEF Balanced, Finished
<1>4. Trail(r.future, d.redo, g, Len(d.redo))
  <2>1. IsSeq(<<>>) /\ Len(<<>>) = 0
    BY EmptySeq, EmptyFinished DEF StackOK
  <2>2. Trail(<<>>, <<>>, g, 0)
    BY <2>1, TrailBelowAll
  <2> QED
    BY <1>1, <2>1, <2>2
<1> QED
  BY <1>1, <1>2, <1>3, <1>4 DEF Settled, Lands

\* An element without its attributes.
BareItem(item) == [item EXCEPT !.def = item.def.inverted]
Bare(e) == [e EXCEPT !.item.def = e.item.def.inverted]
ElementOf(st, k) == [key |-> k, item |-> st.items[k], selected |-> k \in st.selected]

LEMMA BareElements ==
    ASSUME NEW st, NEW ts, NEW k, BareItem(st.items[k]) = BareItem(ts.items[k]),
           (k \in st.selected) = (k \in ts.selected)
    PROVE  Bare(ElementOf(st, k)) = Bare(ElementOf(ts, k))
<1>1. ASSUME NEW us
      PROVE  Bare(ElementOf(us, k)) = [key |-> k, item |-> BareItem(us.items[k]),
                                       selected |-> k \in us.selected]
  <2> DEFINE p == k \in us.selected
             x == us.items[k]
  <2>1. ElementOf(us, k) = [key |-> k, item |-> x, selected |-> p]
    BY DEF ElementOf
  <2> HIDE DEF p, x
  <2>2. Bare(ElementOf(us, k)) = [key |-> k, item |-> BareItem(x), selected |-> p]
    BY <2>1 DEF Bare, BareItem
  <2> QED
    BY <2>2 DEF p, x
<1> QED
  BY <1>1

\* Two states that differ in the attributes of one item are seen alike but for them.
LEMMA SeenButAttributes ==
    ASSUME NEW st, IsState(st), NEW key \in DOMAIN st.items, st.items[key] \in Item,
           NEW attrs, NEW ts, ts = WithItem(st, key, WithAttributes(st.items[key], attrs))
    PROVE  EqualButAttributes(Seen(st), Seen(ts))
<1> DEFINE x == WithAttributes(st.items[key], attrs)
           Keys == DOMAIN st.items
<1>1. /\ DOMAIN ts.items = Keys /\ ts.selected = st.selected
      /\ \A k \in Keys : ts.items[k] = (IF k = key THEN x ELSE st.items[k])
  BY WithItemState
<1>2. BareItem(x) = BareItem(st.items[key])
  BY DEF BareItem, WithAttributes, Item, Definition
<1> HIDE DEF x
<1>3. ASSUME NEW k \in Keys PROVE Bare(ElementOf(ts, k)) = Bare(ElementOf(st, k))
  <2>1. BareItem(ts.items[k]) = BareItem(st.items[k])
    BY <1>1, <1>2
  <2>2. (k \in ts.selected) = (k \in st.selected)
    BY <1>1
  <2> QED
    BY <2>1, <2>2, BareElements
<1>4. /\ Seen(st).elements = {ElementOf(st, k) : k \in Keys}
      /\ Seen(ts).elements = {ElementOf(ts, k) : k \in Keys}
  BY <1>1, Zenon DEF Seen, ElementOf
<1>5. \A us : WithoutAttributes(Seen(us)) = {Bare(e) : e \in Seen(us).elements}
  BY DEF WithoutAttributes, Bare
<1> HIDE DEF Keys
<1>6. {Bare(e) : e \in {ElementOf(st, k) : k \in Keys}}
        = {Bare(e) : e \in {ElementOf(ts, k) : k \in Keys}}
  BY <1>3
<1> QED
  BY <1>4, <1>5, <1>6 DEF EqualButAttributes

-----------------------------------------------------------------------------
\* A group that is opened again is the last of the trail.
LEMMA ReopenTakes ==
    ASSUME NEW s, IsSeq(s), ~HasUngrouped(s), NEW f, NEW t, NEW st, Reopens(s, f, t, st),
           NEW list, Trail(list, s, f, Len(s))
    PROVE  /\ list # <<>>
           /\ \E h, m : /\ Arrives(t, h, st) /\ Bottom(t, m) /\ OpenAbove(t, m)
                        /\ Head(list) = Seen(h[m]) /\ Trail(Tail(list), t, h, m)
<1> DEFINE n == Len(s)
           last == Len(t)
<1>1. /\ n \in Nat /\ last \in 1 .. n /\ s[last].type # "new_group" /\ IsSeq(t)
      /\ \A i \in 1 .. n : i > last => s[i].type = "new_group"
  BY DEF Reopens, IsSeq
<1>2. PICK h : Arrives(t, h, st) /\ SameBelow(s, f, t, h, last)
  BY DEF Reopens
<1>3. n # 0 /\ Trail(list, s, f, n)
  BY <1>1
<1> HIDE DEF n, last
<1>4. /\ list # <<>>
      /\ \E m : OneGroup(s, m, n) /\ Head(list) = Seen(f[m]) /\ Trail(Tail(list), s, f, m)
  BY <1>3, TrailTaken
<1>5. PICK m : OneGroup(s, m, n) /\ Head(list) = Seen(f[m]) /\ Trail(Tail(list), s, f, m)
  BY <1>4
<1>6. /\ m \in 0 .. n /\ m + 1 < n /\ Bottom(s, m)
      /\ \A k \in 1 .. n : m < k /\ k < n => s[k].type # "new_group"
  BY <1>5 DEF OneGroup, Bottom, n
<1>7. m \in 0 .. last
  <2> SUFFICES ASSUME last < m PROVE FALSE
    BY <1>1, <1>6
  <2>1. n - 1 \in 1 .. n /\ m < n - 1 /\ n - 1 < n /\ n - 1 > last
    BY <1>1, <1>6
  <2> QED
    BY <1>1, <1>6, <2>1
<1>8. /\ m \in 0 .. Len(t) /\ (\A i \in 1 .. m : t[i] = s[i]) /\ \A i \in 0 .. m : h[i] = f[i]
      /\ m \in 0 .. m /\ (m # 0 => m \in 1 .. m)
  BY <1>1, <1>2, <1>6, <1>7 DEF SameBelow, last
<1>9. Trail(Tail(list), t, h, m)
  BY <1>1, <1>5, <1>6, <1>8, TrailKept
<1>10. Bottom(t, m)
  BY <1>6, <1>8 DEF Bottom
<1>11. OpenAbove(t, m)
  <2> SUFFICES ASSUME NEW i \in 1 .. last, i > m PROVE t[i].type # "new_group"
    BY DEF OpenAbove, last
  <2>1. t[i] = s[i] /\ i \in 1 .. n /\ m < i
    BY <1>1, <1>2, <1>6, <1>7 DEF SameBelow
  <2>2. CASE i < n
    BY <1>6, <2>1, <2>2
  <2>3. CASE i = n
    <3>1. last = n
      BY <1>1, <2>3
    <3> QED
      BY <1>1, <2>1, <2>3, <3>1
  <2> QED
    BY <1>1, <2>1, <2>2, <2>3
<1>12. Head(list) = Seen(h[m])
  BY <1>5, <1>8
<1> QED
  BY <1>2, <1>4, <1>9, <1>10, <1>11, <1>12

\* A change of attributes is a finished group, or joins the last one.
LEMMA AttributesRecorded ==
    ASSUME NEW c, NEW r, Recorded(c, r), NEW id \in DOMAIN c.items, NEW attrs \in Attributes,
           NEW d, d = ChangeSettingAttributes(c, id, attrs),
           NEW q, q.start = Seen(State(d)), q.future = <<>>,
           q.past = IF ReopensGroup(c) THEN r.past ELSE Prepend(r.start, r.past)
    PROVE  /\ Settled(d, q) /\ EqualButAttributes(Seen(State(c)), Seen(State(d)))
           /\ ReopensGroup(c) => ~HasUngrouped(c.undo) /\ r.past # <<>>
<1> DEFINE b == ReopenAttributeGroup(c)
           e == SetAttributes(b, id, attrs)
<1>1. PICK f, g, a : ReplayableFrom(c, f, g, a) /\ RecordedFrom(c, r, f, g, a)
  BY DEF Recorded
<1>2. /\ Good(c) /\ c.history = "track_undo_new" /\ IsSeq(c.undo)
      /\ Arrives(c.undo, f, State(c)) /\ Bottom(c.undo, a) /\ OpenAbove(c.undo, a)
      /\ r.start = Seen(f[a]) /\ Trail(r.past, c.undo, f, a)
  BY <1>1, UndoIsTracked DEF Recorded, Replayable, ReplayableFrom, RecordedFrom
<1>3. /\ Good(b) /\ b.history = "track_undo_new" /\ b.items = c.items /\ State(b) = State(c)
      /\ ~ReopensGroup(c) => b = c
      /\ ReopensGroup(c) => ~HasUngrouped(c.undo) /\ Reopens(c.undo, f, b.undo, State(c))
  BY <1>2, ReopenKeepsPath
<1>4. d = FinishUndoGroup(e)
  BY DEF ChangeSettingAttributes
<1> HIDE DEF b
<1>5. /\ Rewinds(b, e) /\ HasUngrouped(e.undo)
      /\ State(e) = Replaced(b, id, WithAttributes(b.items[id], attrs))
  BY <1>3, SetAttributesRewinds, AttributesOpenGroup
<1> HIDE DEF e
<1>6. /\ Good(e) /\ e.history = "track_undo_new" /\ IsSeq(b.undo) /\ IsSeq(e.undo)
      /\ Rewound(b.undo, State(b), e.undo, State(e))
  BY <1>3, <1>5, UndoIsTracked DEF Rewinds
<1>7. /\ \E h, m, list : /\ Arrives(b.undo, h, State(b)) /\ Bottom(b.undo, m)
                         /\ OpenAbove(b.undo, m) /\ Trail(list, b.undo, h, m)
                         /\ q.past = Prepend(Seen(h[m]), list)
      /\ ReopensGroup(c) => ~HasUngrouped(c.undo) /\ r.past # <<>>
  <2>1. CASE ~ReopensGroup(c)
    BY <1>2, <1>3, <2>1
  <2>2. CASE ReopensGroup(c)
    <3>1. a = Len(c.undo) /\ ~HasUngrouped(c.undo)
      BY <1>2, <1>3, <2>2, FinishedBottom
    <3>2. /\ r.past # <<>>
          /\ \E h, m : /\ Arrives(b.undo, h, State(c)) /\ Bottom(b.undo, m)
                       /\ OpenAbove(b.undo, m) /\ Head(r.past) = Seen(h[m])
                       /\ Trail(Tail(r.past), b.undo, h, m)
      BY <1>2, <1>3, <2>2, <3>1, ReopenTakes
    <3>3. PICK h, m : /\ Arrives(b.undo, h, State(c)) /\ Bottom(b.undo, m)
                      /\ OpenAbove(b.undo, m) /\ Head(r.past) = Seen(h[m])
                      /\ Trail(Tail(r.past), b.undo, h, m)
      BY <3>2
    <3>4. r.past = Prepend(Head(r.past), Tail(r.past))
      BY <1>2, <3>2, TailSeq DEF Trail, Prepend
    <3> QED
      BY <1>3, <2>2, <3>1, <3>2, <3>3, <3>4
  <2> QED
    BY <2>1, <2>2
<1>8. PICK h, m, list : /\ Arrives(b.undo, h, State(b)) /\ Bottom(b.undo, m)
                        /\ OpenAbove(b.undo, m) /\ Trail(list, b.undo, h, m)
                        /\ q.past = Prepend(Seen(h[m]), list)
  BY <1>7
<1>9. PICK k : Arrives(e.undo, k, State(e)) /\ SameBelow(b.undo, h, e.undo, k, m)
  BY <1>6, <1>8 DEF Rewound
<1>10. Bottom(e.undo, m) /\ OpenAbove(e.undo, m) /\ Trail(list, e.undo, k, m)
  BY <1>6, <1>8, <1>9, BottomKept, TrailKept DEF SameBelow
<1>11. k[m] = h[m]
  <2>1. m \in 0 .. m
    BY <1>8 DEF Bottom
  <2> QED
    BY <1>9, <2>1 DEF SameBelow
<1>12. Settled(d, q) /\ State(d) = State(e)
  <2>1. Starts(q.past, e)
    BY <1>8, <1>9, <1>10, <1>11 DEF Starts
  <2> QED
    BY <1>4, <1>5, <1>6, <2>1, OpenGroupRecorded
<1>13. EqualButAttributes(Seen(State(c)), Seen(State(d)))
  <2> DEFINE st == State(b)
             key == b.keys[id]
  <2>1. /\ IsState(st) /\ key \in DOMAIN st.items /\ st.items[key] = b.items[id]
    BY <1>3, StateItems, StateIsState DEF Good
  <2>2. b.items[id] \in Item
    BY <1>3, StackSeq DEF Good, Sound, Shape
  <2>3. State(e) = WithItem(st, key, WithAttributes(st.items[key], attrs))
    BY <1>5, <2>1 DEF Replaced
  <2> HIDE DEF st, key
  <2>4. EqualButAttributes(Seen(st), Seen(State(e)))
    BY <2>1, <2>2, <2>3, SeenButAttributes
  <2> QED
    BY <1>3, <1>12, <2>4 DEF st
<1> QED
  BY <1>7, <1>12, <1>13

LEMMA UndoSettled ==
    ASSUME NEW c, NEW r, Settled(c, r), c.undo # <<>>,
           NEW d, d = ReplayStack(c, "undo", ReplayEntry),
           NEW q, q.start = Seen(State(d)), q.past = Tail(r.past),
           q.future = IF d.redo = c.redo THEN r.future ELSE Prepend(r.start, r.future)
    PROVE  /\ Settled(d, q) /\ r.past # <<>> /\ Head(r.past) = q.start
           /\ d.redo = c.redo => q.start = r.start
<1>1. Balanced(c) /\ r.start = Seen(State(c))
  BY DEF Settled
<1>2. PICK name, o : name = "undo" /\ o = OtherStack(name)
  OBVIOUS
<1>3. o = "redo" /\ \A x : x[name] = x.undo /\ x[o] = x.redo
  BY <1>2 DEF OtherStack
<1>4. /\ name \in {"undo", "redo"} /\ o = OtherStack(name) /\ c[name] # <<>>
      /\ Lands(r.past, c[name], State(c)) /\ Lands(r.future, c[o], State(c))
      /\ d = ReplayStack(c, name, ReplayEntry)
  BY <1>2, <1>3 DEF Settled
<1>5. Moved(c, d, name, o, r.past, r.future)
  BY <1>1, <1>4, GroupRecorded
<1> QED
  BY <1>1, <1>3, <1>5 DEF Settled, Moved

LEMMA RedoSettled ==
    ASSUME NEW c, NEW r, Settled(c, r), c.redo # <<>>,
           NEW d, d = ReplayStack(c, "redo", ReplayEntry),
           NEW q, q.start = Seen(State(d)), q.future = Tail(r.future),
           q.past = IF d.undo = c.undo THEN r.past ELSE Prepend(r.start, r.past)
    PROVE  /\ Settled(d, q) /\ r.future # <<>> /\ Head(r.future) = q.start
           /\ d.undo = c.undo => q.start = r.start
<1>1. Balanced(c) /\ r.start = Seen(State(c))
  BY DEF Settled
<1>2. PICK name, o : name = "redo" /\ o = OtherStack(name)
  OBVIOUS
<1>3. o = "undo" /\ \A x : x[name] = x.redo /\ x[o] = x.undo
  BY <1>2 DEF OtherStack
<1>4. /\ name \in {"undo", "redo"} /\ o = OtherStack(name) /\ c[name] # <<>>
      /\ Lands(r.future, c[name], State(c)) /\ Lands(r.past, c[o], State(c))
      /\ d = ReplayStack(c, name, ReplayEntry)
  BY <1>2, <1>3 DEF Settled
<1>5. Moved(c, d, name, o, r.future, r.past)
  BY <1>1, <1>4, GroupRecorded
<1> QED
  BY <1>1, <1>3, <1>5 DEF Settled, Moved

\* The start of the open group would be on the trail if the group was finished.
LEMMA RecordedStarts ==
    ASSUME NEW c, NEW r, Recorded(c, r) PROVE Starts(Prepend(r.start, r.past), c)
<1>1. PICK f, g, b : ReplayableFrom(c, f, g, b) /\ RecordedFrom(c, r, f, g, b)
  BY DEF Recorded
<1> QED
  BY <1>1 DEF Starts, ReplayableFrom, RecordedFrom

LEMMA RecordsAreSeqs ==
    ASSUME NEW c, NEW r, Recorded(c, r) PROVE IsSeq(r.past) /\ IsSeq(r.future)
BY DEF Recorded, RecordedFrom, Trail

LEMMA SettledCall ==
    ASSUME NEW name, NEW c, Call(name, c), Settled(c, snapshots')
    PROVE  /\ RecordedInv' /\ Snapshot(circuit') = snapshots'.start
           /\ ~HasUngrouped(circuit'.undo)
<1>1. Recorded(c, snapshots') /\ Replayable(c)
  BY SettledIsRecorded DEF Recorded
<1>2. ~HasUngrouped(c.undo) /\ snapshots'.start = Seen(State(c))
  BY DEF Settled, Balanced, Finished
<1> QED
  BY <1>1, <1>2, CallRecorded, CallSeen

LEMMA RecordedIsReplayable == RecordedInv => ReplayInv
BY DEF RecordedInv, Recorded, ReplayInv

LEMMA EditImplements ==
    ASSUME RecordedInv, Edit, UNCHANGED snapshots PROVE RecordedInv' /\ Undoing!Edit
<1>1. PICK name, c : Rewinds(circuit, c) /\ Call(name, c)
  BY RecordedIsReplayable, EditRewinds DEF RewindingCall
<1>2. Recorded(c, snapshots)
  BY <1>1, EditRecorded DEF RecordedInv
<1>3. RecordedInv'
  BY <1>1, <1>2, CallRecorded
<1>4. ~HasUngrouped(circuit'.undo) => Snapshot(circuit') = snapshots'.start
  <2> SUFFICES ASSUME ~HasUngrouped(circuit'.undo) PROVE Snapshot(circuit') = snapshots'.start
    OBVIOUS
  <2>1. Snapshot(circuit') = Seen(State(c)) /\ circuit'.undo = c.undo
    BY <1>1, <1>2, CallSeen DEF Recorded
  <2>2. Settled(c, snapshots)
    BY <1>2, <2>1, RecordedIsSettled
  <2> QED
    BY <2>1, <2>2 DEF Settled
<1>5. HasUngrouped(circuit'.undo) \in BOOLEAN
  BY DEF HasUngrouped
<1> QED
  BY <1>3, <1>4, <1>5 DEF Undoing!Edit

\* The records of a stutter are those of before.
LEMMA StutterImplements ==
    ASSUME RecordedInv, NEW name, Call(name, circuit), UNCHANGED snapshots
    PROVE  RecordedInv' /\ UNCHANGED Undoing!vars
<1>1. RecordedInv'
  BY CallRecorded DEF RecordedInv
<1>2. /\ Snapshot(circuit') = Seen(State(circuit)) /\ circuit'.undo = circuit.undo
      /\ Snapshot(circuit) = Seen(State(circuit))
  BY CallSeen, RecordedSeen DEF RecordedInv, Recorded
<1> QED
  BY <1>1, <1>2 DEF Undoing!vars

\* A list begins with the start of the open group.
LEMMA PastWithStart ==
    ASSUME NEW s, IsSeq(s), NEW x PROVE <<x>> \o s = Prepend(x, s) /\ <<>> \o s = s
BY ConcatNothing DEF Prepend

LEMMA FinishImplements ==
    ASSUME RecordedInv, RecordedFinish
    PROVE  RecordedInv' /\ (Undoing!Finish \/ UNCHANGED Undoing!vars)
<1> DEFINE d == FinishUndoGroup(circuit)
<1>1. Call("finish_undo_group", d) /\ Recorded(circuit, snapshots)
  BY DEF RecordedFinish, DoFinishUndoGroup, RecordedInv
<1>2. CASE HasUngrouped(circuit.undo)
  <2>1. snapshots' = [start |-> Snapshot(circuit'), past |-> <<snapshots.start>> \o snapshots.past,
                      future |-> <<>>]
    BY <1>2 DEF RecordedFinish, RecordStart
  <2>2. Balanced(d) /\ State(d) = State(circuit)
    BY <1>1, FinishUndoGroupBalanced DEF Recorded
  <2>3. Snapshot(circuit') = Seen(State(d)) /\ Snapshot(circuit) = Seen(State(d))
    BY <1>1, <2>2, BalancedIsReplayable, CallSeen, RecordedSeen
  <2>4. Starts(snapshots'.past, circuit)
    BY <1>1, <2>1, RecordedStarts DEF Prepend
  <2>5. Good(circuit) /\ circuit.history = "track_undo_new"
    BY <1>1 DEF Recorded, Replayable
  <2>6. snapshots'.start = Seen(State(d)) /\ snapshots'.future = <<>>
    BY <2>1, <2>3
  <2>7. Settled(d, snapshots')
    BY <1>2, <2>4, <2>5, <2>6, OpenGroupRecorded
  <2>8. RecordedInv' /\ ~HasUngrouped(circuit'.undo)
    BY <1>1, <2>7, SettledCall
  <2>9. Undoing!Finish
    BY <1>2, <2>1, <2>3, <2>8 DEF Undoing!Finish
  <2> QED
    BY <2>8, <2>9
<1>3. CASE ~HasUngrouped(circuit.undo)
  <2>1. d = circuit
    BY <1>3 DEF FinishUndoGroup
  <2>2. UNCHANGED snapshots
    BY <1>3 DEF RecordedFinish
  <2> QED
    BY <1>1, <2>1, <2>2, StutterImplements
<1> QED
  BY <1>2, <1>3

LEMMA ChangeAttributesImplements ==
    ASSUME RecordedInv, RecordedChangeAttributes
    PROVE  RecordedInv' /\ Undoing!ChangeAttributes
<1>1. PICK id \in Ids(circuit), attrs \in Attributes :
        Call("change_setting_attributes", ChangeSettingAttributes(circuit, id, attrs))
  BY DEF RecordedChangeAttributes, DoChangeSettingAttributes
<1> DEFINE d == ChangeSettingAttributes(circuit, id, attrs)
           past == (IF ReopensGroup(circuit) THEN <<>> ELSE <<snapshots.start>>)
                       \o snapshots.past
<1>2. snapshots' = [start |-> Snapshot(circuit'), past |-> past, future |-> <<>>]
  BY Zenon DEF RecordedChangeAttributes, RecordStart
<1>3. Recorded(circuit, snapshots) /\ id \in DOMAIN circuit.items
  BY ItemIds DEF RecordedInv, Recorded, Replayable, Good
<1>4. Replayable(d)
  BY <1>3, ChangeSettingReplayable DEF Recorded
<1>5. past = IF ReopensGroup(circuit) THEN snapshots.past
             ELSE Prepend(snapshots.start, snapshots.past)
  BY <1>3, RecordsAreSeqs, PastWithStart
<1> HIDE DEF past, d
<1>6. Snapshot(circuit') = Seen(State(d)) /\ Snapshot(circuit) = Seen(State(circuit))
  BY <1>1, <1>3, <1>4, CallSeen, RecordedSeen DEF d
<1>7. /\ snapshots'.start = Seen(State(d)) /\ snapshots'.future = <<>>
      /\ snapshots'.past = IF ReopensGroup(circuit) THEN snapshots.past
                           ELSE Prepend(snapshots.start, snapshots.past)
  BY <1>2, <1>5, <1>6
<1>8. /\ Settled(d, snapshots')
      /\ EqualButAttributes(Seen(State(circuit)), Seen(State(d)))
      /\ ReopensGroup(circuit) => ~HasUngrouped(circuit.undo) /\ snapshots.past # <<>>
  BY <1>3, <1>7, AttributesRecorded DEF d
<1>9. RecordedInv' /\ Snapshot(circuit') = snapshots'.start /\ ~HasUngrouped(circuit'.undo)
  BY <1>1, <1>8, SettledCall DEF d
<1>10. Undoing!ChangeAttributes
  <2>1. EqualButAttributes(Snapshot(circuit), Snapshot(circuit'))
    BY <1>6, <1>8
  <2>2. \/ snapshots'.past = <<snapshots.start>> \o snapshots.past
        \/ /\ ~HasUngrouped(circuit.undo) /\ snapshots.past # <<>>
           /\ snapshots'.past = snapshots.past
    BY <1>7, <1>8 DEF Prepend
  <2> QED
    BY <1>7, <1>9, <2>1, <2>2 DEF Undoing!ChangeAttributes
<1> QED
  BY <1>9, <1>10

\* The records after undo of a finished group.
LEMMA UndoFinishedImplements ==
    ASSUME RecordedInv, RecordedUndo, ~HasUngrouped(circuit.undo), circuit.undo # <<>>
    PROVE  RecordedInv' /\ Undoing!Undo
<1> DEFINE d == UndoGroup(circuit)
           pushed == IfPushed(circuit.redo, circuit'.redo, snapshots.start)
<1>1. Call("undo_group", d) /\ Recorded(circuit, snapshots)
  BY DEF RecordedUndo, DoUndoGroup, RecordedInv
<1>2. Settled(circuit, snapshots)
  BY <1>1, RecordedIsSettled
<1>3. d = ReplayStack(circuit, "undo", ReplayEntry) /\ Replayable(d)
  <2>1. Balanced(circuit)
    BY <1>2 DEF Settled
  <2> QED
    BY <1>1, <2>1, NothingToFinish, UndoReplayable, Zenon DEF UndoGroup, Recorded
<1>4. /\ Snapshot(circuit') = Seen(State(d)) /\ circuit'.redo = d.redo
      /\ Snapshot(circuit) = Seen(State(circuit)) /\ snapshots.start = Seen(State(circuit))
  BY <1>1, <1>2, <1>3, CallSeen, RecordedSeen DEF Settled
<1>5. snapshots' = [start |-> Snapshot(circuit'), past |-> Rest(snapshots.past),
                    future |-> pushed \o snapshots.future]
  <2> HIDE DEF pushed
  <2> QED
    BY Zenon DEF RecordedUndo, RecordStart, pushed
<1>6. snapshots.past # <<>> => Rest(snapshots.past) = Tail(snapshots.past)
  BY <1>1, RecordsAreSeqs, TailSeq DEF Rest
<1>7. pushed \o snapshots.future = IF d.redo = circuit.redo THEN snapshots.future
                                   ELSE Prepend(snapshots.start, snapshots.future)
  BY <1>1, <1>4, RecordsAreSeqs, PastWithStart DEF IfPushed
<1> HIDE DEF pushed, d
<1> DEFINE q == [start |-> Seen(State(d)), past |-> Tail(snapshots.past),
                 future |-> IF d.redo = circuit.redo THEN snapshots.future
                            ELSE Prepend(snapshots.start, snapshots.future)]
<1>8. /\ q.start = Seen(State(d)) /\ q.past = Tail(snapshots.past)
      /\ q.future = IF d.redo = circuit.redo THEN snapshots.future
                    ELSE Prepend(snapshots.start, snapshots.future)
  OBVIOUS
<1>9. /\ Settled(d, q) /\ snapshots.past # <<>> /\ Head(snapshots.past) = q.start
      /\ d.redo = circuit.redo => q.start = snapshots.start
  <2> HIDE DEF q
  <2> QED
    BY <1>2, <1>3, <1>8, UndoSettled
<1>10. snapshots' = q
  BY <1>4, <1>5, <1>6, <1>7, <1>9
<1> HIDE DEF q
<1>11. RecordedInv' /\ Snapshot(circuit') = q.start /\ ~HasUngrouped(circuit'.undo)
  BY <1>1, <1>9, <1>10, SettledCall
<1>12. \/ snapshots'.future = <<Snapshot(circuit)>> \o snapshots.future
       \/ Snapshot(circuit') = Snapshot(circuit) /\ snapshots'.future = snapshots.future
  BY <1>4, <1>8, <1>9, <1>10, <1>11 DEF Prepend
<1>13. Undoing!Undo
  BY <1>8, <1>9, <1>10, <1>11, <1>12 DEF Undoing!Undo
<1> QED
  BY <1>11, <1>13

\* The records after undo of the open group.
LEMMA UndoOpenImplements ==
    ASSUME RecordedInv, RecordedUndo, HasUngrouped(circuit.undo)
    PROVE  RecordedInv' /\ Undoing!UndoOpenGroup
<1> DEFINE b == FinishUndoGroup(circuit)
           d == UndoGroup(circuit)
           past == Prepend(snapshots.start, snapshots.past)
           r == [start |-> Seen(State(b)), past |-> past, future |-> <<>>]
           pushed == IfPushed(<<>>, circuit'.redo, Snapshot(circuit))
<1>1. Call("undo_group", d) /\ Recorded(circuit, snapshots)
  BY DEF RecordedUndo, DoUndoGroup, RecordedInv
<1>2. snapshots' = [start |-> Snapshot(circuit'), past |-> snapshots.past, future |-> pushed]
  <2>1. circuit.undo # <<>>
    BY DEF HasUngrouped
  <2> HIDE DEF pushed
  <2> QED
    BY <2>1, Zenon DEF RecordedUndo, RecordStart, pushed
<1>3. d = ReplayStack(b, "undo", ReplayEntry) /\ Replayable(d)
  BY <1>1, UndoReplayable, Zenon DEF UndoGroup, Recorded
<1>4. /\ Good(circuit) /\ circuit.history = "track_undo_new" /\ Starts(past, circuit)
      /\ IsSeq(circuit.undo)
  BY <1>1, RecordedStarts, UndoIsTracked DEF Recorded, Replayable
<1>5. /\ r.start = Seen(State(b)) /\ r.past = past /\ r.future = <<>>
  OBVIOUS
<1>6. b.undo # <<>>
  <2>1. PICK f : Arrives(circuit.undo, f, State(circuit))
    BY <1>4 DEF Starts
  <2>2. b.undo = Append(circuit.undo, [type |-> "new_group"])
    BY <1>4, <2>1, OpenGroupFinished DEF PushNewGroup
  <2>3. Len(b.undo) = Len(circuit.undo) + 1 /\ Len(circuit.undo) \in Nat
    BY <1>4, <2>2, AppendSeq
  <2> HIDE DEF b
  <2>4. Len(b.undo) # 0
    BY <2>3
  <2> QED
    BY <2>4, EmptySeq
<1>7. /\ IsSeq(past) /\ IsSeq(snapshots.past)
      /\ past # <<>> => Tail(past) = snapshots.past /\ Head(past) = snapshots.start
  <2>1. IsSeq(snapshots.past)
    BY <1>1, RecordsAreSeqs
  <2> DEFINE n == Len(snapshots.past)
  <2>2. /\ IsSeq(past) /\ n \in Nat /\ Len(past) = n + 1
        /\ past[1] = snapshots.start /\ \A i \in 1 .. n : past[i + 1] = snapshots.past[i]
    BY <2>1, PrependSeq
  <2> HIDE DEF past
  <2>3. ASSUME past # <<>>
        PROVE  Tail(past) = snapshots.past /\ Head(past) = snapshots.start
    <3>1. /\ IsSeq(Tail(past)) /\ Len(Tail(past)) = Len(past) - 1 /\ Head(past) = past[1]
          /\ \A i \in 1 .. (Len(past) - 1) : Tail(past)[i] = past[i + 1]
      BY <2>2, <2>3, TailSeq
    <3> DEFINE t == Tail(past)
    <3> HIDE DEF t, n
    <3>2. Len(t) = n /\ \A i \in 1 .. n : t[i] = snapshots.past[i]
      BY <2>2, <3>1 DEF t
    <3>3. t = snapshots.past
      BY <2>1, <3>1, <3>2, SeqsEqual DEF t, n
    <3> QED
      BY <2>2, <3>1, <3>3 DEF t
  <2> QED
    BY <2>1, <2>2, <2>3
<1> HIDE DEF b, d, past, r
<1>8. Settled(b, r) /\ State(b) = State(circuit) /\ b.redo = <<>>
  BY <1>4, <1>5, OpenGroupRecorded DEF b
<1> DEFINE q == [start |-> Seen(State(d)), past |-> Tail(past),
                 future |-> IF d.redo = b.redo THEN r.future
                            ELSE Prepend(r.start, r.future)]
<1>9. /\ q.start = Seen(State(d)) /\ q.past = Tail(r.past)
      /\ q.future = IF d.redo = b.redo THEN r.future ELSE Prepend(r.start, r.future)
  BY <1>5
<1>10. /\ Settled(d, q) /\ r.past # <<>> /\ Head(r.past) = q.start
       /\ d.redo = b.redo => q.start = r.start
  <2> HIDE DEF q
  <2> QED
    BY <1>3, <1>6, <1>8, <1>9, UndoSettled
<1>11. Tail(past) = snapshots.past /\ q.start = snapshots.start
  BY <1>5, <1>7, <1>10
<1>12. /\ Snapshot(circuit') = Seen(State(d)) /\ circuit'.redo = d.redo
       /\ Snapshot(circuit) = Seen(State(circuit))
  BY <1>1, <1>3, CallSeen, RecordedSeen
<1>13. /\ r.start = Snapshot(circuit) /\ Prepend(r.start, <<>>) = <<Snapshot(circuit)>>
       /\ pushed = IF d.redo = <<>> THEN <<>> ELSE <<Snapshot(circuit)>>
  BY <1>5, <1>8, <1>12 DEF Prepend, IfPushed
<1> HIDE DEF pushed
<1>14. q.future = pushed
  BY <1>5, <1>8, <1>9, <1>13
<1>15. snapshots' = q
  BY <1>2, <1>9, <1>11, <1>12, <1>14
<1> HIDE DEF q
<1>16. RecordedInv' /\ Snapshot(circuit') = q.start /\ ~HasUngrouped(circuit'.undo)
  BY <1>1, <1>10, <1>15, SettledCall
<1>17. \/ snapshots'.future = <<Snapshot(circuit)>>
       \/ Snapshot(circuit') = Snapshot(circuit) /\ snapshots'.future = <<>>
  BY <1>8, <1>10, <1>13, <1>14, <1>15, <1>16
<1>18. Undoing!UndoOpenGroup
  BY <1>2, <1>11, <1>15, <1>16, <1>17 DEF Undoing!UndoOpenGroup
<1> QED
  BY <1>16, <1>18

\* Without a group there is nothing to replay.
LEMMA NothingToReplay ==
    ASSUME NEW c, Balanced(c), NEW name, c[name] = <<>>
    PROVE  ReplayStack(c, name, ReplayEntry) = c
BY Zenon DEF ReplayStack, Balanced, Finished

LEMMA UndoImplements ==
    ASSUME RecordedInv, RecordedUndo
    PROVE  /\ RecordedInv'
           /\ Undoing!UndoOpenGroup \/ Undoing!Undo \/ UNCHANGED Undoing!vars
<1>1. CASE HasUngrouped(circuit.undo)
  BY <1>1, UndoOpenImplements
<1>2. CASE ~HasUngrouped(circuit.undo) /\ circuit.undo # <<>>
  BY <1>2, UndoFinishedImplements
<1>3. CASE ~HasUngrouped(circuit.undo) /\ circuit.undo = <<>>
  <2>1. UNCHANGED snapshots
    BY <1>3, Zenon DEF RecordedUndo
  <2>2. Call("undo_group", UndoGroup(circuit))
    BY DEF RecordedUndo, DoUndoGroup
  <2>3. Balanced(circuit)
    BY <1>3, ReplayableIsBalanced DEF RecordedInv, Recorded
  <2>4. UndoGroup(circuit) = ReplayStack(circuit, "undo", ReplayEntry)
    BY <2>3, NothingToFinish, Zenon DEF UndoGroup
  <2>5. UndoGroup(circuit) = circuit
    BY <1>3, <2>3, <2>4, NothingToReplay
  <2> QED
    BY <2>1, <2>2, <2>5, StutterImplements
<1> QED
  BY <1>1, <1>2, <1>3

LEMMA RedoImplements ==
    ASSUME RecordedInv, RecordedRedo
    PROVE  RecordedInv' /\ (Undoing!Redo \/ UNCHANGED Undoing!vars)
<1> DEFINE d == RedoGroup(circuit)
           pushed == IfPushed(circuit.undo, circuit'.undo, snapshots.start)
<1>1. /\ Call("redo_group", d) /\ Recorded(circuit, snapshots)
      /\ ~HasUngrouped(circuit.undo)
  BY DEF RecordedRedo, DoRedoGroup, RecordedInv
<1>2. Settled(circuit, snapshots)
  BY <1>1, RecordedIsSettled
<1>3. d = ReplayStack(circuit, "redo", ReplayEntry) /\ Replayable(d)
  BY <1>1, UndoReplayable, Zenon DEF RedoGroup, Recorded
<1>4. CASE circuit.redo = <<>>
  <2>1. UNCHANGED snapshots
    BY <1>4, Zenon DEF RecordedRedo
  <2>2. d = circuit
    BY <1>2, <1>3, <1>4, NothingToReplay DEF Settled
  <2> QED
    BY <1>1, <2>1, <2>2, StutterImplements
<1>5. CASE circuit.redo # <<>>
  <2>1. /\ Snapshot(circuit') = Seen(State(d)) /\ circuit'.undo = d.undo
        /\ Snapshot(circuit) = Seen(State(circuit)) /\ snapshots.start = Seen(State(circuit))
    BY <1>1, <1>2, <1>3, CallSeen, RecordedSeen DEF Settled
  <2>2. snapshots' = [start |-> Snapshot(circuit'), past |-> pushed \o snapshots.past,
                      future |-> Rest(snapshots.future)]
    <3> HIDE DEF pushed
    <3> QED
      BY <1>5, Zenon DEF RecordedRedo, RecordStart, pushed
  <2>3. snapshots.future # <<>> => Rest(snapshots.future) = Tail(snapshots.future)
    BY <1>1, RecordsAreSeqs, TailSeq DEF Rest
  <2>4. pushed \o snapshots.past = IF d.undo = circuit.undo THEN snapshots.past
                                   ELSE Prepend(snapshots.start, snapshots.past)
    BY <1>1, <2>1, RecordsAreSeqs, PastWithStart DEF IfPushed
  <2> HIDE DEF pushed, d
  <2> DEFINE q == [start |-> Seen(State(d)), future |-> Tail(snapshots.future),
                   past |-> IF d.undo = circuit.undo THEN snapshots.past
                            ELSE Prepend(snapshots.start, snapshots.past)]
  <2>5. /\ q.start = Seen(State(d)) /\ q.future = Tail(snapshots.future)
        /\ q.past = IF d.undo = circuit.undo THEN snapshots.past
                    ELSE Prepend(snapshots.start, snapshots.past)
    OBVIOUS
  <2>6. /\ Settled(d, q) /\ snapshots.future # <<>> /\ Head(snapshots.future) = q.start
        /\ d.undo = circuit.undo => q.start = snapshots.start
    <3> HIDE DEF q
    <3> QED
      BY <1>2, <1>3, <1>5, <2>5, RedoSettled
  <2>7. snapshots' = q
    BY <2>1, <2>2, <2>3, <2>4, <2>6
  <2> HIDE DEF q
  <2>8. RecordedInv' /\ Snapshot(circuit') = q.start /\ ~HasUngrouped(circuit'.undo)
    BY <1>1, <2>6, <2>7, SettledCall
  <2>9. \/ snapshots'.past = <<Snapshot(circuit)>> \o snapshots.past
        \/ Snapshot(circuit') = Snapshot(circuit) /\ snapshots'.past = snapshots.past
    BY <2>1, <2>5, <2>6, <2>7, <2>8 DEF Prepend
  <2>10. Undoing!Redo
    BY <1>1, <2>5, <2>6, <2>7, <2>8, <2>9 DEF Undoing!Redo
  <2> QED
    BY <2>8, <2>10
<1> QED
  BY <1>4, <1>5

LEMMA NextImplements ==
    RecordedInv /\ [RecordedNext]_<<circuit, snapshots>>
        => RecordedInv' /\ [Undoing!Next]_(Undoing!vars)
<1> SUFFICES ASSUME RecordedInv, [RecordedNext]_<<circuit, snapshots>>
             PROVE  RecordedInv' /\ [Undoing!Next]_(Undoing!vars)
  OBVIOUS
<1>1. CASE Edit /\ UNCHANGED snapshots
  BY <1>1, EditImplements DEF Undoing!Next
<1>2. CASE RecordedFinish
  BY <1>2, FinishImplements DEF Undoing!Next
<1>3. CASE RecordedChangeAttributes
  BY <1>3, ChangeAttributesImplements DEF Undoing!Next
<1>4. CASE RecordedUndo
  BY <1>4, UndoImplements DEF Undoing!Next
<1>5. CASE RecordedRedo
  BY <1>5, RedoImplements DEF Undoing!Next
<1>6. CASE UNCHANGED <<circuit, snapshots>>
  BY <1>6 DEF RecordedInv, Undoing!vars, Snapshot, Ids
<1> QED
  BY <1>1, <1>2, <1>3, <1>4, <1>5, <1>6 DEF RecordedNext

LEMMA InitImplements == RecordedInit => RecordedInv /\ Undoing!Init
<1> SUFFICES ASSUME RecordedInit PROVE RecordedInv /\ Undoing!Init
  OBVIOUS
<1>1. Undoing!Init
  BY DEF RecordedInit, Init, LoadedCircuit, Undoing!Init, HasUngrouped
<1>2. /\ circuit.undo = <<>> /\ circuit.redo = <<>> /\ ~HasUngrouped(circuit.undo)
      /\ snapshots = [start |-> Snapshot(circuit), past |-> <<>>, future |-> <<>>]
  BY DEF RecordedInit, Init, LoadedCircuit, HasUngrouped
<1>3. Balanced(circuit)
  BY <1>2, LoadedIsReplayable, ReplayableIsBalanced DEF RecordedInit, ReplayInv
<1>4. Snapshot(circuit) = Seen(State(circuit))
  BY <1>3, BalancedSnapshot
<1>5. Lands(<<>>, <<>>, State(circuit))
  <2>1. PICK f : Arrives(<<>>, f, State(circuit))
    BY EmptyFinished DEF Finished
  <2>2. IsSeq(<<>>) /\ Len(<<>>) = 0
    BY EmptySeq, EmptyFinished DEF StackOK
  <2> QED
    BY <2>1, <2>2, TrailBelowAll DEF Lands
<1>6. Settled(circuit, snapshots)
  BY <1>2, <1>3, <1>4, <1>5 DEF Settled
<1> QED
  BY <1>1, <1>6, SettledIsRecorded DEF RecordedInv

\* Undo returns to the circuit at the start of the last group and redo to the one that the
\* undo left, however the entries of the groups were compressed; an edit that leaves no
\* entry has changed nothing, and only finishing a group forgets what was undone
\* (fuzz_core, validate_undo; edit_history.cpp, circuit_history stacks).
THEOREM CircuitHistoryIsUndo == RecordedSpec => ImplementsUndoSnapshots
<1>1. RecordedInit => RecordedInv /\ Undoing!Init
  BY InitImplements
<1>2. RecordedInv /\ [RecordedNext]_<<circuit, snapshots>>
          => RecordedInv' /\ [Undoing!Next]_(Undoing!vars)
  BY NextImplements
<1> QED
  BY <1>1, <1>2, PTL DEF RecordedSpec, ImplementsUndoSnapshots, Undoing!Spec

==============================================================================
