------------------------ MODULE CircuitHistoryProofs ------------------------
(***************************************************************************)
(* CircuitHistory: inserted items never overlap, and a cached selection is *)
(* current, whatever is edited, undone and redone.                         *)
(*                                                                         *)
(* The invariant is Sound.  It is about circuits, not about states: undo   *)
(* and the edits of a selection perform many edits in one step, so that    *)
(* every edit must keep it, also between the rounds of a loop.  A loop is  *)
(* a recursive function; AllRounds carries an invariant through it.        *)
(***************************************************************************)
EXTENDS CircuitHistory, SequenceTheorems, FiniteSetTheorems, TLAPS

-----------------------------------------------------------------------------
(***************************************************************************)
(* Induction over the rounds of a loop, and sequences.                     *)
(***************************************************************************)

\* What holds of round 0 and goes on from round to round holds of all rounds.
LEMMA AllRounds ==
    ASSUME NEW n \in Nat, NEW P \in SUBSET (0 .. n),
           0 \in P, \A i \in 1 .. n : i - 1 \in P => i \in P
    PROVE  P = 0 .. n
<1> DEFINE R == {ss \in Nat \X Nat : ss[1] < ss[2]}
           T == (0 .. n) \ P
<1>1. IsWellFoundedOn(R, Nat)
  BY NatLessThanWellFounded DEF OpToRel
<1> HIDE DEF R
<1> SUFFICES ASSUME T # {} PROVE FALSE
  OBVIOUS
<1>2. PICK m \in T : \A k \in T : <<k, m>> \notin R
  <2>1. T \in SUBSET Nat
    OBVIOUS
  <2> HIDE DEF T
  <2> QED
    BY <1>1, <2>1, WFMin
<1>3. m \in 1 .. n /\ m - 1 \in 0 .. n
  BY <1>2
<1>4. <<m - 1, m>> \in R
  BY <1>3 DEF R
<1>5. m - 1 \in P
  BY <1>2, <1>3, <1>4
<1> QED
  BY <1>3, <1>5

\* A set of natural numbers up to a bound has a greatest element.
LEMMA Greatest ==
    ASSUME NEW n \in Nat, NEW T \in SUBSET (1 .. n), T # {}
    PROVE  /\ Max(T) \in T
           /\ \A k \in T : k <= Max(T)
<1> DEFINE P == {i \in 0 .. n : \A k \in T : k <= n - i}
<1>1. SUFFICES ASSUME \A m \in T : \E k \in T : ~(k <= m) PROVE FALSE
  BY DEF Max
<1>2. 0 \in P
  OBVIOUS
<1>3. ASSUME NEW i \in 1 .. n, i - 1 \in P PROVE i \in P
  <2>1. \A k \in T : k <= n - (i - 1)
    BY <1>3
  <2>2. n - (i - 1) \notin T
    BY <1>1, <2>1
  <2> QED
    BY <2>1, <2>2
<1> HIDE DEF P
<1>4. P = 0 .. n
  <2>1. P \in SUBSET (0 .. n)
    BY DEF P
  <2> QED
    BY <1>2, <1>3, <2>1, AllRounds
<1>5. n \in P
  BY <1>4
<1>6. \A k \in T : k <= n - n
  BY <1>5 DEF P
<1>7. PICK k \in T : TRUE
  OBVIOUS
<1>8. k \in 1 .. n /\ k <= n - n
  BY <1>6, <1>7
<1> QED
  BY <1>8

\* A sequence, of whatever.
IsSeq(s) == s \in Seq({s[i] : i \in 1 .. Len(s)})

LEMMA Sequences ==
    ASSUME NEW n \in Nat, NEW f, f = [i \in 1 .. n |-> f[i]]
    PROVE  IsSeq(f) /\ Len(f) = n
<1>1. f \in [1 .. n -> {f[i] : i \in 1 .. n}]
  BY Zenon
<1>2. f \in Seq({f[i] : i \in 1 .. n})
  BY <1>1
<1>3. Len(f) = n
  BY <1>1
<1> QED
  BY <1>2, <1>3 DEF IsSeq

LEMMA SequenceOf ==
    ASSUME NEW S, NEW s \in Seq(S)
    PROVE  IsSeq(s) /\ Len(s) \in Nat /\ DOMAIN s = 1 .. Len(s)
<1>1. Len(s) \in Nat /\ s = [i \in 1 .. Len(s) |-> s[i]]
  OBVIOUS
<1> QED
  BY <1>1, Sequences

LEMMA AppendSeq ==
    ASSUME NEW s, IsSeq(s), NEW x
    PROVE  /\ IsSeq(Append(s, x)) /\ Len(s) \in Nat /\ Len(Append(s, x)) = Len(s) + 1
           /\ \A i \in 1 .. Len(s) : Append(s, x)[i] = s[i]
           /\ Append(s, x)[Len(s) + 1] = x
<1> DEFINE S == {s[i] : i \in 1 .. Len(s)} \cup {x}
<1>1. s \in Seq(S)
  <2>1. s \in Seq({s[i] : i \in 1 .. Len(s)})
    BY DEF IsSeq
  <2> QED
    BY <2>1, Z3
<1>2. x \in S
  OBVIOUS
<1> HIDE DEF S
<1>3. Append(s, x) \in Seq(S)
  BY <1>1, <1>2
<1>4. IsSeq(Append(s, x)) /\ Len(s) \in Nat
  BY <1>1, <1>3, SequenceOf
<1> QED
  BY <1>1, <1>2, <1>4, AppendProperties

\* A part of a sequence.
LEMMA SubSeqSeq ==
    ASSUME NEW s, IsSeq(s), NEW m \in 1 .. (Len(s) + 1), NEW n \in 0 .. Len(s)
    PROVE  /\ IsSeq(SubSeq(s, m, n))
           /\ Len(SubSeq(s, m, n)) = IF m <= n THEN n - m + 1 ELSE 0
           /\ \A i \in 1 .. (n - m + 1) : SubSeq(s, m, n)[i] = s[m + i - 1]
<1> DEFINE S == {s[i] : i \in 1 .. Len(s)}
<1>1. s \in Seq(S)
  BY DEF IsSeq
<1>2. Len(s) \in Nat
  BY <1>1
<1>3. \A i \in m .. n : s[i] \in S
  BY <1>2
<1> HIDE DEF S
<1>4. m \in Int /\ n \in Int
  BY <1>2
<1>5. /\ SubSeq(s, m, n) \in Seq(S)
      /\ Len(SubSeq(s, m, n)) = IF m <= n THEN n - m + 1 ELSE 0
      /\ \A i \in 1 .. (n - m + 1) : SubSeq(s, m, n)[i] = s[m + i - 1]
  BY <1>3, <1>4, SubSeqProperties
<1> QED
  BY <1>5, SequenceOf

LEMMA FrontSeq ==
    ASSUME NEW s, IsSeq(s), s # <<>>
    PROVE  /\ IsSeq(Front(s)) /\ Len(s) \in Nat \ {0} /\ Len(Front(s)) = Len(s) - 1
           /\ \A i \in 1 .. (Len(s) - 1) : Front(s)[i] = s[i]
<1>1. Len(s) \in Nat /\ Len(s) # 0
  BY DEF IsSeq
<1>2. 1 \in 1 .. (Len(s) + 1) /\ Len(s) - 1 \in 0 .. Len(s)
  BY <1>1
<1>3. /\ IsSeq(Front(s))
      /\ Len(Front(s)) = IF 1 <= Len(s) - 1 THEN (Len(s) - 1) - 1 + 1 ELSE 0
      /\ \A i \in 1 .. ((Len(s) - 1) - 1 + 1) : Front(s)[i] = s[1 + i - 1]
  BY <1>2, SubSeqSeq DEF Front
<1> DEFINE n == Len(s)
<1>4. n \in Nat \ {0}
  BY <1>1
<1> HIDE DEF n
<1>5. /\ (IF 1 <= n - 1 THEN (n - 1) - 1 + 1 ELSE 0) = n - 1
      /\ (n - 1) - 1 + 1 = n - 1
      /\ \A i \in 1 .. (n - 1) : 1 + i - 1 = i
  BY <1>4
<1>6. n = Len(s)
  BY DEF n
<1> QED
  BY <1>3, <1>4, <1>5, <1>6

\* A sequence with another member.
LEMMA ReplaceInSeq ==
    ASSUME NEW s, IsSeq(s), NEW k \in 1 .. Len(s), NEW x, NEW t, t = [s EXCEPT ![k] = x]
    PROVE  /\ IsSeq(t) /\ Len(t) = Len(s) /\ Len(s) \in Nat
           /\ \A i \in 1 .. Len(s) : t[i] = (IF i = k THEN x ELSE s[i])
<1>1. Len(s) \in Nat /\ DOMAIN s = 1 .. Len(s)
  BY DEF IsSeq
<1>2. t = [i \in 1 .. Len(s) |-> t[i]]
  BY <1>1
<1>3. \A i \in 1 .. Len(s) : t[i] = (IF i = k THEN x ELSE s[i])
  BY <1>1
<1>4. IsSeq(t) /\ Len(t) = Len(s)
  BY <1>1, <1>2, Sequences
<1> QED
  BY <1>1, <1>3, <1>4

LEMMA ReverseSeq ==
    ASSUME NEW s, IsSeq(s)
    PROVE  /\ IsSeq(Reverse(s)) /\ Len(Reverse(s)) = Len(s) /\ Len(s) \in Nat
           /\ \A i \in 1 .. Len(s) : Reverse(s)[i] = s[(Len(s) - i) + 1]
<1>1. Len(s) \in Nat
  BY DEF IsSeq
<1>2. Reverse(s) = [i \in 1 .. Len(s) |-> Reverse(s)[i]]
  BY DEF Reverse
<1>3. IsSeq(Reverse(s)) /\ Len(Reverse(s)) = Len(s)
  BY <1>1, <1>2, Sequences
<1> QED
  BY <1>1, <1>3 DEF Reverse

-----------------------------------------------------------------------------
(***************************************************************************)
(* The invariant.                                                          *)
(***************************************************************************)

EntryTypes ==
    SelectionEntryTypes \cup DOMAIN ModeChange
    \cup {"new_group", "create", "delete", "move", "change_attributes", "add_visible",
          "remove_visible"}

EntryOK(e) == /\ e.type \in EntryTypes
              /\ e.type = "add_operation" => e.operation \in Operation
              /\ e.type = "update_last" => e.rect \in Rects

StackOK(s) == IsSeq(s) /\ \A i \in 1 .. Len(s) : EntryOK(s[i])

ItemOK(item) == DOMAIN item = {"def", "position", "display"} /\ item.display \in Display

ItemsOK(items) == IsSeq(items) /\ \A i \in 1 .. Len(items) : ItemOK(items[i])

OperationsOK(operations) ==
    IsSeq(operations) /\ \A i \in 1 .. Len(operations) : operations[i] \in Operation

Fields == {"items", "keys", "nextKey", "loaded", "stored", "initial", "operations",
           "cached", "history", "undo", "redo", "failed"}

\* Every id has a key of its own.
KeysOK(keys, ids) == /\ IsSeq(keys) /\ DOMAIN keys = ids
                     /\ \A i, j \in ids : keys[i] = keys[j] => i = j

Shape(c) == /\ DOMAIN c = Fields
            /\ KeysOK(c.keys, DOMAIN c.items)
            /\ c.failed \in BOOLEAN
            /\ c.history \in {"track_undo_new", "track_redo_replay", "track_undo_replay"}
            /\ ItemsOK(c.items)
            /\ c.initial \subseteq DOMAIN c.items
            /\ OperationsOK(c.operations)
            /\ StackOK(c.undo) /\ StackOK(c.redo)

\* Inserted items are apart.
Disjoint(items) ==
    \A i, j \in DOMAIN items :
        (IsInserted(items[i]) /\ IsInserted(items[j])
           /\ items[i].position = items[j].position) => i = j

\* What is cached is what would be calculated.
CacheOK(c) == \A ids \in c.cached : c.operations # <<>> /\ ids = CalculateSelection(c)

Sound(c) == Shape(c) /\ Disjoint(c.items) /\ CacheOK(c)

-----------------------------------------------------------------------------
(***************************************************************************)
(* Pushing on the stacks.                                                  *)
(***************************************************************************)

\* Only the stacks differ.
OnlyStacks(c, d) ==
    /\ DOMAIN d = Fields /\ d.stored = c.stored
    /\ d.items = c.items /\ d.initial = c.initial /\ d.operations = c.operations
    /\ d.cached = c.cached /\ d.history = c.history /\ d.keys = c.keys
    /\ d.failed = c.failed
    /\ StackOK(d.undo) /\ StackOK(d.redo)

LEMMA StacksKeepSound ==
    ASSUME NEW c, Sound(c), NEW d, OnlyStacks(c, d)
    PROVE  Sound(d)
<1>1. Shape(d) /\ Disjoint(d.items)
  BY DEF Sound, Shape, OnlyStacks
<1>2. CalculateSelection(d) = CalculateSelection(c)
  BY DEF CalculateSelection, OnlyStacks
<1>3. CacheOK(d)
  BY <1>2 DEF Sound, CacheOK, OnlyStacks
<1> QED
  BY <1>1, <1>3 DEF Sound

LEMMA StackRecorded ==
    ASSUME NEW c, Sound(c), NEW t, StackOK(t), NEW d,
           d = (IF c.history = "disabled" THEN c ELSE [c EXCEPT ![Tracked(c)] = t])
    PROVE  OnlyStacks(c, d)
<1>1. d = [c EXCEPT ![Tracked(c)] = t]
  BY DEF Sound, Shape
<1>2. Tracked(c) = "undo" \/ Tracked(c) = "redo"
  BY DEF Tracked
<1>3. DOMAIN c = Fields /\ StackOK(c.undo) /\ StackOK(c.redo)
  BY DEF Sound, Shape
<1>4. CASE Tracked(c) = "undo"
  BY <1>1, <1>3, <1>4 DEF OnlyStacks, Fields
<1>5. CASE Tracked(c) = "redo"
  BY <1>1, <1>3, <1>5 DEF OnlyStacks, Fields
<1> QED
  BY <1>2, <1>4, <1>5

\* The tracked stack is one of the two.
LEMMA TrackedStack ==
    ASSUME NEW c, Sound(c) PROVE StackOK(c[Tracked(c)])
BY DEF Sound, Shape, Tracked

LEMMA StackAppended ==
    ASSUME NEW s, StackOK(s), NEW e, EntryOK(e) PROVE StackOK(Append(s, e))
<1>1. IsSeq(s) /\ \A i \in 1 .. Len(s) : EntryOK(s[i])
  BY DEF StackOK
<1>2. /\ IsSeq(Append(s, e)) /\ Len(s) \in Nat /\ Len(Append(s, e)) = Len(s) + 1
      /\ \A i \in 1 .. Len(s) : Append(s, e)[i] = s[i]
      /\ Append(s, e)[Len(s) + 1] = e
  BY <1>1, AppendSeq
<1>3. ASSUME NEW i \in 1 .. (Len(s) + 1) PROVE EntryOK(Append(s, e)[i])
  <2>1. i \in 1 .. Len(s) \/ i = Len(s) + 1
    BY <1>2
  <2> QED
    BY <1>1, <1>2, <2>1
<1> QED
  BY <1>2, <1>3 DEF StackOK

LEMMA StackCut ==
    ASSUME NEW s, StackOK(s), NEW n \in 0 .. Len(s) PROVE StackOK(SubSeq(s, 1, n))
<1>1. IsSeq(s) /\ (\A i \in 1 .. Len(s) : EntryOK(s[i])) /\ Len(s) \in Nat
  BY DEF StackOK, IsSeq
<1>2. /\ IsSeq(SubSeq(s, 1, n))
      /\ Len(SubSeq(s, 1, n)) = IF 1 <= n THEN n - 1 + 1 ELSE 0
      /\ \A i \in 1 .. (n - 1 + 1) : SubSeq(s, 1, n)[i] = s[1 + i - 1]
  <2>1. 1 \in 1 .. (Len(s) + 1)
    BY <1>1
  <2> QED
    BY <1>1, <2>1, SubSeqSeq
<1>3. Len(SubSeq(s, 1, n)) = n
  BY <1>1, <1>2
<1>4. ASSUME NEW i \in 1 .. n PROVE EntryOK(SubSeq(s, 1, n)[i])
  <2>1. i \in 1 .. (n - 1 + 1) /\ 1 + i - 1 = i /\ i \in 1 .. Len(s)
    BY <1>1
  <2> QED
    BY <1>1, <1>2, <2>1
<1> QED
  BY <1>2, <1>3, <1>4 DEF StackOK

LEMMA StackPopped ==
    ASSUME NEW s, StackOK(s), s # <<>> PROVE StackOK(Front(s))
<1>1. Len(s) \in Nat \ {0}
  BY FrontSeq DEF StackOK
<1>2. Len(s) - 1 \in 0 .. Len(s)
  BY <1>1
<1> QED
  BY <1>2, StackCut DEF Front

LEMMA AppendedStack ==
    ASSUME NEW s, StackOK(s), NEW e, EntryOK(e) PROVE StackOK(s \o <<e>>)
<1> DEFINE S == {s[i] : i \in 1 .. Len(s)} \cup {e}
<1>1. s \in Seq(S)
  <2>1. s \in Seq({s[i] : i \in 1 .. Len(s)})
    BY DEF StackOK, IsSeq
  <2> QED
    BY <2>1, Z3
<1>2. e \in S
  OBVIOUS
<1> HIDE DEF S
<1>3. Append(s, e) = s \o <<e>>
  BY <1>1, <1>2, AppendIsConcat
<1> QED
  BY <1>3, StackAppended

LEMMA PushEntryKeeps ==
    ASSUME NEW c, Sound(c), NEW e, EntryOK(e) PROVE OnlyStacks(c, PushEntry(c, e))
<1>1. PushEntry(c, e) = IF c.history = "disabled" THEN c
                        ELSE [c EXCEPT ![Tracked(c)] = c[Tracked(c)] \o <<e>>]
  BY DEF PushEntry, PushEntries, Record
<1>2. StackOK(c[Tracked(c)] \o <<e>>)
  BY TrackedStack, AppendedStack
<1> QED
  BY <1>1, <1>2, StackRecorded

LEMMA PushOrCancelKeeps ==
    ASSUME NEW c, Sound(c), NEW e, EntryOK(e), NEW type
    PROVE  OnlyStacks(c, PushOrCancel(c, e, type))
<1> DEFINE s == c[Tracked(c)]
           t == IF TopIs(s, type, e.key) THEN Front(s) ELSE Append(s, e)
<1>1. PushOrCancel(c, e, type) = IF c.history = "disabled" THEN c
                                 ELSE [c EXCEPT ![Tracked(c)] = t]
  BY DEF PushOrCancel, Record
<1>2. StackOK(s)
  BY TrackedStack
<1>3. StackOK(t)
  BY <1>2, StackPopped, StackAppended DEF TopIs
<1> HIDE DEF t
<1> QED
  BY <1>1, <1>3, StackRecorded

LEMMA PushChangeAttributesKeeps ==
    ASSUME NEW c, Sound(c), NEW key, NEW attrs
    PROVE  OnlyStacks(c, PushChangeAttributes(c, key, attrs))
<1> DEFINE s == c[Tracked(c)]
           e == [type |-> "change_attributes", key |-> key, attrs |-> attrs]
           t == IF TopIs(s, "change_attributes", key) THEN s ELSE Append(s, e)
<1>1. PushChangeAttributes(c, key, attrs) = IF c.history = "disabled" THEN c
                                            ELSE [c EXCEPT ![Tracked(c)] = t]
  BY DEF PushChangeAttributes, Record
<1>2. StackOK(s)
  BY TrackedStack
<1>3. EntryOK(e)
  BY DEF EntryOK, EntryTypes
<1> HIDE DEF e
<1>4. StackOK(t)
  BY <1>2, <1>3, StackAppended
<1> HIDE DEF t
<1> QED
  BY <1>1, <1>4, StackRecorded

LEMMA PushUpdateLastKeeps ==
    ASSUME NEW c, Sound(c), NEW rect \in Rects
    PROVE  OnlyStacks(c, PushUpdateLast(c, rect))
<1> DEFINE s == c[Tracked(c)]
           e == [type |-> "update_last", rect |-> rect]
           t == IF s # <<>> /\ Last(s).type = "update_last" THEN s ELSE Append(s, e)
<1>1. PushUpdateLast(c, rect) = IF c.history = "disabled" THEN c
                                ELSE [c EXCEPT ![Tracked(c)] = t]
  BY DEF PushUpdateLast, Record
<1>2. StackOK(s)
  BY TrackedStack
<1>3. EntryOK(e)
  BY DEF EntryOK, EntryTypes, SelectionEntryTypes
<1> HIDE DEF e
<1>4. StackOK(t)
  BY <1>2, <1>3, StackAppended
<1> HIDE DEF t
<1> QED
  BY <1>1, <1>4, StackRecorded

\* SelectLastInSeq finds an index, or none.
LEMMA LastOperationIndex ==
    ASSUME NEW s, IsSeq(s)
    PROVE  /\ SelectLastInSeq(s, LAMBDA e : e.type # "update_last") \in 0 .. Len(s)
           /\ Len(s) \in Nat
<1> DEFINE I == {i \in 1 .. Len(s) : s[i].type # "update_last"}
<1>1. Len(s) \in Nat
  BY DEF IsSeq
<1>2. SelectLastInSeq(s, LAMBDA e : e.type # "update_last") = IF I # {} THEN Max(I) ELSE 0
  BY DEF SelectLastInSeq
<1>3. I \in SUBSET (1 .. Len(s))
  OBVIOUS
<1> HIDE DEF I
<1>4. I # {} => Max(I) \in I
  BY <1>1, <1>3, Greatest
<1> QED
  BY <1>1, <1>2, <1>3, <1>4

LEMMA PushAddOperationKeeps ==
    ASSUME NEW c, Sound(c), NEW op \in Operation
    PROVE  OnlyStacks(c, PushAddOperation(c, op))
<1> DEFINE s == c[Tracked(c)]
           e == [type |-> "add_operation", operation |-> op]
           last == SelectLastInSeq(s, LAMBDA x : x.type # "update_last")
           t == IF last # 0 /\ s[last].type = "pop_last" THEN SubSeq(s, 1, last - 1)
                ELSE Append(s, e)
<1>1. PushAddOperation(c, op) = IF c.history = "disabled" THEN c
                                ELSE [c EXCEPT ![Tracked(c)] = t]
  BY DEF PushAddOperation, Record
<1>2. StackOK(s)
  BY TrackedStack
<1>3. EntryOK(e)
  BY DEF EntryOK, EntryTypes, SelectionEntryTypes
<1>4. last \in 0 .. Len(s) /\ Len(s) \in Nat
  BY <1>2, LastOperationIndex DEF StackOK
<1> HIDE DEF e, last, s
<1>5. last # 0 => last - 1 \in 0 .. Len(s)
  BY <1>4
<1>6. StackOK(t)
  BY <1>2, <1>3, <1>5, StackAppended, StackCut
<1> HIDE DEF t
<1> QED
  BY <1>1, <1>6, StackRecorded DEF s

-----------------------------------------------------------------------------
(***************************************************************************)
(* Logic items.                                                            *)
(***************************************************************************)

\* The circuit is sound and has the same ids.
Kept(c, d) == Sound(d) /\ DOMAIN d.items = DOMAIN c.items

LEMMA FailKeeps == ASSUME NEW c, Sound(c) PROVE Kept(c, Fail(c))
<1>1. /\ DOMAIN Fail(c) = Fields /\ Fail(c).failed = TRUE /\ Fail(c).keys = c.keys
      /\ Fail(c).items = c.items /\ Fail(c).initial = c.initial
      /\ Fail(c).operations = c.operations /\ Fail(c).cached = c.cached
      /\ Fail(c).history = c.history /\ Fail(c).undo = c.undo /\ Fail(c).redo = c.redo
  BY DEF Fail, Sound, Shape, Fields
<1>2. Shape(Fail(c)) /\ Disjoint(Fail(c).items)
  BY <1>1 DEF Sound, Shape
<1>3. CalculateSelection(Fail(c)) = CalculateSelection(c)
  BY <1>1 DEF CalculateSelection
<1>4. CacheOK(Fail(c))
  BY <1>1, <1>3 DEF Sound, CacheOK
<1> QED
  BY <1>1, <1>2, <1>4 DEF Sound, Kept

LEMMA ItemIds ==
    ASSUME NEW c, Sound(c)
    PROVE  /\ Len(c.items) \in Nat /\ DOMAIN c.items = 1 .. Len(c.items)
           /\ Ids(c) = DOMAIN c.items
           /\ \A id \in DOMAIN c.items : ItemOK(c.items[id])
<1>1. IsSeq(c.items) /\ \A i \in 1 .. Len(c.items) : ItemOK(c.items[i])
  BY DEF Sound, Shape, ItemsOK
<1>2. Len(c.items) \in Nat /\ DOMAIN c.items = 1 .. Len(c.items)
  BY <1>1, SequenceOf DEF IsSeq
<1> QED
  BY <1>1, <1>2 DEF Ids

\* The index of inserted items holds the same for both.
IndexedSame(x, y) == /\ IsInserted(x) <=> IsInserted(y)
                     /\ IsInserted(x) => x.position = y.position

\* Item id is replaced by x; the cache may be dropped.
ItemReplaced(c, d, id, x) ==
    /\ DOMAIN d = Fields
    /\ d.items = [c.items EXCEPT ![id] = x]
    /\ d.initial = c.initial /\ d.operations = c.operations
    /\ d.history = c.history /\ d.keys = c.keys
    /\ d.failed = c.failed
    /\ StackOK(d.undo) /\ StackOK(d.redo)
    /\ \/ d.cached = {}
       \/ d.cached = c.cached /\ IndexedSame(x, c.items[id])

LEMMA SameHits ==
    ASSUME NEW items, NEW id \in DOMAIN items, NEW x, IndexedSame(x, items[id])
    PROVE  Hits([items EXCEPT ![id] = x]) = Hits(items)
<1> DEFINE t == [items EXCEPT ![id] = x]
<1>1. /\ DOMAIN t = DOMAIN items
      /\ \A i \in DOMAIN items : t[i] = IF i = id THEN x ELSE items[i]
  OBVIOUS
<1> HIDE DEF t
<1>2. ASSUME NEW rect \in Rects
      PROVE  {i \in DOMAIN t : IsInserted(t[i]) /\ t[i].position \in rect}
               = {i \in DOMAIN items : IsInserted(items[i]) /\ items[i].position \in rect}
  <2>1. \A i \in DOMAIN items :
           (IsInserted(t[i]) /\ t[i].position \in rect)
             <=> (IsInserted(items[i]) /\ items[i].position \in rect)
    BY <1>1 DEF IndexedSame
  <2> QED
    BY <1>1, <2>1
<1>3. Hits(t) = Hits(items)
  BY <1>2, Zenon DEF Hits
<1> QED
  BY <1>3 DEF t

LEMMA ReplacedKeeps ==
    ASSUME NEW c, Sound(c), NEW d, NEW id \in DOMAIN c.items, NEW x, ItemOK(x),
           ItemReplaced(c, d, id, x),
           IsInserted(x) => \A j \in DOMAIN c.items \ {id} :
                               IsInserted(c.items[j]) => c.items[j].position # x.position
    PROVE  Kept(c, d)
<1> DEFINE n == Len(c.items)
<1>1. /\ n \in Nat /\ DOMAIN c.items = 1 .. n /\ id \in 1 .. n /\ IsSeq(c.items)
      /\ \A i \in 1 .. n : ItemOK(c.items[i])
  BY ItemIds DEF Sound, Shape, ItemsOK
<1>2. d.items = [c.items EXCEPT ![id] = x]
  BY DEF ItemReplaced
<1>3. /\ IsSeq(d.items) /\ Len(d.items) = n /\ DOMAIN d.items = DOMAIN c.items
      /\ \A i \in 1 .. n : d.items[i] = (IF i = id THEN x ELSE c.items[i])
  BY <1>1, <1>2, ReplaceInSeq
<1> HIDE DEF n
<1>4. ItemsOK(d.items)
  BY <1>1, <1>3 DEF ItemsOK
<1>5. Shape(d)
  BY <1>3, <1>4 DEF ItemReplaced, Sound, Shape
<1>6. Disjoint(d.items)
  <2>0. DOMAIN d.items = 1 .. n
    BY <1>1, <1>3
  <2> SUFFICES ASSUME NEW i \in 1 .. n, NEW j \in 1 .. n,
                      IsInserted(d.items[i]), IsInserted(d.items[j]),
                      d.items[i].position = d.items[j].position
               PROVE  i = j
    BY <2>0, Zenon DEF Disjoint
  <2>1. CASE i # id /\ j # id
    <3>1. d.items[i] = c.items[i] /\ d.items[j] = c.items[j]
      BY <1>3, <2>1
    <3>2. i \in DOMAIN c.items /\ j \in DOMAIN c.items
      BY <1>1
    <3> QED
      BY <3>1, <3>2 DEF Sound, Disjoint
  <2>2. CASE i = id /\ j # id
    BY <1>1, <1>3, <2>2
  <2>3. CASE i # id /\ j = id
    BY <1>1, <1>3, <2>3
  <2> QED
    BY <2>1, <2>2, <2>3
<1>7. CacheOK(d)
  <2>1. CASE d.cached = {}
    BY <2>1 DEF CacheOK
  <2>2. CASE d.cached = c.cached /\ IndexedSame(x, c.items[id])
    <3>1. Hits(d.items) = Hits(c.items)
      BY <1>2, <2>2, SameHits
    <3>2. CalculateSelection(d) = CalculateSelection(c)
      BY <3>1 DEF CalculateSelection, ItemReplaced
    <3> QED
      BY <2>2, <3>2 DEF CacheOK, Sound, ItemReplaced
  <2> QED
    BY <2>1, <2>2 DEF ItemReplaced
<1> QED
  BY <1>3, <1>5, <1>6, <1>7 DEF Kept, Sound

\* Stacks that are pushed on leave the ids alone.
LEMMA StacksKeep ==
    ASSUME NEW c, Sound(c), NEW d, OnlyStacks(c, d)
    PROVE  Kept(c, d) /\ d.items = c.items
BY StacksKeepSound DEF Kept, OnlyStacks

\* Inserted items are apart from an inserted one.
LEMMA OthersApart ==
    ASSUME NEW c, Sound(c), NEW id \in DOMAIN c.items, IsInserted(c.items[id])
    PROVE  \A j \in DOMAIN c.items \ {id} :
              IsInserted(c.items[j]) => c.items[j].position # c.items[id].position
BY DEF Sound, Disjoint

LEMMA DisplayItem ==
    ASSUME NEW c, Sound(c), NEW id \in DOMAIN c.items, NEW display \in Display, NEW x,
           x = [c.items[id] EXCEPT !.display = display]
    PROVE  /\ ItemOK(x) /\ x.position = c.items[id].position /\ x.display = display
           /\ IsInserted(x) <=> display \in {"valid", "normal"}
<1>1. DOMAIN c.items[id] = {"def", "position", "display"}
  BY ItemIds DEF ItemOK
<1> QED
  BY <1>1 DEF ItemOK, IsInserted

\* An item that is as inserted as before stays where it is in the index.
LEMMA DisplayKeeps ==
    ASSUME NEW c, Sound(c), NEW id \in DOMAIN c.items, NEW display \in Display,
           IsInserted(c.items[id]) <=> display \in {"valid", "normal"}
    PROVE  Kept(c, SetDisplay(c, id, display))
<1> DEFINE x == [c.items[id] EXCEPT !.display = display]
           d == SetDisplay(c, id, display)
<1>1. /\ ItemOK(x) /\ x.position = c.items[id].position
      /\ IsInserted(x) <=> display \in {"valid", "normal"}
  BY DisplayItem
<1>2. d = [c EXCEPT !.items = [c.items EXCEPT ![id] = x]]
  BY DEF SetDisplay
<1> HIDE DEF x, d
<1>3. ItemReplaced(c, d, id, x)
  BY <1>1, <1>2 DEF ItemReplaced, IndexedSame, Sound, Shape, Fields
<1>4. IsInserted(x) => \A j \in DOMAIN c.items \ {id} :
                          IsInserted(c.items[j]) => c.items[j].position # x.position
  BY <1>1, OthersApart
<1> QED
  BY <1>1, <1>3, <1>4, ReplacedKeeps DEF d

\* An item that is inserted is apart from the others.
LEMMA SubmittedDisplayKeeps ==
    ASSUME NEW c, Sound(c), NEW id \in DOMAIN c.items, NEW display \in Display,
           display \in {"valid", "normal"} =>
              \A j \in DOMAIN c.items \ {id} :
                 IsInserted(c.items[j]) => c.items[j].position # c.items[id].position
    PROVE  Kept(c, SetDisplay(Submit(c), id, display))
<1> DEFINE x == [c.items[id] EXCEPT !.display = display]
           d == SetDisplay(Submit(c), id, display)
<1>1. /\ ItemOK(x) /\ x.position = c.items[id].position
      /\ IsInserted(x) <=> display \in {"valid", "normal"}
  BY DisplayItem
<1>2. /\ DOMAIN d = Fields /\ d.items = [c.items EXCEPT ![id] = x]
      /\ d.initial = c.initial /\ d.operations = c.operations
      /\ d.history = c.history /\ d.keys = c.keys
      /\ d.failed = c.failed
      /\ d.undo = c.undo /\ d.redo = c.redo /\ d.cached = {}
  BY DEF SetDisplay, Submit, Sound, Shape, Fields
<1> HIDE DEF x, d
<1>3. ItemReplaced(c, d, id, x)
  BY <1>2 DEF ItemReplaced, Sound, Shape
<1>4. IsInserted(x) => \A j \in DOMAIN c.items \ {id} :
                          IsInserted(c.items[j]) => c.items[j].position # x.position
  BY <1>1
<1> QED
  BY <1>1, <1>3, <1>4, ReplacedKeeps DEF d

LEMMA MoveKeeps ==
    ASSUME NEW c, Sound(c), NEW id \in DOMAIN c.items, NEW delta
    PROVE  Kept(c, MoveTemporaryUnchecked(c, id, delta))
<1> DEFINE e == [type |-> "move", key |-> c.keys[id], delta |-> -delta]
           b == PushEntry(c, e)
           x == [c.items[id] EXCEPT !.position = @ + delta]
           d == [b EXCEPT !.items[id].position = @ + delta]
<1>1. CASE ~(\/ c.items[id].display # "temporary"
             \/ ~IsRepresentable(c.items[id].position + delta))
  <2>1. EntryOK(e)
    BY DEF EntryOK, EntryTypes
  <2> HIDE DEF e
  <2>2. OnlyStacks(c, b)
    BY <2>1, PushEntryKeeps
  <2>3. /\ ItemOK(x) /\ ~IsInserted(x) /\ ~IsInserted(c.items[id])
    <3>1. ItemOK(c.items[id])
      BY ItemIds
    <3> QED
      BY <1>1, <3>1 DEF ItemOK, IsInserted
  <2> HIDE DEF b
  <2>4. ItemReplaced(c, d, id, x)
    BY <2>2, <2>3 DEF ItemReplaced, IndexedSame, OnlyStacks, Fields, Sound, Shape
  <2> HIDE DEF x, d
  <2>5. Kept(c, d)
    BY <2>3, <2>4, ReplacedKeeps
  <2> QED
    BY <1>1, <2>5 DEF MoveTemporaryUnchecked, d, b, e
<1> QED
  BY <1>1, FailKeeps DEF MoveTemporaryUnchecked

LEMMA KeyEntry ==
    ASSUME NEW type \in EntryTypes \ {"add_operation", "update_last"}, NEW key
    PROVE  EntryOK(Entry(type, key))
BY DEF EntryOK, Entry

\* The types of the entries that only name an element.
LEMMA KeyTypes ==
    {"to_temporary", "to_colliding_expect_valid", "to_colliding_assume_colliding",
     "to_insert", "delete", "add_visible", "remove_visible"}
       \subseteq EntryTypes \ {"add_operation", "update_last"}
BY DEF EntryTypes, ModeChange

LEMMA PushKeyKeeps ==
    ASSUME NEW c, Sound(c), NEW key, NEW other,
           NEW type \in {"to_temporary", "to_colliding_expect_valid",
                         "to_colliding_assume_colliding", "to_insert", "delete",
                         "add_visible", "remove_visible"}
    PROVE  /\ OnlyStacks(c, PushEntry(c, Entry(type, key)))
           /\ OnlyStacks(c, PushOrCancel(c, Entry(type, key), other))
BY KeyEntry, KeyTypes, PushEntryKeeps, PushOrCancelKeeps

\* Kept after a push, in the circuit that was pushed on.
LEMMA KeptAfterPush ==
    ASSUME NEW c, Sound(c), NEW b, OnlyStacks(c, b), NEW d, Kept(b, d)
    PROVE  Kept(c, d)
BY DEF Kept, OnlyStacks

LEMMA TemporaryToCollidingKeeps ==
    ASSUME NEW c, Sound(c), NEW id \in DOMAIN c.items, NEW hint
    PROVE  Kept(c, TemporaryToColliding(c, id, hint))
<1> DEFINE b == PushEntry(c, Entry("to_temporary", c.keys[id]))
           d == TemporaryToColliding(c, id, hint)
<1>1. OnlyStacks(c, b) /\ Sound(b) /\ b.items = c.items
  BY PushKeyKeeps, StacksKeep DEF Kept
<1>2. CASE c.items[id].display # "temporary" \/ (IsColliding(c, id) /\ hint = "expect_valid")
  BY <1>2, FailKeeps DEF TemporaryToColliding
<1>3. CASE /\ c.items[id].display = "temporary" /\ hint # "expect_valid"
           /\ IsColliding(c, id) \/ hint = "assume_colliding"
  <2>1. d = SetDisplay(b, id, "colliding")
    BY <1>3 DEF TemporaryToColliding
  <2>2. ~IsInserted(b.items[id]) /\ "colliding" \in Display
    BY <1>1, <1>3 DEF IsInserted, Display
  <2> HIDE DEF b, d
  <2>3. Kept(b, SetDisplay(b, id, "colliding"))
    BY <1>1, <2>2, DisplayKeeps
  <2> QED
    BY <1>1, <2>1, <2>3, KeptAfterPush DEF d
<1>4. CASE /\ c.items[id].display = "temporary" /\ ~IsColliding(c, id)
           /\ hint # "assume_colliding" \/ hint = "expect_valid"
  <2>1. d = SetDisplay(Submit(b), id, "valid")
    BY <1>4 DEF TemporaryToColliding
  <2>2. \A j \in DOMAIN c.items \ {id} :
           IsInserted(c.items[j]) => c.items[j].position # c.items[id].position
    BY <1>4, ItemIds DEF IsColliding
  <2>3. "valid" \in Display
    BY DEF Display
  <2> HIDE DEF b, d
  <2>4. Kept(b, SetDisplay(Submit(b), id, "valid"))
    BY <1>1, <2>2, <2>3, SubmittedDisplayKeeps
  <2> QED
    BY <1>1, <2>1, <2>4, KeptAfterPush DEF d
<1> QED
  BY <1>2, <1>3, <1>4

LEMMA CollidingToTemporaryKeeps ==
    ASSUME NEW c, Sound(c), NEW id \in DOMAIN c.items
    PROVE  Kept(c, CollidingToTemporary(c, id))
<1> DEFINE valid == PushOrCancel(c, Entry("to_colliding_expect_valid", c.keys[id]),
                                 "to_temporary")
           other == PushOrCancel(c, Entry("to_colliding_assume_colliding", c.keys[id]),
                                 "to_temporary")
           d == CollidingToTemporary(c, id)
<1>1. /\ OnlyStacks(c, valid) /\ Sound(valid) /\ valid.items = c.items
      /\ OnlyStacks(c, other) /\ Sound(other) /\ other.items = c.items
  BY PushKeyKeeps, StacksKeep DEF Kept
<1>2. "temporary" \in Display
  BY DEF Display
<1>3. CASE c.items[id].display = "valid"
  <2>1. d = SetDisplay(Submit(valid), id, "temporary")
    BY <1>3 DEF CollidingToTemporary
  <2> HIDE DEF valid, d
  <2>2. Kept(valid, SetDisplay(Submit(valid), id, "temporary"))
    BY <1>1, <1>2, SubmittedDisplayKeeps
  <2> QED
    BY <1>1, <2>1, <2>2, KeptAfterPush DEF d
<1>4. CASE c.items[id].display = "colliding"
  <2>1. d = SetDisplay(other, id, "temporary")
    BY <1>4 DEF CollidingToTemporary
  <2>2. ~IsInserted(other.items[id])
    BY <1>1, <1>4 DEF IsInserted
  <2> HIDE DEF other, d
  <2>3. Kept(other, SetDisplay(other, id, "temporary"))
    BY <1>1, <1>2, <2>2, DisplayKeeps
  <2> QED
    BY <1>1, <2>1, <2>3, KeptAfterPush DEF d
<1>5. CASE c.items[id].display # "valid" /\ c.items[id].display # "colliding"
  BY <1>5, FailKeeps DEF CollidingToTemporary
<1> QED
  BY <1>3, <1>4, <1>5

LEMMA InsertToCollidingKeeps ==
    ASSUME NEW c, Sound(c), NEW id \in DOMAIN c.items
    PROVE  Kept(c, InsertToColliding(c, id))
<1> DEFINE b == PushOrCancel(c, Entry("to_insert", c.keys[id]), "to_colliding_expect_valid")
<1>1. OnlyStacks(c, b) /\ Sound(b) /\ b.items = c.items
  BY PushKeyKeeps, StacksKeep DEF Kept
<1>2. CASE c.items[id].display = "normal"
  <2>1. InsertToColliding(c, id) = SetDisplay(b, id, "valid")
    BY <1>2 DEF InsertToColliding
  <2>2. IsInserted(b.items[id]) /\ "valid" \in Display
    BY <1>1, <1>2 DEF IsInserted, Display
  <2> HIDE DEF b
  <2>3. Kept(b, SetDisplay(b, id, "valid"))
    BY <1>1, <2>2, DisplayKeeps
  <2> QED
    BY <1>1, <2>1, <2>3, KeptAfterPush
<1> QED
  BY <1>2, FailKeeps DEF InsertToColliding

\* The last item takes the id of the deleted one.
LEMMA SwapAndDeleteItems ==
    ASSUME NEW s, IsSeq(s), NEW id \in 1 .. Len(s)
    PROVE  /\ IsSeq(SwapAndDelete(s, id)) /\ Len(s) \in Nat
           /\ Len(SwapAndDelete(s, id)) = Len(s) - 1
           /\ \A i \in 1 .. (Len(s) - 1) :
                 SwapAndDelete(s, id)[i] = (IF i = id THEN s[Len(s)] ELSE s[i])
<1> DEFINE t == [s EXCEPT ![id] = Last(s)]
<1>1. /\ IsSeq(t) /\ Len(t) = Len(s) /\ Len(s) \in Nat
      /\ \A i \in 1 .. Len(s) : t[i] = (IF i = id THEN Last(s) ELSE s[i])
  BY ReplaceInSeq
<1>2. SwapAndDelete(s, id) = Front(t) /\ Last(s) = s[Len(s)]
  BY DEF SwapAndDelete, Last
<1> HIDE DEF t
<1>3. t # <<>>
  BY <1>1
<1>4. /\ IsSeq(Front(t)) /\ Len(Front(t)) = Len(s) - 1
      /\ \A i \in 1 .. (Len(s) - 1) : Front(t)[i] = t[i]
  BY <1>1, <1>3, FrontSeq
<1>5. \A i \in 1 .. (Len(s) - 1) : i \in 1 .. Len(s)
  BY <1>1
<1> QED
  BY <1>1, <1>2, <1>4, <1>5

\* The keys of the items follow their ids.
LEMMA KeysLen ==
    ASSUME NEW n \in Nat, NEW keys, KeysOK(keys, 1 .. n) PROVE IsSeq(keys) /\ Len(keys) = n
<1>1. IsSeq(keys) /\ DOMAIN keys = 1 .. n
  BY DEF KeysOK
<1>2. Len(keys) \in Nat /\ DOMAIN keys = 1 .. Len(keys)
  BY <1>1, SequenceOf DEF IsSeq
<1> DEFINE m == Len(keys)
<1>3. m \in Nat /\ 1 .. m = 1 .. n
  BY <1>1, <1>2
<1> HIDE DEF m
<1>4. m = n
  BY <1>3
<1> QED
  BY <1>1, <1>4 DEF m

LEMMA KeysSwapped ==
    ASSUME NEW n \in Nat, NEW keys, KeysOK(keys, 1 .. n), NEW id \in 1 .. n
    PROVE  /\ KeysOK(SwapAndDelete(keys, id), 1 .. (n - 1))
           /\ \A i \in 1 .. (n - 1) :
                 SwapAndDelete(keys, id)[i] = (IF i = id THEN keys[n] ELSE keys[i])
<1> DEFINE t == SwapAndDelete(keys, id)
<1>1. IsSeq(keys) /\ Len(keys) = n
  BY KeysLen
<1>2. id \in 1 .. Len(keys)
  BY <1>1
<1>3. /\ IsSeq(t) /\ Len(t) = Len(keys) - 1
      /\ \A i \in 1 .. (Len(keys) - 1) : t[i] = (IF i = id THEN keys[Len(keys)] ELSE keys[i])
  BY <1>1, <1>2, SwapAndDeleteItems
<1>4. /\ IsSeq(t) /\ Len(t) = n - 1
      /\ \A i \in 1 .. (n - 1) : t[i] = (IF i = id THEN keys[n] ELSE keys[i])
  BY <1>1, <1>3
<1> HIDE DEF t
<1>5. DOMAIN t = 1 .. (n - 1)
  <2>1. DOMAIN t = 1 .. Len(t)
    BY <1>4, SequenceOf DEF IsSeq
  <2> QED
    BY <1>4, <2>1
<1>6. \A i, j \in 1 .. n : keys[i] = keys[j] => i = j
  BY DEF KeysOK
<1>7. ASSUME NEW i \in 1 .. (n - 1), NEW j \in 1 .. (n - 1), t[i] = t[j] PROVE i = j
  <2>1. n \in 1 .. n /\ i \in 1 .. n /\ j \in 1 .. n /\ i # n /\ j # n
    OBVIOUS
  <2> QED
    BY <1>4, <1>6, <1>7, <2>1
<1> QED
  BY <1>4, <1>5, <1>7 DEF KeysOK, t

LEMMA KeysAppended ==
    ASSUME NEW n \in Nat, NEW keys, KeysOK(keys, 1 .. n), NEW key,
           \A i \in 1 .. n : keys[i] # key
    PROVE  KeysOK(Append(keys, key), 1 .. (n + 1))
<1> DEFINE t == Append(keys, key)
<1>1. IsSeq(keys) /\ Len(keys) = n /\ \A i, j \in 1 .. n : keys[i] = keys[j] => i = j
  BY KeysLen DEF KeysOK
<1>2. IsSeq(t) /\ Len(t) = n + 1 /\ (\A i \in 1 .. n : t[i] = keys[i]) /\ t[n + 1] = key
  BY <1>1, AppendSeq
<1> HIDE DEF t
<1>3. DOMAIN t = 1 .. (n + 1)
  <2>1. DOMAIN t = 1 .. Len(t)
    BY <1>2, SequenceOf DEF IsSeq
  <2> QED
    BY <1>2, <2>1
<1>4. \A i \in 1 .. (n + 1) : i \in 1 .. n \/ i = n + 1
  OBVIOUS
<1>5. ASSUME NEW i \in 1 .. (n + 1), NEW j \in 1 .. (n + 1), t[i] = t[j] PROVE i = j
  BY <1>1, <1>2, <1>4, <1>5
<1> QED
  BY <1>2, <1>3, <1>5 DEF KeysOK, t

\* What a deletion does to keys and to the selection store.
Deleted(c, d, id) == /\ d.keys = SwapAndDelete(c.keys, id)
                     /\ d.stored = StoredAfterDelete(c.stored, id, Len(c.items))
                     /\ d.failed = c.failed

LEMMA DeleteTemporarySound ==
    ASSUME NEW c, Sound(c), NEW id \in DOMAIN c.items
    PROVE  /\ Sound(DeleteTemporary(c, id))
           /\ c.items[id].display = "temporary" => Deleted(c, DeleteTemporary(c, id), id)
<1> DEFINE n == Len(c.items)
           c1 == IF id \in c.initial THEN PushAddVisible(c, c.keys[id]) ELSE c
           c2 == PushCreate(c1, c.keys[id], c.items[id])
           d == [Submit(c2) EXCEPT !.items = SwapAndDelete(@, id),
                       !.keys = SwapAndDelete(@, id),
                       !.initial = AfterDelete(@, id, n),
                       !.stored = StoredAfterDelete(@, id, n)]
<1>1. CASE c.items[id].display # "temporary"
  BY <1>1, FailKeeps DEF DeleteTemporary, Kept
<1>2. CASE c.items[id].display = "temporary"
  <2>1. DeleteTemporary(c, id) = d
    BY <1>2 DEF DeleteTemporary
  <2>2. Sound(c1) /\ OnlyStacks(c, c1)
    <3>1. OnlyStacks(c, c)
      BY DEF OnlyStacks, Sound, Shape
    <3>2. OnlyStacks(c, PushAddVisible(c, c.keys[id]))
      BY PushKeyKeeps DEF PushAddVisible
    <3>3. OnlyStacks(c, c1)
      BY <3>1, <3>2
    <3> HIDE DEF c1
    <3> QED
      BY <3>3, StacksKeepSound
  <2>3. OnlyStacks(c1, c2)
    <3> DEFINE e == [type |-> "create", key |-> c.keys[id], def |-> c.items[id].def,
                     position |-> c.items[id].position]
    <3>1. EntryOK(e)
      BY DEF EntryOK, EntryTypes
    <3>2. c2 = PushOrCancel(c1, e, "delete")
      BY DEF PushCreate
    <3> HIDE DEF e, c1, c2
    <3> QED
      BY <2>2, <3>1, <3>2, PushOrCancelKeeps
  <2>4. OnlyStacks(c, c2)
    <3> HIDE DEF c1, c2
    <3> QED
      BY <2>2, <2>3 DEF OnlyStacks
  <2> HIDE DEF c1, c2
  <2>5. /\ DOMAIN d = Fields /\ d.items = SwapAndDelete(c.items, id)
        /\ d.initial = AfterDelete(c.initial, id, n)
        /\ d.operations = c.operations /\ d.cached = {}
        /\ d.keys = SwapAndDelete(c.keys, id)
        /\ d.stored = StoredAfterDelete(c.stored, id, n)
        /\ d.history = c.history /\ d.failed = c.failed
        /\ d.undo = c2.undo /\ d.redo = c2.redo
    BY <2>4 DEF OnlyStacks, Submit, Fields
  <2> HIDE DEF d, n
  <2>6. /\ n \in Nat /\ DOMAIN c.items = 1 .. n /\ n = Len(c.items) /\ IsSeq(c.items)
        /\ id \in 1 .. n
        /\ \A i \in 1 .. n : ItemOK(c.items[i])
    BY ItemIds DEF Sound, Shape, ItemsOK, n
  <2>7. /\ IsSeq(d.items) /\ Len(d.items) = n - 1
        /\ \A i \in 1 .. (n - 1) : d.items[i] = (IF i = id THEN c.items[n] ELSE c.items[i])
    <3>1. id \in 1 .. Len(c.items)
      BY <2>6
    <3>2. /\ IsSeq(SwapAndDelete(c.items, id))
          /\ Len(SwapAndDelete(c.items, id)) = Len(c.items) - 1
          /\ \A i \in 1 .. (Len(c.items) - 1) : SwapAndDelete(c.items, id)[i]
                = (IF i = id THEN c.items[Len(c.items)] ELSE c.items[i])
      BY <2>6, <3>1, SwapAndDeleteItems
    <3> QED
      BY <2>5, <2>6, <3>2
  <2>8. DOMAIN d.items = 1 .. (n - 1)
    <3>1. DOMAIN d.items = 1 .. Len(d.items)
      BY <2>7, SequenceOf DEF IsSeq
    <3> QED
      BY <2>7, <3>1
  <2>9. ItemsOK(d.items)
    <3>1. \A i \in 1 .. (n - 1) : i \in 1 .. n /\ n \in 1 .. n
      BY <2>6
    <3>2. \A i \in 1 .. (n - 1) : ItemOK(d.items[i])
      BY <2>6, <2>7, <3>1
    <3> QED
      BY <2>7, <3>2 DEF ItemsOK
  <2>10. d.initial \subseteq DOMAIN d.items
    <3> SUFFICES ASSUME NEW i \in c.initial, i # id
                 PROVE  (IF i = n THEN id ELSE i) \in 1 .. (n - 1)
      BY <2>5, <2>8 DEF AfterDelete
    <3>1. i \in 1 .. n
      BY <2>6 DEF Sound, Shape
    <3> QED
      BY <2>6, <3>1
  <2>11. Shape(d)
    <3>1. KeysOK(d.keys, DOMAIN d.items)
      <4>1. KeysOK(c.keys, 1 .. n)
        BY <2>6 DEF Sound, Shape
      <4> QED
        BY <2>5, <2>6, <2>8, <4>1, KeysSwapped
    <3> QED
      BY <2>4, <2>5, <2>9, <2>10, <3>1 DEF Shape, Sound, OnlyStacks
  <2>12. Disjoint(d.items)
    <3> DEFINE Old(i) == IF i = id THEN n ELSE i
    <3>1. \A i \in 1 .. (n - 1) : Old(i) \in DOMAIN c.items /\ d.items[i] = c.items[Old(i)]
      BY <2>6, <2>7
    <3>2. \A i, j \in 1 .. (n - 1) : Old(i) = Old(j) => i = j
      BY <2>6
    <3> HIDE DEF Old
    <3>3. ASSUME NEW i \in 1 .. (n - 1), NEW j \in 1 .. (n - 1),
                 IsInserted(d.items[i]), IsInserted(d.items[j]),
                 d.items[i].position = d.items[j].position
          PROVE  i = j
      <4>1. Old(i) = Old(j)
        BY <3>1, <3>3 DEF Sound, Disjoint
      <4> QED
        BY <3>2, <4>1
    <3> QED
      BY <2>8, <3>3, Zenon DEF Disjoint
  <2>13. CacheOK(d)
    BY <2>5 DEF CacheOK
  <2> QED
    BY <2>1, <2>5, <2>6, <2>11, <2>12, <2>13 DEF Sound, Deleted
<1> QED
  BY <1>1, <1>2

LEMMA CollidingToInsertSound ==
    ASSUME NEW c, Sound(c), NEW id \in DOMAIN c.items, NEW hint
    PROVE  Sound(CollidingToInsert(c, id, hint))
<1> DEFINE b == PushEntry(c, Entry("to_colliding_expect_valid", c.keys[id]))
<1>1. OnlyStacks(c, b) /\ Sound(b) /\ b.items = c.items
  BY PushKeyKeeps, StacksKeep DEF Kept
<1>2. CASE c.items[id].display = "valid"
  <2>1. CollidingToInsert(c, id, hint) = SetDisplay(b, id, "normal")
    BY <1>2 DEF CollidingToInsert
  <2>2. IsInserted(b.items[id]) /\ "normal" \in Display
    BY <1>1, <1>2 DEF IsInserted, Display
  <2> HIDE DEF b
  <2>3. Kept(b, SetDisplay(b, id, "normal"))
    BY <1>1, <2>2, DisplayKeeps
  <2> QED
    BY <2>1, <2>3 DEF Kept
<1>3. CASE c.items[id].display = "colliding" /\ hint # "expect_valid"
  <2>1. CollidingToInsert(c, id, hint) = DeleteTemporary(CollidingToTemporary(c, id), id)
    BY <1>3 DEF CollidingToInsert
  <2>2. /\ Sound(CollidingToTemporary(c, id))
        /\ id \in DOMAIN CollidingToTemporary(c, id).items
    BY CollidingToTemporaryKeeps DEF Kept
  <2> QED
    BY <2>1, <2>2, DeleteTemporarySound
<1>4. CASE /\ c.items[id].display # "valid"
           /\ c.items[id].display # "colliding" \/ hint = "expect_valid"
  <2>1. CollidingToInsert(c, id, hint) = Fail(c)
    BY <1>4 DEF CollidingToInsert
  <2> QED
    BY <2>1, FailKeeps DEF Kept
<1> QED
  BY <1>2, <1>3, <1>4

\* Only an insertion that discards changes ids.
LEMMA ChangeInsertionModeSound ==
    ASSUME NEW c, Sound(c), NEW id \in DOMAIN c.items, NEW mode \in Mode, NEW hint
    PROVE  /\ Sound(ChangeInsertionMode(c, id, mode, hint))
           /\ mode # "insert_or_discard" => Kept(c, ChangeInsertionMode(c, id, mode, hint))
<1> DEFINE b == ToCollisions(c, id, hint)
<1>0. Kept(c, c)
  BY DEF Kept
<1>1. Kept(c, b)
  <2>1. CASE c.items[id].display = "temporary"
    BY <2>1, TemporaryToCollidingKeeps DEF ToCollisions
  <2>2. CASE c.items[id].display = "normal"
    BY <2>2, InsertToCollidingKeeps DEF ToCollisions
  <2>3. CASE c.items[id].display # "temporary" /\ c.items[id].display # "normal"
    BY <1>0, <2>3 DEF ToCollisions
  <2> QED
    BY <2>1, <2>2, <2>3
<1> HIDE DEF b
<1>2. Sound(b) /\ b.failed \in BOOLEAN /\ id \in DOMAIN b.items
  BY <1>1 DEF Kept, Sound, Shape
<1>3. /\ Sound(FromCollisions(b, id, mode, hint))
      /\ mode # "insert_or_discard" => Kept(b, FromCollisions(b, id, mode, hint))
  <2>1. CASE b.failed \/ mode = "collisions"
    BY <1>2, <2>1 DEF FromCollisions, Kept
  <2>2. CASE ~b.failed /\ mode = "insert_or_discard"
    BY <1>2, <2>2, CollidingToInsertSound DEF FromCollisions
  <2>3. CASE ~b.failed /\ mode = "temporary"
    BY <1>2, <2>3, CollidingToTemporaryKeeps DEF FromCollisions, Kept
  <2> QED
    BY <2>1, <2>2, <2>3 DEF Mode
<1>4. CASE ToMode(c.items[id].display) = mode
  BY <1>0, <1>4 DEF ChangeInsertionMode
<1>5. CASE ToMode(c.items[id].display) # mode
  <2>1. ChangeInsertionMode(c, id, mode, hint) = FromCollisions(b, id, mode, hint)
    BY <1>5 DEF ChangeInsertionMode, b
  <2> QED
    BY <1>1, <1>3, <2>1 DEF Kept
<1> QED
  BY <1>4, <1>5

\* A created item is temporary and comes last.
LEMMA CreateTemporarySound ==
    ASSUME NEW c, Sound(c), NEW def, NEW position, NEW key
    PROVE  /\ Sound(CreateTemporary(c, def, position, key))
           /\ DOMAIN CreateTemporary(c, def, position, key).items # {}
<1> DEFINE x == [def |-> def, position |-> position, display |-> "temporary"]
           new == IF key = 0 THEN c.nextKey ELSE key
           next == Max({c.nextKey + 1, key + 1})
           b == [Submit(c) EXCEPT !.items = Append(@, x), !.keys = Append(@, new),
                          !.nextKey = next]
<1>1. CASE new \in KeyIndexSet(c)
  <2>1. CreateTemporary(c, def, position, key) = Fail(c)
    BY <1>1 DEF CreateTemporary
  <2>2. DOMAIN c.items # {}
    BY <1>1, ItemIds DEF KeyIndexSet
  <2> QED
    BY <2>1, <2>2, FailKeeps DEF Kept
<1>2. CASE new \notin KeyIndexSet(c)
  <2>1. CreateTemporary(c, def, position, key) = PushEntry(b, Entry("delete", new))
    BY <1>2 DEF CreateTemporary, Submit
  <2>2. /\ DOMAIN b = Fields /\ b.items = Append(c.items, x)
        /\ b.initial = c.initial /\ b.operations = c.operations /\ b.cached = {}
        /\ b.keys = Append(c.keys, new)
        /\ b.history = c.history /\ b.failed = c.failed
        /\ b.undo = c.undo /\ b.redo = c.redo
    BY DEF Submit, Sound, Shape, Fields
  <2>3. ItemOK(x) /\ ~IsInserted(x)
    BY DEF ItemOK, IsInserted, Display
  <2> HIDE DEF x, b, new
  <2> DEFINE n == Len(c.items)
  <2>4. /\ n \in Nat /\ DOMAIN c.items = 1 .. n /\ IsSeq(c.items)
        /\ \A i \in 1 .. n : ItemOK(c.items[i])
    BY ItemIds DEF Sound, Shape, ItemsOK
  <2>5. /\ IsSeq(b.items) /\ Len(b.items) = n + 1
        /\ \A i \in 1 .. n : b.items[i] = c.items[i]
        /\ b.items[n + 1] = x
    BY <2>2, <2>4, AppendSeq
  <2> HIDE DEF n
  <2>6. DOMAIN b.items = 1 .. (n + 1)
    <3>1. DOMAIN b.items = 1 .. Len(b.items)
      BY <2>5, SequenceOf DEF IsSeq
    <3> QED
      BY <2>5, <3>1
  <2>7. \A i \in 1 .. (n + 1) : i \in 1 .. n \/ i = n + 1
    BY <2>4
  <2>8. ItemsOK(b.items)
    BY <2>3, <2>4, <2>5, <2>7 DEF ItemsOK
  <2>9. b.initial \subseteq DOMAIN b.items
    BY <2>2, <2>4, <2>6 DEF Sound, Shape
  <2>10. Shape(b)
    <3>1. KeysOK(c.keys, 1 .. n) /\ \A i \in 1 .. n : c.keys[i] # new
      BY <1>2, <2>4, ItemIds DEF Sound, Shape, KeyIndexSet, new
    <3>2. KeysOK(b.keys, DOMAIN b.items)
      BY <2>2, <2>4, <2>6, <3>1, KeysAppended
    <3> QED
      BY <2>2, <2>8, <2>9, <3>2 DEF Sound, Shape
  <2>11. Disjoint(b.items)
    <3> SUFFICES ASSUME NEW i \in 1 .. (n + 1), NEW j \in 1 .. (n + 1),
                        IsInserted(b.items[i]), IsInserted(b.items[j]),
                        b.items[i].position = b.items[j].position
                 PROVE  i = j
      BY <2>6, Zenon DEF Disjoint
    <3>1. i \in 1 .. n /\ j \in 1 .. n
      BY <2>3, <2>5, <2>7
    <3>2. b.items[i] = c.items[i] /\ b.items[j] = c.items[j]
      BY <2>5, <3>1
    <3> QED
      BY <2>4, <3>1, <3>2 DEF Sound, Disjoint
  <2>12. Sound(b)
    BY <2>2, <2>10, <2>11 DEF Sound, CacheOK
  <2>13. OnlyStacks(b, PushEntry(b, Entry("delete", new)))
    BY <2>12, PushKeyKeeps
  <2>14. Kept(b, PushEntry(b, Entry("delete", new)))
    BY <2>12, <2>13, StacksKeep
  <2>15. 1 \in DOMAIN b.items
    BY <2>4, <2>6
  <2> QED
    BY <2>1, <2>14, <2>15 DEF Kept
<1> QED
  BY <1>1, <1>2

LEMMA AddLogicItemSound ==
    ASSUME NEW c, Sound(c), NEW def, NEW position, NEW mode \in Mode
    PROVE  Sound(AddLogicItem(c, def, position, mode))
<1> DEFINE b == CreateTemporary(c, def, position, 0)
<1>1. Sound(b) /\ DOMAIN b.items # {}
  BY CreateTemporarySound
<1> HIDE DEF b
<1>2. Len(b.items) \in DOMAIN b.items
  BY <1>1, ItemIds
<1> QED
  BY <1>1, <1>2, ChangeInsertionModeSound DEF AddLogicItem, ChangeLastInsertionMode, b

\* An edit of an item's definition after pushing on the stacks.
LEMMA DefinitionKeeps ==
    ASSUME NEW c, Sound(c), NEW id \in DOMAIN c.items, NEW b, OnlyStacks(c, b), NEW def
    PROVE  Kept(c, [b EXCEPT !.items[id].def = def])
<1> DEFINE x == [c.items[id] EXCEPT !.def = def]
           d == [b EXCEPT !.items[id].def = def]
<1>1. /\ ItemOK(x) /\ IndexedSame(x, c.items[id]) /\ x.position = c.items[id].position
      /\ IsInserted(x) <=> IsInserted(c.items[id])
  <2>1. ItemOK(c.items[id])
    BY ItemIds
  <2> QED
    BY <2>1 DEF ItemOK, IsInserted, IndexedSame
<1>2. d.items = [c.items EXCEPT ![id] = x]
  BY DEF OnlyStacks, Fields
<1> HIDE DEF x
<1>3. ItemReplaced(c, d, id, x)
  BY <1>1, <1>2 DEF ItemReplaced, OnlyStacks, Fields
<1> HIDE DEF d
<1>4. IsInserted(x) => \A j \in DOMAIN c.items \ {id} :
                          IsInserted(c.items[j]) => c.items[j].position # x.position
  BY <1>1, OthersApart
<1> QED
  BY <1>1, <1>3, <1>4, ReplacedKeeps DEF d

LEMMA SetAttributesKeeps ==
    ASSUME NEW c, Sound(c), NEW id \in DOMAIN c.items, NEW attrs
    PROVE  Kept(c, SetAttributes(c, id, attrs))
<1> DEFINE b == PushChangeAttributes(c, c.keys[id], c.items[id].def.attrs)
<1>1. OnlyStacks(c, b)
  BY PushChangeAttributesKeeps
<1>2. SetAttributes(c, id, attrs)
        = [b EXCEPT !.items[id].def = [b.items[id].def EXCEPT !.attrs = attrs]]
  BY DEF SetAttributes
<1> HIDE DEF b
<1> QED
  BY <1>1, <1>2, DefinitionKeeps

\* Pushing several entries.
LEMMA StacksTwice ==
    ASSUME NEW c, NEW b, OnlyStacks(c, b), NEW d, OnlyStacks(b, d)
    PROVE  OnlyStacks(c, d)
BY DEF OnlyStacks

LEMMA PushCreateKeeps ==
    ASSUME NEW c, Sound(c), NEW key, NEW item
    PROVE  OnlyStacks(c, PushCreate(c, key, item))
<1> DEFINE e == [type |-> "create", key |-> key, def |-> item.def,
                 position |-> item.position]
<1>1. EntryOK(e)
  BY DEF EntryOK, EntryTypes
<1>2. PushCreate(c, key, item) = PushOrCancel(c, e, "delete")
  BY DEF PushCreate
<1> HIDE DEF e
<1> QED
  BY <1>1, <1>2, PushOrCancelKeeps

LEMMA ToggleInverterKeeps ==
    ASSUME NEW c, Sound(c), NEW id \in DOMAIN c.items
    PROVE  Kept(c, ToggleInverter(c, id))
<1> DEFINE key == c.keys[id]
           normal == c.items[id].display = "normal"
           c1 == IF id \in c.initial THEN PushAddVisible(c, key) ELSE c
           p2 == PushOrCancel(c1, Entry("to_insert", key), "to_colliding_expect_valid")
           c2 == IF normal THEN p2 ELSE c1
           c3 == PushOrCancel(c2, Entry("to_colliding_expect_valid", key), "to_temporary")
           c4 == PushCreate(c3, key, c.items[id])
           c5 == PushEntry(c4, Entry("delete", key))
           c6 == PushEntry(c5, Entry("to_temporary", key))
           p7 == PushEntry(c6, Entry("to_colliding_expect_valid", key))
           c7 == IF normal THEN p7 ELSE c6
<1>0. PushToggleInverter(c, id) = c7
  BY DEF PushToggleInverter
<1>1. OnlyStacks(c, c)
  BY DEF OnlyStacks, Sound, Shape
<1>2. OnlyStacks(c, c1) /\ Sound(c1)
  <2>1. OnlyStacks(c, PushAddVisible(c, key))
    BY PushKeyKeeps DEF PushAddVisible
  <2>2. OnlyStacks(c, c1)
    BY <1>1, <2>1
  <2> HIDE DEF c1
  <2> QED
    BY <2>2, StacksKeepSound
<1>3. OnlyStacks(c, c2) /\ Sound(c2)
  <2> HIDE DEF c1
  <2>1. OnlyStacks(c1, p2)
    BY <1>2, PushKeyKeeps
  <2> HIDE DEF p2
  <2>2. OnlyStacks(c, c2)
    BY <1>2, <2>1, StacksTwice
  <2> HIDE DEF c2
  <2> QED
    BY <2>2, StacksKeepSound
<1>4. OnlyStacks(c, c3) /\ Sound(c3)
  <2> HIDE DEF c2
  <2>1. OnlyStacks(c2, c3)
    BY <1>3, PushKeyKeeps
  <2> HIDE DEF c3
  <2> QED
    BY <1>3, <2>1, StacksTwice, StacksKeepSound
<1>5. OnlyStacks(c, c4) /\ Sound(c4)
  <2> HIDE DEF c3
  <2>1. OnlyStacks(c3, c4)
    BY <1>4, PushCreateKeeps
  <2> HIDE DEF c4
  <2> QED
    BY <1>4, <2>1, StacksTwice, StacksKeepSound
<1>6. OnlyStacks(c, c5) /\ Sound(c5)
  <2> HIDE DEF c4
  <2>1. OnlyStacks(c4, c5)
    BY <1>5, PushKeyKeeps
  <2> HIDE DEF c5
  <2> QED
    BY <1>5, <2>1, StacksTwice, StacksKeepSound
<1>7. OnlyStacks(c, c6) /\ Sound(c6)
  <2> HIDE DEF c5
  <2>1. OnlyStacks(c5, c6)
    BY <1>6, PushKeyKeeps
  <2> HIDE DEF c6
  <2> QED
    BY <1>6, <2>1, StacksTwice, StacksKeepSound
<1>8. OnlyStacks(c, c7)
  <2> HIDE DEF c6
  <2>1. OnlyStacks(c6, p7)
    BY <1>7, PushKeyKeeps
  <2> HIDE DEF p7
  <2> QED
    BY <1>7, <2>1, StacksTwice
<1>9. ToggleInverter(c, id)
        = [c7 EXCEPT !.items[id].def
             = [c7.items[id].def EXCEPT !.inverted = ~c7.items[id].def.inverted]]
  BY <1>0 DEF ToggleInverter
<1> HIDE DEF c7
<1> QED
  BY <1>8, <1>9, DefinitionKeeps

-----------------------------------------------------------------------------
(***************************************************************************)
(* Loops.  The provers take no operator as a parameter, so that the steps  *)
(* of all loops are one operator here.                                     *)
(***************************************************************************)

\* One step of Consume, for each of the edits that it performs.
ConsumeEdit(c, id, e) ==
    CASE e.edit = "mode"   -> ChangeInsertionMode(c, id, e.mode, "no_hint")
      [] e.edit = "move"   -> MoveOrDeleteTemporary(c, id, e.delta)
      [] e.edit = "delete" ->
           DeleteTemporary(ChangeInsertionMode(c, id, "temporary", "no_hint"), id)

ConsumeStep(c, e) ==
    LET id == c.stored[1]
    IN CASE c.failed \/ c.stored = <<>> -> c
         [] ~c.failed /\ c.stored # <<>> /\ id \notin Ids(c) -> Fail(c)
         [] OTHER -> ConsumeEdit([c EXCEPT !.stored = Erase(@, id)], id, e)

TryAdded(c, def, position, mode) ==
    IF IsRepresentable(position) THEN AddLogicItem(c, def, position, mode) ELSE c
Collected(order, ids) == IF ids = {} THEN order ELSE Append(order, CHOOSE id \in ids : TRUE)

LoopStep(c, e) ==
    CASE e.loop = "push"    -> PushAddOperation(c, e.operation)
      [] e.loop = "apply"   -> ApplyOperation(e.hits, c, e.operation)
      [] e.loop = "move"    -> MoveTemporaryUnchecked(c, e.id, e.delta)
      [] e.loop = "consume" -> ConsumeStep(c, e)
      [] e.loop = "replay"  -> ReplayEntry(c, e.entry)
      [] e.loop = "add"     -> TryAdded(c, e.def, e.position, e.mode)
      [] e.loop = "collect" -> Collected(c, e.ids)

LoopRound(f, c, steps, i) == IF i = 0 THEN c ELSE LoopStep(f[i - 1], steps[i])

IsRun(f, c, steps, n) == f = [i \in 0 .. n |-> LoopRound(f, c, steps, i)]

\* Every loop has a run.
LEMMA RunExists ==
    ASSUME NEW c, NEW steps, NEW n \in Nat
    PROVE  \E f : IsRun(f, c, steps, n)
<1> DEFINE P == {m \in 0 .. n : \E f : IsRun(f, c, steps, m)}
<1>1. 0 \in P
  <2> DEFINE f == [i \in 0 .. 0 |-> c]
  <2>1. \A i \in 0 .. 0 : LoopRound(f, c, steps, i) = c
    BY DEF LoopRound
  <2>2. IsRun(f, c, steps, 0)
    <3> HIDE DEF LoopRound
    <3> QED
      BY <2>1, Zenon DEF IsRun
  <2> QED
    BY <2>2
<1>2. ASSUME NEW m \in 1 .. n, m - 1 \in P PROVE m \in P
  <2>1. PICK f : IsRun(f, c, steps, m - 1)
    BY <1>2
  <2> DEFINE g == [i \in 0 .. m |-> IF i = m THEN LoopStep(f[m - 1], steps[m]) ELSE f[i]]
  <2>2. \A i \in 0 .. (m - 1) : f[i] = LoopRound(f, c, steps, i)
    BY <2>1, Zenon DEF IsRun
  <2>3. ASSUME NEW i \in 0 .. m PROVE g[i] = LoopRound(g, c, steps, i)
    <3>1. CASE i = m
      BY <3>1 DEF LoopRound
    <3>2. CASE i # m
      <4>1. i \in 0 .. (m - 1) /\ (i # 0 => i - 1 \in 0 .. m /\ i - 1 # m)
        BY <3>2
      <4>2. g[i] = f[i] /\ (i # 0 => g[i - 1] = f[i - 1])
        BY <3>2, <4>1
      <4> QED
        BY <2>2, <4>1, <4>2 DEF LoopRound
    <3> QED
      BY <3>1, <3>2
  <2>4. g = [i \in 0 .. m |-> g[i]]
    OBVIOUS
  <2> HIDE DEF g
  <2>5. IsRun(g, c, steps, m)
    BY <2>3, <2>4, Zenon DEF IsRun
  <2> QED
    BY <2>5
<1>3. P \in SUBSET (0 .. n)
  OBVIOUS
<1> HIDE DEF P
<1>4. n \in P
  BY <1>1, <1>2, <1>3, AllRounds
<1> QED
  BY <1>4 DEF P

IsLoop(f, c, steps, n) ==
    f[0] = c /\ \A i \in 1 .. n : f[i] = LoopStep(f[i - 1], steps[i])

LEMMA RunRounds ==
    ASSUME NEW c, NEW steps, NEW n \in Nat, NEW f, IsRun(f, c, steps, n)
    PROVE  IsLoop(f, c, steps, n)
<1>1. \A i \in 0 .. n : f[i] = LoopRound(f, c, steps, i)
  BY Zenon DEF IsRun
<1>2. 0 \in 0 .. n /\ \A i \in 1 .. n : i \in 0 .. n /\ i # 0
  OBVIOUS
<1> QED
  BY <1>1, <1>2 DEF LoopRound, IsLoop

\* The loops of the model.
PushAll(c, s)        == ForEach(c, s, PushAddOperation)
MoveAll(c, s, delta) == ForEach(c, s, LAMBDA x, id : MoveTemporaryUnchecked(x, id, delta))
ReplayAll(c, s)      == ForEach(c, s, ReplayEntry)

\* Their rounds.
PushRounds(run, c, s) ==
    run[0] = c /\ \A i \in 1 .. Len(s) : run[i] = PushAddOperation(run[i - 1], s[i])
ApplyRounds(run, hits, c, s) ==
    run[0] = c /\ \A i \in 1 .. Len(s) : run[i] = ApplyOperation(hits, run[i - 1], s[i])
MoveRounds(run, c, s, delta) ==
    /\ run[0] = c
    /\ \A i \in 1 .. Len(s) : run[i] = MoveTemporaryUnchecked(run[i - 1], s[i], delta)
ReplayRounds(run, c, s) ==
    run[0] = c /\ \A i \in 1 .. Len(s) : run[i] = ReplayEntry(run[i - 1], s[i])
ConsumeRounds(run, c, s, e) ==
    /\ run[0] = [c EXCEPT !.stored = s]
    /\ \A i \in 1 .. Len(s) : run[i] = ConsumeStep(run[i - 1], e)

\* The loop of PushVisibleSelection.
LEMMA PushLoop ==
    ASSUME NEW c, NEW s, IsSeq(s)
    PROVE  \E run : PushAll(c, s) = run[Len(s)] /\ PushRounds(run, c, s)
<1> DEFINE n == Len(s)
           steps == [i \in 1 .. n |-> [loop |-> "push", operation |-> s[i]]]
           Rounds(f) == [i \in 0 .. n |-> IF i = 0 THEN c
                                          ELSE PushAddOperation(f[i - 1], s[i])]
           run == CHOOSE f : f = Rounds(f)
<1>1. n \in Nat
  BY DEF IsSeq
<1>2. \A i \in 1 .. n : \A x : LoopStep(x, steps[i]) = PushAddOperation(x, s[i])
  BY DEF LoopStep
<1>3. PushAll(c, s) = run[n]
  BY Zenon DEF ForEach, PushAll
<1> HIDE DEF steps, n
<1>4. \A f : IsRun(f, c, steps, n) <=> f = Rounds(f)
  <2> SUFFICES ASSUME NEW f
               PROVE  [i \in 0 .. n |-> LoopRound(f, c, steps, i)] = Rounds(f)
    BY Zenon DEF IsRun
  <2>1. \A i \in 0 .. n : i = 0 \/ i \in 1 .. n
    BY <1>1
  <2>2. \A i \in 0 .. n : LoopRound(f, c, steps, i)
           = (IF i = 0 THEN c ELSE PushAddOperation(f[i - 1], s[i]))
    BY <1>2, <2>1, Zenon DEF LoopRound
  <2> QED
    BY <2>2, Zenon
<1> HIDE DEF Rounds
<1>5. IsRun(run, c, steps, n)
  <2>1. \E f : f = Rounds(f)
    BY <1>1, <1>4, RunExists
  <2>2. run = Rounds(run)
    BY <2>1, Zenon
  <2> HIDE DEF run
  <2> QED
    BY <1>4, <2>2
<1> HIDE DEF run
<1>6. IsLoop(run, c, steps, n)
  BY <1>1, <1>5, RunRounds
<1>7. run[0] = c /\ \A i \in 1 .. n : run[i] = PushAddOperation(run[i - 1], s[i])
  BY <1>2, <1>6, Zenon DEF IsLoop
<1> QED
  BY <1>3, <1>7, Zenon DEF n, PushRounds

\* The loop of CalculateSelection.
LEMMA ApplyLoop ==
    ASSUME NEW c, NEW hits, NEW s, IsSeq(s)
    PROVE  \E run : ApplyOperations(hits, c, s) = run[Len(s)] /\ ApplyRounds(run, hits, c, s)
<1> DEFINE n == Len(s)
           steps == [i \in 1 .. n |-> [loop |-> "apply", hits |-> hits, operation |-> s[i]]]
           Rounds(f) == [i \in 0 .. n |-> IF i = 0 THEN c ELSE ApplyOperation(hits, f[i - 1], s[i])]
           run == CHOOSE f : f = Rounds(f)
<1>1. n \in Nat
  BY DEF IsSeq
<1>2. \A i \in 1 .. n : \A x : LoopStep(x, steps[i]) = ApplyOperation(hits, x, s[i])
  BY DEF LoopStep
<1>3. ApplyOperations(hits, c, s) = run[n]
  BY Zenon DEF ForEach, ApplyOperations
<1> HIDE DEF steps, n
<1>4. \A f : IsRun(f, c, steps, n) <=> f = Rounds(f)
  <2> SUFFICES ASSUME NEW f
               PROVE  [i \in 0 .. n |-> LoopRound(f, c, steps, i)] = Rounds(f)
    BY Zenon DEF IsRun
  <2>1. \A i \in 0 .. n : i = 0 \/ i \in 1 .. n
    BY <1>1
  <2>2. \A i \in 0 .. n : LoopRound(f, c, steps, i)
           = (IF i = 0 THEN c ELSE ApplyOperation(hits, f[i - 1], s[i]))
    BY <1>2, <2>1, Zenon DEF LoopRound
  <2> QED
    BY <2>2, Zenon
<1> HIDE DEF Rounds
<1>5. IsRun(run, c, steps, n)
  <2>1. \E f : f = Rounds(f)
    BY <1>1, <1>4, RunExists
  <2>2. run = Rounds(run)
    BY <2>1, Zenon
  <2> HIDE DEF run
  <2> QED
    BY <1>4, <2>2
<1> HIDE DEF run
<1>6. IsLoop(run, c, steps, n)
  BY <1>1, <1>5, RunRounds
<1>7. run[0] = c /\ \A i \in 1 .. n : run[i] = ApplyOperation(hits, run[i - 1], s[i])
  BY <1>2, <1>6, Zenon DEF IsLoop
<1> QED
  BY <1>3, <1>7, Zenon DEF n, ApplyRounds

\* The loop of MoveSelectionUnchecked.
LEMMA MoveLoop ==
    ASSUME NEW c, NEW delta, NEW s, IsSeq(s)
    PROVE  \E run : MoveAll(c, s, delta) = run[Len(s)] /\ MoveRounds(run, c, s, delta)
<1> DEFINE n == Len(s)
           steps == [i \in 1 .. n |-> [loop |-> "move", id |-> s[i], delta |-> delta]]
           Rounds(f) == [i \in 0 .. n |-> IF i = 0 THEN c ELSE MoveTemporaryUnchecked(f[i - 1], s[i], delta)]
           run == CHOOSE f : f = Rounds(f)
<1>1. n \in Nat
  BY DEF IsSeq
<1>2. \A i \in 1 .. n : \A x : LoopStep(x, steps[i]) = MoveTemporaryUnchecked(x, s[i], delta)
  BY DEF LoopStep
<1>3. MoveAll(c, s, delta) = run[n]
  BY Zenon DEF ForEach, MoveAll
<1> HIDE DEF steps, n
<1>4. \A f : IsRun(f, c, steps, n) <=> f = Rounds(f)
  <2> SUFFICES ASSUME NEW f
               PROVE  [i \in 0 .. n |-> LoopRound(f, c, steps, i)] = Rounds(f)
    BY Zenon DEF IsRun
  <2>1. \A i \in 0 .. n : i = 0 \/ i \in 1 .. n
    BY <1>1
  <2>2. \A i \in 0 .. n : LoopRound(f, c, steps, i)
           = (IF i = 0 THEN c ELSE MoveTemporaryUnchecked(f[i - 1], s[i], delta))
    BY <1>2, <2>1, Zenon DEF LoopRound
  <2> QED
    BY <2>2, Zenon
<1> HIDE DEF Rounds
<1>5. IsRun(run, c, steps, n)
  <2>1. \E f : f = Rounds(f)
    BY <1>1, <1>4, RunExists
  <2>2. run = Rounds(run)
    BY <2>1, Zenon
  <2> HIDE DEF run
  <2> QED
    BY <1>4, <2>2
<1> HIDE DEF run
<1>6. IsLoop(run, c, steps, n)
  BY <1>1, <1>5, RunRounds
<1>7. run[0] = c /\ \A i \in 1 .. n : run[i] = MoveTemporaryUnchecked(run[i - 1], s[i], delta)
  BY <1>2, <1>6, Zenon DEF IsLoop
<1> QED
  BY <1>3, <1>7, Zenon DEF n, MoveRounds

\* The loop of ReplayOneGroup.
LEMMA ReplayLoop ==
    ASSUME NEW c, NEW s, IsSeq(s)
    PROVE  \E run : ReplayAll(c, s) = run[Len(s)] /\ ReplayRounds(run, c, s)
<1> DEFINE n == Len(s)
           steps == [i \in 1 .. n |-> [loop |-> "replay", entry |-> s[i]]]
           Rounds(f) == [i \in 0 .. n |-> IF i = 0 THEN c ELSE ReplayEntry(f[i - 1], s[i])]
           run == CHOOSE f : f = Rounds(f)
<1>1. n \in Nat
  BY DEF IsSeq
<1>2. \A i \in 1 .. n : \A x : LoopStep(x, steps[i]) = ReplayEntry(x, s[i])
  BY DEF LoopStep
<1>3. ReplayAll(c, s) = run[n]
  BY Zenon DEF ForEach, ReplayAll
<1> HIDE DEF steps, n
<1>4. \A f : IsRun(f, c, steps, n) <=> f = Rounds(f)
  <2> SUFFICES ASSUME NEW f
               PROVE  [i \in 0 .. n |-> LoopRound(f, c, steps, i)] = Rounds(f)
    BY Zenon DEF IsRun
  <2>1. \A i \in 0 .. n : i = 0 \/ i \in 1 .. n
    BY <1>1
  <2>2. \A i \in 0 .. n : LoopRound(f, c, steps, i)
           = (IF i = 0 THEN c ELSE ReplayEntry(f[i - 1], s[i]))
    BY <1>2, <2>1, Zenon DEF LoopRound
  <2> QED
    BY <2>2, Zenon
<1> HIDE DEF Rounds
<1>5. IsRun(run, c, steps, n)
  <2>1. \E f : f = Rounds(f)
    BY <1>1, <1>4, RunExists
  <2>2. run = Rounds(run)
    BY <2>1, Zenon
  <2> HIDE DEF run
  <2> QED
    BY <1>4, <2>2
<1> HIDE DEF run
<1>6. IsLoop(run, c, steps, n)
  BY <1>1, <1>5, RunRounds
<1>7. run[0] = c /\ \A i \in 1 .. n : run[i] = ReplayEntry(run[i - 1], s[i])
  BY <1>2, <1>6, Zenon DEF IsLoop
<1> QED
  BY <1>3, <1>7, Zenon DEF n, ReplayRounds

\* The loops of Consume.
LEMMA ConsumeModeLoop ==
    ASSUME NEW c, NEW mode, NEW s, IsSeq(s)
    PROVE  \E run : /\ ChangeSelectionMode(c, s, mode) = [run[Len(s)] EXCEPT !.stored = <<>>]
                    /\ ConsumeRounds(run, c, s, [loop |-> "consume", edit |-> "mode", mode |-> mode])
<1> DEFINE n == Len(s)
           e == [loop |-> "consume", edit |-> "mode", mode |-> mode]
           steps == [i \in 1 .. n |-> e]
           c0 == [c EXCEPT !.stored = s]
           Step(c1) ==
             LET id == c1.stored[1]
             IN CASE c1.failed \/ c1.stored = <<>> -> c1
                  [] ~c1.failed /\ c1.stored # <<>> /\ id \notin Ids(c1) -> Fail(c1)
                  [] OTHER -> ChangeInsertionMode(
                              [c1 EXCEPT !.stored = Erase(@, id)], id, mode, "no_hint")
           Rounds(f) == [i \in 0 .. n |-> IF i = 0 THEN c0 ELSE Step(f[i - 1])]
           run == CHOOSE f : f = Rounds(f)
<1>1. n \in Nat
  BY DEF IsSeq
<1>2. \A i \in 1 .. n : \A x : LoopStep(x, steps[i]) = Step(x)
  <2>1. \A x : ConsumeStep(x, e) = Step(x)
    BY DEF ConsumeStep, ConsumeEdit
  <2>2. e.loop = "consume"
    OBVIOUS
  <2> HIDE DEF e, Step
  <2>3. \A i \in 1 .. n : steps[i] = e
    OBVIOUS
  <2> QED
    BY <2>1, <2>2, <2>3 DEF LoopStep
<1>3. ChangeSelectionMode(c, s, mode) = [run[n] EXCEPT !.stored = <<>>]
  BY Zenon DEF ForEach, ChangeSelectionMode, Consume
<1>4. \A x : ConsumeStep(x, e) = Step(x)
  BY DEF ConsumeStep, ConsumeEdit
<1> HIDE DEF steps, n, Step
<1>5. \A f : IsRun(f, c0, steps, n) <=> f = Rounds(f)
  <2> SUFFICES ASSUME NEW f
               PROVE  [i \in 0 .. n |-> LoopRound(f, c0, steps, i)] = Rounds(f)
    BY Zenon DEF IsRun
  <2>1. \A i \in 0 .. n : i = 0 \/ i \in 1 .. n
    BY <1>1
  <2>2. \A i \in 0 .. n : LoopRound(f, c0, steps, i)
           = (IF i = 0 THEN c0 ELSE Step(f[i - 1]))
    BY <1>2, <2>1, Zenon DEF LoopRound
  <2> QED
    BY <2>2, Zenon
<1> HIDE DEF Rounds
<1>6. IsRun(run, c0, steps, n)
  <2>1. \E f : f = Rounds(f)
    BY <1>1, <1>5, RunExists
  <2>2. run = Rounds(run)
    BY <2>1, Zenon
  <2> HIDE DEF run
  <2> QED
    BY <1>5, <2>2
<1> HIDE DEF run, e
<1>7. IsLoop(run, c0, steps, n)
  BY <1>1, <1>6, RunRounds
<1>8. run[0] = c0 /\ \A i \in 1 .. n : run[i] = ConsumeStep(run[i - 1], e)
  BY <1>2, <1>4, <1>7, Zenon DEF IsLoop
<1> QED
  BY <1>3, <1>8, Zenon DEF n, e, ConsumeRounds

LEMMA ConsumeMoveLoop ==
    ASSUME NEW c, NEW delta, NEW s, IsSeq(s)
    PROVE  \E run : /\ MoveOrDeleteSelection(c, s, delta) = [run[Len(s)] EXCEPT !.stored = <<>>]
                    /\ ConsumeRounds(run, c, s, [loop |-> "consume", edit |-> "move", delta |-> delta])
<1> DEFINE n == Len(s)
           e == [loop |-> "consume", edit |-> "move", delta |-> delta]
           steps == [i \in 1 .. n |-> e]
           c0 == [c EXCEPT !.stored = s]
           Step(c1) ==
             LET id == c1.stored[1]
             IN CASE c1.failed \/ c1.stored = <<>> -> c1
                  [] ~c1.failed /\ c1.stored # <<>> /\ id \notin Ids(c1) -> Fail(c1)
                  [] OTHER -> MoveOrDeleteTemporary(
                              [c1 EXCEPT !.stored = Erase(@, id)], id, delta)
           Rounds(f) == [i \in 0 .. n |-> IF i = 0 THEN c0 ELSE Step(f[i - 1])]
           run == CHOOSE f : f = Rounds(f)
<1>1. n \in Nat
  BY DEF IsSeq
<1>2. \A i \in 1 .. n : \A x : LoopStep(x, steps[i]) = Step(x)
  <2>1. \A x : ConsumeStep(x, e) = Step(x)
    BY DEF ConsumeStep, ConsumeEdit
  <2>2. e.loop = "consume"
    OBVIOUS
  <2> HIDE DEF e, Step
  <2>3. \A i \in 1 .. n : steps[i] = e
    OBVIOUS
  <2> QED
    BY <2>1, <2>2, <2>3 DEF LoopStep
<1>3. MoveOrDeleteSelection(c, s, delta) = [run[n] EXCEPT !.stored = <<>>]
  BY Zenon DEF ForEach, MoveOrDeleteSelection, Consume
<1>4. \A x : ConsumeStep(x, e) = Step(x)
  BY DEF ConsumeStep, ConsumeEdit
<1> HIDE DEF steps, n, Step
<1>5. \A f : IsRun(f, c0, steps, n) <=> f = Rounds(f)
  <2> SUFFICES ASSUME NEW f
               PROVE  [i \in 0 .. n |-> LoopRound(f, c0, steps, i)] = Rounds(f)
    BY Zenon DEF IsRun
  <2>1. \A i \in 0 .. n : i = 0 \/ i \in 1 .. n
    BY <1>1
  <2>2. \A i \in 0 .. n : LoopRound(f, c0, steps, i)
           = (IF i = 0 THEN c0 ELSE Step(f[i - 1]))
    BY <1>2, <2>1, Zenon DEF LoopRound
  <2> QED
    BY <2>2, Zenon
<1> HIDE DEF Rounds
<1>6. IsRun(run, c0, steps, n)
  <2>1. \E f : f = Rounds(f)
    BY <1>1, <1>5, RunExists
  <2>2. run = Rounds(run)
    BY <2>1, Zenon
  <2> HIDE DEF run
  <2> QED
    BY <1>5, <2>2
<1> HIDE DEF run, e
<1>7. IsLoop(run, c0, steps, n)
  BY <1>1, <1>6, RunRounds
<1>8. run[0] = c0 /\ \A i \in 1 .. n : run[i] = ConsumeStep(run[i - 1], e)
  BY <1>2, <1>4, <1>7, Zenon DEF IsLoop
<1> QED
  BY <1>3, <1>8, Zenon DEF n, e, ConsumeRounds

LEMMA ConsumeDeleteLoop ==
    ASSUME NEW c, NEW s, IsSeq(s)
    PROVE  \E run : /\ DeleteAll(c, s) = [run[Len(s)] EXCEPT !.stored = <<>>]
                    /\ ConsumeRounds(run, c, s, [loop |-> "consume", edit |-> "delete"])
<1> DEFINE n == Len(s)
           e == [loop |-> "consume", edit |-> "delete"]
           steps == [i \in 1 .. n |-> e]
           c0 == [c EXCEPT !.stored = s]
           Step(c1) ==
             LET id == c1.stored[1]
             IN CASE c1.failed \/ c1.stored = <<>> -> c1
                  [] ~c1.failed /\ c1.stored # <<>> /\ id \notin Ids(c1) -> Fail(c1)
                  [] OTHER -> DeleteTemporary(
                              ChangeInsertionMode([c1 EXCEPT !.stored = Erase(@, id)], id,
                                                  "temporary", "no_hint"), id)
           Rounds(f) == [i \in 0 .. n |-> IF i = 0 THEN c0 ELSE Step(f[i - 1])]
           run == CHOOSE f : f = Rounds(f)
<1>1. n \in Nat
  BY DEF IsSeq
<1>2. \A i \in 1 .. n : \A x : LoopStep(x, steps[i]) = Step(x)
  <2>1. \A x : ConsumeStep(x, e) = Step(x)
    BY DEF ConsumeStep, ConsumeEdit
  <2>2. e.loop = "consume"
    OBVIOUS
  <2> HIDE DEF e, Step
  <2>3. \A i \in 1 .. n : steps[i] = e
    OBVIOUS
  <2> QED
    BY <2>1, <2>2, <2>3 DEF LoopStep
<1>3. DeleteAll(c, s) = [run[n] EXCEPT !.stored = <<>>]
  BY Zenon DEF ForEach, DeleteAll, Consume
<1>4. \A x : ConsumeStep(x, e) = Step(x)
  BY DEF ConsumeStep, ConsumeEdit
<1> HIDE DEF steps, n, Step
<1>5. \A f : IsRun(f, c0, steps, n) <=> f = Rounds(f)
  <2> SUFFICES ASSUME NEW f
               PROVE  [i \in 0 .. n |-> LoopRound(f, c0, steps, i)] = Rounds(f)
    BY Zenon DEF IsRun
  <2>1. \A i \in 0 .. n : i = 0 \/ i \in 1 .. n
    BY <1>1
  <2>2. \A i \in 0 .. n : LoopRound(f, c0, steps, i)
           = (IF i = 0 THEN c0 ELSE Step(f[i - 1]))
    BY <1>2, <2>1, Zenon DEF LoopRound
  <2> QED
    BY <2>2, Zenon
<1> HIDE DEF Rounds
<1>6. IsRun(run, c0, steps, n)
  <2>1. \E f : f = Rounds(f)
    BY <1>1, <1>5, RunExists
  <2>2. run = Rounds(run)
    BY <2>1, Zenon
  <2> HIDE DEF run
  <2> QED
    BY <1>5, <2>2
<1> HIDE DEF run, e
<1>7. IsLoop(run, c0, steps, n)
  BY <1>1, <1>6, RunRounds
<1>8. run[0] = c0 /\ \A i \in 1 .. n : run[i] = ConsumeStep(run[i - 1], e)
  BY <1>2, <1>4, <1>7, Zenon DEF IsLoop
<1> QED
  BY <1>3, <1>8, Zenon DEF n, e, ConsumeRounds

-----------------------------------------------------------------------------
(***************************************************************************)
(* What the loops keep.                                                    *)
(***************************************************************************)

LEMMA PushAllKeeps ==
    ASSUME NEW c, Sound(c), NEW s, OperationsOK(s)
    PROVE  OnlyStacks(c, PushAll(c, s))
<1>1. IsSeq(s) /\ Len(s) \in Nat /\ \A i \in 1 .. Len(s) : s[i] \in Operation
  BY DEF OperationsOK, IsSeq
<1>2. PICK run : PushAll(c, s) = run[Len(s)] /\ PushRounds(run, c, s)
  BY <1>1, PushLoop
<1> DEFINE n == Len(s)
           P == {i \in 0 .. n : OnlyStacks(c, run[i])}
<1>3. OnlyStacks(c, c)
  BY DEF OnlyStacks, Sound, Shape
<1>4. 0 \in P
  BY <1>1, <1>2, <1>3 DEF PushRounds
<1>5. ASSUME NEW i \in 1 .. n, i - 1 \in P PROVE i \in P
  <2>1. OnlyStacks(c, run[i - 1])
    BY <1>5
  <2>2. Sound(run[i - 1])
    BY <2>1, StacksKeepSound
  <2>3. OnlyStacks(run[i - 1], PushAddOperation(run[i - 1], s[i]))
    BY <1>1, <2>2, PushAddOperationKeeps
  <2>4. OnlyStacks(c, run[i])
    BY <1>2, <2>1, <2>3, StacksTwice DEF PushRounds
  <2>5. i \in 0 .. n
    OBVIOUS
  <2> QED
    BY <2>4, <2>5
<1>6. P \in SUBSET (0 .. n)
  OBVIOUS
<1> HIDE DEF P, n
<1>7. P = 0 .. n
  BY <1>1, <1>4, <1>5, <1>6, AllRounds DEF n
<1>8. n \in P
  BY <1>1, <1>7 DEF n
<1> QED
  BY <1>2, <1>8 DEF P, n

\* A selection holds ids of the layout.
LEMMA SelectionWithin ==
    ASSUME NEW c, Sound(c)
    PROVE  CalculateSelection(c) \subseteq DOMAIN c.items
<1> DEFINE s == c.operations
           hits == Hits(c.items)
<1>1. IsSeq(s) /\ Len(s) \in Nat /\ \A i \in 1 .. Len(s) : s[i] \in Operation
  BY DEF OperationsOK, IsSeq, Sound, Shape
<1>2. PICK run : /\ ApplyOperations(hits, c.initial, s) = run[Len(s)]
                 /\ ApplyRounds(run, hits, c.initial, s)
  <2> HIDE DEF s, hits
  <2> QED
    BY <1>1, ApplyLoop
<1>3. \A rect \in Rects : hits[rect] \subseteq DOMAIN c.items
  BY DEF Hits
<1> DEFINE n == Len(s)
           P == {i \in 0 .. n : run[i] \subseteq DOMAIN c.items}
<1>4. 0 \in P
  BY <1>1, <1>2 DEF Sound, Shape, ApplyRounds
<1> HIDE DEF hits
<1>5. ASSUME NEW i \in 1 .. n, i - 1 \in P PROVE i \in P
  <2>1. run[i - 1] \subseteq DOMAIN c.items
    BY <1>5
  <2>2. hits[s[i].rect] \subseteq DOMAIN c.items
    BY <1>1, <1>3 DEF Operation
  <2>3. run[i] \subseteq run[i - 1] \cup hits[s[i].rect]
    BY <1>2 DEF ApplyOperation, ApplyRounds
  <2>4. run[i] \subseteq DOMAIN c.items
    BY <2>1, <2>2, <2>3
  <2>5. i \in 0 .. n
    OBVIOUS
  <2> QED
    BY <2>4, <2>5
<1>6. P \in SUBSET (0 .. n)
  OBVIOUS
<1> HIDE DEF P, n
<1>7. P = 0 .. n
  BY <1>1, <1>4, <1>5, <1>6, AllRounds DEF n
<1>8. n \in P
  BY <1>1, <1>7 DEF n
<1> QED
  BY <1>2, <1>8 DEF P, n, hits, CalculateSelection

LEMMA MoveSelectionSound ==
    ASSUME NEW c, Sound(c), NEW s, IsSeq(s), NEW delta,
           \A i \in 1 .. Len(s) : s[i] \in DOMAIN c.items
    PROVE  Sound(MoveSelectionUnchecked(c, s, delta))
<1>1. Len(s) \in Nat
  BY DEF IsSeq
<1>2. PICK run : MoveAll(c, s, delta) = run[Len(s)] /\ MoveRounds(run, c, s, delta)
  BY MoveLoop
<1> DEFINE n == Len(s)
           P == {i \in 0 .. n : Kept(c, run[i])}
<1>3. 0 \in P
  BY <1>1, <1>2 DEF Kept, MoveRounds
<1>4. ASSUME NEW i \in 1 .. n, i - 1 \in P PROVE i \in P
  <2>1. Sound(run[i - 1]) /\ DOMAIN run[i - 1].items = DOMAIN c.items
    BY <1>4 DEF Kept
  <2>2. Kept(run[i - 1], MoveTemporaryUnchecked(run[i - 1], s[i], delta))
    BY <2>1, MoveKeeps
  <2>3. Kept(c, run[i])
    BY <1>2, <2>1, <2>2 DEF Kept, MoveRounds
  <2>4. i \in 0 .. n
    OBVIOUS
  <2> QED
    BY <2>3, <2>4
<1>5. P \in SUBSET (0 .. n)
  OBVIOUS
<1> HIDE DEF P, n
<1>6. P = 0 .. n
  BY <1>1, <1>3, <1>4, <1>5, AllRounds DEF n
<1>7. n \in P
  BY <1>1, <1>6 DEF n
<1>8. Sound(run[Len(s)])
  BY <1>7 DEF P, n, Kept
<1>9. MoveSelectionUnchecked(c, s, delta) = IF delta = 0 THEN c ELSE run[Len(s)]
  BY <1>2, Zenon DEF MoveSelectionUnchecked, MoveAll
<1> QED
  BY <1>8, <1>9

LEMMA MoveOrDeleteSound ==
    ASSUME NEW c, Sound(c), NEW id \in DOMAIN c.items, NEW delta
    PROVE  Sound(MoveOrDeleteTemporary(c, id, delta))
<1>1. CASE c.items[id].display # "temporary"
  BY <1>1, FailKeeps DEF MoveOrDeleteTemporary, Kept
<1>2. CASE c.items[id].display = "temporary" /\ delta = 0
  BY <1>2 DEF MoveOrDeleteTemporary
<1>3. CASE /\ c.items[id].display = "temporary" /\ delta # 0
           /\ ~IsRepresentable(c.items[id].position + delta)
  BY <1>3, DeleteTemporarySound DEF MoveOrDeleteTemporary
<1>4. CASE /\ c.items[id].display = "temporary" /\ delta # 0
           /\ IsRepresentable(c.items[id].position + delta)
  BY <1>4, MoveKeeps DEF MoveOrDeleteTemporary, Kept
<1> QED
  BY <1>1, <1>2, <1>3, <1>4

\* The stacks and the direction of the history change.
LEMMA HistorySound ==
    ASSUME NEW c, Sound(c), NEW d,
           DOMAIN d = Fields, d.items = c.items, d.initial = c.initial,
           d.operations = c.operations, d.cached = c.cached, d.keys = c.keys, d.failed = c.failed,
           d.history \in {"track_undo_new", "track_redo_replay", "track_undo_replay"},
           StackOK(d.undo), StackOK(d.redo)
    PROVE  Sound(d)
<1>1. Shape(d) /\ Disjoint(d.items)
  BY DEF Sound, Shape
<1>2. CalculateSelection(d) = CalculateSelection(c)
  BY DEF CalculateSelection
<1>3. CacheOK(d)
  BY <1>2 DEF Sound, CacheOK
<1> QED
  BY <1>1, <1>3 DEF Sound

\* The selection store is not part of the invariant.
LEMMA StoredKeeps ==
    ASSUME NEW c, Sound(c), NEW stored
    PROVE  Kept(c, [c EXCEPT !.stored = stored])
<1> DEFINE d == [c EXCEPT !.stored = stored]
<1>1. /\ DOMAIN d = Fields
      /\ d.items = c.items /\ d.initial = c.initial /\ d.operations = c.operations
      /\ d.cached = c.cached /\ d.history = c.history /\ d.keys = c.keys
      /\ d.failed = c.failed
      /\ d.undo = c.undo /\ d.redo = c.redo
  BY DEF Sound, Shape, Fields
<1> HIDE DEF d
<1>2. Sound(d)
  BY <1>1, HistorySound DEF Sound, Shape
<1> QED
  BY <1>1, <1>2 DEF Kept, d

\* The edits that Consume performs.
ConsumeEdits ==
    [loop : {"consume"}, edit : {"mode"}, mode : Mode]
    \cup [loop : {"consume"}, edit : {"move"}, delta : Int]
    \cup [loop : {"consume"}, edit : {"delete"}]

LEMMA ConsumeEditSound ==
    ASSUME NEW c, Sound(c), NEW id \in DOMAIN c.items, NEW e \in ConsumeEdits
    PROVE  Sound(ConsumeEdit(c, id, e))
<1>1. CASE e.edit = "mode" /\ e.mode \in Mode
  BY <1>1, ChangeInsertionModeSound DEF ConsumeEdit
<1>2. CASE e.edit = "move"
  BY <1>2, MoveOrDeleteSound DEF ConsumeEdit
<1>3. CASE e.edit = "delete"
  <2>1. "temporary" \in Mode /\ "temporary" # "insert_or_discard"
    BY DEF Mode
  <2>2. Kept(c, ChangeInsertionMode(c, id, "temporary", "no_hint"))
    BY <2>1, ChangeInsertionModeSound
  <2>3. Sound(DeleteTemporary(ChangeInsertionMode(c, id, "temporary", "no_hint"), id))
    BY <2>2, DeleteTemporarySound DEF Kept
  <2> QED
    BY <1>3, <2>3 DEF ConsumeEdit
<1> QED
  BY <1>1, <1>2, <1>3 DEF ConsumeEdits

LEMMA ConsumeStepSound ==
    ASSUME NEW c, Sound(c), NEW e \in ConsumeEdits
    PROVE  Sound(ConsumeStep(c, e))
<1> DEFINE id == c.stored[1]
           b == [c EXCEPT !.stored = Erase(@, id)]
<1>1. c.failed \in BOOLEAN
  BY DEF Sound, Shape
<1>2. CASE c.failed \/ c.stored = <<>>
  BY <1>2 DEF ConsumeStep
<1>3. CASE ~c.failed /\ c.stored # <<>> /\ id \notin Ids(c)
  BY <1>3, FailKeeps DEF ConsumeStep, Kept
<1>4. CASE ~c.failed /\ c.stored # <<>> /\ id \in Ids(c)
  <2>1. ConsumeStep(c, e) = ConsumeEdit(b, id, e)
    BY <1>4 DEF ConsumeStep
  <2>2. Sound(b) /\ id \in DOMAIN b.items
    <3>1. id \in DOMAIN c.items
      BY <1>4, ItemIds
    <3> QED
      BY <3>1, StoredKeeps DEF Kept
  <2> HIDE DEF b, id
  <2> QED
    BY <2>1, <2>2, ConsumeEditSound
<1> QED
  BY <1>1, <1>2, <1>3, <1>4

LEMMA ConsumeSound ==
    ASSUME NEW c, Sound(c), NEW s, IsSeq(s), NEW e \in ConsumeEdits, NEW run,
           ConsumeRounds(run, c, s, e)
    PROVE  Sound([run[Len(s)] EXCEPT !.stored = <<>>])
<1>1. Len(s) \in Nat
  BY DEF IsSeq
<1> DEFINE n == Len(s)
           P == {i \in 0 .. n : Sound(run[i])}
<1>2. 0 \in P
  BY <1>1, StoredKeeps DEF ConsumeRounds, Kept
<1>3. ASSUME NEW i \in 1 .. n, i - 1 \in P PROVE i \in P
  <2>1. Sound(ConsumeStep(run[i - 1], e))
    BY <1>3, ConsumeStepSound
  <2>2. i \in 0 .. n
    OBVIOUS
  <2> QED
    BY <2>1, <2>2 DEF ConsumeRounds
<1>4. P \in SUBSET (0 .. n)
  OBVIOUS
<1> HIDE DEF P, n
<1>5. P = 0 .. n
  BY <1>1, <1>2, <1>3, <1>4, AllRounds DEF n
<1>6. n \in P
  BY <1>1, <1>5 DEF n
<1>7. Sound(run[Len(s)])
  BY <1>6 DEF P, n
<1> QED
  BY <1>7, StoredKeeps DEF Kept

LEMMA SelectionEditsSound ==
    ASSUME NEW c, Sound(c), NEW s, IsSeq(s)
    PROVE  /\ \A mode \in Mode : Sound(ChangeSelectionMode(c, s, mode))
           /\ \A delta \in Int : Sound(MoveOrDeleteSelection(c, s, delta))
           /\ Sound(DeleteAll(c, s))
<1>1. ASSUME NEW mode \in Mode PROVE Sound(ChangeSelectionMode(c, s, mode))
  <2> DEFINE e == [loop |-> "consume", edit |-> "mode", mode |-> mode]
  <2>1. e \in ConsumeEdits
    BY DEF ConsumeEdits
  <2>2. PICK run : /\ ChangeSelectionMode(c, s, mode) = [run[Len(s)] EXCEPT !.stored = <<>>]
                   /\ ConsumeRounds(run, c, s, e)
    BY ConsumeModeLoop
  <2> HIDE DEF e
  <2> QED
    BY <2>1, <2>2, ConsumeSound
<1>2. ASSUME NEW delta \in Int PROVE Sound(MoveOrDeleteSelection(c, s, delta))
  <2> DEFINE e == [loop |-> "consume", edit |-> "move", delta |-> delta]
  <2>1. e \in ConsumeEdits
    BY DEF ConsumeEdits
  <2>2. PICK run : /\ MoveOrDeleteSelection(c, s, delta)
                        = [run[Len(s)] EXCEPT !.stored = <<>>]
                   /\ ConsumeRounds(run, c, s, e)
    BY ConsumeMoveLoop
  <2> HIDE DEF e
  <2> QED
    BY <2>1, <2>2, ConsumeSound
<1>3. Sound(DeleteAll(c, s))
  <2> DEFINE e == [loop |-> "consume", edit |-> "delete"]
  <2>1. e \in ConsumeEdits
    BY DEF ConsumeEdits
  <2>2. PICK run : /\ DeleteAll(c, s) = [run[Len(s)] EXCEPT !.stored = <<>>]
                   /\ ConsumeRounds(run, c, s, e)
    BY ConsumeDeleteLoop
  <2> HIDE DEF e
  <2> QED
    BY <2>1, <2>2, ConsumeSound
<1> QED
  BY <1>1, <1>2, <1>3

-----------------------------------------------------------------------------
(***************************************************************************)
(* The visible selection.                                                  *)
(***************************************************************************)

\* The selection changes and its cache is dropped.
LEMMA SelectionKeeps ==
    ASSUME NEW c, Sound(c), NEW b, OnlyStacks(c, b), NEW d,
           DOMAIN d = Fields, d.items = b.items, d.history = b.history,
           d.keys = b.keys, d.failed = b.failed, d.undo = b.undo, d.redo = b.redo, d.cached = {},
           d.initial \subseteq DOMAIN c.items, OperationsOK(d.operations)
    PROVE  Kept(c, d)
<1>1. Shape(d) /\ Disjoint(d.items) /\ d.items = c.items
  BY DEF Sound, Shape, OnlyStacks
<1> QED
  BY <1>1 DEF Kept, Sound, CacheOK

LEMMA NotSingle == ~IsSingle({})
BY FS_EmptySet DEF IsSingle

LEMMA PushInitialSelectionKeeps ==
    ASSUME NEW c, Sound(c), NEW ids
    PROVE  OnlyStacks(c, PushInitialSelection(c, ids))
<1> DEFINE old == c.initial
           all == [type |-> "select_all"]
           clear == [type |-> "clear"]
           set == [type |-> "set", keys |-> KeysOf(c, old)]
           d == PushInitialSelection(c, ids)
<1>0. OnlyStacks(c, c)
  BY DEF OnlyStacks, Sound, Shape
<1>1. EntryOK(all) /\ EntryOK(clear) /\ EntryOK(set)
  BY DEF EntryOK, EntryTypes, SelectionEntryTypes
<1> HIDE DEF all, clear, set
<1>2. CASE old = ids
  BY <1>0, <1>2, NotSingle DEF PushInitialSelection
<1>3. CASE old # ids /\ old = {} /\ IsSingle(ids)
  <2>1. d = PushRemoveVisible(c, KeyOf(c, ids))
    BY <1>3 DEF PushInitialSelection
  <2> QED
    BY <2>1, PushKeyKeeps DEF PushRemoveVisible
<1>4. CASE old # ids /\ old = {} /\ ~IsSingle(ids)
  <2>1. d = PushEntry(c, clear)
    BY <1>4 DEF PushInitialSelection, clear
  <2> QED
    BY <1>1, <2>1, PushEntryKeeps
<1>5. CASE old # ids /\ ids = {} /\ IsSingle(old)
  <2>1. d = PushAddVisible(c, KeyOf(c, old))
    BY <1>5 DEF PushInitialSelection
  <2> QED
    BY <2>1, PushKeyKeeps DEF PushAddVisible
<1>6. CASE old # ids /\ old # {} /\ ~(ids = {} /\ IsSingle(old))
  <2>1. d = PushEntry(c, IF old = Ids(c) THEN all ELSE set)
    BY <1>6 DEF PushInitialSelection, all, set
  <2>2. d = PushEntry(c, all) \/ d = PushEntry(c, set)
    BY <2>1
  <2> QED
    BY <1>1, <2>2, PushEntryKeeps
<1> QED
  BY <1>2, <1>3, <1>4, <1>5, <1>6

LEMMA PushVisibleSelectionKeeps ==
    ASSUME NEW c, Sound(c), NEW ids
    PROVE  OnlyStacks(c, PushVisibleSelection(c, ids))
<1> DEFINE s == Reverse(c.operations)
           b == PushAll(c, s)
<1>1. OperationsOK(s)
  <2> DEFINE n == Len(c.operations)
  <2>1. /\ IsSeq(c.operations)
        /\ \A i \in 1 .. n : c.operations[i] \in Operation
    BY DEF Sound, Shape, OperationsOK
  <2>2. /\ IsSeq(s) /\ Len(s) = n /\ n \in Nat
        /\ \A i \in 1 .. n : s[i] = c.operations[(n - i) + 1]
    BY <2>1, ReverseSeq
  <2> HIDE DEF n
  <2>3. \A i \in 1 .. n : (n - i) + 1 \in 1 .. n
    BY <2>2
  <2> QED
    BY <2>1, <2>2, <2>3 DEF OperationsOK
<1>2. PushVisibleSelection(c, ids) = PushInitialSelection(b, ids)
  BY Zenon DEF PushVisibleSelection, PushAll, ForEach
<1> HIDE DEF s
<1>3. OnlyStacks(c, b)
  BY <1>1, PushAllKeeps
<1> HIDE DEF b
<1>4. OnlyStacks(b, PushInitialSelection(b, ids))
  BY <1>3, StacksKeepSound, PushInitialSelectionKeeps
<1> QED
  BY <1>2, <1>3, <1>4, StacksTwice

LEMMA NoOperations == OperationsOK(<<>>)
<1>1. <<>> \in Seq({}) /\ Len(<<>>) = 0
  BY EmptySeq
<1>2. IsSeq(<<>>)
  BY <1>1, SequenceOf, Zenon
<1>3. 1 .. Len(<<>>) = {}
  BY <1>1
<1> QED
  BY <1>2, <1>3, Zenon DEF OperationsOK

LEMMA SetVisibleSelectionKeeps ==
    ASSUME NEW c, Sound(c), NEW ids
    PROVE  Kept(c, SetVisibleSelection(c, ids))
<1> DEFINE b == PushVisibleSelection(c, ids)
           d == [b EXCEPT !.initial = ids, !.operations = <<>>, !.cached = {}]
<1>1. CASE ids \subseteq Ids(c)
  <2>1. OnlyStacks(c, b)
    BY PushVisibleSelectionKeeps
  <2> HIDE DEF b
  <2>2. /\ DOMAIN d = Fields /\ d.items = b.items /\ d.history = b.history
        /\ d.keys = b.keys
        /\ d.failed = b.failed /\ d.undo = b.undo /\ d.redo = b.redo
        /\ d.cached = {} /\ d.initial = ids /\ d.operations = <<>>
    BY <2>1 DEF OnlyStacks, Fields
  <2>3. ids \subseteq DOMAIN c.items
    BY <1>1, ItemIds
  <2> HIDE DEF d
  <2>4. Kept(c, d)
    BY <2>1, <2>2, <2>3, NoOperations, SelectionKeeps
  <2> QED
    BY <1>1, <2>4 DEF SetVisibleSelection, d, b
<1> QED
  BY <1>1, FailKeeps DEF SetVisibleSelection

LEMMA VisibilityKeeps ==
    ASSUME NEW c, Sound(c), NEW id \in DOMAIN c.items
    PROVE  /\ Kept(c, AddToVisibleSelection(c, id))
           /\ Kept(c, RemoveFromVisibleSelection(c, id))
<1>0. OnlyStacks(c, c) /\ OperationsOK(c.operations) /\ c.initial \subseteq DOMAIN c.items
  BY DEF OnlyStacks, Sound, Shape
<1>1. Kept(c, AddToVisibleSelection(c, id))
  <2> DEFINE b == IF id \notin c.initial THEN PushRemoveVisible(c, c.keys[id]) ELSE c
             d == [b EXCEPT !.initial = @ \cup {id}, !.cached = {}]
  <2>1. OnlyStacks(c, PushRemoveVisible(c, c.keys[id]))
    BY PushKeyKeeps DEF PushRemoveVisible
  <2>2. OnlyStacks(c, b)
    BY <1>0, <2>1
  <2> HIDE DEF b
  <2>3. /\ DOMAIN d = Fields /\ d.items = b.items /\ d.history = b.history
        /\ d.keys = b.keys
        /\ d.failed = b.failed /\ d.undo = b.undo /\ d.redo = b.redo
        /\ d.cached = {} /\ d.initial = c.initial \cup {id}
        /\ d.operations = c.operations
    BY <2>2 DEF OnlyStacks, Fields
  <2> HIDE DEF d
  <2>4. Kept(c, d)
    BY <1>0, <2>2, <2>3, SelectionKeeps
  <2> QED
    BY <2>4 DEF AddToVisibleSelection, d, b
<1>2. Kept(c, RemoveFromVisibleSelection(c, id))
  <2> DEFINE b == IF id \in c.initial THEN PushAddVisible(c, c.keys[id]) ELSE c
             d == [b EXCEPT !.initial = @ \ {id}, !.cached = {}]
  <2>1. OnlyStacks(c, PushAddVisible(c, c.keys[id]))
    BY PushKeyKeeps DEF PushAddVisible
  <2>2. OnlyStacks(c, b)
    BY <1>0, <2>1
  <2> HIDE DEF b
  <2>3. /\ DOMAIN d = Fields /\ d.items = b.items /\ d.history = b.history
        /\ d.keys = b.keys
        /\ d.failed = b.failed /\ d.undo = b.undo /\ d.redo = b.redo
        /\ d.cached = {} /\ d.initial = c.initial \ {id}
        /\ d.operations = c.operations
    BY <2>2 DEF OnlyStacks, Fields
  <2> HIDE DEF d
  <2>4. Kept(c, d)
    BY <1>0, <2>2, <2>3, SelectionKeeps
  <2> QED
    BY <2>4 DEF RemoveFromVisibleSelection, d, b
<1> QED
  BY <1>1, <1>2

LEMMA AppendedOperation ==
    ASSUME NEW s, OperationsOK(s), NEW op \in Operation PROVE OperationsOK(Append(s, op))
<1>1. IsSeq(s) /\ \A i \in 1 .. Len(s) : s[i] \in Operation
  BY DEF OperationsOK
<1>2. /\ IsSeq(Append(s, op)) /\ Len(s) \in Nat /\ Len(Append(s, op)) = Len(s) + 1
      /\ \A i \in 1 .. Len(s) : Append(s, op)[i] = s[i]
      /\ Append(s, op)[Len(s) + 1] = op
  BY <1>1, AppendSeq
<1>3. \A i \in 1 .. (Len(s) + 1) : i \in 1 .. Len(s) \/ i = Len(s) + 1
  BY <1>2
<1> QED
  BY <1>1, <1>2, <1>3 DEF OperationsOK

LEMMA PoppedOperation ==
    ASSUME NEW s, OperationsOK(s), s # <<>>
    PROVE  OperationsOK(Front(s)) /\ Last(s) \in Operation
<1>1. IsSeq(s) /\ \A i \in 1 .. Len(s) : s[i] \in Operation
  BY DEF OperationsOK
<1>2. /\ IsSeq(Front(s)) /\ Len(s) \in Nat \ {0} /\ Len(Front(s)) = Len(s) - 1
      /\ \A i \in 1 .. (Len(s) - 1) : Front(s)[i] = s[i]
  BY <1>1, FrontSeq
<1>3. \A i \in 1 .. (Len(s) - 1) : i \in 1 .. Len(s)
  BY <1>2
<1>4. Len(s) \in 1 .. Len(s)
  BY <1>2
<1> QED
  BY <1>1, <1>2, <1>3, <1>4 DEF OperationsOK, Last

LEMMA AddRectKeeps ==
    ASSUME NEW c, Sound(c), NEW op \in Operation
    PROVE  Kept(c, AddVisibleSelectionRect(c, op))
<1> DEFINE b == PushEntry(c, [type |-> "pop_last"])
           d == [b EXCEPT !.operations = Append(@, op), !.cached = {}]
<1>1. EntryOK([type |-> "pop_last"])
  BY DEF EntryOK, EntryTypes, SelectionEntryTypes
<1>2. OnlyStacks(c, b)
  BY <1>1, PushEntryKeeps
<1> HIDE DEF b
<1>3. /\ DOMAIN d = Fields /\ d.items = b.items /\ d.history = b.history
      /\ d.keys = b.keys
      /\ d.failed = b.failed /\ d.undo = b.undo /\ d.redo = b.redo
      /\ d.cached = {} /\ d.initial = c.initial
      /\ d.operations = Append(c.operations, op)
  BY <1>2 DEF OnlyStacks, Fields
<1> HIDE DEF d
<1>4. OperationsOK(c.operations) /\ c.initial \subseteq DOMAIN c.items
  BY DEF Sound, Shape
<1>5. Kept(c, d)
  BY <1>2, <1>3, <1>4, AppendedOperation, SelectionKeeps
<1> QED
  BY <1>5 DEF AddVisibleSelectionRect, d, b

LEMMA PopLastKeeps ==
    ASSUME NEW c, Sound(c)
    PROVE  Kept(c, PopLastVisibleSelectionRect(c))
<1> DEFINE b == PushAddOperation(c, Last(c.operations))
           d == [b EXCEPT !.operations = Front(@), !.cached = {}]
<1>1. CASE c.operations # <<>>
  <2>1. OperationsOK(c.operations) /\ c.initial \subseteq DOMAIN c.items
    BY DEF Sound, Shape
  <2>2. OperationsOK(Front(c.operations)) /\ Last(c.operations) \in Operation
    BY <1>1, <2>1, PoppedOperation
  <2>3. OnlyStacks(c, b)
    BY <2>2, PushAddOperationKeeps
  <2> HIDE DEF b
  <2>4. /\ DOMAIN d = Fields /\ d.items = b.items /\ d.history = b.history
        /\ d.keys = b.keys
        /\ d.failed = b.failed /\ d.undo = b.undo /\ d.redo = b.redo
        /\ d.cached = {} /\ d.initial = c.initial
        /\ d.operations = Front(c.operations)
    BY <2>3 DEF OnlyStacks, Fields
  <2> HIDE DEF d
  <2>5. Kept(c, d)
    BY <2>1, <2>2, <2>3, <2>4, SelectionKeeps
  <2> QED
    BY <1>1, <2>5 DEF PopLastVisibleSelectionRect, d, b
<1> QED
  BY <1>1, FailKeeps DEF PopLastVisibleSelectionRect

\* Updating the last rectangle with the one it has changes no operation.
LEMMA UpdateLastKeeps ==
    ASSUME NEW c, Sound(c), NEW rect \in Rects
    PROVE  Kept(c, UpdateLastVisibleSelectionRect(c, rect))
<1> DEFINE s == c.operations
           n == Len(s)
           op == [s[n] EXCEPT !.rect = rect]
           t == [s EXCEPT ![n] = op]
           b == PushUpdateLast(c, Last(s).rect)
           d == [b EXCEPT !.operations[Len(c.operations)].rect = rect,
                          !.cached = IF rect = Last(c.operations).rect THEN @ ELSE {}]
<1>1. CASE s # <<>>
  <2>1. /\ OperationsOK(s) /\ IsSeq(s) /\ n \in Nat /\ c.initial \subseteq DOMAIN c.items
        /\ DOMAIN s = 1 .. n
        /\ \A i \in 1 .. n : s[i] \in Operation
    BY DEF Sound, Shape, OperationsOK, IsSeq
  <2>2. n \in 1 .. n /\ Last(s) = s[n] /\ s[n] \in Operation
    BY <1>1, <2>1, PoppedOperation, FrontSeq DEF Last
  <2>3. s[n].rect \in Rects /\ op \in Operation /\ (rect = s[n].rect => op = s[n])
    BY <2>2 DEF Operation
  <2>4. OnlyStacks(c, b)
    BY <2>2, <2>3, PushUpdateLastKeeps
  <2> HIDE DEF b
  <2>5. /\ DOMAIN d = Fields /\ d.items = b.items /\ d.history = b.history
        /\ d.keys = b.keys
        /\ d.failed = b.failed /\ d.undo = b.undo /\ d.redo = b.redo
        /\ d.cached = (IF rect = s[n].rect THEN c.cached ELSE {}) /\ d.stored = b.stored
        /\ d.initial = c.initial /\ d.operations = t
    BY <2>2, <2>4 DEF OnlyStacks, Fields
  <2> HIDE DEF d, op, n
  <2>6. OperationsOK(t) /\ (rect = s[n].rect => t = s)
    <3>1. n \in 1 .. Len(s)
      BY <2>2 DEF n
    <3>2. /\ IsSeq(t) /\ Len(t) = Len(s)
          /\ \A i \in 1 .. Len(s) : t[i] = (IF i = n THEN op ELSE s[i])
      BY <2>1, <3>1, ReplaceInSeq
    <3>3. OperationsOK(t)
      BY <2>1, <2>3, <3>2 DEF OperationsOK, n
    <3>4. ASSUME op = s[n] PROVE t = s
      <4>1. s = [i \in 1 .. n |-> s[i]]
        BY <2>1 DEF IsSeq, n
      <4> QED
        BY <2>1, <3>4, <4>1
    <3> QED
      BY <2>3, <3>3, <3>4
  <2> HIDE DEF t
  <2>7. Kept(c, d)
    <3>1. CASE rect = s[n].rect
      <4>1. OnlyStacks(c, d)
        BY <2>4, <2>5, <2>6, <3>1 DEF OnlyStacks
      <4> QED
        BY <4>1, StacksKeep
    <3>2. CASE rect # s[n].rect
      BY <2>1, <2>4, <2>5, <2>6, <3>2, SelectionKeeps
    <3> QED
      BY <3>1, <3>2
  <2> QED
    BY <1>1, <2>7 DEF UpdateLastVisibleSelectionRect, d, b
<1> QED
  BY <1>1, FailKeeps DEF UpdateLastVisibleSelectionRect

\* Reading the visible selection keeps what it calculates.
LEMMA ReadSound ==
    ASSUME NEW c, Sound(c)
    PROVE  /\ Sound(ReadVisibleSelection(c))
           /\ VisibleSelection(c) = CalculateSelection(c)
<1> DEFINE d == ReadVisibleSelection(c)
<1>1. VisibleSelection(c) = CalculateSelection(c)
  BY DEF VisibleSelection, Sound, CacheOK
<1>2. /\ DOMAIN d = Fields
      /\ d.items = c.items /\ d.initial = c.initial /\ d.operations = c.operations
      /\ d.history = c.history /\ d.keys = c.keys
      /\ d.failed = c.failed
      /\ d.undo = c.undo /\ d.redo = c.redo
      /\ d.cached = (IF c.operations = <<>> THEN c.cached ELSE {CalculateSelection(c)})
  <2> HIDE DEF CalculateSelection
  <2> QED
    BY <1>1 DEF ReadVisibleSelection, Sound, Shape, Fields
<1> HIDE DEF d
<1>3. Shape(d) /\ Disjoint(d.items)
  BY <1>2 DEF Sound, Shape
<1>4. CalculateSelection(d) = CalculateSelection(c)
  BY <1>2 DEF CalculateSelection
<1>5. CacheOK(d)
  BY <1>2, <1>4 DEF CacheOK, Sound
<1> QED
  BY <1>1, <1>3, <1>5 DEF Sound, d

-----------------------------------------------------------------------------
(***************************************************************************)
(* Undo and redo.                                                          *)
(***************************************************************************)

LEMMA ReplayOfItemSound ==
    ASSUME NEW c, Sound(c), NEW e, NEW id \in DOMAIN c.items,
           e.type \in EntryTypes \ (SelectionEntryTypes \cup {"create", "new_group"})
    PROVE  Sound(ReplayOfItem(c, e, id))
<1>1. CASE e.type = "delete"
  BY <1>1, DeleteTemporarySound DEF ReplayOfItem, ModeChange
<1>2. CASE e.type = "move"
  BY <1>2, MoveKeeps DEF ReplayOfItem, ModeChange, Kept
<1>3. CASE e.type \in DOMAIN ModeChange
  <2>1. ModeChange[e.type].mode \in Mode
    BY <1>3 DEF ModeChange, Mode
  <2>2. ReplayOfItem(c, e, id) = ChangeInsertionMode(c, id, ModeChange[e.type].mode,
                                                     ModeChange[e.type].hint)
    <3>1. e.type \notin {"delete", "move", "change_attributes", "add_visible",
                         "remove_visible"}
      BY <1>3 DEF ModeChange
    <3> QED
      BY <1>3, <3>1 DEF ReplayOfItem
  <2> QED
    BY <2>1, <2>2, ChangeInsertionModeSound
<1>4. CASE e.type = "change_attributes"
  BY <1>4, SetAttributesKeeps DEF ReplayOfItem, ModeChange, Kept
<1>5. CASE e.type = "add_visible"
  BY <1>5, VisibilityKeeps DEF ReplayOfItem, ModeChange, Kept
<1>6. CASE e.type = "remove_visible"
  BY <1>6, VisibilityKeeps DEF ReplayOfItem, ModeChange, Kept
<1> QED
  BY <1>1, <1>2, <1>3, <1>4, <1>5, <1>6 DEF EntryTypes

LEMMA ReplayOfSelectionSound ==
    ASSUME NEW c, Sound(c), NEW e, EntryOK(e), e.type \in SelectionEntryTypes
    PROVE  Sound(ReplayOfSelection(c, e))
<1>1. CASE e.type = "clear"
  BY <1>1, SetVisibleSelectionKeeps DEF ReplayOfSelection, Kept
<1>2. CASE e.type = "set" /\ e.keys \subseteq KeyIndexSet(c)
  <2> DEFINE ids == {id \in Ids(c) : c.keys[id] \in e.keys}
  <2>1. ReplayOfSelection(c, e) = SetVisibleSelection(c, ids)
    BY <1>2 DEF ReplayOfSelection
  <2> HIDE DEF ids
  <2> QED
    BY <2>1, SetVisibleSelectionKeeps DEF Kept
<1>3. CASE e.type = "set" /\ ~(e.keys \subseteq KeyIndexSet(c))
  BY <1>3, FailKeeps DEF ReplayOfSelection, Kept
<1>4. CASE e.type = "select_all"
  BY <1>4, SetVisibleSelectionKeeps DEF ReplayOfSelection, Kept
<1>5. CASE e.type = "add_operation"
  BY <1>5, AddRectKeeps DEF ReplayOfSelection, Kept, EntryOK
<1>6. CASE e.type = "update_last"
  BY <1>6, UpdateLastKeeps DEF ReplayOfSelection, Kept, EntryOK
<1>7. CASE e.type = "pop_last"
  BY <1>7, PopLastKeeps DEF ReplayOfSelection, Kept
<1> QED
  BY <1>1, <1>2, <1>3, <1>4, <1>5, <1>6, <1>7 DEF SelectionEntryTypes

LEMMA ReplayEntrySound ==
    ASSUME NEW c, Sound(c), NEW e, EntryOK(e), ~IsNewGroup(e)
    PROVE  Sound(ReplayEntry(c, e))
<1>1. c.failed \in BOOLEAN /\ "create" \notin SelectionEntryTypes
  BY DEF Sound, Shape, SelectionEntryTypes
<1>2. CASE c.failed
  BY <1>2 DEF ReplayEntry
<1>3. CASE ~c.failed /\ e.type \in SelectionEntryTypes
  <2>1. ReplayEntry(c, e) = ReplayOfSelection(c, e)
    BY <1>1, <1>3 DEF ReplayEntry
  <2> QED
    BY <1>3, <2>1, ReplayOfSelectionSound
<1>4. CASE ~c.failed /\ e.type = "create"
  <2>1. ReplayEntry(c, e) = CreateTemporary(c, e.def, e.position, e.key)
    BY <1>1, <1>4 DEF ReplayEntry
  <2> QED
    BY <2>1, CreateTemporarySound
<1>5. CASE ~c.failed /\ e.type \notin SelectionEntryTypes \cup {"create"}
  <2>1. ReplayEntry(c, e) = IF e.key \in KeyIndexSet(c)
                            THEN ReplayOfItem(c, e, CHOOSE id \in Ids(c) : c.keys[id] = e.key)
                            ELSE Fail(c)
    BY <1>5 DEF ReplayEntry
  <2>2. CASE e.key \in KeyIndexSet(c)
    <3> DEFINE id == CHOOSE i \in Ids(c) : c.keys[i] = e.key
    <3>1. id \in Ids(c)
      BY <2>2 DEF KeyIndexSet
    <3>2. ReplayEntry(c, e) = ReplayOfItem(c, e, id)
      BY <2>1, <2>2
    <3> HIDE DEF id
    <3>3. id \in DOMAIN c.items
      BY <3>1, ItemIds
    <3>4. e.type \in EntryTypes \ (SelectionEntryTypes \cup {"create", "new_group"})
      BY <1>5 DEF EntryOK, IsNewGroup
    <3> QED
      BY <3>2, <3>3, <3>4, ReplayOfItemSound
  <2>3. CASE e.key \notin KeyIndexSet(c)
    BY <2>1, <2>3, FailKeeps DEF Kept
  <2> QED
    BY <2>2, <2>3
<1> QED
  BY <1>1, <1>2, <1>3, <1>4, <1>5

\* The entries of one group: none of them ends a group.
GroupOK(s) == StackOK(s) /\ \A i \in 1 .. Len(s) : ~IsNewGroup(s[i])

LEMMA ReplayAllSound ==
    ASSUME NEW c, Sound(c), NEW s, GroupOK(s)
    PROVE  Sound(ReplayAll(c, s))
<1>1. IsSeq(s) /\ Len(s) \in Nat /\ \A i \in 1 .. Len(s) : EntryOK(s[i]) /\ ~IsNewGroup(s[i])
  BY DEF GroupOK, StackOK, IsSeq
<1>2. PICK run : ReplayAll(c, s) = run[Len(s)] /\ ReplayRounds(run, c, s)
  BY <1>1, ReplayLoop
<1> DEFINE n == Len(s)
           P == {i \in 0 .. n : Sound(run[i])}
<1>3. 0 \in P
  BY <1>1, <1>2 DEF ReplayRounds
<1>4. ASSUME NEW i \in 1 .. n, i - 1 \in P PROVE i \in P
  <2>1. Sound(ReplayEntry(run[i - 1], s[i]))
    BY <1>1, <1>4, ReplayEntrySound
  <2>2. i \in 0 .. n
    OBVIOUS
  <2> QED
    BY <1>2, <2>1, <2>2 DEF ReplayRounds
<1>5. P \in SUBSET (0 .. n)
  OBVIOUS
<1> HIDE DEF P, n
<1>6. P = 0 .. n
  BY <1>1, <1>3, <1>4, <1>5, AllRounds DEF n
<1>7. n \in P
  BY <1>1, <1>6 DEF n
<1> QED
  BY <1>2, <1>7 DEF P, n

\* The last group is what comes after the last entry that ends one.  It is replayed
\* from the end.
LastStart(s) == SelectLastInSeq(s, IsNewGroup)

LastGroupIs(s, start, group) ==
    /\ start \in 0 .. Len(s) /\ Len(s) \in Nat
    /\ \A i \in 1 .. Len(s) : i > start => ~IsNewGroup(s[i])
    /\ GroupOK(group)
    /\ start # 0 => IsNewGroup(s[start])
    /\ Len(group) = Len(s) - start
    /\ \A i \in 1 .. (Len(s) - start) : group[i] = s[(Len(s) - i) + 1]

LEMMA LastGroup ==
    ASSUME NEW s, StackOK(s)
    PROVE  LastGroupIs(s, LastStart(s), Reverse(SubSeq(s, LastStart(s) + 1, Len(s))))
<1> DEFINE n == Len(s)
           I == {i \in 1 .. n : IsNewGroup(s[i])}
           start == LastStart(s)
           t == SubSeq(s, start + 1, n)
<1>1. IsSeq(s) /\ n \in Nat /\ \A i \in 1 .. n : EntryOK(s[i])
  BY DEF StackOK, IsSeq
<1>2. start = IF I # {} THEN Max(I) ELSE 0
  BY DEF SelectLastInSeq, LastStart
<1>3. I \in SUBSET (1 .. n)
  OBVIOUS
<1> HIDE DEF I, start, t, n
<1>4. I # {} => (Max(I) \in I /\ \A k \in I : k <= Max(I))
  BY <1>1, <1>3, Greatest
<1>5. start \in 0 .. n /\ \A i \in 1 .. n : i > start => i \notin I
  <2>1. CASE I = {}
    <3>1. start = 0
      BY <1>2, <2>1
    <3> QED
      BY <1>1, <2>1, <3>1
  <2>2. CASE I # {}
    <3>1. start \in I /\ \A k \in I : k <= start
      BY <1>2, <1>4, <2>2
    <3>2. start \in 1 .. n
      BY <1>3, <3>1
    <3> QED
      BY <1>1, <3>1, <3>2
  <2> QED
    BY <2>1, <2>2
<1>6. \A i \in 1 .. n : i > start => i \notin I
  BY <1>5
<1>7. /\ IsSeq(t) /\ Len(t) = n - start
      /\ \A i \in 1 .. (n - start) : t[i] = s[start + i]
  <2>1. start + 1 \in 1 .. (n + 1) /\ n \in 0 .. n
    BY <1>1, <1>5
  <2>2. /\ IsSeq(t)
        /\ Len(t) = IF start + 1 <= n THEN n - (start + 1) + 1 ELSE 0
        /\ \A i \in 1 .. (n - (start + 1) + 1) : t[i] = s[(start + 1) + i - 1]
    BY <1>1, <2>1, SubSeqSeq DEF t, n
  <2>3. /\ (IF start + 1 <= n THEN n - (start + 1) + 1 ELSE 0) = n - start
        /\ n - (start + 1) + 1 = n - start
        /\ \A i \in 1 .. (n - start) : (start + 1) + i - 1 = start + i
    BY <1>1, <1>5
  <2> QED
    BY <2>2, <2>3
<1>8. /\ IsSeq(Reverse(t)) /\ Len(Reverse(t)) = n - start
      /\ \A i \in 1 .. (n - start) : Reverse(t)[i] = t[((n - start) - i) + 1]
  BY <1>7, ReverseSeq
<1>9. ASSUME NEW i \in 1 .. (n - start)
      PROVE  EntryOK(Reverse(t)[i]) /\ ~IsNewGroup(Reverse(t)[i])
  <2> DEFINE j == ((n - start) - i) + 1
  <2>1. j \in 1 .. (n - start) /\ start + j \in 1 .. n /\ start + j > start
    BY <1>1, <1>5
  <2>2. Reverse(t)[i] = s[start + j]
    BY <1>7, <1>8, <2>1
  <2> HIDE DEF j
  <2>3. start + j \notin I
    BY <1>6, <2>1
  <2> QED
    BY <1>1, <2>1, <2>2, <2>3 DEF I
<1>10. GroupOK(Reverse(t))
  BY <1>8, <1>9 DEF GroupOK, StackOK
<1>11. start # 0 => IsNewGroup(s[start])
  <2>1. start # 0 => start \in I
    BY <1>2, <1>4
  <2> QED
    BY <2>1 DEF I
<1>12. ASSUME NEW i \in 1 .. (n - start) PROVE Reverse(t)[i] = s[(n - i) + 1]
  <2>1. /\ ((n - start) - i) + 1 \in 1 .. (n - start)
        /\ start + (((n - start) - i) + 1) = (n - i) + 1
    BY <1>1, <1>5
  <2> QED
    BY <1>7, <1>8, <2>1
<1>13. \A i \in 1 .. n : i > start => ~IsNewGroup(s[i])
  BY <1>6 DEF I
<1> QED
  BY <1>1, <1>5, <1>8, <1>10, <1>11, <1>12, <1>13 DEF LastGroupIs, n, t, start

LEMMA GroupPushed ==
    ASSUME NEW s, StackOK(s) PROVE StackOK(PushNewGroup(s))
<1>1. EntryOK([type |-> "new_group"])
  BY DEF EntryOK, EntryTypes
<1> QED
  BY <1>1, StackAppended DEF PushNewGroup

LEMMA FinishReplaySound ==
    ASSUME NEW c, Sound(c) PROVE Sound(FinishReplay(c))
<1> DEFINE t == PushNewGroup(c[Tracked(c)])
           d == [c EXCEPT ![Tracked(c)] = t, !.history = "track_undo_new"]
<1>1. StackOK(t)
  BY TrackedStack, GroupPushed
<1>2. FinishReplay(c) = d
  BY DEF FinishReplay
<1> HIDE DEF t
<1>3. /\ DOMAIN d = Fields /\ d.items = c.items /\ d.initial = c.initial
      /\ d.operations = c.operations /\ d.cached = c.cached /\ d.keys = c.keys
      /\ d.failed = c.failed
      /\ d.history = "track_undo_new"
      /\ StackOK(d.undo) /\ StackOK(d.redo)
  <2>1. Tracked(c) = "undo" \/ Tracked(c) = "redo"
    BY DEF Tracked
  <2>2. DOMAIN c = Fields /\ StackOK(c.undo) /\ StackOK(c.redo)
    BY DEF Sound, Shape
  <2>3. CASE Tracked(c) = "undo"
    BY <1>1, <2>2, <2>3 DEF Fields
  <2>4. CASE Tracked(c) = "redo"
    BY <1>1, <2>2, <2>4 DEF Fields
  <2> QED
    BY <2>1, <2>3, <2>4
<1> HIDE DEF d
<1> QED
  BY <1>2, <1>3, HistorySound

LEMMA ReplayStackSound ==
    ASSUME NEW c, Sound(c), NEW name \in {"undo", "redo"}
    PROVE  Sound(ReplayStack(c, name, ReplayEntry))
<1> DEFINE s == Front(c[name])
           start == LastStart(s)
           popped == [c EXCEPT ![name] = SubSeq(s, 1, start),
                            !.history = IF name = "undo" THEN "track_redo_replay"
                                        ELSE "track_undo_replay"]
           group == Reverse(SubSeq(s, start + 1, Len(s)))
           guard == \/ c.history # "track_undo_new"
                    \/ HasUngrouped(c.undo)
                    \/ HasUngrouped(c.redo)
<1>1. CASE guard
  <2>1. ReplayStack(c, name, ReplayEntry) = Fail(c)
    BY <1>1, Zenon DEF ReplayStack
  <2> QED
    BY <2>1, FailKeeps DEF Kept
<1>2. CASE ~guard /\ c[name] = <<>>
  <2>1. ReplayStack(c, name, ReplayEntry) = c
    BY <1>2, Zenon DEF ReplayStack
  <2> QED
    BY <2>1
<1>3. CASE ~guard /\ c[name] # <<>>
  <2>1. ReplayStack(c, name, ReplayEntry) = FinishReplay(ReplayAll(popped, group))
    BY <1>3, Zenon DEF ReplayStack, ReplayOneGroup, ReplayAll, ForEach, LastStart
  <2>2. StackOK(c[name]) /\ DOMAIN c = Fields /\ StackOK(c.undo) /\ StackOK(c.redo)
    BY DEF Sound, Shape
  <2>3. StackOK(s)
    BY <1>3, <2>2, StackPopped
  <2> HIDE DEF s
  <2>4. start \in 0 .. Len(s) /\ GroupOK(group)
    BY <2>3, LastGroup DEF LastGroupIs
  <2> HIDE DEF start
  <2> DEFINE cut == SubSeq(s, 1, start)
  <2>5. StackOK(cut)
    BY <2>3, <2>4, StackCut
  <2> HIDE DEF group, cut
  <2>6. /\ DOMAIN popped = Fields /\ popped.items = c.items
        /\ popped.initial = c.initial /\ popped.operations = c.operations
        /\ popped.cached = c.cached /\ popped.keys = c.keys
        /\ popped.failed = c.failed
        /\ popped.history \in {"track_undo_new", "track_redo_replay", "track_undo_replay"}
        /\ StackOK(popped.undo) /\ StackOK(popped.redo)
    <3>1. popped = [c EXCEPT ![name] = cut,
                             !.history = IF name = "undo" THEN "track_redo_replay"
                                         ELSE "track_undo_replay"]
      BY DEF cut
    <3> HIDE DEF popped
    <3>2. CASE name = "undo"
      BY <2>2, <2>5, <3>1, <3>2 DEF Fields
    <3>3. CASE name = "redo"
      BY <2>2, <2>5, <3>1, <3>3 DEF Fields
    <3> QED
      BY <3>2, <3>3
  <2> HIDE DEF popped
  <2>7. Sound(popped)
    BY <2>6, HistorySound
  <2> QED
    BY <2>1, <2>4, <2>7, ReplayAllSound, FinishReplaySound
<1> QED
  BY <1>1, <1>2, <1>3

LEMMA FinishUndoGroupSound ==
    ASSUME NEW c, Sound(c) PROVE Sound(FinishUndoGroup(c))
<1> DEFINE t == PushNewGroup(c.undo)
           d == [c EXCEPT !.undo = t, !.redo = <<>>]
<1>1. StackOK(t)
  BY GroupPushed DEF Sound, Shape
<1>2. StackOK(<<>>)
  <2>1. <<>> \in Seq({}) /\ Len(<<>>) = 0
    BY EmptySeq
  <2>2. IsSeq(<<>>)
    BY <2>1, SequenceOf, Zenon
  <2>3. 1 .. Len(<<>>) = {}
    BY <2>1
  <2> QED
    BY <2>2, <2>3, Zenon DEF StackOK
<1> HIDE DEF t
<1>3. /\ DOMAIN d = Fields /\ d.items = c.items /\ d.initial = c.initial
      /\ d.operations = c.operations /\ d.cached = c.cached /\ d.keys = c.keys
      /\ d.failed = c.failed
      /\ d.stored = c.stored /\ d.history = c.history /\ d.undo = t /\ d.redo = <<>>
  BY DEF Sound, Shape, Fields
<1> HIDE DEF d
<1>4. OnlyStacks(c, d)
  BY <1>1, <1>2, <1>3 DEF OnlyStacks
<1>5. Sound(d)
  BY <1>4, StacksKeepSound
<1> QED
  BY <1>5 DEF FinishUndoGroup, d, t

LEMMA ReopenAttributeGroupKeeps ==
    ASSUME NEW c, Sound(c) PROVE Kept(c, ReopenAttributeGroup(c))
<1> DEFINE s == c.undo
           last == SelectLastInSeq(s, LAMBDA e : ~IsNewGroup(e))
           I == {i \in 1 .. Len(s) : ~IsNewGroup(s[i])}
           t == SubSeq(s, 1, last)
           d == [c EXCEPT !.undo = t]
<1>1. StackOK(s) /\ IsSeq(s) /\ Len(s) \in Nat
  BY DEF Sound, Shape, StackOK, IsSeq
<1>2. last = IF I # {} THEN Max(I) ELSE 0
  BY DEF SelectLastInSeq
<1>3. I \in SUBSET (1 .. Len(s))
  OBVIOUS
<1> HIDE DEF I
<1>4. I # {} => Max(I) \in I
  BY <1>1, <1>3, Greatest
<1> HIDE DEF last
<1>5. last \in 0 .. Len(s)
  <2>1. CASE I = {}
    BY <1>1, <1>2, <2>1
  <2>2. CASE I # {}
    <3>1. last \in I
      BY <1>2, <1>4, <2>2
    <3>2. last \in 1 .. Len(s)
      BY <1>3, <3>1
    <3> QED
      BY <1>1, <3>2
  <2> QED
    BY <2>1, <2>2
<1>6. StackOK(t)
  BY <1>1, <1>5, StackCut
<1>7. ReopenAttributeGroup(c) = IF ReopensGroup(c) THEN d ELSE c
  BY Zenon DEF ReopenAttributeGroup, ReopenGroup, last
<1> HIDE DEF t
<1>8. OnlyStacks(c, d)
  <2>1. DOMAIN c = Fields /\ StackOK(c.redo)
    BY DEF Sound, Shape
  <2> QED
    BY <1>6, <2>1 DEF OnlyStacks, Fields
<1> HIDE DEF d
<1> QED
  BY <1>7, <1>8, StacksKeep DEF Kept

LEMMA ChangeSettingSound ==
    ASSUME NEW c, Sound(c), NEW id \in DOMAIN c.items, NEW attrs
    PROVE  Sound(ChangeSettingAttributes(c, id, attrs))
<1> DEFINE b == ReopenAttributeGroup(c)
<1>1. Sound(b) /\ id \in DOMAIN b.items
  BY ReopenAttributeGroupKeeps DEF Kept
<1> HIDE DEF b
<1>2. Sound(SetAttributes(b, id, attrs))
  BY <1>1, SetAttributesKeeps DEF Kept
<1> QED
  BY <1>2, FinishUndoGroupSound DEF ChangeSettingAttributes, b

-----------------------------------------------------------------------------
(***************************************************************************)
(* Deleting a selection.                                                   *)
(***************************************************************************)

Members(s) == {s[i] : i \in 1 .. Len(s)}

Distinct(s) == IsSeq(s) /\ \A i, j \in 1 .. Len(s) : s[i] = s[j] => i = j

\* Erasing a member takes just that one.
LEMMA EraseMember ==
    ASSUME NEW s, Distinct(s), NEW x \in Members(s)
    PROVE  /\ Distinct(Erase(s, x)) /\ Len(s) \in Nat \ {0}
           /\ Len(Erase(s, x)) = Len(s) - 1
           /\ Members(Erase(s, x)) = Members(s) \ {x}
<1> DEFINE n == Len(s)
           t == Erase(s, x)
           I == {i \in 1 .. n : s[i] = x}
<1>1. /\ IsSeq(s) /\ n \in Nat
      /\ \A i, j \in 1 .. n : s[i] = s[j] => i = j
  BY DEF Distinct, IsSeq
<1>2. PICK k \in 1 .. n : s[k] = x
  BY DEF Members
<1>3. SelectInSeq(s, LAMBDA i : i = x) = k
  <2>1. SelectInSeq(s, LAMBDA i : i = x) = IF I # {} THEN Min(I) ELSE 0
    BY DEF SelectInSeq
  <2>2. I = {k}
    BY <1>1, <1>2
  <2>3. Min({k}) = k
    BY <1>1 DEF Min
  <2> HIDE DEF I
  <2> QED
    BY <2>1, <2>2, <2>3
<1>4. t = SwapAndDelete(s, k)
  BY <1>2, <1>3 DEF Erase, Contains
<1> HIDE DEF t, I
<1>5. /\ IsSeq(t) /\ Len(t) = n - 1
      /\ \A i \in 1 .. (n - 1) : t[i] = (IF i = k THEN s[n] ELSE s[i])
  BY <1>1, <1>4, SwapAndDeleteItems
<1> HIDE DEF n
<1>6. n \in 1 .. n /\ \A i \in 1 .. (n - 1) : i \in 1 .. n /\ i # n
  BY <1>1, <1>2
<1>7. ASSUME NEW i \in 1 .. (n - 1), NEW j \in 1 .. (n - 1), t[i] = t[j] PROVE i = j
  BY <1>1, <1>5, <1>6, <1>7
<1>8. {t[i] : i \in 1 .. (n - 1)} = {s[i] : i \in 1 .. n} \ {x}
  <2>1. ASSUME NEW i \in 1 .. (n - 1)
        PROVE  t[i] \in {s[j] : j \in 1 .. n} \ {x}
    <3>1. CASE i = k
      <4>1. t[i] = s[n] /\ n # k
        BY <1>5, <1>6, <3>1
      <4> QED
        BY <1>1, <1>2, <1>6, <4>1
    <3>2. CASE i # k
      <4>1. t[i] = s[i]
        BY <1>5, <3>2
      <4> QED
        BY <1>1, <1>2, <1>6, <3>2, <4>1
    <3> QED
      BY <3>1, <3>2
  <2>2. ASSUME NEW j \in 1 .. n, s[j] # x
        PROVE  \E i \in 1 .. (n - 1) : t[i] = s[j]
    <3>1. CASE j = n
      <4>1. k \in 1 .. (n - 1) /\ t[k] = s[n]
        BY <1>1, <1>2, <1>5, <2>2, <3>1
      <4> QED
        BY <3>1, <4>1
    <3>2. CASE j # n
      <4>1. j \in 1 .. (n - 1) /\ j # k
        BY <1>1, <1>2, <2>2, <3>2
      <4> QED
        BY <1>5, <4>1
    <3> QED
      BY <3>1, <3>2
  <2> QED
    BY <2>1, <2>2
<1>9. Distinct(t)
  BY <1>5, <1>7 DEF Distinct
<1>10. Members(t) = {s[i] : i \in 1 .. n} \ {x}
  BY <1>5, <1>8 DEF Members
<1>11. n \in Nat \ {0}
  BY <1>1, <1>6
<1> QED
  BY <1>5, <1>9, <1>10, <1>11 DEF Members, n, t

LEMMA EraseOther ==
    ASSUME NEW s, NEW x, x \notin Members(s) PROVE Erase(s, x) = s
BY DEF Erase, Contains, Members

LEMMA AppendDistinct ==
    ASSUME NEW s, Distinct(s), NEW x, x \notin Members(s)
    PROVE  /\ Distinct(Append(s, x)) /\ Len(Append(s, x)) = Len(s) + 1
           /\ Members(Append(s, x)) = Members(s) \cup {x}
<1> DEFINE n == Len(s)
           t == Append(s, x)
<1>1. IsSeq(s) /\ n \in Nat /\ \A i, j \in 1 .. n : s[i] = s[j] => i = j
  BY DEF Distinct, IsSeq
<1>2. IsSeq(t) /\ Len(t) = n + 1 /\ (\A i \in 1 .. n : t[i] = s[i]) /\ t[n + 1] = x
  BY <1>1, AppendSeq
<1>3. \A i \in 1 .. n : s[i] # x
  BY DEF Members
<1> HIDE DEF n, t
<1>4. /\ \A i \in 1 .. (n + 1) : i \in 1 .. n \/ i = n + 1
      /\ \A i \in 1 .. n : i \in 1 .. (n + 1)
      /\ n + 1 \in 1 .. (n + 1)
  BY <1>1
<1>5. ASSUME NEW i \in 1 .. (n + 1), NEW j \in 1 .. (n + 1), t[i] = t[j] PROVE i = j
  BY <1>1, <1>2, <1>3, <1>4, <1>5
<1>6. {t[i] : i \in 1 .. (n + 1)} = {s[i] : i \in 1 .. n} \cup {x}
  BY <1>2, <1>4
<1> QED
  BY <1>2, <1>5, <1>6 DEF Distinct, Members, n, t

\* The tracked selection after the deletion of an item that is not in it: the last
\* item is in it by its new id.
LEMMA StoredRenamed ==
    ASSUME NEW s, Distinct(s), NEW id, id \notin Members(s), NEW last,
           NEW t, t = StoredAfterDelete(s, id, last)
    PROVE  /\ Distinct(t) /\ Len(t) = Len(s)
           /\ Members(t) = {IF j = last THEN id ELSE j : j \in Members(s)}
<1>1. Erase(s, id) = s
  BY EraseOther
<1>2. CASE id # last /\ last \in Members(s)
  <2> DEFINE r == Erase(s, last)
  <2>1. /\ Distinct(r) /\ Len(s) \in Nat \ {0} /\ Len(r) = Len(s) - 1
        /\ Members(r) = Members(s) \ {last}
    BY <1>2, EraseMember
  <2>2. t = Append(r, id)
    BY <1>1, <1>2 DEF StoredAfterDelete, Contains, Members
  <2> HIDE DEF r
  <2>3. /\ Distinct(t) /\ Len(t) = Len(r) + 1 /\ Members(t) = Members(r) \cup {id}
    BY <2>1, <2>2, AppendDistinct
  <2>4. {IF j = last THEN id ELSE j : j \in Members(s)} = (Members(s) \ {last}) \cup {id}
    BY <1>2
  <2> QED
    BY <2>1, <2>3, <2>4
<1>3. CASE ~(id # last /\ last \in Members(s))
  <2>1. t = s
    BY <1>1, <1>3 DEF StoredAfterDelete, Contains, Members
  <2>2. last \notin Members(s)
    BY <1>3
  <2>3. {IF j = last THEN id ELSE j : j \in Members(s)} = Members(s)
    BY <2>2
  <2> QED
    BY <2>1, <2>3
<1> QED
  BY <1>2, <1>3

\* An edit that only gives an item another display.
OnlyDisplay(c, d, id, display) ==
    /\ d.keys = c.keys /\ d.stored = c.stored /\ d.failed = c.failed
    /\ d.items[id].display = display

LEMMA SetDisplayOnly ==
    ASSUME NEW c, Sound(c), NEW b, OnlyStacks(c, b), NEW id \in DOMAIN c.items, NEW display
    PROVE  /\ OnlyDisplay(c, SetDisplay(b, id, display), id, display)
           /\ OnlyDisplay(c, SetDisplay(Submit(b), id, display), id, display)
<1>1. "display" \in DOMAIN c.items[id]
  BY ItemIds DEF ItemOK
<1> QED
  BY <1>1 DEF OnlyDisplay, SetDisplay, Submit, OnlyStacks, Fields

\* Making an item temporary never fails.
LEMMA ToTemporary ==
    ASSUME NEW c, Sound(c), ~c.failed, NEW id \in DOMAIN c.items
    PROVE  /\ Kept(c, ChangeInsertionMode(c, id, "temporary", "no_hint"))
           /\ OnlyDisplay(c, ChangeInsertionMode(c, id, "temporary", "no_hint"), id, "temporary")
<1> DEFINE d == ChangeInsertionMode(c, id, "temporary", "no_hint")
           From(x) == FromCollisions(x, id, "temporary", "no_hint")
           key == c.keys[id]
<1>1. Kept(c, d)
  BY ChangeInsertionModeSound DEF Mode
<1>2. c.items[id].display \in Display
  BY ItemIds DEF ItemOK
<1>3. ASSUME NEW x, Sound(x), ~x.failed, id \in DOMAIN x.items,
             x.items[id].display \in {"valid", "colliding"}
      PROVE  OnlyDisplay(x, From(x), id, "temporary")
  <2> DEFINE valid == PushOrCancel(x, Entry("to_colliding_expect_valid", x.keys[id]),
                                   "to_temporary")
             other == PushOrCancel(x, Entry("to_colliding_assume_colliding", x.keys[id]),
                                   "to_temporary")
  <2>1. From(x) = CollidingToTemporary(x, id)
    BY <1>3 DEF FromCollisions
  <2>2. OnlyStacks(x, valid) /\ OnlyStacks(x, other)
    BY <1>3, PushKeyKeeps
  <2>3. CollidingToTemporary(x, id) = IF x.items[id].display = "valid"
                                      THEN SetDisplay(Submit(valid), id, "temporary")
                                      ELSE SetDisplay(other, id, "temporary")
    BY <1>3 DEF CollidingToTemporary
  <2> HIDE DEF valid, other
  <2> QED
    BY <1>3, <2>1, <2>2, <2>3, SetDisplayOnly
<1>4. CASE c.items[id].display = "temporary"
  BY <1>1, <1>4 DEF ChangeInsertionMode, ToMode, OnlyDisplay
<1>5. CASE c.items[id].display \in {"valid", "colliding"}
  <2>1. d = From(c)
    BY <1>5 DEF ChangeInsertionMode, ToMode, ToCollisions
  <2> HIDE DEF d
  <2> QED
    BY <1>1, <1>3, <1>5, <2>1 DEF d
<1>6. CASE c.items[id].display = "normal"
  <2> DEFINE push == PushOrCancel(c, Entry("to_insert", key), "to_colliding_expect_valid")
             b == InsertToColliding(c, id)
  <2>1. d = From(b)
    BY <1>6 DEF ChangeInsertionMode, ToMode, ToCollisions
  <2>2. OnlyStacks(c, push)
    BY PushKeyKeeps
  <2>3. b = SetDisplay(push, id, "valid")
    BY <1>6 DEF InsertToColliding
  <2> HIDE DEF push
  <2>4. OnlyDisplay(c, b, id, "valid")
    BY <2>2, <2>3, SetDisplayOnly
  <2>5. Kept(c, b)
    BY InsertToCollidingKeeps
  <2> HIDE DEF b, d, From
  <2>6. OnlyDisplay(b, From(b), id, "temporary")
    BY <1>3, <2>4, <2>5 DEF OnlyDisplay, Kept
  <2>7. OnlyDisplay(c, d, id, "temporary")
    BY <2>1, <2>4, <2>6 DEF OnlyDisplay
  <2> QED
    BY <1>1, <2>7 DEF d
<1> QED
  BY <1>2, <1>4, <1>5, <1>6 DEF Display

\* The keys that are not to be deleted.
RestOf(c) == KeyIndexSet(c) \ KeysOf(c, Members(c.stored))

\* The tracked selection holds distinct ids of the layout.
Tracking(c) == /\ Sound(c) /\ ~c.failed
               /\ Distinct(c.stored) /\ Members(c.stored) \subseteq DOMAIN c.items

DeleteEdit == [loop |-> "consume", edit |-> "delete"]

\* One round deletes one item of the tracked selection and no other.
LEMMA DeleteRound ==
    ASSUME NEW c, Tracking(c), c.stored # <<>>, NEW d, d = ConsumeStep(c, DeleteEdit)
    PROVE  Tracking(d) /\ Len(d.stored) = Len(c.stored) - 1 /\ RestOf(d) = RestOf(c)
<1> DEFINE n == Len(c.items)
           id == c.stored[1]
           M == Members(c.stored)
           y == [c EXCEPT !.stored = Erase(@, id)]
           z == ChangeInsertionMode(y, id, "temporary", "no_hint")
           New(j) == IF j = n THEN id ELSE j
<1>1. /\ n \in Nat /\ DOMAIN c.items = 1 .. n /\ Ids(c) = 1 .. n
      /\ Sound(c) /\ c.failed = FALSE /\ Distinct(c.stored) /\ M \subseteq 1 .. n
      /\ KeysOK(c.keys, 1 .. n)
  BY ItemIds DEF Tracking, Sound, Shape
<1>2. id \in M /\ id \in 1 .. n
  <2>1. Len(c.stored) \in Nat \ {0}
    BY FrontSeq DEF Tracking, Distinct
  <2>2. 1 \in 1 .. Len(c.stored)
    BY <2>1
  <2> QED
    BY <1>1, <2>2 DEF Members
<1>3. d = DeleteTemporary(z, id)
  BY <1>1, <1>2 DEF ConsumeStep, ConsumeEdit, DeleteEdit
<1> HIDE DEF n, id
<1>4. /\ Sound(y) /\ y.failed = FALSE /\ y.keys = c.keys /\ DOMAIN y.items = 1 .. n
      /\ Distinct(y.stored) /\ Len(y.stored) = Len(c.stored) - 1
      /\ Members(y.stored) = M \ {id}
  <2>1. /\ y.failed = c.failed /\ y.keys = c.keys /\ y.items = c.items
        /\ y.stored = Erase(c.stored, id)
    BY <1>1 DEF Sound, Shape, Fields
  <2>2. Sound(y)
    BY <1>1, StoredKeeps DEF Kept
  <2> HIDE DEF y
  <2> QED
    BY <1>1, <1>2, <2>1, <2>2, EraseMember
<1> HIDE DEF y, M
<1>5. /\ Sound(z) /\ z.failed = FALSE /\ z.keys = c.keys /\ DOMAIN z.items = 1 .. n
      /\ z.stored = y.stored /\ z.items[id].display = "temporary"
  BY <1>2, <1>4, ToTemporary DEF Kept, OnlyDisplay
<1> HIDE DEF z
<1>6. Len(z.items) = n
  <2> DEFINE m == Len(z.items)
  <2>1. m \in Nat /\ 1 .. m = 1 .. n
    BY <1>5, ItemIds
  <2> HIDE DEF m
  <2>2. m = n
    BY <1>1, <2>1
  <2> QED
    BY <2>2 DEF m
<1>7. /\ Sound(d) /\ d.failed = FALSE
      /\ d.keys = SwapAndDelete(c.keys, id)
      /\ d.stored = StoredAfterDelete(y.stored, id, n)
  BY <1>2, <1>3, <1>5, <1>6, DeleteTemporarySound DEF Deleted
<1>8. /\ KeysOK(d.keys, 1 .. (n - 1))
      /\ \A i \in 1 .. (n - 1) : d.keys[i] = (IF i = id THEN c.keys[n] ELSE c.keys[i])
  BY <1>1, <1>2, <1>7, KeysSwapped
<1>9. DOMAIN d.items = 1 .. (n - 1) /\ Ids(d) = 1 .. (n - 1)
  <2>1. KeysOK(d.keys, DOMAIN d.items) /\ Ids(d) = DOMAIN d.items
    BY <1>7, ItemIds DEF Sound, Shape
  <2> QED
    BY <1>8, <2>1 DEF KeysOK
<1>10. /\ Distinct(d.stored) /\ Len(d.stored) = Len(c.stored) - 1
       /\ Members(d.stored) = {New(j) : j \in M \ {id}}
  <2>1. id \notin Members(y.stored)
    BY <1>4
  <2>2. /\ Distinct(d.stored) /\ Len(d.stored) = Len(y.stored)
        /\ Members(d.stored) = {IF j = n THEN id ELSE j : j \in Members(y.stored)}
    BY <1>4, <1>7, <2>1, StoredRenamed
  <2> QED
    BY <1>4, <2>2
<1>11. \A j \in (1 .. n) \ {id} : New(j) \in 1 .. (n - 1) /\ d.keys[New(j)] = c.keys[j]
  BY <1>1, <1>2, <1>8
<1>12. \A i \in 1 .. (n - 1) : \E j \in (1 .. n) \ {id} : i = New(j)
  <2> SUFFICES ASSUME NEW i \in 1 .. (n - 1)
               PROVE  \E j \in (1 .. n) \ {id} : i = New(j)
    OBVIOUS
  <2>1. CASE i = id
    <3>1. n \in (1 .. n) \ {id} /\ i = New(n)
      BY <1>1, <2>1
    <3> QED
      BY <3>1
  <2>2. CASE i # id
    <3>1. i \in (1 .. n) \ {id} /\ i = New(i)
      BY <1>1, <2>2
    <3> QED
      BY <3>1
  <2> QED
    BY <2>1, <2>2
<1> HIDE DEF New
<1>13. Members(d.stored) \subseteq DOMAIN d.items
  BY <1>1, <1>9, <1>10, <1>11
<1>14. KeysOf(d, Members(d.stored)) = KeysOf(c, M \ {id})
  <2>1. \A j \in M \ {id} : d.keys[New(j)] = c.keys[j]
    BY <1>1, <1>11
  <2> QED
    BY <1>10, <2>1 DEF KeysOf
<1>15. KeyIndexSet(d) = KeyIndexSet(c) \ {c.keys[id]}
  <2>1. KeyIndexSet(d) = {c.keys[j] : j \in (1 .. n) \ {id}}
    BY <1>9, <1>11, <1>12 DEF KeyIndexSet
  <2>2. \A i, j \in 1 .. n : c.keys[i] = c.keys[j] => i = j
    BY <1>1 DEF KeysOK
  <2> QED
    BY <1>1, <1>2, <2>1, <2>2 DEF KeyIndexSet
<1>16. KeysOf(c, M) = KeysOf(c, M \ {id}) \cup {c.keys[id]}
  BY <1>2 DEF KeysOf
<1>17. RestOf(d) = RestOf(c)
  BY <1>14, <1>15, <1>16 DEF RestOf, M
<1> QED
  BY <1>7, <1>10, <1>13, <1>17 DEF Tracking

LEMMA DeletesJustThese ==
    ASSUME NEW c, Sound(c), ~c.failed, NEW s, Distinct(s), Members(s) \subseteq DOMAIN c.items
    PROVE  KeyIndexSet(DeleteAll(c, s)) = KeyIndexSet(c) \ KeysOf(c, Members(s))
<1>1. IsSeq(s) /\ Len(s) \in Nat
  BY DEF Distinct, IsSeq
<1>2. PICK run : /\ DeleteAll(c, s) = [run[Len(s)] EXCEPT !.stored = <<>>]
                 /\ ConsumeRounds(run, c, s, DeleteEdit)
  BY <1>1, ConsumeDeleteLoop DEF DeleteEdit
<1> DEFINE n == Len(s)
           c0 == [c EXCEPT !.stored = s]
           InvOf(x, i) == /\ Tracking(x) /\ Len(x.stored) = n - i
                          /\ RestOf(x) = RestOf(c0)
           P == {i \in 0 .. n : InvOf(run[i], i)}
<1>3. /\ c0.stored = s /\ c0.failed = c.failed /\ c0.items = c.items /\ c0.keys = c.keys
      /\ Sound(c0)
  BY StoredKeeps DEF Kept, Sound, Shape, Fields
<1>4. 0 \in P
  <2>1. run[0] = c0
    BY <1>2 DEF ConsumeRounds
  <2> HIDE DEF c0
  <2>2. InvOf(c0, 0)
    BY <1>1, <1>3 DEF Tracking
  <2> HIDE DEF InvOf
  <2> QED
    BY <1>1, <2>1, <2>2
<1>5. ASSUME NEW i \in 1 .. n, i - 1 \in P PROVE i \in P
  <2> DEFINE x == run[i - 1]
  <2>1. /\ Tracking(x) /\ Len(x.stored) = n - (i - 1) /\ RestOf(x) = RestOf(c0)
    BY <1>5
  <2>2. run[i] = ConsumeStep(x, DeleteEdit)
    BY <1>2 DEF ConsumeRounds
  <2> HIDE DEF x, c0
  <2>3. x.stored # <<>>
    BY <1>1, <2>1, EmptySeq
  <2>4. Tracking(run[i]) /\ Len(run[i].stored) = Len(x.stored) - 1 /\ RestOf(run[i]) = RestOf(x)
    BY <2>1, <2>2, <2>3, DeleteRound
  <2>5. Len(x.stored) - 1 = n - i /\ i \in 0 .. n
    BY <1>1, <2>1
  <2> QED
    BY <2>1, <2>4, <2>5
<1>6. P \in SUBSET (0 .. n)
  OBVIOUS
<1> HIDE DEF P, n, c0
<1>7. P = 0 .. n
  BY <1>1, <1>4, <1>5, <1>6, AllRounds DEF n
<1>8. n \in P
  BY <1>1, <1>7 DEF n
<1> DEFINE last == run[n]
<1>9. Tracking(last) /\ Len(last.stored) = n - n /\ RestOf(last) = RestOf(c0)
  BY <1>8 DEF P
<1> HIDE DEF last
<1>10. Members(last.stored) = {}
  BY <1>1, <1>9 DEF Members, n
<1>11. RestOf(last) = KeyIndexSet(last)
  BY <1>10 DEF RestOf, KeysOf
<1>12. KeyIndexSet(DeleteAll(c, s)) = KeyIndexSet(last)
  <2>1. DeleteAll(c, s) = [last EXCEPT !.stored = <<>>]
    BY <1>2 DEF last, n
  <2>2. DOMAIN last = Fields
    BY <1>9 DEF Tracking, Sound, Shape
  <2> QED
    BY <2>1, <2>2 DEF KeyIndexSet, Ids, Fields
<1>13. RestOf(c0) = KeyIndexSet(c) \ KeysOf(c, Members(s))
  BY <1>3 DEF RestOf, KeyIndexSet, KeysOf, Ids
<1> QED
  BY <1>9, <1>11, <1>12, <1>13

-----------------------------------------------------------------------------
(***************************************************************************)
(* The specification.                                                      *)
(***************************************************************************)

SoundInv == Sound(circuit)

\* The orders of a selection are sequences of its ids.
LEMMA OrderOf ==
    ASSUME NEW c, Sound(c), NEW ids, ids \subseteq DOMAIN c.items, NEW s \in SetToSeqs(ids)
    PROVE  IsSeq(s) /\ \A i \in 1 .. Len(s) : s[i] \in DOMAIN c.items
<1> DEFINE n == Cardinality(ids)
<1>1. Len(c.items) \in Nat /\ DOMAIN c.items = 1 .. Len(c.items)
  BY ItemIds
<1>2. IsFiniteSet(DOMAIN c.items)
  BY <1>1, FS_Interval
<1>3. n \in Nat
  BY <1>2, FS_Subset, FS_CardinalityType
<1>4. s \in [1 .. n -> ids]
  BY DEF SetToSeqs
<1> HIDE DEF n
<1>5. s = [i \in 1 .. n |-> s[i]] /\ \A i \in 1 .. n : s[i] \in ids
  BY <1>4
<1>6. IsSeq(s) /\ Len(s) = n
  BY <1>3, <1>5, Sequences
<1> QED
  BY <1>5, <1>6

LEMMA OrderOfSome ==
    ASSUME NEW ids, Sound(circuit), ids \subseteq DOMAIN circuit.items,
           NEW s \in Orders(ids)
    PROVE  IsSeq(s) /\ \A i \in 1 .. Len(s) : s[i] \in DOMAIN circuit.items
<1>1. PICK t \in SUBSET ids : s \in SetToSeqs(t)
  BY DEF Orders, SetToAllKPermutations
<1>2. t \subseteq DOMAIN circuit.items
  BY <1>1
<1> QED
  BY <1>1, <1>2, OrderOf

LEMMA LoadedIsSound == Init => SoundInv
<1> SUFFICES ASSUME NEW loaded \in Loaded, circuit = LoadedCircuit(loaded)
             PROVE  Sound(circuit)
  BY DEF Init, SoundInv
<1> DEFINE n == Len(loaded.items)
           items == [i \in DOMAIN loaded.items |-> LoadedItem(loaded.items[i])]
<1>1. /\ loaded.items \in Seq([def : Definition, position : 1 .. Cells])
      /\ IsInjective([i \in DOMAIN loaded.items |-> loaded.items[i].position])
  BY CircuitConstants
<1>2. n \in Nat /\ DOMAIN loaded.items = 1 .. n
  BY <1>1, SequenceOf
<1>3. \A i, j \in 1 .. n : loaded.items[i].position = loaded.items[j].position => i = j
  BY <1>1, <1>2 DEF IsInjective
<1> HIDE DEF n
<1>4. /\ items = [i \in 1 .. n |-> items[i]]
      /\ \A i \in 1 .. n : items[i] = LoadedItem(loaded.items[i])
  BY <1>2
<1>5. /\ DOMAIN circuit = Fields /\ circuit.items = items /\ circuit.initial = {}
      /\ circuit.operations = <<>> /\ circuit.cached = {} /\ circuit.failed = FALSE
      /\ circuit.keys = [i \in 1 .. n |-> i]
      /\ circuit.history = "track_undo_new" /\ circuit.undo = <<>> /\ circuit.redo = <<>>
  BY <1>2 DEF LoadedCircuit, Fields
<1> HIDE DEF items
<1>6. IsSeq(items) /\ Len(items) = n /\ DOMAIN items = 1 .. n
  BY <1>2, <1>4, Sequences
<1>7. \A i \in 1 .. n : ItemOK(items[i])
  BY <1>4 DEF LoadedItem, ItemOK, Display
<1>8. StackOK(<<>>)
  BY NoOperations DEF OperationsOK, StackOK
<1>9. Shape(circuit)
  <2> DEFINE keys == [i \in 1 .. n |-> i]
  <2>1. keys = [i \in 1 .. n |-> keys[i]] /\ DOMAIN keys = 1 .. n /\ \A i \in 1 .. n : keys[i] = i
    OBVIOUS
  <2>2. circuit.keys = keys
    BY <1>5
  <2> HIDE DEF keys
  <2>3. KeysOK(keys, 1 .. n)
    BY <1>2, <2>1, Sequences DEF KeysOK
  <2> QED
    BY <1>5, <1>6, <1>7, <1>8, <2>2, <2>3, NoOperations DEF Shape, ItemsOK
<1>10. Disjoint(items)
  BY <1>3, <1>4, <1>6 DEF Disjoint, LoadedItem
<1> QED
  BY <1>5, <1>9, <1>10 DEF Sound, CacheOK

LEMMA CallSound ==
    ASSUME NEW name, NEW c, Sound(c), Call(name, c)
    PROVE  SoundInv'
<1>1. Sound(ReadVisibleSelection(c))
  BY ReadSound
<1> QED
  BY <1>1 DEF Call, SoundInv

LEMMA NextSound == SoundInv /\ [Next]_circuit => SoundInv'
<1> SUFFICES ASSUME Sound(circuit), [Next]_circuit PROVE SoundInv'
  BY DEF SoundInv
<1>0. Ids(circuit) = DOMAIN circuit.items
  BY ItemIds
<1>1. ASSUME DoAddLogicItem PROVE SoundInv'
  BY <1>1, AddLogicItemSound, CallSound DEF DoAddLogicItem
<1>2. ASSUME DoChangeInsertionMode PROVE SoundInv'
  <2>1. PICK order \in Orders(Ids(circuit)), mode \in Mode :
          Call("change_insertion_mode", ChangeSelectionMode(circuit, order, mode))
    BY <1>2 DEF DoChangeInsertionMode
  <2>2. IsSeq(order)
    BY <1>0, OrderOfSome
  <2> QED
    BY <2>1, <2>2, SelectionEditsSound, CallSound
<1>3. ASSUME DoMoveOrDelete PROVE SoundInv'
  <2>1. PICK order \in Orders(Temporaries), delta \in {-1, 1} :
          Call("move_or_delete_temporary", MoveOrDeleteSelection(circuit, order, delta))
    BY <1>3 DEF DoMoveOrDelete
  <2>2. IsSeq(order)
    BY <1>0, OrderOfSome DEF Temporaries
  <2>3. delta \in Int
    OBVIOUS
  <2> QED
    BY <2>1, <2>2, <2>3, SelectionEditsSound, CallSound
<1>4. ASSUME DoMoveUnchecked PROVE SoundInv'
  <2>1. PICK order \in Orders(Temporaries), delta \in {-1, 1} :
          Call("move_temporary_unchecked", MoveSelectionUnchecked(circuit, order, delta))
    BY <1>4 DEF DoMoveUnchecked
  <2>2. IsSeq(order) /\ \A i \in 1 .. Len(order) : order[i] \in DOMAIN circuit.items
    BY <1>0, OrderOfSome DEF Temporaries
  <2>3. Sound(MoveSelectionUnchecked(circuit, order, delta))
    BY <2>2, MoveSelectionSound
  <2> QED
    BY <2>1, <2>3, CallSound
<1>5. ASSUME DoDeleteAll PROVE SoundInv'
  <2>1. PICK order \in Orders(Ids(circuit)) : Call("delete_all", DeleteAll(circuit, order))
    BY <1>5 DEF DoDeleteAll
  <2>2. IsSeq(order)
    BY <1>0, OrderOfSome
  <2> QED
    BY <2>1, <2>2, SelectionEditsSound, CallSound
<1>6. ASSUME DoToggleInverter PROVE SoundInv'
  BY <1>0, <1>6, ToggleInverterKeeps, CallSound DEF DoToggleInverter, Kept
<1>7. ASSUME DoSetAttributes PROVE SoundInv'
  BY <1>0, <1>7, SetAttributesKeeps, CallSound DEF DoSetAttributes, Kept
<1>8. ASSUME DoSetVisibleSelection PROVE SoundInv'
  BY <1>8, SetVisibleSelectionKeeps, CallSound DEF DoSetVisibleSelection, Kept
<1>9. ASSUME DoAddRect PROVE SoundInv'
  BY <1>9, AddRectKeeps, CallSound DEF DoAddRect, Kept
<1>10. ASSUME DoTryPopLast PROVE SoundInv'
  BY <1>10, PopLastKeeps, CallSound DEF DoTryPopLast, Kept
<1>11. ASSUME DoTryUpdateLast PROVE SoundInv'
  BY <1>11, UpdateLastKeeps, CallSound DEF DoTryUpdateLast, Kept
<1>12. ASSUME DoApplyAll PROVE SoundInv'
  <2>1. Sound(ApplyAllVisibleSelectionOperations(circuit))
    BY SetVisibleSelectionKeeps DEF ApplyAllVisibleSelectionOperations, Kept
  <2> QED
    BY <1>12, <2>1, CallSound DEF DoApplyAll
<1>13. ASSUME DoVisibleSelectionDeleteAll PROVE SoundInv'
  <2> DEFINE b == SetVisibleSelection(circuit, {})
  <2>1. PICK order \in SetToSeqs(VisibleSelection(circuit)) :
          Call("visible_selection_delete_all", DeleteAll(b, order))
    BY <1>13 DEF DoVisibleSelectionDeleteAll
  <2>2. VisibleSelection(circuit) \subseteq DOMAIN circuit.items
    BY ReadSound, SelectionWithin
  <2>3. IsSeq(order)
    BY <2>1, <2>2, OrderOf
  <2>4. Sound(b)
    BY SetVisibleSelectionKeeps DEF Kept
  <2> HIDE DEF b
  <2> QED
    BY <2>1, <2>3, <2>4, SelectionEditsSound, CallSound
<1>14. ASSUME DoChangeSettingAttributes PROVE SoundInv'
  BY <1>0, <1>14, ChangeSettingSound, CallSound DEF DoChangeSettingAttributes
<1>15. ASSUME DoFinishUndoGroup PROVE SoundInv'
  BY <1>15, FinishUndoGroupSound, CallSound DEF DoFinishUndoGroup
<1>16. ASSUME DoUndoGroup PROVE SoundInv'
  <2>1. Sound(UndoGroup(circuit))
    BY FinishUndoGroupSound, ReplayStackSound, Zenon DEF UndoGroup
  <2> QED
    BY <1>16, <2>1, CallSound DEF DoUndoGroup
<1>17. ASSUME DoRedoGroup PROVE SoundInv'
  <2>1. Sound(RedoGroup(circuit))
    BY ReplayStackSound, Zenon DEF RedoGroup
  <2> QED
    BY <1>17, <2>1, CallSound DEF DoRedoGroup
<1>18. ASSUME UNCHANGED circuit PROVE SoundInv'
  BY <1>18 DEF SoundInv
<1> QED
  BY <1>1, <1>2, <1>3, <1>4, <1>5, <1>6, <1>7, <1>8, <1>9, <1>10, <1>11, <1>12, <1>13,
     <1>14, <1>15, <1>16, <1>17, <1>18 DEF Next, Edit

\* Every circuit that the program reaches is sound: ids and keys match, inserted items
\* are apart, what is cached is current, and the stacks hold entries that undo knows.
THEOREM CircuitIsSound == Spec => []SoundInv
<1>1. Init => SoundInv
  BY LoadedIsSound
<1>2. SoundInv /\ [Next]_circuit => SoundInv'
  BY NextSound
<1> QED
  BY <1>1, <1>2, PTL DEF Spec

\* Inserted items never overlap, whatever was edited, undone and redone in between:
\* an item becomes inserted only where no other is (is_logicitem_colliding).
THEOREM InsertedItemsApart == Spec => []InsertedDisjoint
<1>1. SoundInv => InsertedDisjoint
  <2> SUFFICES ASSUME Sound(circuit)
               PROVE  InsertedDisjoint
    BY DEF SoundInv
  <2>1. Ids(circuit) = DOMAIN circuit.items
    BY ItemIds
  <2> QED
    BY <2>1 DEF InsertedDisjoint, IsInjective, Sound, Disjoint
<1> QED
  BY <1>1, CircuitIsSound, PTL

\* The cached selection is what would be calculated now: every edit that changes what
\* the rectangles select drops it (the assertion of VisibleSelection::selection).
THEOREM CachedSelectionCurrent == Spec => []CacheIsCurrent
<1>1. SoundInv => CacheIsCurrent
  BY DEF SoundInv, Sound, CacheOK, CacheIsCurrent
<1> QED
  BY <1>1, CircuitIsSound, PTL

\* An order of a selection is a sequence of all its ids, each of them once.
LEMMA OrderDistinct ==
    ASSUME Sound(circuit), NEW s \in SetToAllKPermutations(Ids(circuit))
    PROVE  /\ Distinct(s) /\ Range(s) = Members(s)
           /\ Members(s) \subseteq DOMAIN circuit.items
<1>1. PICK ids \in SUBSET DOMAIN circuit.items : s \in SetToSeqs(ids)
  BY ItemIds DEF SetToAllKPermutations
<1> DEFINE n == Cardinality(ids)
<1>2. IsSeq(s) /\ \A i \in 1 .. Len(s) : s[i] \in DOMAIN circuit.items
  BY <1>1, OrderOf
<1>3. s \in [1 .. n -> ids] /\ \A i, j \in 1 .. n : i # j => s[i] # s[j]
  BY <1>1 DEF SetToSeqs
<1> HIDE DEF n
<1>4. DOMAIN s = 1 .. n /\ DOMAIN s = 1 .. Len(s)
  BY <1>2, <1>3 DEF IsSeq
<1>5. Distinct(s)
  BY <1>2, <1>3, <1>4 DEF Distinct
<1> QED
  BY <1>2, <1>4, <1>5 DEF Members, Range
==============================================================================
