-------------------------- MODULE SimulationHistory --------------------------
(***************************************************************************)
(* The view of the recorded transitions that wires are drawn from:         *)
(* core/component/simulation/history_view.cpp, history_calculation.cpp,    *)
(* history_iterator.cpp, history_entry.cpp, and Simulation::input_history. *)
(*                                                                         *)
(* The buffer holds transition times only; the values follow from the      *)
(* value now and the number of transitions since.  `wave` is a history     *)
(* variable: the waveform as far back as the history reaches, that the     *)
(* program does not keep.                                                  *)
(***************************************************************************)
EXTENDS Simulation

VARIABLE wave     \* wave[e][t]: the value of e's first input at time t

wvars == <<vars, wave>>

Recorded == {e \in Element : HistoryLength[e] > 0 /\ InputCount[e] > 0}

LastValue(e) == input[<<e, 0>>] # Inverted[<<e, 0>>]

InitH == Init /\ wave = [e \in Recorded |-> [t \in {0} |-> LastValue(e)]]

NextH ==
    /\ Next
    /\ wave' = [e \in Recorded |->
          [t \in {u \in 0 .. time' : u >= time' - HistoryLength[e]} |->
              IF t < time THEN wave[e][t] ELSE LastValue(e)']]

SpecH == InitH /\ [][NextH]_wvars

-----------------------------------------------------------------------------
\* Indices count from 0 as in the code: entry k ends at the k-th transition,
\* entry Len(history[e]) is the one that lasts until now.

\* Fault: a lower bound instead of an upper bound.
FindIndexLower(e, t, minIndex) ==
    CHOOSE k \in minIndex .. Len(history[e]) :
        /\ k = Len(history[e]) \/ history[e][k + 1] >= t
        /\ \A i \in minIndex .. (k - 1) : history[e][i + 1] < t

\* find_index_extrapolated: the first entry that ends after `t`
FindIndex(e, t, minIndex) ==
    CHOOSE k \in minIndex .. Len(history[e]) :
        /\ k = Len(history[e]) \/ history[e][k + 1] > t
        /\ \A i \in minIndex .. (k - 1) : history[e][i + 1] <= t

\* calculate_min_index
MinIndex(e) == FindIndex(e, time - HistoryLength[e], 0)

\* time_t::min()
TimeMin == -1000

\* get_time_extrapolated
EntryTime(e, k) ==
    IF k < MinIndex(e) THEN TimeMin
    ELSE IF k >= Len(history[e]) THEN time
    ELSE history[e][k + 1]

\* get_value_extrapolated
EntryValue(e, k) == ((Len(history[e]) - k) % 2 = 1) # LastValue(e)

\* Fault: the entry at the end of the stretch is not left out.
UntilInclusive(e, t) == FindIndex(e, t, MinIndex(e)) + 1

\* HistoryView::value, and the iterators from, until, begin and end
ViewValue(e, t) == EntryValue(e, FindIndex(e, t, MinIndex(e)))
From(e, t)      == FindIndex(e, t, MinIndex(e))
Until(e, t)     == FindIndex(e, t - Epsilon, MinIndex(e)) + 1
Begin(e)        == MinIndex(e)
End(e)          == MinIndex(e) + (Len(history[e]) + 1 - MinIndex(e))

\* HistoryIterator::operator*: the constructor of the entry throws otherwise
EntryValid(e, k) == EntryTime(e, k - 1) < EntryTime(e, k)

\* Every view taken from the simulation between two calls.
Viewed == IF pc = "idle" /\ error = "none" THEN Recorded ELSE {}

-----------------------------------------------------------------------------
\* The view gives the value the input had, at every time the history covers,
\* although old transitions are dropped and values are never stored
\* (record_input_history, shrink_history, HistoryView::value).
ViewShowsWave ==
    \A e \in Viewed : \A t \in 0 .. time :
        t >= time - HistoryLength[e] => ViewValue(e, t) = wave[e][t]

\* Drawing a stretch of a wire dereferences the iterators from(t) to until(u)
\* (render_wire.cpp:130).  No entry of it is empty, and together the entries
\* cover the stretch from t to u without a gap.
DrawnEntriesValid ==
    \A e \in Viewed : \A t, u \in 0 .. time :
        (t < u /\ t >= time - HistoryLength[e]) =>
            /\ From(e, t) < Until(e, u)
            /\ \A k \in From(e, t) .. (Until(e, u) - 1) : EntryValid(e, k)
            /\ EntryTime(e, From(e, t) - 1) <= t
            /\ EntryTime(e, Until(e, u) - 1) >= u

\* Iterating a view from begin to end, as Simulation::format does, meets no
\* empty entry: "first_time < last_time" (history_entry.h:18).
IteratedEntriesValid ==
    \A e \in Viewed : \A k \in Begin(e) .. (End(e) - 1) : EntryValid(e, k)
=============================================================================
