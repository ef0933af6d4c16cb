---------------------------- MODULE DeliveryRows ----------------------------
(***************************************************************************)
(* The rows a difference reads from the log of UpdateLog: sets of entries, *)
(* each with its place in the list the handler iterates over.              *)
(***************************************************************************)
EXTENDS UpdateLog

\* What a handler keeps of a delivery row; at is its place in the list, the
\* row's pts and insertion order when the rows were read.
Entry(k, at) == [key |-> k, pts |-> row[k].pts, seq |-> row[k].seq,
                 ready |-> row[k].payload # 0, at |-> at]
Before(e, f) == e.at[1] < f.at[1] \/ (e.at[1] = f.at[1] /\ e.at[2] < f.at[2])
FirstOf(S, n) == {e \in S : Cardinality({f \in S : Before(f, e)}) < n}
Head1(S) == CHOOSE e \in S : \A f \in S : ~Before(f, e)
Last1(S) == CHOOSE e \in S : \A f \in S : ~Before(e, f)

\* Mutant of RowsAfter: rows at the given pts are read again.
RowsFrom(s, pts) ==
    {Entry(k, <<row[k].pts, row[k].seq>>) :
        k \in {j \in Keys : row[j] # NoRow /\ Scope[j] = s /\ row[j].pts >= pts}}

\* getUpdateDeliveriesAfter: the rows of a scope behind pts.
RowsAfter(s, pts) ==
    {Entry(k, <<row[k].pts, row[k].seq>>) :
        k \in {j \in Keys : row[j] # NoRow /\ Scope[j] = s /\ row[j].pts > pts}}

\* An update of the log, and a scope's finished updates that take pts.
Named(k, pts) == [name |-> k, pts |-> pts]
FinishedIn(s) ==
    {Named(k, row[k].pts) : k \in {j \in Keys : /\ row[j] # NoRow /\ Scope[j] = s
                                                /\ row[j].payload # 0 /\ PtsCount[j] > 0}}

\* Mutant of ReadyPrefix: rows without a payload are passed over.
ReadyRows(kept) == {e \in kept : e.ready}

\* The rows before the first one without a payload.
ReadyPrefix(kept) ==
    {e \in kept : e.ready /\ \A f \in kept : Before(f, e) => f.ready}
=============================================================================
