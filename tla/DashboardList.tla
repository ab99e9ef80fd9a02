---------------------------- MODULE DashboardList ----------------------------
(***************************************************************************)
(* The list of a dashboard (filter_and_sort), and how the counts above it  *)
(* agree with it.                                                          *)
(***************************************************************************)
EXTENDS Dashboard, Integers, Sequences, Functions

CONSTANT AnyStatus  \* no filter

ASSUME DossiersAssumption == IsFiniteSet(Records)
ASSUME AnyStatusAssumption == AnyStatus \notin WorkStatuses

\* A filter of the form.  The search and the status in OmegaFlow select
\* dossiers by what is known of them: any set of dossiers.
Filters == [search : SUBSET Records, unread_only : BOOLEAN,
            work_status : WorkStatuses \cup {AnyStatus}]
NoFilter == [search |-> Records, unread_only |-> FALSE, work_status |-> AnyStatus]

Matches(u, f, r) ==
  /\ r \in f.search
  /\ f.unread_only => Unread(u, r)
  /\ f.work_status # AnyStatus => Status(r) = f.work_status

\* Slip: a missing date is the latest of all.
EpochOrInfinity(date) == IF date = 0 THEN MaxDate + 1 ELSE date

\* _epoch: a missing date is the earliest of all.
Epoch(date) == IF date = 0 THEN -1 ELSE date

SortKey(u) == [r \in Records |->
  <<IF Unread(u, r) THEN 0 ELSE 1, -Epoch(quote[r]), -detected[r]>>]

\* Tuples compare by their first difference.
Smaller(k, l) == \E i \in 1..3 : k[i] < l[i] /\ \A j \in 1..(i - 1) : k[j] = l[j]

\* The orders in which the database may return the rows: the SELECT asks for none.
Orders == {o \in [Records -> 1..Cardinality(Records)] : IsInjective(o)}

\* sorted() is stable: rows with equal keys stay as the database returned them.
Before(order, key, r, s) ==
  Smaller(key[r], key[s]) \/ (key[r] = key[s] /\ order[r] < order[s])

\* Each row is one position further down than there are rows before it.
Sorted(rows, order, key) ==
  LET position == [r \in rows |-> 1 + Cardinality({s \in rows : Before(order, key, s, r)})]
  IN  [i \in 1..Cardinality(rows) |-> CHOOSE r \in rows : position[r] = i]

Filtered(u, f) == {r \in Listed : Matches(u, f, r)}

FilterAndSort(u, f, order) == Sorted(Filtered(u, f), order, SortKey(u))
-----------------------------------------------------------------------------
\* What an employee has not opened is at the top; below each other, a quote
\* sent later comes first, a dossier without a quote date last, and among
\* equals the one detected later.  No dossier is listed twice or left out.
OrderIsAsPromised == \A u \in Users, order \in Orders :
  \A rows \in {Filtered(u, f) : f \in Filters} :
  LET list == Sorted(rows, order, SortKey(u))
  IN  /\ Range(list) = rows /\ IsInjective(list)
      /\ \A i, j \in 1..Len(list) :
           LET a == list[i]
               b == list[j]
               alike == a \in news[u] <=> b \in news[u]
           IN  i < j =>
                 /\ b \in news[u] => a \in news[u]
                 /\ alike /\ quote[b] # 0 => quote[a] >= quote[b]
                 /\ alike /\ quote[a] = quote[b] => detected[a] >= detected[b]

\* Each count is the length of the list behind its filter, and every dossier
\* is in the list of exactly one status, whether or not anybody has worked on
\* it: nothing is missing from the counts, nothing counted twice.
CountsAgree == \A u \in Users, order \in Orders :
  LET unread == FilterAndSort(u, [NoFilter EXCEPT !.unread_only = TRUE], order)
      ofStatus == [s \in WorkStatuses |->
                     FilterAndSort(u, [NoFilter EXCEPT !.work_status = s], order)]
  IN  /\ NewForMe(u) = Len(unread)
      /\ \A s \in WorkStatuses : CountOf(s) = Len(ofStatus[s])
      /\ \A r \in Listed : \E s \in WorkStatuses :
           \A t \in WorkStatuses : r \in Range(ofStatus[t]) <=> t = s
=============================================================================
