----------------------------- MODULE QueueReader -----------------------------
(***************************************************************************)
(* CamoufoxPortalReader.read_agreement_queue(): the queue is a paginated   *)
(* table that other people change while its pages are read one by one.     *)
(* What a poll calls COMPLETE, PARTIAL, AUTH_REQUIRED or FAILED, and the   *)
(* rows that come with it, are decided here; DossierSync takes the outcome *)
(* as its input (ReadViews).                                               *)
(*                                                                         *)
(* The portal is external: it renders a page from the list as it is at     *)
(* that moment, and a page past the last one empty or not at all (the      *)
(* transition then times out).  The "next" control tells whether pages     *)
(* follow the one rendered.                                                *)
(***************************************************************************)
EXTENDS Naturals, FiniteSets, SequencesExt

CONSTANTS
  Records,   \* record ids
  PageSize,  \* rows per page
  MaxMoves   \* bound: records that enter or leave the portal's list

ASSUME RecordsAssumption == IsFiniteSet(Records)
ASSUME PageSizeAssumption == PageSize \in Nat \ {0}
ASSUME MovesAssumption == MaxMoves \in Nat

VARIABLES
  list,    \* the portal: the filtered records, in the order it shows them
  reader,  \* locals of read_agreement_queue and the rendered page
  result,  \* what the latest read returned or raised
  hist,    \* history of the read: records listed throughout, departures, moves
  moves

vars == <<list, reader, result, hist, moves>>

PollStatus == {"COMPLETE", "PARTIAL", "AUTH_REQUIRED", "FAILED"}

\* page: pages collected, of total; last: rows of the latest, which is also
\* the one rendered; rows: all of them; more: its "next" control is enabled.
Resting == [pc |-> "idle", total |-> 0, page |-> 0, last |-> {}, rows |-> {},
            more |-> FALSE]

NoHistory == [whole |-> {}, gone |-> 0, moved |-> FALSE]

\* The rows the portal renders on page n, whether pages follow it, and how many
\* there are: parse_page_count answers 1 when no selector is shown.
Page(n) == {list[i] : i \in DOMAIN list \cap ((n - 1) * PageSize + 1)..(n * PageSize)}
PagesAfter(n) == Len(list) > n * PageSize
PageCount == IF list = <<>> THEN 1 ELSE (Len(list) - 1) \div PageSize + 1

Lists == {s \in SeqOf(Records, Cardinality(Records)) : IsInjective(s)}

Init ==
  /\ list \in Lists
  /\ reader = Resting /\ hist = NoHistory
  /\ result = [status |-> "FAILED", rows |-> {}]
  /\ moves = 0

Ends(status, rows) ==
  /\ result' = [status |-> status, rows |-> rows]
  /\ reader' = Resting
-----------------------------------------------------------------------------
\* Navigation, the "Garage agree" filter, the search, then page 1.
ReadFirstPage ==
  /\ reader.pc = "idle"
  /\ reader' = [pc |-> "reading", total |-> PageCount, page |-> 1, last |-> Page(1),
                rows |-> Page(1), more |-> PagesAfter(1)]
  /\ hist' = [NoHistory EXCEPT !.whole = ToSet(list)]
  /\ UNCHANGED <<list, result, moves>>

\* Before page 1 is collected: the login screen, or any other failure.
ReadNothing(status) ==
  /\ reader.pc = "idle" /\ status \in {"AUTH_REQUIRED", "FAILED"}
  /\ Ends(status, {})
  /\ hist' = NoHistory
  /\ UNCHANGED <<list, moves>>

\* Slip: the check of the row ids is left out.
StaleNever(content) == FALSE

\* _StalePageResultError: the same rows as the page before.
Stale(content) == content # {} /\ content = reader.last

\* _PAGE_TRANSITION_JS: both selectors show page n (they follow the rows) and
\* the rows differ from those before.
Transition(n) == Page(n) # reader.last

\* merge_snapshots: a record listed on two pages is one row.
Merged(content) == reader.rows \cup content

\* _go_to_page returns once the transition is seen; the content taken after
\* that may still be the old table's.
ReadNextPage ==
  /\ reader.pc = "reading" /\ reader.page < reader.total
  /\ LET n == reader.page + 1
     IN  /\ Transition(n)
         /\ \E content \in {Page(n), reader.last} :
              IF Stale(content) THEN Ends("PARTIAL", reader.rows)
              ELSE /\ reader' = [reader EXCEPT !.page = n, !.last = content,
                                   !.rows = Merged(content), !.more = PagesAfter(n)]
                   /\ UNCHANGED result
  /\ UNCHANGED <<list, hist, moves>>

\* The page transition times out (always, when the rows do not change), the
\* markup is not the expected one, the browser fails.
Interrupted ==
  /\ reader.pc = "reading"
  /\ Ends("PARTIAL", reader.rows)
  /\ UNCHANGED <<list, hist, moves>>

\* PortalAuthRequiredError passes through: the pages read are dropped.
AuthLost ==
  /\ reader.pc = "reading" /\ reader.page < reader.total
  /\ Ends("AUTH_REQUIRED", {})
  /\ UNCHANGED <<list, hist, moves>>

\* Slip: the page count of page 1 is trusted.
LastPageTrusted ==
  /\ reader.pc = "reading" /\ reader.page = reader.total
  /\ Ends("COMPLETE", reader.rows)
  /\ UNCHANGED <<list, hist, moves>>

\* _verify_last_page_reached, on the page rendered last.
LastPageReached ==
  /\ reader.pc = "reading" /\ reader.page = reader.total
  /\ Ends(IF reader.more THEN "PARTIAL" ELSE "COMPLETE", reader.rows)
  /\ UNCHANGED <<list, hist, moves>>
-----------------------------------------------------------------------------
(* The portal's users.                                                     *)

Moves(newList, departures) ==
  /\ moves < MaxMoves /\ moves' = moves + 1
  /\ list' = newList
  /\ hist' = IF reader.pc = "reading"
             THEN [whole |-> hist.whole \cap ToSet(newList), moved |-> TRUE,
                   gone |-> hist.gone + departures]
             ELSE hist
  /\ UNCHANGED <<reader, result>>

Arrives(r, i) == r \notin ToSet(list) /\ Moves(InsertAt(list, i, r), 0)
Leaves(i) == Moves(RemoveAt(list, i), 1)

Next ==
  \/ ReadFirstPage \/ ReadNextPage \/ Interrupted \/ AuthLost \/ LastPageReached
  \/ \E status \in {"AUTH_REQUIRED", "FAILED"} : ReadNothing(status)
  \/ \E r \in Records, i \in 1..Len(list) + 1 : Arrives(r, i)
  \/ \E i \in DOMAIN list : Leaves(i)

Spec == Init /\ [][Next]_vars
-----------------------------------------------------------------------------
\* Types; only a usable result carries rows.
TypeOK ==
  /\ list \in Seq(Records) /\ IsInjective(list)
  /\ reader.pc \in {"idle", "reading"} /\ reader.page \in 0..reader.total
  /\ reader.last \subseteq reader.rows /\ reader.rows \subseteq Records
  /\ result.status \in PollStatus /\ result.rows \subseteq Records
  /\ result.status \in {"AUTH_REQUIRED", "FAILED"} => result.rows = {}
  /\ hist.whole \subseteq Records /\ moves \in 0..MaxMoves

Completed == reader.pc = "idle" /\ result.status = "COMPLETE"

\* A COMPLETE result of a list that stood still is that list: no page is read
\* twice in place of another.
ExactWhenQuiet == Completed /\ ~hist.moved => result.rows = hist.whole

\* A COMPLETE result misses at most as many of the records that stayed listed
\* as records left while it was read: arrivals, which push rows to later pages
\* and may add one, hide nothing.  It is what the check of the "next" control
\* after the last page is for.
OnlyDeparturesHide ==
  Completed => Cardinality(hist.whole \ result.rows) <= hist.gone

\* docs/architecture.md: a poll "reads the full queue".  A record that leaves
\* an already read page moves the first row of the next page into it: that
\* row is never read and the result is COMPLETE all the same.
CompleteIsWhole == Completed => hist.whole \subseteq result.rows
=============================================================================
