------------------------------ MODULE MCJournal ------------------------------
(***************************************************************************)
(* Instances for TLC of the journal's server and its page.  A behaviour is  *)
(* the server alone, with recomputes that overlap, fail and are cut off; or *)
(* a reader's visit to a server that has been up for a while.  A scene is   *)
(* the smallest in which one hazard can happen.                             *)
(***************************************************************************)
EXTENDS JournalClient

VARIABLES
  part      \* "server" or "page"

vars == <<part, crossed, journalVars>>

Scene(written, triggers, overlap, inputs, faults, restarts) ==
  [written |-> written, triggers |-> triggers, overlap |-> overlap,
   left |-> [inputs |-> inputs, faults |-> faults, restarts |-> restarts]]

Visit(pages, first, last, hops, faults, drops) ==
  [pages |-> pages, first |-> first, last |-> last,
   hops |-> hops, faults |-> faults, drops |-> drops]

-----------------------------------------------------------------------------
(* The server alone: a day first written beside a failure and a restart;     *)
(* three reads of the disk at once, of a day written again, beside either.   *)

MCPreviewScenes ==
  {Scene({1}, {"sync", "pass", "read"}, 2, {2}, 1, 1),
   Scene({1}, {"sync", "pass", "read"}, 3, {1}, 1, 0),
   Scene({1}, {"sync", "pass", "read"}, 3, {1}, 0, 1)}

-----------------------------------------------------------------------------
(* Visits.  The table and the pages that replace it, while a day above, at   *)
(* or below the top of the list is written; the modals of two days; a day    *)
(* being written, left or watched across a restart and a dropped stream; a   *)
(* list whose memo expires; a list across a boot from an older snapshot.     *)

Tables == {To("list"), To("places"), To("search")}
Modals(days) == {To("list")} \cup {ToDay(d) : d \in days}

Visiting(written, triggers, inputs, restarts, visited) ==
  [server |-> Scene(written, triggers, 1, inputs, 0, restarts), page |-> visited]

MCVisits ==
  {Visiting({1, 2}, {"sync"}, {3}, 0, Visit({To("list"), To("places")}, 2, 3, 2, 0, 0)),
   Visiting({1, 2}, {"sync"}, {2}, 0, Visit({To("list"), To("places")}, 2, 2, 2, 1, 0)),
   Visiting({1, 2}, {"sync"}, {1}, 0, Visit(Tables, 2, 2, 1, 1, 0)),
   Visiting({2}, {}, {}, 0, Visit(Modals({1, 2}), 2, 2, 2, 0, 0)),
   Visiting({2}, {}, {}, 0, Visit(Modals({1, 2}), 2, 2, 1, 1, 0)),
   Visiting({}, {}, {1}, 0, Visit(Modals({1}), 1, 1, 1, 0, 0)),
   Visiting({}, {}, {1}, 1, Visit({ToDay(1)}, 1, 1, 0, 0, 1)),
   Visiting({1}, {"read"}, {1}, 0, Visit({To("list")}, 1, 1, 0, 0, 0)),
   [server |-> Scene({1, 2}, {"sync"}, 2, {3}, 0, 1),
    page |-> Visit({To("list")}, 3, 3, 0, 0, 0)]}

MCPageVisits == {v.page : v \in MCVisits}
MCServerScenes == MCPreviewScenes \cup {v.server : v \in MCVisits}

\* No page has loaded.
NoPage == Visit({To("list")}, 1, 1, 0, 0, 0)

MCInit ==
  /\ crossed = FALSE
  /\ \/ part = "server" /\ (\E s \in MCPreviewScenes : PreviewsStart(s)) /\ ClientStart(NoPage)
     \/ part = "page" /\ \E v \in MCVisits : WarmStart(v.server) /\ ClientStart(v.page)

MCNext ==
  /\ \/ part = "server" /\ PreviewsNext /\ UNCHANGED clientVars
     \/ part = "page" /\ JournalNext
  /\ Crossing
  /\ UNCHANGED part

\* JournalFairness, of a page that there is.
MCFairness ==
  /\ PreviewsFairness
  /\ WF_journalVars(part = "page" /\ HashChange)
  /\ WF_journalVars(part = "page" /\ CloseEvent)
  /\ \A ask \in Asks : WF_journalVars(part = "page" /\ Answered(ask))
  /\ WF_journalVars(part = "page" /\ Connect)
  /\ WF_journalVars(part = "page" /\ DayEvent)

MCSpec == MCInit /\ [][MCNext]_vars /\ MCFairness

==============================================================================
