---------------------------- MODULE JournalClient ----------------------------
(***************************************************************************)
(* The journal's page in the browser (lib/lifelog/client.ts) over the RPCs  *)
(* of JournalRpc.ts: hash routes, a table of days that grows by pages as it  *)
(* is scrolled, a day shown in a modal over it, and live day updates.        *)
(*                                                                         *)
(* The page is one thread: what runs between two awaits is one step.  A      *)
(* route's fiber is never interrupted, so several calls are in flight, each  *)
(* answered by the server at one moment and handled by the page at a later   *)
(* one, in any order; only the page of rows under way is cancelled.          *)
(*                                                                         *)
(* Abstractions.  A row is its day and the edition its report was made of.   *)
(* How far the reader has scrolled is any position.  Status, the events      *)
(* sheet, the words of a search and the editing of places are left out: of   *)
(* the places and search pages the model keeps when they are mounted.        *)
(***************************************************************************)
EXTENDS DayPreviews

CONSTANTS
  PageSize,   \* PAGE_SIZE
  Visits      \* what the reader may do (see `visit`)

\* Routes.
To(page) == [page |-> page, day |-> 0]
ToDay(d) == [page |-> "day", day |-> d]

Routes == {To("list"), To("places"), To("search")} \cup {ToDay(d) : d \in Days}

ASSUME ClientAssumption ==
  /\ PageSize \in Nat \ {0}
  /\ \A v \in Visits :
       /\ v.pages \subseteq Routes
       /\ v.first <= v.last /\ {v.first, v.last} \cup v.first..v.last \subseteq Days
       /\ {v.hops, v.faults, v.drops} \subseteq Nat

VARIABLES
  hash,    \* location.hash
  moved,   \* hashchange events not handled yet
  closing, \* a close event of the day's dialog not handled yet
  view,    \* what is mounted, the modal, the table's window
  calls,   \* the bag of RPCs and timers of the page under way
  today,   \* the viewer's civil day
  stream,  \* the event stream is connected
  feed,    \* day updates sent over it and not handled yet
  tries,   \* the reader's moves, failed calls and dropped streams so far
  visit    \* the routes the reader may take, the first and the last of the
           \* viewer's days, and bounds on what `tries` counts

clientVars == <<hash, moved, closing, view, calls, today, stream, feed, tries, visit>>
journalVars == <<previewVars, clientVars>>

\* What the body of the modal shows of the report.
Loading == -2
Writing == -1
Nothing == 0

\* A call: the day it is for, the offset or limit and the generation of the
\* table, the report rendered so far, whether a failure is shown, whether the
\* day is looked at again, the route its timer was set at, and the answer.
Call(ask) ==
  [ask |-> ask, day |-> 0, at |-> 0, gen |-> 0, report |-> Loading,
   caught |-> TRUE, poll |-> FALSE, route |-> To("list"), served |-> FALSE, rows |-> <<>>]

\* The page and its calls, as the synchronous code between two awaits sees
\* and leaves them.
Page == [view |-> view, calls |-> calls]

\* The page without the call it is about to handle.
Without(c) == [Page EXCEPT !.calls = @ (-) SetToBag({c})]

Asked(p, call) == [p EXCEPT !.calls = @ (+) SetToBag({call})]

PageInFlight(cs) == \E c \in BagToSet(cs) : c.ask = "page"

-----------------------------------------------------------------------------
(* The table. *)

\* cancelPage: the page under way is interrupted.
Cancelled(p) ==
  [view  |-> [p.view EXCEPT !.generation = @ + 1],
   calls |-> Restrict(p.calls, {c \in BagToSet(p.calls) : c.ask # "page"})]

\* rows: the viewer's today, real or a placeholder, and the window's earlier
\* days.  view.top is the today the rows were reconciled with, 0 without rows.
RowDays(v) ==
  IF v.top = 0 THEN {}
  ELSE {v.top} \cup {v.source[i].day : i \in {k \in DOMAIN v.source : v.source[k].day < v.top}}

\* The report a row embeds: of the last copy of its day in the window.
Embedded(v, d) ==
  LET copies == {i \in DOMAIN v.source : v.source[i].day = d}
  IN IF d \in RowDays(v) /\ copies # {}
     THEN v.source[CHOOSE i \in copies : \A j \in copies : j <= i].edition
     ELSE 0

Reconciled(v) == [v EXCEPT !.top = today]

\* A bug's version: a page under way is not looked at.
PageLoadedAnyway(p) ==
  IF p.view.exhausted THEN p
  ELSE Asked(p, [Call("page") EXCEPT !.at = Len(p.view.source), !.gen = p.view.generation])

\* A bug's version: the row made up for today is counted in the offset.
PageLoadedPastToday(p) ==
  IF PageInFlight(p.calls) \/ p.view.exhausted THEN p
  ELSE Asked(p, [Call("page") EXCEPT !.at = Len(p.view.source) + (IF p.view.top = 0 THEN 0 ELSE 1),
                                     !.gen = p.view.generation])

\* loadPage
PageLoaded(p) ==
  IF PageInFlight(p.calls) \/ p.view.exhausted THEN p
  ELSE Asked(p, [Call("page") EXCEPT !.at = Len(p.view.source), !.gen = p.view.generation])

\* paintWindow: near the loaded tail the next page is asked for.  The end of
\* the window is past the first row, so a short table is always near it.
Painted(p, near) ==
  IF p.view.table /\ p.view.top # 0
     /\ (near \/ Cardinality(RowDays(p.view)) <= PageSize)
  THEN PageLoaded(p)
  ELSE p

\* A bug's version: what the last table had exhausted is not forgotten.
TabledStillExhausted(p) ==
  LET q == Cancelled(p)
  IN PageLoaded([q EXCEPT !.view = [@ EXCEPT !.mount = "list", !.table = TRUE,
                                             !.source = <<>>, !.top = 0]])

\* showTable
Tabled(p) ==
  LET q == Cancelled(p)
  IN PageLoaded([q EXCEPT !.view = [@ EXCEPT !.mount = "list", !.table = TRUE,
                                             !.source = <<>>, !.top = 0,
                                             !.exhausted = FALSE]])

\* refreshLoadedRows
Refetched(p) ==
  IF p.view.source = <<>> THEN p
  ELSE Asked(p, [Call("refetch") EXCEPT !.at = Len(p.view.source), !.gen = p.view.generation])

-----------------------------------------------------------------------------
(* Routes. *)

Shut(p) == [p EXCEPT !.view.modal.open = FALSE]

\* showPlaces, showSearch: another page replaces the table.
Replaced(p, page) ==
  LET q == Cancelled(p)
  IN Asked([q EXCEPT !.view = [@ EXCEPT !.mount = page, !.table = FALSE]], Call(page))

\* showDay: the modal opens over the table; a row's embedded report is shown
\* at once, any other day's journal is asked for.
Opened(p, d, caught) ==
  LET q == IF p.view.table THEN p ELSE Tabled(p)
      known == Embedded(q.view, d)
      body == IF known > 0 THEN known ELSE Loading
  IN Asked([q EXCEPT !.view.modal = [open |-> TRUE, title |-> d, day |-> d, report |-> body]],
           [Call(IF known > 0 THEN "transcripts" ELSE "journal") EXCEPT
              !.day = d, !.report = body, !.caught = caught])

\* loadRoute
Routed(p) ==
  CASE hash.page \in {"places", "search"} -> Replaced(Shut(p), hash.page)
    [] hash.page = "list" -> IF p.view.table THEN Shut(p) ELSE Tabled(Shut(p))
    [] hash.page = "day"  -> Opened(p, hash.day, TRUE)

\* closeModal of an open dialog queues its close event.
ClosesModal == hash.page # "day" /\ view.modal.open

Becomes(p) == view' = p.view /\ calls' = p.calls

-----------------------------------------------------------------------------
(* The reader and the browser's events. *)

\* The reader follows a link, edits the address or goes back.
Hop(r) ==
  /\ tries.hops < visit.hops /\ r \in visit.pages \ {hash}
  /\ hash' = r /\ moved' = moved + 1
  /\ tries' = [tries EXCEPT !.hops = @ + 1]
  /\ UNCHANGED <<previewVars, closing, view, calls, today, stream, feed, visit>>

\* Esc, the close button or the backdrop.
Dismiss ==
  /\ tries.hops < visit.hops /\ view.modal.open
  /\ view' = [view EXCEPT !.modal.open = FALSE]
  /\ closing' = TRUE
  /\ tries' = [tries EXCEPT !.hops = @ + 1]
  /\ UNCHANGED <<previewVars, hash, moved, calls, today, stream, feed, visit>>

\* The dialog's close listener sends a day's route back to the table.
CloseEvent ==
  /\ closing
  /\ closing' = FALSE
  /\ IF hash.page = "day"
     THEN hash' = To("list") /\ moved' = moved + 1
     ELSE UNCHANGED <<hash, moved>>
  /\ UNCHANGED <<previewVars, view, calls, today, stream, feed, tries, visit>>

HashChange ==
  /\ moved > 0
  /\ moved' = moved - 1
  /\ Becomes(Routed(Page))
  /\ closing' = (closing \/ ClosesModal)
  /\ UNCHANGED <<previewVars, hash, today, stream, feed, tries, visit>>

\* refreshToday, on focus and at midnight.
RefreshToday(near) ==
  /\ Becomes(Painted([Page EXCEPT !.view = Reconciled(@)], near))
  /\ UNCHANGED <<previewVars, hash, moved, closing, today, stream, feed, tries, visit>>

Midnight ==
  /\ today < visit.last
  /\ today' = today + 1
  /\ \E near \in BOOLEAN :
       Becomes(Painted([Page EXCEPT !.view.top = today + 1], near))
  /\ UNCHANGED <<previewVars, hash, moved, closing, stream, feed, tries, visit>>

Scroll ==
  /\ Becomes(Painted(Page, TRUE))
  /\ UNCHANGED <<previewVars, hash, moved, closing, today, stream, feed, tries, visit>>

-----------------------------------------------------------------------------
(* Answers. *)

\* The rows a ListDays call is given of what is served.
Window(call, rows) ==
  LET listed == ListedRows(rows)
      days == IF call.ask = "page"
              THEN SubSeq(listed, call.at + 1, IF call.at + PageSize < Len(listed)
                                               THEN call.at + PageSize ELSE Len(listed))
              ELSE SubSeq(listed, 1, IF call.at < Len(listed) THEN call.at ELSE Len(listed))
  IN [i \in DOMAIN days |-> [day |-> days[i], edition |-> rows[days[i]]]]

\* GetJournal: the current journal, null while it is due, an empty one for a
\* day without inputs.
JournalOf(d) ==
  IF d \in due THEN Writing ELSE IF journals[d] > 0 THEN journals[d] ELSE Nothing

\* The server answers.  Only the answers with contents are a step of their
\* own; a reader without a memo waits for one.
Serve(c) ==
  /\ ~c.served
  /\ \/ /\ c.ask \in {"page", "refetch"}
        /\ ReadPreviews
        /\ calls' = IF memo.known
                    THEN Asked(Without(c), [c EXCEPT !.served = TRUE,
                                                     !.rows = Window(c, memo.rows)]).calls
                    ELSE calls
     \/ /\ c.ask = "journal"
        /\ calls' = Asked(Without(c), [c EXCEPT !.served = TRUE,
                                                !.report = JournalOf(c.day)]).calls
        /\ UNCHANGED previewVars
  /\ UNCHANGED <<hash, moved, closing, view, today, stream, feed, tries, visit>>

Handled(p) ==
  /\ Becomes(p)
  /\ UNCHANGED <<previewVars, hash, moved, closing, today, stream, feed, tries, visit>>

\* A page is appended, a refetch replaces the window; either is dropped when
\* the table was left meanwhile.
RowsLand(c, near) ==
  LET source == IF c.ask = "page" THEN view.source \o c.rows ELSE c.rows
      grown == [Without(c) EXCEPT
                  !.view = Reconciled([@ EXCEPT !.source = source,
                                                !.exhausted = @ \/ Len(c.rows) < PageSize])]
  IN /\ c.ask \in {"page", "refetch"} /\ c.served
     /\ Handled(IF c.gen # view.generation THEN Without(c) ELSE Painted(grown, near))

\* A bug's version: whoever is looked at, the answer is rendered.
JournalLandsAnyway(c) ==
  LET next == [Call("transcripts") EXCEPT !.day = c.day, !.report = c.report,
                                          !.caught = c.caught, !.poll = c.report = Writing]
  IN /\ c.ask = "journal" /\ c.served
     /\ Handled(Asked([Without(c) EXCEPT !.view.modal = [@ EXCEPT !.day = c.day, !.report = c.report]],
                      next))

\* The journal of the day still viewed is rendered and its transcripts are
\* asked for; a day without a journal is looked at again afterwards.
JournalLands(c) ==
  LET next == [Call("transcripts") EXCEPT !.day = c.day, !.report = c.report,
                                          !.caught = c.caught, !.poll = c.report = Writing]
  IN /\ c.ask = "journal" /\ c.served
     /\ Handled(IF hash.day # c.day THEN Without(c)
                ELSE Asked([Without(c) EXCEPT !.view.modal = [@ EXCEPT !.day = c.day, !.report = c.report]],
                           next))

TranscriptsLand(c) ==
  LET next == [Call("location") EXCEPT !.day = c.day, !.caught = c.caught, !.poll = c.poll]
  IN /\ c.ask = "transcripts"
     /\ Handled(IF hash.day # c.day THEN Without(c)
                ELSE Asked([Without(c) EXCEPT !.view.modal = [@ EXCEPT !.day = c.day, !.report = c.report]],
                           next))

\* A bug's version: a day being written is not looked at again.
LocationLandsOnce(c) == c.ask = "location" /\ Handled(Without(c))

\* enrichDayWithLocation decorates the body and never fails; then a day
\* without a journal sets its timer, even when the reader has left.
LocationLands(c) ==
  LET nap == [Call("nap") EXCEPT !.day = c.day, !.route = hash]
  IN /\ c.ask = "location"
     /\ Handled(IF c.poll THEN Asked(Without(c), nap) ELSE Without(c))

\* Ten seconds later the day is shown again if the route is the one there was
\* when the timer was set.
NapEnds(c) ==
  /\ c.ask = "nap"
  /\ Handled(IF hash = c.route THEN Opened(Without(c), c.day, FALSE) ELSE Without(c))

\* The places are painted whatever is mounted, a search's hits only into its
\* own page.
PageLands(c) ==
  /\ c.ask \in {"places", "search"}
  /\ Handled(IF c.ask = "places" THEN [Without(c) EXCEPT !.view.mount = "places"]
                                        ELSE Without(c))

\* A failed page of rows shows an error if there are none, a failed refetch
\* nothing; a failed place list is told on its page; every other failed call
\* of a route shows an error in place of what is mounted, and a timer's is
\* told nobody.
CallFails(c) ==
  LET shown == CASE c.ask = "page" -> view.top = 0
                 [] c.ask \in {"journal", "transcripts", "search"} -> c.caught
                 [] OTHER -> FALSE
      mounted == IF shown THEN "error" ELSE IF c.ask = "places" THEN "places" ELSE view.mount
  IN /\ tries.faults < visit.faults
     /\ c.ask \notin {"location", "nap"}
     /\ tries' = [tries EXCEPT !.faults = @ + 1]
     /\ Becomes([Without(c) EXCEPT !.view.mount = mounted])
     /\ UNCHANGED <<previewVars, hash, moved, closing, today, stream, feed, visit>>

Land(c) ==
  \/ \E near \in BOOLEAN : RowsLand(c, near)
  \/ JournalLands(c)
  \/ TranscriptsLand(c)
  \/ LocationLands(c)
  \/ NapEnds(c)
  \/ PageLands(c)

-----------------------------------------------------------------------------
(* Live updates. *)

\* StreamEvents: a new subscriber is first given the hub's replay.  The
\* reload written after the retry never runs: a retried stream never ends.
Connect ==
  /\ ~stream
  /\ stream' = TRUE /\ feed' = hub
  /\ UNCHANGED <<previewVars, hash, moved, closing, view, calls, today, tries, visit>>

Drop ==
  /\ stream /\ tries.drops < visit.drops
  /\ stream' = FALSE /\ feed' = <<>>
  /\ tries' = [tries EXCEPT !.drops = @ + 1]
  /\ UNCHANGED <<previewVars, hash, moved, closing, view, calls, today, visit>>

\* handleDayEvent: the day viewed is shown again; over the table the window
\* is fetched again, unless a page is under way.
DayEvent ==
  /\ feed # <<>>
  /\ feed' = Tail(feed)
  /\ LET d == Head(feed)
     IN Becomes(CASE hash.page = "day" -> IF hash.day = d THEN Opened(Page, d, TRUE) ELSE Page
                  [] OTHER -> IF view.table /\ ~PageInFlight(calls)
                                 /\ (d \in RowDays(view) \/ d <= today)
                              THEN Refetched(Page) ELSE Page)
  /\ UNCHANGED <<previewVars, hash, moved, closing, today, stream, tries, visit>>

-----------------------------------------------------------------------------
\* The server goes on; a journal is told to the connected page too.
ServerGoesOn ==
  /\ \/ ServerStep /\ UNCHANGED <<stream, feed>>
     \/ \E d \in Days : /\ WriteJournal(d)
                        /\ feed' = IF stream THEN Append(feed, d) ELSE feed
                        /\ UNCHANGED stream
     \/ Restart /\ stream' = FALSE /\ feed' = <<>>
  /\ UNCHANGED <<hash, moved, closing, view, calls, today, tries, visit>>

\* The page has loaded at some route: its first loadRoute is about to run.
ClientStart(v) ==
  /\ visit = v
  /\ hash \in v.pages
  /\ moved = 1
  /\ closing = FALSE
  /\ view = [mount |-> "none", table |-> FALSE, source |-> <<>>, top |-> 0,
             exhausted |-> FALSE, generation |-> 0,
             modal |-> [open |-> FALSE, title |-> 0, day |-> 0, report |-> Loading]]
  /\ calls = EmptyBag
  /\ today = v.first
  /\ stream = FALSE
  /\ feed = <<>>
  /\ tries = [hops |-> 0, faults |-> 0, drops |-> 0]

JournalInit == PreviewsInit /\ \E v \in Visits : ClientStart(v)

JournalNext ==
  \/ \E r \in visit.pages : Hop(r)
  \/ Dismiss
  \/ CloseEvent
  \/ HashChange
  \/ \E near \in BOOLEAN : RefreshToday(near)
  \/ Midnight
  \/ Scroll
  \/ \E c \in BagToSet(calls) : Serve(c) \/ Land(c) \/ CallFails(c)
  \/ Connect
  \/ Drop
  \/ DayEvent
  \/ ServerGoesOn

Asks == {"page", "refetch", "journal", "transcripts", "location", "nap", "places", "search"}

Answered(ask) == \E c \in BagToSet(calls) : c.ask = ask /\ (Serve(c) \/ Land(c))

\* Events are handled and calls answered, by the server or with a failure.
JournalFairness ==
  /\ PreviewsFairness
  /\ WF_journalVars(HashChange)
  /\ WF_journalVars(CloseEvent)
  /\ \A ask \in Asks : WF_journalVars(Answered(ask))
  /\ WF_journalVars(Connect)
  /\ WF_journalVars(DayEvent)

JournalSpec == JournalInit /\ [][JournalNext]_journalVars /\ JournalFairness

-----------------------------------------------------------------------------
(* Properties. *)

\* The types of the page.  The window is made of listed rows, and at most one
\* page of rows is under way, asked by the table that is there.
ClientTypeOK ==
  /\ hash \in Routes
  /\ moved \in Nat /\ closing \in BOOLEAN /\ stream \in BOOLEAN
  /\ view.mount \in {"none", "list", "places", "search", "error"}
  /\ view.source \in Seq([day : Days, edition : Nat \ {0}])
  /\ view.top \in Days \cup {0}
  /\ view.modal.title \in Days \cup {0}
  /\ view.modal.report \in Nat \cup {Loading, Writing}
  /\ feed \in Seq(Days)
  /\ IsABag(calls)
  /\ \A c, e \in BagToSet(calls) :
       c.ask = "page" =>
         /\ c.gen = view.generation /\ calls[c] = 1
         /\ e.ask = "page" => c = e

\* The types of both.
JournalTypeOK == PreviewsTypeOK /\ ClientTypeOK

\* A mounted table without a row is being loaded: whatever was cancelled,
\* refetched or failed before, the reader is never left with a blank list.
BlankListIsLoading ==
  (view.mount = "list" /\ view.top = 0) => PageInFlight(calls)

\* The days that had a journal all along and are missing above the last day of
\* the window.
Holes(v) ==
  LET days == {v.source[i].day : i \in DOMAIN v.source}
  IN {d \in scene.written \ days : \E e \in days : e < d}

\* A page of rows and a refetch of the window are under way together.
PageOverRefetch ==
  PageInFlight(calls) /\ \E c \in BagToSet(calls) : c.ask = "refetch"

\* A day that was served is not any more: the server boots again, or an older
\* recompute is stored after a newer one.
RowsLost == ~(Shown(memo.rows) \subseteq Shown(memo.rows'))

\* What may leave a hole has happened.
VARIABLE crossed
Crossing == crossed' = (crossed \/ PageOverRefetch' \/ RowsLost)

\* client.ts:7 "appended as the scroll nears the bottom, so the table scrolls
\* endlessly": no day is missing above the last of the list.  Pages are asked
\* once each, at the end of the window, and dropped with their table; a hole
\* takes a page and a refetch that were under way together, or a server that
\* lost a day between two pages.
PagesLineUp == ~crossed => Holes(view) = {}

\* client.ts:17 "The modal is driven by the hash": once the reader's moves are
\* handled, an open modal shows the day of the route, and a day's route has
\* its modal open unless it was just dismissed.
ModalIsAsked ==
  moved = 0 =>
    /\ view.modal.open => hash = ToDay(view.modal.title) /\ view.modal.day = view.modal.title
    /\ hash.page = "day" => view.modal.open \/ closing

StrayNap(c) == c.ask = "nap" /\ c.route # ToDay(c.day)

\* Late answers, failures, dismissals, close events and live updates never put
\* a day under another's route: that takes a timer set after its day was left.
ModalStaysAsked ==
  [][ModalIsAsked => \/ ModalIsAsked'
                     \/ \E c \in BagToSet(calls) : StrayNap(c) /\ NapEnds(c)]_journalVars

\* A day shown as being written fills in once its journal is there, without
\* the event stream, unless the reader leaves, a call fails or an input makes
\* the day due again.
PendingDayFills ==
  \A d \in Days :
    (hash = ToDay(d) /\ view.modal.report = Writing /\ d \notin due)
      ~> \/ hash # ToDay(d) \/ d \in due \/ tries.faults > 0
         \/ view.modal.report # Writing
==============================================================================
