----------------------------- MODULE DayPreviews -----------------------------
(***************************************************************************)
(* The rows ListDays serves (lib/lifelog/Views.ts): a process-wide memo of  *)
(* the day previews, recomputed behind its readers, and a snapshot on disk  *)
(* for the next cold boot.  Journals are written by the workflow, which     *)
(* tells the day hub; the memo is recomputed by the boot's warmup, by the   *)
(* listener on the hub, at the end of each pipeline pass and by a read      *)
(* that finds the memo expired.                                             *)
(*                                                                         *)
(* A recompute reads the disk at one moment and stores what it read at a    *)
(* later one; any number may be between the two.  A restart loses the memo, *)
(* the hub and every recompute, and keeps the disk.                         *)
(*                                                                         *)
(* Abstractions.  A journal is its edition, the number of times the day's   *)
(* journal was rewritten; a row is the edition it was made of (its preview, *)
(* summary and coverage derive from it).  The directory is listed once per  *)
(* recompute and fixes what it reads: a journal file never changes.         *)
(***************************************************************************)
EXTENDS Integers, Sequences, FiniteSets, SequencesExt

CONSTANTS
  Days,            \* civil days
  Replay,          \* day updates the hub replays to a new subscriber
  PreviewScenes    \* what may happen (see `scene`)

ASSUME PreviewsAssumption ==
  /\ Days \subseteq Nat \ {0} /\ IsFiniteSet(Days)
  /\ Replay \in Nat
  /\ \A s \in PreviewScenes :
       /\ s.written \subseteq Days
       /\ s.triggers \subseteq {"sync", "pass", "read"}
       /\ s.overlap \in Nat
       /\ s.left.inputs \subseteq Days
       /\ {s.left.faults, s.left.restarts} \subseteq Nat

VARIABLES
  journals,   \* the edition of each day's journal on disk, 0 for none
  due,        \* days whose current inputs have no journal yet
  memo,       \* previewsMemo
  snapshot,   \* views/days-v6.json
  readings,   \* the recomputes and cold reads under way, oldest first
  hub,        \* what the day hub would replay
  told,       \* day updates the memo's listener has not taken yet
  left,       \* the bounds: days still to get an input, recomputes that fail
              \* and snapshots that are not written, restarts
  scene       \* the days with a journal at the start, what starts recomputes
              \* besides the boot, how many are under way at once

previewVars == <<journals, due, memo, snapshot, readings, hub, told, left, scene>>

NoRows == [d \in Days |-> 0]

\* The fields of previewsMemo; known is value # null, fresh that it has not
\* expired.
NoMemo == [known |-> FALSE, rows |-> NoRows, fresh |-> FALSE, refreshing |-> FALSE]

\* The days with a journal, and ListDays: newest first.
Shown(rows) == {d \in Days : rows[d] > 0}

ListedRows(rows) ==
  CHOOSE listed \in [1..Cardinality(Shown(rows)) -> Shown(rows)] :
    \A i, j \in DOMAIN listed : i < j => listed[i] > listed[j]

-----------------------------------------------------------------------------
(* Recomputing. *)

Reading(by, at, seen) == [by |-> by, at |-> at, seen |-> seen]

\* A bug's version: rows that have not expired are not recomputed.
RefreshExpired(by) ==
  IF memo.refreshing \/ memo.fresh
  THEN UNCHANGED <<memo, readings>>
  ELSE /\ Len(readings) < scene.overlap
       /\ memo' = [memo EXCEPT !.refreshing = TRUE]
       /\ readings' = Append(readings, Reading(by, "derive", journals))

\* refreshDayPreviews: a recompute is started unless one is under way.
Refresh(by) ==
  IF memo.refreshing
  THEN UNCHANGED <<memo, readings>>
  ELSE /\ Len(readings) < scene.overlap
       /\ memo' = [memo EXCEPT !.refreshing = TRUE]
       /\ readings' = Append(readings, Reading(by, "derive", journals))

\* storePreviews
Store(rows, fresh) ==
  memo' = [known |-> TRUE, rows |-> rows, fresh |-> fresh, refreshing |-> FALSE]

\* A recompute, or a cold read that found no snapshot, has read the disk: it
\* stores the rows and goes on to write the snapshot.
StoreDerived(i) ==
  /\ readings[i].at = "derive"
  /\ Store(readings[i].seen, TRUE)
  /\ readings' = [readings EXCEPT ![i].at = "persist"]
  /\ UNCHANGED <<journals, due, snapshot, hub, told, left, scene>>

\* A cold read stores the snapshot it loaded as expired.
StoreSnapshot(i) ==
  /\ readings[i].at = "load"
  /\ Store(readings[i].seen, FALSE)
  /\ readings' = RemoveAt(readings, i)
  /\ UNCHANGED <<journals, due, snapshot, hub, told, left, scene>>

\* writeSnapshot
WriteSnapshot(i) ==
  /\ readings[i].at = "persist"
  /\ snapshot' = [known |-> TRUE, rows |-> readings[i].seen]
  /\ readings' = RemoveAt(readings, i)
  /\ UNCHANGED <<journals, due, memo, hub, told, left, scene>>

\* A bug's version: only a recompute that succeeds clears the flag.
ReadingFailsKeepingFlag(i) ==
  /\ readings[i].at # "load"
  /\ left.faults > 0
  /\ left' = [left EXCEPT !.faults = @ - 1]
  /\ readings' = RemoveAt(readings, i)
  /\ UNCHANGED <<journals, due, memo, snapshot, hub, told, scene>>

\* A recompute that fails keeps the rows and clears its flag, a cold read
\* that fails has no flag, a snapshot that is not written is only logged.
ReadingFails(i) ==
  /\ readings[i].at # "load"
  /\ left.faults > 0
  /\ left' = [left EXCEPT !.faults = @ - 1]
  /\ memo' = IF readings[i].at = "derive" /\ readings[i].by # "cold"
             THEN [memo EXCEPT !.refreshing = FALSE]
             ELSE memo
  /\ readings' = RemoveAt(readings, i)
  /\ UNCHANGED <<journals, due, snapshot, hub, told, scene>>

ReadingStep(i) ==
  StoreDerived(i) \/ StoreSnapshot(i) \/ WriteSnapshot(i) \/ ReadingFails(i)

-----------------------------------------------------------------------------
(* What starts a recompute. *)

\* dayPreviews: known rows are served at once, and recomputed behind when
\* they have expired; without any, the snapshot or the disk is read.
ReadPreviews ==
  /\ IF memo.known
     THEN IF memo.fresh THEN UNCHANGED <<memo, readings>> ELSE Refresh("read")
     ELSE /\ Len(readings) < scene.overlap
          /\ readings' = Append(readings,
               IF snapshot.known THEN Reading("cold", "load", snapshot.rows)
                                 ELSE Reading("cold", "derive", journals))
          /\ UNCHANGED memo
  /\ UNCHANGED <<journals, due, snapshot, hub, told, left, scene>>

\* The ten minutes of a stored memo are over.
Expire ==
  /\ "read" \in scene.triggers
  /\ memo.known /\ memo.fresh
  /\ memo' = [memo EXCEPT !.fresh = FALSE]
  /\ UNCHANGED <<journals, due, snapshot, readings, hub, told, left, scene>>

\* DaySync handles one day update after the other, each to the end of its
\* recompute.
Syncing == \E i \in DOMAIN readings : readings[i].by = "sync"

\* A bug's version: the listener does not wait for an update.
SyncDayUntold ==
  /\ "sync" \in scene.triggers /\ ~Syncing
  /\ told' = told - 1
  /\ Refresh("sync")
  /\ UNCHANGED <<journals, due, snapshot, hub, left, scene>>

SyncDay ==
  /\ "sync" \in scene.triggers /\ told > 0 /\ ~Syncing
  /\ told' = told - 1
  /\ Refresh("sync")
  /\ UNCHANGED <<journals, due, snapshot, hub, left, scene>>

PassEnds ==
  /\ "pass" \in scene.triggers
  /\ Refresh("pass")
  /\ UNCHANGED <<journals, due, snapshot, hub, told, left, scene>>

-----------------------------------------------------------------------------
(* The disk and the process. *)

\* An input of the day lands: its journal is no longer the current one.
Record(d) ==
  /\ d \in left.inputs
  /\ due' = due \cup {d}
  /\ left' = [left EXCEPT !.inputs = @ \ {d}]
  /\ UNCHANGED <<journals, memo, snapshot, readings, hub, told, scene>>

\* The journal workflow writes the day's journal and then tells the hub.
WriteJournal(d) ==
  /\ d \in due
  /\ due' = due \ {d}
  /\ journals' = [journals EXCEPT ![d] = @ + 1]
  /\ hub' = LET all == Append(hub, d)
            IN IF Len(all) > Replay THEN Tail(all) ELSE all
  /\ told' = told + 1
  /\ UNCHANGED <<memo, snapshot, readings, left, scene>>

\* The process boots: Warmup recomputes, DaySync listens to a new hub.
Boot ==
  /\ memo' = [NoMemo EXCEPT !.refreshing = TRUE]
  /\ readings' = <<Reading("warmup", "derive", journals)>>
  /\ hub' = <<>>
  /\ told' = 0

Restart ==
  /\ left.restarts > 0
  /\ left' = [left EXCEPT !.restarts = @ - 1]
  /\ Boot
  /\ UNCHANGED <<journals, due, snapshot, scene>>

DiskStart(s) ==
  /\ scene = [written |-> s.written, triggers |-> s.triggers, overlap |-> s.overlap]
  /\ left = s.left
  /\ journals = [d \in Days |-> IF d \in s.written THEN 1 ELSE 0]
  /\ due = {}
  /\ hub = <<>>
  /\ told = 0

\* The first boot, with or without the snapshot of an earlier one.
PreviewsStart(s) ==
  /\ DiskStart(s)
  /\ memo = [NoMemo EXCEPT !.refreshing = TRUE]
  /\ snapshot \in {[known |-> FALSE, rows |-> NoRows],
                   [known |-> TRUE, rows |-> journals]}
  /\ readings = <<Reading("warmup", "derive", journals)>>

\* A server that has been up for a while.
WarmStart(s) ==
  /\ DiskStart(s)
  /\ memo = [known |-> TRUE, rows |-> journals, fresh |-> TRUE, refreshing |-> FALSE]
  /\ snapshot = [known |-> TRUE, rows |-> journals]
  /\ readings = <<>>

PreviewsInit == \E s \in PreviewScenes : PreviewsStart(s) \/ WarmStart(s)

\* What the server does by itself, a journal written and a restart apart.
ServerStep ==
  \/ \E i \in DOMAIN readings : ReadingStep(i)
  \/ Expire
  \/ SyncDay
  \/ PassEnds
  \/ \E d \in Days : Record(d)

PreviewsNext ==
  \/ ServerStep
  \/ ReadPreviews
  \/ \E d \in Days : WriteJournal(d)
  \/ Restart

\* Fibers run and end; the hub's listener is a loop; a pass ends every few
\* minutes; the workflow writes what is due.
PreviewsFairness ==
  /\ \A by \in {"warmup", "sync", "pass", "read", "cold"} :
       WF_previewVars(\E i \in DOMAIN readings : readings[i].by = by /\ ReadingStep(i))
  /\ WF_previewVars(SyncDay)
  /\ WF_previewVars(PassEnds)
  /\ \A d \in Days : WF_previewVars(WriteJournal(d))

PreviewsSpec == PreviewsInit /\ [][PreviewsNext]_previewVars /\ PreviewsFairness

-----------------------------------------------------------------------------
(* Properties. *)

\* The types of the memo, the snapshot and what is under way; a memo never
\* shows more of a day than was written of it.
PreviewsTypeOK ==
  /\ journals \in [Days -> Nat]
  /\ due \subseteq Days
  /\ memo \in [known : BOOLEAN, rows : [Days -> Nat], fresh : BOOLEAN, refreshing : BOOLEAN]
  /\ snapshot \in [known : BOOLEAN, rows : [Days -> Nat]]
  /\ readings \in Seq([by : {"warmup", "sync", "pass", "read", "cold"},
                       at : {"derive", "load", "persist"},
                       seen : [Days -> Nat]])
  /\ hub \in Seq(Days)
  /\ told \in Nat
  /\ \A d \in Days : memo.rows[d] <= journals[d] /\ snapshot.rows[d] <= journals[d]

\* Where passes go on, the served rows converge on the disk once journals stop
\* landing (Views.ts: stale-while-revalidate; main.ts: "reconverge the served
\* previews behind"), however many recomputes overlap, fail or store late.
PreviewsConverge ==
  "pass" \in scene.triggers => <>[](memo.known /\ memo.rows = journals)
==============================================================================
