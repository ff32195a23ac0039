--------------------------- MODULE JournalSnapshot ---------------------------
(***************************************************************************)
(* The journal's read model (cloudflare/src/journal.ts): the persisted     *)
(* snapshot of the expensive inputs, rebuilt by the minutely cron when the *)
(* fingerprint of their listings moves, and built by a request that finds  *)
(* none.                                                                   *)
(*                                                                         *)
(* Builders overlap: a rebuild takes longer than a minute, an operator may *)
(* force one, and any isolate may serve the first request.  Journals and   *)
(* day indexes land while they run.  Each listing, scan and write of a     *)
(* builder is a step of its own.                                           *)
(*                                                                         *)
(* Abstractions.  A fingerprint is the pair of listings it hashes.  The    *)
(* previews rows and run reports are read fresh and are not part of the    *)
(* snapshot.  The isolate's one-minute memo only repeats an answer.        *)
(***************************************************************************)
EXTENDS Integers, Sequences

CONSTANTS
  Generation,  \* journal generations <<day, generatedAt>> that may land
  Corrupt,     \* those whose text is no JSON
  Uploaded,    \* builtAt of the day indexes there at the start, in upload order
  Built,       \* builtAt of those that may land, at most once each
  Builder,     \* rebuilds and loads that may be under way at once
  MaxBreaks    \* bound: builders that die

ASSUME SnapshotAssumption ==
  /\ Generation \subseteq Nat \X Nat
  /\ Corrupt \subseteq Generation
  /\ Uploaded \in Seq(Nat)
  /\ Built \subseteq Nat
  /\ MaxBreaks \in Nat

VARIABLES
  journals,  \* the journal generations in the bucket
  indexes,   \* the day indexes in the bucket, in upload order
  snapshot,  \* views/worker-read-model-v1.json, or NoSnapshot
  builder,   \* the rebuilds and loads under way
  breaks     \* builders that died

snapVars == <<journals, indexes, snapshot, builder, breaks>>

-----------------------------------------------------------------------------
(* What a gather selects. *)

Days(gens) == {g[1] : g \in gens}

\* loadJournalsRaw: per day the greatest generatedAt, whatever the upload
\* order ...
NewestOfDay(gens, d) ==
  CHOOSE g \in gens : g[1] = d /\ \A h \in gens : h[1] = d => g[2] >= h[2]

\* ... and a winner that does not parse leaves its day out.
Winners(gens) == {NewestOfDay(gens, d) : d \in Days(gens)} \ Corrupt

ListedIndexes(list) == {list[i] : i \in DOMAIN list}

\* loadDayIndexJson: of the three uploaded last, the greatest builtAt.
Recent(list) == {list[i] : i \in {k \in DOMAIN list : k + 3 > Len(list)}}

BestIndex(list) ==
  IF list = << >> THEN 0
  ELSE CHOOSE b \in Recent(list) : \A c \in Recent(list) : b >= c

NoSnapshot == [by |-> "none", stamp |-> << >>, journals |-> {}, index |-> 0]

Fingerprint(gens, list) == <<gens, list>>

-----------------------------------------------------------------------------
(* A builder. *)

IdleBuilder == [at |-> "idle", kind |-> "load", seen |-> << >>, gens |-> {},
         list |-> << >>, journals |-> {}, index |-> 0]

BuilderPoint ==
  {"idle", "stampJournals", "stampIndexes", "compare", "gatherJournals",
   "gatherIndex", "write"}

BuilderAt(b, l) == builder[b].at = l

SetBuilder(b, r) == builder' = [builder EXCEPT ![b] = r]

InputsStay == UNCHANGED <<journals, indexes, breaks>>

\* refreshReadModelSnapshot: the snapshot's head first.
Refresh(b) ==
  /\ BuilderAt(b, "idle")
  /\ SetBuilder(b, [IdleBuilder EXCEPT !.at = "stampJournals", !.kind = "refresh",
                            !.seen = snapshot.stamp])
  /\ UNCHANGED snapshot /\ InputsStay

\* loadModel: only a request that finds no snapshot goes on.
Load(b) ==
  /\ BuilderAt(b, "idle")
  /\ snapshot = NoSnapshot
  /\ SetBuilder(b, [IdleBuilder EXCEPT !.at = "gatherJournals"])
  /\ UNCHANGED snapshot /\ InputsStay

\* inputsFingerprint: the two listings.
StampJournals(b) ==
  /\ BuilderAt(b, "stampJournals")
  /\ SetBuilder(b, [builder[b] EXCEPT !.at = "stampIndexes", !.gens = journals])
  /\ UNCHANGED snapshot /\ InputsStay

StampIndexes(b) ==
  /\ BuilderAt(b, "stampIndexes")
  /\ SetBuilder(b, [builder[b] EXCEPT !.list = indexes,
       !.at = IF builder[b].kind = "refresh" THEN "compare" ELSE "write"])
  /\ UNCHANGED snapshot /\ InputsStay

Stamp(b) == Fingerprint(builder[b].gens, builder[b].list)

StartGather(b) ==
  SetBuilder(b, [builder[b] EXCEPT !.at = "gatherJournals", !.seen = << >>])

\* Seeded fault: only the journals' listing is compared.
CompareJournals(b) ==
  /\ BuilderAt(b, "compare")
  /\ IF builder[b].seen # << >> /\ builder[b].seen[1] = builder[b].gens
     THEN SetBuilder(b, IdleBuilder) ELSE StartGather(b)
  /\ UNCHANGED snapshot /\ InputsStay

\* The stamp has not moved: nothing to do, unless the rebuild is forced.
Compare(b) ==
  /\ BuilderAt(b, "compare")
  /\ IF builder[b].seen = Stamp(b) THEN SetBuilder(b, IdleBuilder) ELSE StartGather(b)
  /\ UNCHANGED snapshot /\ InputsStay

Forced(b) ==
  /\ BuilderAt(b, "compare")
  /\ StartGather(b)
  /\ UNCHANGED snapshot /\ InputsStay

\* gatherExpensiveRaw: the scan of the journals, then the day index.
GatherJournals(b) ==
  /\ BuilderAt(b, "gatherJournals")
  /\ SetBuilder(b, [builder[b] EXCEPT !.at = "gatherIndex",
                                  !.journals = Winners(journals)])
  /\ UNCHANGED snapshot /\ InputsStay

\* A refresh has its stamp by now; a load takes it only after the gather.
AfterGather(kind) == IF kind = "refresh" THEN "write" ELSE "stampJournals"

GatherIndex(b) ==
  /\ BuilderAt(b, "gatherIndex")
  /\ SetBuilder(b, [builder[b] EXCEPT !.index = BestIndex(indexes),
                                  !.at = AfterGather(builder[b].kind)])
  /\ UNCHANGED snapshot /\ InputsStay

\* Seeded fault: stamped with the listings as they are after the gather.
WriteRestamped(b) ==
  /\ BuilderAt(b, "write")
  /\ snapshot' = [by |-> builder[b].kind, stamp |-> Fingerprint(journals, indexes),
                  journals |-> builder[b].journals, index |-> builder[b].index]
  /\ SetBuilder(b, IdleBuilder)
  /\ InputsStay

\* writeSnapshot.
WriteSnapshot(b) ==
  /\ BuilderAt(b, "write")
  /\ snapshot' = [by |-> builder[b].kind, stamp |-> Stamp(b),
                  journals |-> builder[b].journals, index |-> builder[b].index]
  /\ SetBuilder(b, IdleBuilder)
  /\ InputsStay

\* A failed call, or the end of its isolate, ends a builder; a load's failed
\* write is ignored and ends it the same.
Break(b) ==
  /\ breaks < MaxBreaks
  /\ ~BuilderAt(b, "idle")
  /\ SetBuilder(b, IdleBuilder)
  /\ breaks' = breaks + 1
  /\ UNCHANGED <<journals, indexes, snapshot>>

-----------------------------------------------------------------------------
(* The server publishes journals and day indexes in any order. *)

PublishJournal ==
  \E g \in Generation \ journals :
    /\ journals' = journals \cup {g}
    /\ UNCHANGED <<indexes, snapshot, builder, breaks>>

PublishIndex ==
  \E b \in Built \ ListedIndexes(indexes) :
    /\ indexes' = Append(indexes, b)
    /\ UNCHANGED <<journals, snapshot, builder, breaks>>

-----------------------------------------------------------------------------
SnapInit ==
  /\ journals = {} /\ indexes = Uploaded
  /\ snapshot \in
       {NoSnapshot,
        [by |-> "refresh", stamp |-> Fingerprint({}, Uploaded), journals |-> {},
         index |-> BestIndex(Uploaded)]}
  /\ builder = [b \in Builder |-> IdleBuilder]
  /\ breaks = 0

BuildStep(b) ==
  \/ StampJournals(b) \/ StampIndexes(b) \/ Compare(b)
  \/ GatherJournals(b) \/ GatherIndex(b) \/ WriteSnapshot(b)

SnapNext ==
  \/ PublishJournal \/ PublishIndex
  \/ \E b \in Builder : BuildStep(b) \/ Refresh(b) \/ Load(b) \/ Forced(b) \/ Break(b)

\* The cron fires every minute, and what is begun is carried on.
SnapFairness == \A b \in Builder : WF_snapVars(BuildStep(b) \/ Refresh(b))

SnapSpec == SnapInit /\ [][SnapNext]_snapVars /\ SnapFairness

-----------------------------------------------------------------------------
(* Properties. *)

\* A builder holds what its point says, and the snapshot one journal a day.
SnapTypeOK ==
  /\ journals \subseteq Generation
  /\ indexes \in Seq(Built \cup ListedIndexes(Uploaded))
  /\ \A b \in Builder :
       /\ builder[b].at \in BuilderPoint
       /\ builder[b].kind \in {"refresh", "load"}
       /\ builder[b].journals \subseteq Generation \ Corrupt
  /\ \A g, h \in snapshot.journals : g[1] = h[1] => g = h

SnapCurrent ==
  /\ snapshot.journals = Winners(journals)
  /\ snapshot.index = BestIndex(indexes)

\* The snapshot the cron will leave alone is the one it would build: while
\* the listings are those of a rebuild's stamp, its contents are theirs.
\* Overlapping rebuilds, a death in the middle and uploads during the scan
\* included.  (A load stamps after its gather, and may vouch for what it has
\* not read: see the README.)
StampIsHonest ==
  snapshot.by = "refresh" /\ snapshot.stamp = Fingerprint(journals, indexes)
    => SnapCurrent

\* "The cron keeps it current": once no input lands any more, the snapshot
\* holds the newest journal of every day and the newest day index, unless a
\* load wrote it.
SnapshotCatchesUp == <>[](SnapCurrent \/ snapshot.by = "load")
=============================================================================
