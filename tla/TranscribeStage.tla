--------------------------- MODULE TranscribeStage ---------------------------
(***************************************************************************)
(* Media-transcribe (cloudflare/src/transcribe.ts, runTranscribePass in    *)
(* its performing mode).  A capture's media manifest names its chunks; the *)
(* stage buys one AssemblyAI job per chunk and commits the jobs receipt    *)
(* after every accepted job, so that later passes only poll what was       *)
(* bought.  When all jobs are over it files the vendor's answers and then  *)
(* the canonical transcript, or settles the capture as failed.             *)
(*                                                                         *)
(* Each call to the vendor, the bucket or the index is one step.  The      *)
(* captures of a pass are worked concurrently.                             *)
(*                                                                         *)
(* Abstractions.  Captures are numbered in the order of their ids, chunks  *)
(* from 1.  A job is <<capture, chunk, n>>: the n-th job bought for that   *)
(* chunk.  A manifest never changes once published.  Polling a capture's   *)
(* jobs is one step, and their outcomes are read from the vendor           *)
(* afterwards too: a job that is over stays as it is.                      *)
(***************************************************************************)
EXTENDS ArtifactLedger, Integers, Sequences, FiniteSets

CONSTANTS
  Capture,     \* captures: numbers, in the order of their ids
  Chunks,      \* the number of chunks in a capture's manifest
  Missing,     \* chunks <<capture, index>> that are not in the bucket
  Mismatched,  \* captures whose inherited receipt contradicts the manifest
  StaleError,  \* captures with an error transcript left by a pre-fix run
  Pass,        \* passes that may run
  Limit,       \* captures one cron pass takes
  MaxFaults    \* bound: failed calls and crashes in a behaviour

ASSUME CaptureAssumption ==
  /\ Capture \subseteq Nat
  /\ Chunks \in [Capture -> Nat \ {0}]
  /\ Missing \subseteq Capture \X Nat
  /\ Mismatched \subseteq Capture
  /\ StaleError \subseteq Capture \ Mismatched
  /\ Limit \in Nat \ {0}
  /\ MaxFaults \in Nat

VARIABLES
  jobs,    \* what the vendor holds: accepted jobs and their status
  pass,    \* the state of each pass
  faults   \* failed calls and crashes so far

vars == <<ledgerVars, jobs, pass, faults>>

-----------------------------------------------------------------------------
(* Keys, jobs and the documents that record them. *)

ManifestKey(c)  == <<"manifest", c>>
JobsKey(c)      == <<"jobs", c>>
VendorKey(c)    == <<"vendor", c>>
CanonicalKey(c) == <<"canonical", c>>
SettledKey(c)   == <<"settled", c>>

CaptureOf(j) == j[1]
ChunkOf(j)   == j[2]

JobsOf(c) == {j \in DOMAIN jobs : CaptureOf(j) = c}

\* The jobs receipt as the bucket has it: the jobs by chunk, in order.
Receipt(c) == IF Has(JobsKey(c)) THEN store[JobsKey(c)] ELSE << >>

\* A job the vendor has finished with; "running" is its queued or processing.
Over(j) == jobs[j] # "running"

ErrorTranscript    == [status |-> "error", parts |-> {}]
Transcript(chunks) == [status |-> "completed", parts |-> chunks]

CanonicalStatus(c) ==
  IF Has(CanonicalKey(c)) THEN store[CanonicalKey(c)].status ELSE "none"

\* receiptMatchesManifest
Matches(c, receipt) ==
  /\ Len(receipt) <= Chunks[c]
  /\ \A n \in 1..Len(receipt) : ChunkOf(receipt[n]) = n

InheritedReceipt(c) ==
  IF c \in Mismatched THEN << <<c, Chunks[c] + 1, 1>> >>
  ELSE [n \in 1..Chunks[c] |-> <<c, n, 1>>]

-----------------------------------------------------------------------------
(* A pass and its items. *)

Label ==
  {"gather", "read", "clear", "submit", "commit", "poll", "vendor",
   "publish", "settle"}

IdlePass == [at |-> "idle", settled |-> {}, items |-> << >>]

Working(p, c) == c \in DOMAIN pass[p].items
Item(p, c)    == pass[p].items[c]
At(p, c, l)   == Working(p, c) /\ Item(p, c).at = l

Move(p, c, l) == [Item(p, c) EXCEPT !.at = l, !.landed = FALSE]

SetItem(p, c, item) == pass' = [pass EXCEPT ![p].items[c] = item]

\* The item ends, whatever its outcome: the report names it and the pass
\* goes on.
EndItem(p, c) ==
  pass' = [pass EXCEPT ![p].items = [x \in DOMAIN @ \ {c} |-> @[x]]]

Goto(p, c, l) == SetItem(p, c, Move(p, c, l))

Frame == UNCHANGED <<ledgerVars, jobs, faults>>

\* Where an item whose receipt holds `held` goes next.
Resume(c, held) ==
  IF Len(held) = Chunks[c] THEN "poll"
  ELSE IF <<c, Len(held) + 1>> \in Missing THEN "settle" ELSE "submit"

\* ledger.writeText at label l: the bucket, then the index; then `after`.
Write(p, c, l, k, d, after) ==
  /\ At(p, c, l)
  /\ \/ /\ ~Item(p, c).landed
        /\ Put(k, d)
        /\ SetItem(p, c, [Item(p, c) EXCEPT !.landed = TRUE])
        /\ UNCHANGED index
     \/ /\ Item(p, c).landed
        /\ Register(k)
        /\ after
        /\ UNCHANGED store
  /\ UNCHANGED <<jobs, faults>>

-----------------------------------------------------------------------------
(* Selecting the captures of a pass. *)

Published == {c \in Capture : Has(ManifestKey(c))}
Settled   == {c \in Capture : Has(SettledKey(c))}
Receipted == {c \in Capture : Has(JobsKey(c))}

Frontier == {c \in Published \ Settled : ~Has(CanonicalKey(c))}

\* The frontier's order: receipt holders first, then by id.
Before(c, d) ==
  \/ c \in Receipted /\ d \notin Receipted
  \/ (c \in Receipted <=> d \in Receipted) /\ c < d

\* Seeded fault: no new capture is taken while a receipt is outstanding.
SelectedReceiptsOnly ==
  {c \in Frontier : /\ Frontier \cap Receipted # {} => c \in Receipted
                    /\ Cardinality({d \in Frontier : Before(d, c)}) < Limit}

Selected ==
  {c \in Frontier : Cardinality({d \in Frontier : Before(d, c)}) < Limit}

Begin(p, selected) ==
  /\ pass[p].at = "idle"
  /\ pass' = [pass EXCEPT ![p] =
       [at |-> "working", settled |-> Settled,
        items |-> [c \in selected |->
          [at |-> "gather", landed |-> FALSE, receipt |-> << >>]]]]
  /\ Frame

\* The cron takes the frontier; the manual endpoint may name one capture.
BeginCron(p)      == Begin(p, Selected)
BeginManual(p, c) == Begin(p, {c})

End(p) ==
  /\ pass[p].at = "working"
  /\ DOMAIN pass[p].items = {}
  /\ pass' = [pass EXCEPT ![p] = IdlePass]
  /\ Frame

-----------------------------------------------------------------------------
(* performCapture *)

\* Seeded fault: the receipt is not read.
GatherBlind(p, c) ==
  /\ At(p, c, "gather")
  /\ IF c \in Published THEN Goto(p, c, "read") ELSE EndItem(p, c)
  /\ Frame

\* gatherState, first half: the manifest and the jobs receipt.  An item with
\* no manifest ends.
Gather(p, c) ==
  /\ At(p, c, "gather")
  /\ IF c \in Published
     THEN SetItem(p, c, [Move(p, c, "read") EXCEPT !.receipt = Receipt(c)])
     ELSE EndItem(p, c)
  /\ Frame

\* Second half: the canonical transcript.  The settle marker was looked up
\* when the pass listed the markers; a stale error transcript is cleared
\* before the receipt is judged.
Judge(p, c) ==
  LET held == Item(p, c).receipt
  IN IF Matches(c, held) THEN Goto(p, c, Resume(c, held)) ELSE EndItem(p, c)

ReadCanonical(p, c) ==
  /\ At(p, c, "read")
  /\ IF c \in pass[p].settled \/ CanonicalStatus(c) = "completed"
     THEN EndItem(p, c)
     ELSE IF CanonicalStatus(c) = "error" THEN Goto(p, c, "clear")
     ELSE Judge(p, c)
  /\ Frame

ClearError(p, c) ==
  /\ At(p, c, "clear")
  /\ \/ /\ ~Item(p, c).landed
        /\ Delete(CanonicalKey(c))
        /\ SetItem(p, c, [Item(p, c) EXCEPT !.landed = TRUE])
        /\ UNCHANGED index
     \/ /\ Item(p, c).landed
        /\ Unregister(CanonicalKey(c))
        /\ Judge(p, c)
        /\ UNCHANGED store
  /\ UNCHANGED <<jobs, faults>>

\* The vendor accepts a job for the next chunk.
Accept(c, j) ==
  jobs' = [x \in DOMAIN jobs \cup {j} |-> IF x = j THEN "running" ELSE jobs[x]]

NextJob(c, held) ==
  LET i == Len(held) + 1
  IN <<c, i, Cardinality({x \in JobsOf(c) : ChunkOf(x) = i}) + 1>>

\* Seeded fault: the receipt is committed once, after the last chunk.
BuyCommitLast(p, c) ==
  /\ At(p, c, "submit")
  /\ LET held == Append(Item(p, c).receipt, NextJob(c, Item(p, c).receipt))
         l == IF Resume(c, held) = "submit" THEN "submit" ELSE "commit"
     IN /\ Accept(c, NextJob(c, Item(p, c).receipt))
        /\ SetItem(p, c, [Move(p, c, l) EXCEPT !.receipt = held])
  /\ UNCHANGED <<ledgerVars, faults>>

Buy(p, c) ==
  /\ At(p, c, "submit")
  /\ LET held == Item(p, c).receipt
         j    == NextJob(c, held)
     IN /\ Accept(c, j)
        /\ SetItem(p, c,
             [Move(p, c, "commit") EXCEPT !.receipt = Append(held, j)])
  /\ UNCHANGED <<ledgerVars, faults>>

\* The vendor accepts the job but its answer is lost: a transport failure is
\* retried, an answer that cannot be read ends the item.
BuyUnanswered(p, c) ==
  /\ At(p, c, "submit")
  /\ faults < MaxFaults
  /\ faults' = faults + 1
  /\ Accept(c, NextJob(c, Item(p, c).receipt))
  /\ UNCHANGED pass \/ EndItem(p, c)
  /\ UNCHANGED ledgerVars

\* The receipt is rewritten with the job just bought; then the next chunk,
\* or the end of this pass's work on the capture.
Commit(p, c) ==
  LET held == Item(p, c).receipt
      next == Resume(c, held)
  IN Write(p, c, "commit", JobsKey(c), held,
           IF next = "poll" THEN EndItem(p, c) ELSE Goto(p, c, next))

Held(p, c) == {Item(p, c).receipt[n] : n \in 1..Chunks[c]}

\* Poll the jobs already paid for; one that still runs ends the item.
Poll(p, c) ==
  /\ At(p, c, "poll")
  /\ IF \A j \in Held(p, c) : Over(j)
     THEN Goto(p, c, "vendor") ELSE EndItem(p, c)
  /\ Frame

Completed(held) == {j \in held : jobs[j] = "completed"}

\* The vendor's answers are kept first.  Any completed chunk, or silence in
\* every chunk, makes a transcript; anything else settles as failed.
KeepAnswers(p, c) ==
  LET held    == Held(p, c)
      settles == /\ Completed(held) = {}
                 /\ \E j \in held : jobs[j] = "error"
  IN Write(p, c, "vendor", VendorKey(c), held,
           Goto(p, c, IF settles THEN "settle" ELSE "publish"))

\* Seeded fault: a partial success files every chunk.
PublishAll(p, c) ==
  Write(p, c, "publish", CanonicalKey(c),
        Transcript({ChunkOf(j) : j \in Held(p, c)}), EndItem(p, c))

\* Errored and silent chunks are dropped from the merge.
Publish(p, c) ==
  Write(p, c, "publish", CanonicalKey(c),
        Transcript({ChunkOf(j) : j \in Completed(Held(p, c))}),
        EndItem(p, c))

\* transcribe-settled: a chunk that is not in the bucket, or every chunk
\* failed for a real reason.
Settle(p, c) ==
  Write(p, c, "settle", SettledKey(c), "marker", EndItem(p, c))

-----------------------------------------------------------------------------
(* The shadow diff, which submits nothing and polls nothing. *)

Gone(c) == \E n \in 1..Chunks[c] : <<c, n>> \in Missing

\* diffCapture: "unsubmitted" is its "pending" as well, by the manifest's age.
DiffCapture(c) ==
  IF c \in Settled THEN "settled"
  ELSE IF CanonicalStatus(c) = "error" THEN "in-flight"
  ELSE IF ~Matches(c, Receipt(c)) THEN "error"
  ELSE IF CanonicalStatus(c) = "completed" \/ Gone(c) THEN "done"
  ELSE IF c \in Receipted THEN "in-flight" ELSE "unsubmitted"

-----------------------------------------------------------------------------
(* Failures, the vendor, and the stage upstream. *)

\* A call of one item fails: the item is an error in the report.
Fault(p, c) ==
  /\ Working(p, c)
  /\ faults < MaxFaults
  /\ faults' = faults + 1
  /\ EndItem(p, c)
  /\ UNCHANGED <<ledgerVars, jobs>>

Crash(p) ==
  /\ pass[p].at = "working"
  /\ faults < MaxFaults
  /\ faults' = faults + 1
  /\ pass' = [pass EXCEPT ![p] = IdlePass]
  /\ UNCHANGED <<ledgerVars, jobs>>

\* "silent" is the vendor's error "no spoken audio".
VendorFinishes(j) ==
  /\ ~Over(j)
  /\ \E status \in {"completed", "silent", "error"} :
       jobs' = [jobs EXCEPT ![j] = status]
  /\ UNCHANGED <<ledgerVars, pass, faults>>

\* Media-normalize publishes a capture's manifest.
Normalize(c) ==
  /\ c \notin Published
  /\ Put(ManifestKey(c), Chunks[c])
  /\ Register(ManifestKey(c))
  /\ UNCHANGED <<jobs, pass, faults>>

-----------------------------------------------------------------------------
Inherited == Mismatched \cup StaleError

Init ==
  /\ store = [k \in {ManifestKey(c) : c \in Inherited}
                     \cup {JobsKey(c) : c \in Inherited}
                     \cup {CanonicalKey(c) : c \in StaleError} |->
                CASE k[1] = "manifest"  -> Chunks[k[2]]
                  [] k[1] = "jobs"      -> InheritedReceipt(k[2])
                  [] k[1] = "canonical" -> ErrorTranscript]
  /\ index = DOMAIN store
  /\ jobs = [j \in UNION {{InheritedReceipt(c)[n] :
                             n \in 1..Len(InheritedReceipt(c))} :
                           c \in Inherited} |-> "error"]
  /\ pass = [p \in Pass |-> IdlePass]
  /\ faults = 0

ItemStep(p, c) ==
  \/ Gather(p, c) \/ ReadCanonical(p, c) \/ ClearError(p, c)
  \/ Buy(p, c) \/ Commit(p, c)
  \/ Poll(p, c) \/ KeepAnswers(p, c) \/ Publish(p, c) \/ Settle(p, c)

Vendor == \E j \in DOMAIN jobs : VendorFinishes(j)

Next ==
  \/ \E p \in Pass : BeginCron(p) \/ End(p) \/ Crash(p)
  \/ \E p \in Pass, c \in Capture :
       BeginManual(p, c) \/ ItemStep(p, c) \/ BuyUnanswered(p, c)
       \/ Fault(p, c)
  \/ Vendor
  \/ \E c \in Capture : Normalize(c)

Spec == Init /\ [][Next]_vars

\* The cron keeps firing, and manual runs do not shut it out for ever; the
\* items of a running pass keep going; the vendor finishes what it accepts.
FairSpec ==
  /\ Spec
  /\ \A p \in Pass :
       /\ SF_vars(BeginCron(p)) /\ WF_vars(End(p))
       /\ \A c \in Capture : WF_vars(ItemStep(p, c))
  /\ WF_vars(Vendor)

-----------------------------------------------------------------------------
(* Properties. *)

JobId == Capture \X (Nat \ {0}) \X (Nat \ {0})
Key == {<<k, c>> : k \in {"manifest", "jobs", "vendor", "canonical",
                          "settled"}, c \in Capture}

\* The state of an item at work on capture c.
ItemTyped(c, item) ==
  /\ item \in [at : Label, landed : BOOLEAN, receipt : Seq(DOMAIN jobs)]
  /\ item.at \notin {"gather", "read", "clear"} => Matches(c, item.receipt)
  /\ item.at = "submit" => Len(item.receipt) < Chunks[c]
  /\ item.at = "commit" => item.receipt # << >>
  /\ item.at \in {"poll", "vendor", "publish"} =>
       Len(item.receipt) = Chunks[c]

\* A stored document is of the kind its key promises.
DocumentsTyped(c) ==
  /\ Has(JobsKey(c)) => store[JobsKey(c)] \in Seq(DOMAIN jobs)
  /\ Has(CanonicalKey(c)) =>
       store[CanonicalKey(c)] \in
         [status : {"error", "completed"}, parts : SUBSET (1..Chunks[c])]

\* The types of the state; an item holds a receipt that fits its manifest
\* from the moment it goes on to buy, and a whole one when it polls.
TypeOK ==
  /\ DOMAIN jobs \subseteq JobId
  /\ \A j \in DOMAIN jobs :
       jobs[j] \in {"running", "completed", "silent", "error"}
  /\ DOMAIN store \subseteq Key
  /\ \A c \in Capture : IsFiniteSet(JobsOf(c)) /\ DocumentsTyped(c)
  /\ index \subseteq Key
  /\ faults \in 0..MaxFaults
  /\ DOMAIN pass = Pass
  /\ \A p \in Pass :
       /\ DOMAIN pass[p] = {"at", "settled", "items"}
       /\ pass[p].at \in {"idle", "working"}
       /\ pass[p].settled \subseteq Capture
       /\ DOMAIN pass[p].items \subseteq Capture
       /\ \A c \in DOMAIN pass[p].items : ItemTyped(c, Item(p, c))

JobsIn(receipt) == {receipt[n] : n \in 1..Len(receipt)}

InHand(c) ==
  UNION {JobsIn(Item(p, c).receipt) : p \in {q \in Pass : Working(q, c)}}

\* The stage "is the only place in the system that spends AssemblyAI money":
\* a job the vendor accepted is on its capture's receipt or in the hand of
\* the item that is about to write it there; each failed call or crash loses
\* sight of at most one job of a capture.  Needs passes that do not overlap.
PaidJobsAccounted ==
  \A c \in Capture :
    Cardinality(JobsOf(c) \ (JobsIn(Receipt(c)) \cup InHand(c))) <= faults

\* A receipt is rewritten whole after every accepted job, from what was read
\* when the item began: no rewrite forgets or replaces a job already on it.
\* Needs passes that do not overlap.
ReceiptOnlyGrows ==
  [][\A c \in Capture :
       /\ Len(Receipt(c)) <= Len(Receipt(c)')
       /\ \A n \in 1..Len(Receipt(c)) : Receipt(c)[n] = Receipt(c)'[n]]_vars

\* A completed transcript is the merge of exactly the chunks the vendor
\* completed, out of a whole set of finished jobs, with the vendor's answers
\* filed before it; it is empty only when every chunk was silent.  Needs
\* passes that do not overlap.
TranscriptIsEvidence ==
  \A c \in Capture : CanonicalStatus(c) = "completed" =>
    LET held  == JobsIn(Receipt(c))
        parts == store[CanonicalKey(c)].parts
    IN /\ Len(Receipt(c)) = Chunks[c]
       /\ \A j \in held : Over(j)
       /\ Has(VendorKey(c))
       /\ parts = {ChunkOf(j) : j \in Completed(held)}
       /\ parts = {} => \A j \in held : jobs[j] = "silent"

\* A settled capture is excluded from every later pass, so the marker must
\* never give up chunks that were transcribed: it stands for a chunk that is
\* not in the bucket, or for jobs none of which completed.  Needs passes that
\* do not overlap.
SettledIsHopeless ==
  \A c \in Settled :
    LET held == JobsIn(Receipt(c))
    IN \/ <<c, Len(Receipt(c)) + 1>> \in Missing
       \/ /\ Len(Receipt(c)) = Chunks[c]
          /\ Completed(held) = {}
          /\ \E j \in held : jobs[j] = "error"

Finished(c) == c \in Settled \/ CanonicalStatus(c) = "completed"

\* The shadow diff plans a capture from the same documents, apart from the
\* live pass.  What it calls done is finished, or lacks a chunk and settles;
\* what it calls an error no pass can work either; and what it expects to go
\* on is in the frontier, where a pass will take it, save the stale error
\* transcripts that StaleErrorRetried is about.
ShadowAgrees ==
  \A c \in Published :
    LET verdict == DiffCapture(c)
    IN /\ verdict \in {"settled", "done"} => Finished(c) \/ Gone(c)
       /\ verdict = "error" => c \in Mismatched
       /\ verdict \in {"in-flight", "unsubmitted"} =>
            c \in Frontier \/ c \in StaleError

\* The state keeps its types, and whatever ends a capture, its canonical
\* transcript or its marker, the receipt, the vendor and the shadow bear it
\* out.
SettlementIsEvidence ==
  TypeOK /\ TranscriptIsEvidence /\ SettledIsHopeless /\ ShadowAgrees

\* Every capture whose manifest is published is transcribed or settled in the
\* end, whatever its jobs come to: captures that fail on every pass, which
\* stay at the head of the frontier because they hold receipts, leave room
\* as long as there are fewer of them than a pass takes.
EveryManifestSettles ==
  Cardinality(Mismatched) < Limit =>
    \A c \in Capture \ Inherited : c \in Published ~> Finished(c)

\* "A capture whose canonical is a stale ERROR record still carries its jobs
\* receipt, so it lands in the receipt-first set and the item flow
\* reprocesses it" (runTranscribePass).
StaleErrorRetried ==
  \A c \in StaleError :
    CanonicalStatus(c) = "error" ~> CanonicalStatus(c) # "error"
=============================================================================
