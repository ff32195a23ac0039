--------------------------- MODULE NormalizeStage ---------------------------
(***************************************************************************)
(* Media-normalize on the Worker (cloudflare/src/normalize.ts): every      *)
(* recording gets a manifest, either of its own bytes or of the chunks one *)
(* paid Transloadit assembly stores, coordinated through one receipt.      *)
(*                                                                         *)
(* A pass takes a census, selects, and works on the selected captures side *)
(* by side; the cron and an operator may run passes at once.  Each read,   *)
(* poll, creation and write of a capture's work is a step of its own, so a *)
(* death, a failed call or another pass can fall between any two.          *)
(*                                                                         *)
(* Abstractions.  A recording spans the chunks of Grid; its duration is    *)
(* the same wherever it is read.  OddName stands for every stored object   *)
(* that manifestFromChunkListing rejects by its name: nested, malformed,   *)
(* duplicate or surplus.  The census is one step: manifests, receipts and  *)
(* settled markers only accumulate, so a torn census is a slower one.      *)
(***************************************************************************)
EXTENDS Integers, Sequences, FiniteSets, SequencesExt

CONSTANTS
  Shelf,        \* the captures, in id order
  NormScenes,   \* what a behaviour may start with (see NormInit)
  NormLimit     \* captures one pass works on

ASSUME ShelfAssumption ==
  /\ Shelf \in Seq(ToSet(Shelf)) /\ IsInjective(Shelf)
  /\ NormLimit \in Nat \ {0}

VARIABLES
  kind,       \* what each capture is
  manifest,   \* capture -> none | whole (its own bytes) | chunks
  receipt,    \* capture -> the Transloadit receipt, or NoJob
  settled,    \* captures with a normalize-settled marker
  stored,     \* capture -> names under its chunk prefix, and the empty ones
  assemblies, \* every assembly ever paid for
  item,       \* pass -> capture -> its work
  turn,       \* the rotation cursor, in the notebook
  trouble     \* the bounds: deaths, calls that fail, bad outputs left, cuts

normVars ==
  <<kind, manifest, receipt, settled, stored, assemblies, item, turn, trouble>>

-----------------------------------------------------------------------------
(* Captures, chunks and receipts. *)

CaptureKind ==
  {"image",     \* the probe shows no audio stream
   "opaque",    \* no stored probe, and no container the Worker reads
   "untimed",   \* needs the transcode, its duration unknown
   "direct",    \* compact, mono, 16 kHz and at most an hour
   "long",      \* anything else with audio
   "legacy",    \* long, with a completed receipt of the canonical.ogg era
   "healable",  \* long, receipt completed, chunks there, manifest lost
   "bare",      \* long, its manifest there and a chunk of it not
   "unsized",   \* needs the transcode, of a duration segmentsFor refuses
   "unsized-legacy"}  \* the same, with a legacy receipt

Shelved == ToSet(Shelf)

\* Not positive, or over MAX_CHUNKS spans: segmentsFor throws.
Unsized(c) == kind[c] \in {"unsized", "unsized-legacy"}

Grid == {"c0", "c1"}
OddName == "odd"
MaxChunkAttempts == 3

NoJob == [phase |-> "none", assembly |-> 0, previous |-> << >>]
Job(phase, id, previous) ==
  [phase |-> phase, assembly |-> id, previous |-> previous]

\* manifestFromChunkListing: every name an index of the grid, none missing,
\* none empty.
Usable(c) == stored[c].names = Grid /\ stored[c].empty = {}

-----------------------------------------------------------------------------
(* The work on one capture. *)

NoWork ==
  [at |-> "idle", settled |-> FALSE, manifest |-> "none", receipt |-> NoJob,
   job |-> NoJob]

WorkPoint ==
  {"idle", "manifest?", "receipt?", "heads", "poll", "list", "create",
   "receipt!", "whole!", "chunks!", "finish!", "settle!"}

Holds(p, c, l) == item[p][c].at = l
Set(p, c, r) == item' = [item EXCEPT ![p][c] = r]
Move(p, c, l) == Set(p, c, [item[p][c] EXCEPT !.at = l])
Done(p, c) == Set(p, c, NoWork)

BucketStays == UNCHANGED <<kind, manifest, receipt, settled, stored>>
OnlyWork == BucketStays /\ UNCHANGED <<assemblies, turn, trouble>>

\* gatherState reads the manifest and the receipt at once.  A manifest that
\* is there makes the receipt irrelevant, so this order is the one that tears.
ReadManifest(p, c) ==
  /\ Holds(p, c, "manifest?")
  /\ Set(p, c, [item[p][c] EXCEPT !.at = "receipt?", !.manifest = manifest[c]])
  /\ OnlyWork

\* transloaditFlow's first choice, by the receipt found.  A duration that
\* segmentsFor refuses is not met before the creation: see ChunkThrows.
JobStep(c, r) ==
  CASE r.phase = "none"      -> IF kind[c] = "untimed" THEN "idle" ELSE "create"
    [] r.phase = "completed" -> "list"
    [] OTHER                 -> "poll"

\* performCapture up to its first call.
FirstStep(c, marked, m, r) ==
  IF marked \/ kind[c] \in {"opaque", "image"} THEN "idle"
  ELSE IF m # "none" THEN "heads"
  ELSE IF kind[c] = "direct" THEN "whole!" ELSE JobStep(c, r)

ReadReceipt(p, c) ==
  /\ Holds(p, c, "receipt?")
  /\ LET w == item[p][c]
         next == FirstStep(c, w.settled, w.manifest, receipt[c])
     IN IF next = "idle" THEN Done(p, c)
        ELSE Set(p, c, [w EXCEPT !.at = next, !.receipt = receipt[c],
                                 !.job = Job("chunks", 0, << >>)])
  /\ OnlyWork

\* The ensure: a chunk the manifest names that is missing or empty settles
\* the capture.  A manifest of the capture's own bytes always has them.
CheckHeads(p, c) ==
  /\ Holds(p, c, "heads")
  /\ IF item[p][c].manifest = "whole" \/ Grid \subseteq stored[c].names \ stored[c].empty
     THEN Done(p, c) ELSE Move(p, c, "settle!")
  /\ OnlyWork

Settle(p, c) ==
  /\ Holds(p, c, "settle!")
  /\ settled' = settled \cup {c}
  /\ Done(p, c)
  /\ UNCHANGED <<kind, manifest, receipt, stored, assemblies, turn, trouble>>

WriteWhole(p, c) ==
  /\ Holds(p, c, "whole!")
  /\ manifest' = [manifest EXCEPT ![c] = "whole"]
  /\ Done(p, c)
  /\ UNCHANGED <<kind, receipt, settled, stored, assemblies, turn, trouble>>

\* A running assembly is left to a later pass, a failed one is an error on
\* every pass, and a completed one is settled; a legacy one only starts over
\* from its canonical output.
PollAssembly(p, c) ==
  /\ Holds(p, c, "poll")
  /\ LET w == item[p][c]
         state == assemblies[w.receipt.assembly].state
     IN IF state # "completed" THEN Done(p, c)
        ELSE IF w.receipt.phase = "legacy"
             THEN Set(p, c, [w EXCEPT !.at = "create",
                    !.job = Job("chunks", 0, <<w.receipt.assembly>>)])
             ELSE Move(p, c, "list")
  /\ OnlyWork

Attempts(r) == Len(r.previous) + 1

\* The chunk listing decides: a manifest, another assembly, or an error.
ListChunks(p, c) ==
  /\ Holds(p, c, "list")
  /\ LET w == item[p][c]
         r == w.receipt
     IN IF Usable(c) THEN Move(p, c, "chunks!")
        ELSE IF r.phase = "completed" \/ Attempts(r) >= MaxChunkAttempts
             THEN Done(p, c)
             ELSE Set(p, c, [w EXCEPT !.at = "create",
                    !.job = Job("chunks", 0, Append(r.previous, r.assembly))])
  /\ OnlyWork

\* fireChunkReceipt: from here on the assembly is paid for.  Its parameters
\* are built first, and need the chunks of the duration.
CreateAssembly(p, c) ==
  /\ Holds(p, c, "create") /\ ~Unsized(c)
  /\ assemblies' = Append(assemblies, [capture |-> c, state |-> "running"])
  /\ Set(p, c, [item[p][c] EXCEPT !.at = "receipt!",
                                  !.job.assembly = Len(assemblies) + 1])
  /\ BucketStays /\ UNCHANGED <<turn, trouble>>

WriteReceipt(p, c) ==
  /\ Holds(p, c, "receipt!")
  /\ receipt' = [receipt EXCEPT ![c] = item[p][c].job]
  /\ Done(p, c)
  /\ UNCHANGED <<kind, manifest, settled, stored, assemblies, turn, trouble>>

\* A completed receipt only has its manifest rebuilt.
WriteChunks(p, c) ==
  /\ Holds(p, c, "chunks!")
  /\ manifest' = [manifest EXCEPT ![c] = "chunks"]
  /\ IF item[p][c].receipt.phase = "completed" THEN Done(p, c)
     ELSE Move(p, c, "finish!")
  /\ UNCHANGED <<kind, receipt, settled, stored, assemblies, turn, trouble>>

\* Seeded fault: the receipt is completed before the manifest is written.
FinishEarly(p, c) ==
  /\ \/ Holds(p, c, "finish!")
     \/ Holds(p, c, "chunks!") /\ item[p][c].receipt.phase = "chunks"
  /\ receipt' = [receipt EXCEPT ![c] = [item[p][c].receipt EXCEPT !.phase = "completed"]]
  /\ IF Holds(p, c, "finish!") THEN Done(p, c)
     ELSE Set(p, c, [item[p][c] EXCEPT !.receipt.phase = "completed"])
  /\ UNCHANGED <<kind, manifest, settled, stored, assemblies, turn, trouble>>

\* Writes back the receipt as this work read it, completed.
FinishReceipt(p, c) ==
  /\ Holds(p, c, "finish!")
  /\ receipt' = [receipt EXCEPT ![c] = [item[p][c].receipt EXCEPT !.phase = "completed"]]
  /\ Done(p, c)
  /\ UNCHANGED <<kind, manifest, settled, stored, assemblies, turn, trouble>>

WorkStep(p, c) ==
  \/ ReadManifest(p, c) \/ ReadReceipt(p, c) \/ CheckHeads(p, c) \/ Settle(p, c)
  \/ WriteWhole(p, c) \/ PollAssembly(p, c) \/ ListChunks(p, c)
  \/ CreateAssembly(p, c) \/ WriteReceipt(p, c) \/ WriteChunks(p, c)
  \/ FinishReceipt(p, c)

-----------------------------------------------------------------------------
(* A pass. *)

Census(p) == \A c \in Shelved : Holds(p, c, "idle")

InFlight(c) == receipt[c].phase # "none" /\ manifest[c] = "none"
Frontier(c) == receipt[c].phase = "none" /\ manifest[c] = "none" /\ c \notin settled
Manifested(c) == manifest[c] # "none"

\* Seeded fault: what is in flight is left to the slice.
FrontierOnly == SelectSeq(Shelf, Frontier)

\* In-flight receipts, then the unprocessed frontier ...
Queued == SelectSeq(Shelf, InFlight) \o SelectSeq(Shelf, Frontier)

Picked == SubSeq(Queued, 1, IF Len(Queued) < NormLimit THEN Len(Queued) ELSE NormLimit)

\* ... and a rotating slice of the manifested captures for what is left.
SliceLength ==
  LET budget == NormLimit - Len(Picked)
      n == Len(SelectSeq(Shelf, Manifested))
  IN IF n < budget THEN n ELSE budget

Slice ==
  LET m == SelectSeq(Shelf, Manifested)
  IN {m[((turn + i) % Len(m)) + 1] : i \in 0 .. SliceLength - 1}

NextTurn ==
  LET n == Len(SelectSeq(Shelf, Manifested))
  IN IF n = 0 THEN turn ELSE (turn + SliceLength) % n

Take(p, chosen) ==
  item' = [item EXCEPT ![p] = [c \in Shelved |->
             IF c \in chosen
             THEN [NoWork EXCEPT !.at = "manifest?", !.settled = c \in settled]
             ELSE NoWork]]

\* The cursor is saved before the work.
CronPass(p) ==
  /\ p = 1
  /\ Census(p)
  /\ Take(p, ToSet(Picked) \cup Slice)
  /\ turn' = NextTurn
  /\ BucketStays /\ UNCHANGED <<assemblies, trouble>>

\* An operator's pass over one named capture.
NamedPass(p) ==
  /\ p = 2
  /\ Census(p)
  /\ \E c \in Shelved : Take(p, {c})
  /\ OnlyWork

-----------------------------------------------------------------------------
(* What goes wrong, and the vendor. *)

Cost(k) == trouble[k] > 0 /\ trouble' = [trouble EXCEPT ![k] = @ - 1]

\* The isolate ends, or a call fails: the work so far stands.
PassDies(p) ==
  /\ ~Census(p)
  /\ Cost("deaths")
  /\ item' = [item EXCEPT ![p] = [c \in Shelved |-> NoWork]]
  /\ BucketStays /\ UNCHANGED <<assemblies, turn>>

\* segmentsFor throws while the parameters are built.  The throw is a defect,
\* which the captures' own Effect.catch lets through: it ends the pass with
\* every capture in it, and a receipt a paid assembly waits for is not written.
\* Only such a cut is bounded.
ChunkThrows(p, c) ==
  /\ Holds(p, c, "create") /\ Unsized(c)
  /\ IF \E d \in Shelved : Holds(p, d, "receipt!") THEN Cost("cuts") ELSE UNCHANGED trouble
  /\ item' = [item EXCEPT ![p] = [d \in Shelved |-> NoWork]]
  /\ BucketStays /\ UNCHANGED <<assemblies, turn>>

CallFails(p, c) ==
  /\ ~Holds(p, c, "idle")
  /\ Cost("fails")
  /\ Done(p, c)
  /\ BucketStays /\ UNCHANGED <<assemblies, turn>>

\* The creation is done and its answer lost.
CreateLost(p, c) ==
  /\ Holds(p, c, "create") /\ ~Unsized(c)
  /\ Cost("fails")
  /\ assemblies' = Append(assemblies, [capture |-> c, state |-> "running"])
  /\ Done(p, c)
  /\ BucketStays /\ UNCHANGED turn

Outputs(c, id, state, names, empty) ==
  /\ assemblies' = [assemblies EXCEPT ![id].state = state]
  /\ stored' = [stored EXCEPT ![c] =
       [names |-> @.names \cup names, empty |-> (@.empty \ names) \cup empty]]
  /\ UNCHANGED <<kind, manifest, receipt, settled, item, turn>>

\* A completed assembly stored its chunks under the shared prefix.
VendorCompletes(id) ==
  /\ assemblies[id].state = "running"
  /\ Outputs(assemblies[id].capture, id, "completed", Grid, {})
  /\ UNCHANGED trouble

\* Or one too few, an empty one, or one badly named.
VendorSpoils(id) ==
  /\ assemblies[id].state = "running"
  /\ Cost("spoils")
  /\ LET c == assemblies[id].capture
     IN \/ Outputs(c, id, "completed", {"c0"}, {})
        \/ Outputs(c, id, "completed", Grid, {"c1"})
        \/ Outputs(c, id, "completed", Grid \cup {OddName}, {})

VendorFails(id) ==
  /\ assemblies[id].state = "running"
  /\ Cost("spoils")
  /\ Outputs(assemblies[id].capture, id, "failed", {}, {})

-----------------------------------------------------------------------------
(* What the bucket may hold when the Worker takes over from the server:    *)
(* a legacy receipt's canonical.ogg lies under the chunk prefix, and no    *)
(* chunk name fits it.                                                     *)

ReceiptOf(k, id) ==
  CASE k \in {"legacy", "unsized-legacy"} -> Job("legacy", id, << >>)
    [] k \in {"healable", "bare"} -> Job("completed", id, << >>)
    [] OTHER -> NoJob

StoredOf(k) ==
  [names |-> CASE k = "healable" -> Grid [] k = "bare" -> {"c0"}
               [] k \in {"legacy", "unsized-legacy"} -> {OddName} [] OTHER -> {},
   empty |-> {}]

\* What is known of a scene: the captures' kinds and the bounds.
ASSUME NormScenesAssumption ==
  \A s \in NormScenes :
    /\ s.kind \in [Shelved -> CaptureKind]
    /\ s.trouble \in [deaths : Nat, fails : Nat, spoils : Nat, cuts : Nat]

\* The assemblies already there, in the order they were bought.
NormStart(s) ==
  LET kept == {c \in Shelved :
                 s.kind[c] \in {"legacy", "unsized-legacy", "healable", "bare"}}
  IN \E bought \in Bijection(1 .. Cardinality(kept), kept) :
     /\ kind = s.kind
     /\ manifest = [c \in Shelved |-> IF s.kind[c] = "bare" THEN "chunks" ELSE "none"]
     /\ assemblies = [i \in 1 .. Cardinality(kept) |->
                        [capture |-> bought[i], state |-> "completed"]]
     /\ receipt = [c \in Shelved |-> ReceiptOf(s.kind[c],
          IF c \in kept THEN CHOOSE i \in DOMAIN bought : bought[i] = c ELSE 0)]
     /\ settled = {}
     /\ stored = [c \in Shelved |-> StoredOf(s.kind[c])]
     /\ item = [p \in s.passes |-> [c \in Shelved |-> NoWork]]
     /\ turn = 0
     /\ trouble = s.trouble

NormInit == \E s \in NormScenes : NormStart(s)

Passes == DOMAIN item

NormNext ==
  \/ \E p \in Passes : CronPass(p) \/ NamedPass(p) \/ PassDies(p)
  \/ \E p \in Passes : \E c \in Shelved :
       WorkStep(p, c) \/ ChunkThrows(p, c) \/ CallFails(p, c) \/ CreateLost(p, c)
  \/ \E id \in DOMAIN assemblies :
       VendorCompletes(id) \/ VendorSpoils(id) \/ VendorFails(id)

\* The cron fires every minute, the captures of a pass run side by side, and
\* an assembly ends.
NormFairness ==
  /\ WF_normVars(1 \in Passes /\ CronPass(1))
  /\ \A p \in {1, 2} : \A c \in Shelved :
       WF_normVars(p \in Passes /\ (WorkStep(p, c) \/ ChunkThrows(p, c)))
  /\ WF_normVars(\E id \in DOMAIN assemblies :
                   VendorCompletes(id) \/ VendorSpoils(id) \/ VendorFails(id))

NormSpec == NormInit /\ [][NormNext]_normVars /\ NormFairness

-----------------------------------------------------------------------------
(* diffCapture, the shadow mode's judgement of one capture: what a second  *)
(* reading of the same rules finds wrong.                                  *)

\* With a manifest.
AuditManifest(c) ==
  IF kind[c] = "direct" /\ manifest[c] = "whole" THEN "matched"
  ELSE IF receipt[c].phase = "none" THEN "manifest-without-receipt"
  ELSE IF Grid \subseteq stored[c].names \ stored[c].empty THEN "matched"
  ELSE "manifest-chunk-missing"

\* Without one.
AuditReceipt(c) ==
  CASE receipt[c].phase = "completed" -> "receipt-completed-no-manifest"
    [] receipt[c].phase \in {"chunks", "legacy"} -> "in-flight"
    [] OTHER -> "unprocessed"

AuditOf(c) ==
  IF c \in settled THEN "settled"
  ELSE CASE kind[c] = "opaque" -> "error"
         [] kind[c] = "image"  -> IF manifest[c] # "none" \/ receipt[c].phase # "none"
                                  THEN "not-media-with-artifacts" ELSE "not-media"
         [] OTHER -> IF manifest[c] # "none" THEN AuditManifest(c) ELSE AuditReceipt(c)

-----------------------------------------------------------------------------
(* Properties. *)

\* A capture's receipt names an assembly of its own, and a pass's work holds
\* what its point says.
NormTypeOK ==
  /\ kind \in [Shelved -> CaptureKind]
  /\ \A c \in Shelved :
       /\ manifest[c] \in {"none", "whole", "chunks"}
       /\ receipt[c].phase \in {"none", "legacy", "chunks", "completed"}
       /\ receipt[c].phase # "none" => assemblies[receipt[c].assembly].capture = c
       /\ \A i \in DOMAIN receipt[c].previous :
            assemblies[receipt[c].previous[i]].capture = c
       /\ stored[c].empty \subseteq stored[c].names
  /\ \A p \in Passes : \A c \in Shelved : item[p][c].at \in WorkPoint

\* A completed receipt has its manifest, except where the server lost it:
\* the manifest lands first, whatever dies or overlaps after.
CompletedHasManifest ==
  \A c \in Shelved :
    receipt[c].phase = "completed" /\ kind[c] # "healable" => manifest[c] # "none"

Paid(c) == {i \in DOMAIN assemblies : assemblies[i].capture = c}
Wounds(s) == s["deaths"] + s["fails"] + s["cuts"]

\* Re-fires are "capped per capture": the cron alone pays for no more
\* assemblies than MAX_CHUNK_ATTEMPTS, and one for each death, lost answer or
\* throw of another capture between a creation and its receipt.  (Two passes
\* at once do buy more.)
SpendBounded ==
  Passes = {1} =>
    \A c \in Shelved :
      \E s \in NormScenes :
        /\ s.kind = kind /\ s.passes = Passes
        /\ Cardinality(Paid(c)) <=
             MaxChunkAttempts + Wounds(s.trouble) - Wounds(trouble)

\* A chunk of the capture is missing or empty because an assembly other than
\* the one its manifest is of wrote it again, or because it was so at first.
Overwritten(c) == kind[c] = "bare" \/ Cardinality(Paid(c)) > 1

\* The shadow diff finds nothing wrong with what the live pass left, but a
\* chunk written over and the manifest the server lost.
AuditAgrees ==
  \A c \in Shelved :
    \/ AuditOf(c) \in
         {"matched", "settled", "in-flight", "not-media", "error", "unprocessed"}
    \/ AuditOf(c) = "manifest-chunk-missing" /\ Overwritten(c)
    \/ AuditOf(c) = "receipt-completed-no-manifest" /\ kind[c] = "healable"

\* What is called completed is complete, to the stage and to the audit, and
\* was not paid for more often than the cap allows.
NormalizeIsSound == CompletedHasManifest /\ AuditAgrees /\ SpendBounded

\* Why a recording may stay without a manifest: a failed assembly, an object
\* no chunk name fits, or the attempts used up.
Stuck(c) ==
  /\ receipt[c].phase # "none"
  /\ \/ assemblies[receipt[c].assembly].state = "failed"
     \/ OddName \in stored[c].names
     \/ Attempts(receipt[c]) >= MaxChunkAttempts

Recorded(c) == kind[c] \in {"direct", "long", "healable"}

\* Every recording gets its manifest, or is stuck for one of these reasons,
\* across deaths, lost answers and overlapping passes, on a shelf without an
\* unsized capture.  With one nothing is promised: it keeps its place in the
\* queue and takes down every pass that selects it, though the stage calls a
\* capture's failure "never a failed pass" (normalize.ts:2789).
EveryRecordingNormalized ==
  \A c \in Shelved :
    (Recorded(c) /\ \A d \in Shelved : ~Unsized(d))
      ~> (manifest[c] # "none" \/ Stuck(c))
=============================================================================
