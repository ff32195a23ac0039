# Medina in TLA+

Medina turns what a phone records (audio, location fixes, on-device
transcripts) into a journal of days. Its core is a set of passes, run every
minute by a Cloudflare Worker, that move artifacts between a source bucket, a
canonical bucket, an index and paid vendors. Nothing is transactional: a pass is
a sequence of calls, any of which may fail, the isolate may be evicted between
any two of them, and the next tick does not wait for the last one to end. What
makes the system correct is a discipline of keys, receipts and guards, and that
discipline is what these modules state, check and prove.

Paths in this file are relative to the repository.

1. [Inventory](#inventory)
2. [Plan](#plan)
3. [The modules](#the-modules)
4. [The runs](#the-runs)
5. [What the runs found](#what-the-runs-found)
6. [The proofs](#the-proofs)
7. [What is not modelled](#what-is-not-modelled)

To run a configuration or a proof: `tlc -config X.cfg M`, `tlapm M.tla`.

## Inventory

Each entry: the state the component keeps, its operations, whom it talks to,
what is hard about it, and what would make it correct.

### The Worker (`cloudflare/src`)

`worker.ts` routes requests and, in `scheduled` (1557-1830), starts one pass of
every stage each minute under `ctx.waitUntil`. Passes of one stage can overlap:
two ticks, or a tick and a manual request behind the device token. Each stage
has a shadow mode, which only compares, and a live mode.

**Artifact ledger** (`capture.ts` 913-1205, `catalog.ts`). State: the canonical
bucket (R2). Operations: exists, read, write, remove, list, head. A write puts
the object and then registers it in the object index; the two can part when the
second fails. Every stage works through it. Correct when the index lists what
the bucket holds, and when a write that reported failure leaves nothing behind
that a later pass takes for done.

**Object index** (`workers/medina-index/src/index.ts`, 153-230). A Durable
Object with a table of keys, sizes and hashes (`register`, `unregister`, list by
prefix) and one of a latest key per group (get, put). Single-threaded by
construction; correct when it follows the bucket.

**Capture loop** (`capture.ts` 1933-2288). State: per item (source key and
etag) an ingest receipt; per content hash the blob, the provenance (every
sighting of that content) and the first-look transcript; per segment a live
provisional transcript and a promotion marker; per device the believed position
and the GPS inbox. One pass lists the scan window (24 hours) of three sources,
resolves receipts, performs the unreceipted items newest first with a cap of 25
per source, and at the end reduces the location fixes it met into the believed
positions. Hard: guard and write are separate calls; two uploads share one
provenance; a live partial is overwritten in place by the phone while the Worker
reads it, and races the recording that seals its segment; events arrive in any
order. Correct when a receipt is never there without what it promises (nobody
looks again), no sighting and no transcript is lost, a promoted segment stays
promoted, the believed position is the newest fix, and every upload is performed
before it leaves the window.

**Media-normalize** (`normalize.ts`, 3005 lines). State: per capture a
Transloadit receipt (assembly, phase, earlier assemblies), the chunks, the media
manifest, a stored probe, a cache of derived verdicts. Operations: decide from
the container's headers whether a blob is a recording and how long it is (a
verdict), fire an assembly, poll it, validate the listed chunks, publish the
manifest, re-fire at most twice, upgrade legacy receipts. Talks to Transloadit,
which costs money. Hard: an assembly is created before its receipt is written;
assemblies of one capture write under one prefix; an assembly that failed for
good keeps its receipt; five container formats, each with its own way of not
saying how long it lasts; a duration that cannot be cut into chunks is a throw no
handler catches, which ends the pass for every capture in it. Correct when spending
is bounded, a manifest names only validated chunks, a verdict plans what the
recording asks for, and no capture is stuck without being reported.

**Media-transcribe** (`transcribe.ts`). State: per capture a jobs receipt (one
AssemblyAI job per chunk), the vendor's answers, the canonical transcript, a
settle marker. A pass takes a few captures from the frontier (receipt holders
first), submits what is not on the receipt, polls what is, and files a
transcript or settles. Hard: a job is accepted before its receipt is written; a
POST is retried when its answer is lost; some chunks fail and some are silent;
captures that fail on every pass keep their place in the frontier. Correct when
every job paid for is on a receipt, receipts only grow, a transcript is exactly
what the vendor completed, no capture with a completed chunk is settled as
failed, and every manifest ends up transcribed or settled.

**Archive sweep** (`archive.ts`). State: a receipt per capture of the files
copied to the archive, a census cursor in a Durable Object. A pass copies the
files of unreceipted captures, then works a rotating slice of the receipted
ones. Hard: copy, then receipt; a capture that always fails stays in the
frontier; the cursor is saved before the work. Correct when a receipt names only
files that are in the archive and the census reaches every capture.

**Stars** (`stars.ts`). State: stars (detected intentions) with deadlines,
retention receipts. A pass gathers transcripts and stars, plans filings and
sweeps, then carries them out; a sweep writes its receipt before the deletion.
Hard: the plan is made from a snapshot; one failure ends the pass; the API edits
stars that a rescan files over, and a transcript may leave the index under its star.
Correct when no star is deleted without a receipt, before its deadline, or after
having been revived.

**Journal** (`journal.ts`). State: the persisted snapshot of the read model with
the fingerprint of its inputs, a memo per isolate with a time to live of a
minute. Two writers: the minutely refresh, and a request that finds no snapshot.
Hard: the inputs and their fingerprint are read at different times. Correct when
a snapshot with the present fingerprint shows the present inputs.

**Shadow audits** (`capture.ts` 1402-1932, and `diffCapture`,
`runStarsShadowPass`, `reconcileOne` of the other stages; `worker.ts` 1855-2001).
Read-only comparisons of what is there with what the receipts say, and a Durable
Object that keeps their cursors and reports. Each derives keys, versions and
rules a second time. Correct when a verdict is never "matched" for an item that
is missing, and when nothing is reported of a state the live stage left sound.

**Temporary credentials** (`r2creds.ts`). Locally minted, signed R2 tokens. No
state.

### The phone (`android-capture`)

**Spool and upload** (`data/`, `upload/`). State: a table of upload rows
(pending or uploaded, payload path, size, hash) and the payload files.
Operations: enqueue, refresh a live transcript's row, upload passes
(foreground, scheduled, manual; a new one replaces or joins a running one),
recovery at start, pruning. Hard: passes hold snapshots of rows that others
change; a row and its file change in separate steps; a file is written before
its row. Correct when a payload is deleted only after that payload was uploaded,
and everything spooled is uploaded in the end.

**Capture and transcription** (`capture/`, `transcribe/`). The recorder seals
segments; the live transcriber rewrites a partial on every tick; the batch
transcriber follows. Correct when a segment's final transcript ends up with the
segment's audio.

**Capture service** (`capture/CaptureService.kt`, `AudioCapture.kt`,
`LocationCapture.kt`, `ActivityMonitor.kt`). State: the running recorder, its
rollover timer, the location gear. Intents (start, stop, reload), clock
boundaries, an early roll when the app opens and the activity classifier all want
to change them; one mutex and the main thread keep them apart, but coroutines
suspend. Correct when every running recorder is the one in hand, with exactly its
own rollover, and nothing records after a stop.

**Policy** (`data/CapturePolicy.kt`, `SettingsStore.kt`,
`lib/capture/CapturePolicy.ts`, `workers/medina-index`, the publishing scripts).
State: the document (bucket or disk, and a cache), the token registry (disk) with
a mirror in the bucket that the edge trusts, what the phone has fetched and what
its service applies. Hard: the registry is rewritten whole; scripts write from
other processes; every copy is kept by etag. Correct when a revoked token stays
so, mirror included, and the phone comes to the published document.

### The server and libraries (`lib`, `example-lifelog`, `scripts`)

**Pipeline, resources, sources** (`lib/Pipeline.ts`, `Resource.ts`, `Source.ts`,
`example-lifelog/main.ts`). The long-running server's ingest loop: sources, then
compaction of positions, then resources in order. A resource's key names what it
is derived from, a file that is there is current, what is missing is
materialized; failures are isolated; notes and journals are written by durable
workflows that outlive a restart. Correct when the days converge on the evidence
once it stops changing, and no current file tells of something else.

**Ingest** (`lib/capture`: `Discover`, `LocalTranscripts`, `DeviceEvents`,
`CaptureBucket`, `Audio`, `HttpIngest`). The twins of the Worker's capture loop,
with a discovery index per source and several items at work at once. Correct when
a receipt speaks for what is there, a batch text stands, and every upload is taken
in.

**Media** (`lib/capture`: `Media`, `DriveAllow`, `TransloaditNormalize`,
`lib/AssemblyAI.ts`). The twins of media-normalize and media-transcribe, with a
local ffmpeg, Drive imports and markers for what is impossible. Correct when
manifests and transcripts are whole, each chunk is bought once, and every
recording is transcribed or given up on record.

**Artifact store** (`lib/ArtifactStore.ts`, `Files.ts`, `Bucket.ts`,
`MigrateArtifacts.ts`). Local files, or a bucket and its index, behind one seam,
and the migration from one to the other. Correct when a reader never sees part of
an artifact, the index lists nothing that was not written, and a clean migration
has moved everything.

**Journal domain** (`lib/lifelog`). Day index, attribution, stays, movement,
notes, journals, stars. **Connectors, runtime, scripts**: adapters, telemetry,
wiring.

**Served days** (`lib/lifelog/Views.ts`, `Journal.ts`). The process-wide memo of
day previews, its snapshot on disk, the hub that replays day updates to new
subscribers, the recomputes that run behind readers. Correct when the rows that are
served converge on the journals that are written, whatever recomputes overlap, fail
or are cut off by a restart.

**The page** (`lib/lifelog/client.ts`). Hash routes, a table that grows by pages, a
modal over it, live updates, timers. One thread, but a route's fiber is never
interrupted, so answers come late and in any order. Correct when no row is missing,
a late answer moves nothing the reader has left, and a day that is being written
fills in.

### How they meet

    phone spool --PUT--> source bucket --capture loop--> canonical bucket
                                                             |  index
            normalize --manifest--> transcribe --transcript--+
                                                             |
                        archive, stars, journal  <-----------+

Components share state, never messages: each reads keys that another writes.
The keys, and who may write them in which order, are the protocol.

## Plan

The order is that of importance: what loses evidence or money first, what derives
from evidence next, audits and edges last.

| order | module | composes | question |
|---|---|---|---|
| 1 | `ArtifactLedger` | | bucket and index as two steps |
| 2 | `CaptureLoop`, `CaptureAudit` | ArtifactLedger, ReceiptedWork | receipted ingest under failures, crashes, overlap; what the audit says of it |
| 3 | `CaptureProofs` | CaptureAudit | for any instance: types, receipts and the refinement; what a single pass guarantees; the audit |
| 4 | `TranscribeStage`, `TranscribeStageProofs` | ArtifactLedger | paid jobs, receipts, transcripts, settling |
| 5 | `AndroidSpool`, `CaptureService`, `CapturePolicy`, `PhoneProofs` | `MCHosts` | the phone: rows and files, the recorder, the policy |
| 6 | `NormalizeStage`, `NormalizeStageProofs`, `MediaVerdict` | `MCStages` | paid assemblies, manifests, verdicts |
| 7 | `ArchiveSweep` (proofs in `NormalizeStageProofs`) | ReceiptedWork, `MCStages` | copy before receipt, census and starvation |
| 8 | `StarRetention`, `LifelogProofs` | `MCStages` | receipt before deletion, revival |
| 9 | `JournalSnapshot`, `LifelogProofs` | `MCStages` | stamp against contents |
| 10 | `DayDerivation`, `LifelogProofs` | `MCStages` | keys, memos, workflows, convergence |
| 11 | `ServerIngest`, `ServerStore`, `ServerIngestProofs`, `ServerMedia`, `ServerMediaProofs` | `MCHosts` | the server's twins and its store |
| 12 | `DayPreviews`, `JournalClient`, `JournalClientProofs` | `MCJournal` | the served rows, and the page that shows them |

All of these are written. The abstract specification is `ReceiptedWork`: work
that is done stays done, and a receipt names only work that is done. `CaptureLoop`
implements it, by proof. `ArchiveSweep` implements it under a mapping of files at
sizes, by proof too, if no provenance grows between a pass's read of it and its copy
(`GrowsApart`); when one does it does not, as `archive_race` shows. The page and its
server, `JournalClient`, implement the server alone, `DayPreviews`, by proof.

## The modules

### `ArtifactLedger`

`store` is the canonical bucket, a function from keys to documents, and `index`
the set of keys the object index lists. `Put`, `Delete`, `Register` and
`Unregister` are single calls. A module that composes them lets a step of its
own fall between the two calls of a write (`Write`, `Remove`), so an object can
be in the bucket and not in the index, as in the code when the second call fails.

### `CaptureLoop`

One record per pass: `at` is the point its handler has reached (named for the
call it makes next), `landed` says that the bucket half of a write is done,
`unscanned` and `checks` are the batch, `item` and `doc` the item in hand and the
document it was read with, `done` the count per source and `noted` the fixes
that wait for the reduction. `clock`, `modified` and `horizon` are the source
bucket: when each object was last uploaded and what has left the window.

| action | code (`cloudflare/src/capture.ts`) |
|---|---|
| `Begin`, `List`, `Scan`, `ScanEnd` | `runCaptureLivePass`: window, listing, `findReceipt` |
| `Take`, `BatchEnd`, `Drop` | perform loop: newest first, cap, items that always fail |
| `Identify`, `WriteBlob`, `ReadSightings`, `WriteProvenance`, `WriteReceipt` | `performAudio` up to the receipt |
| `ReadProvisional`, `CheckFirstLook`, `Promote`, `Retire`, `MarkPromoted` | `performAudio`, promotion of the live provisional |
| `DownloadPartial`, `CheckPromoted`, `WriteProvisional` | `performTranscript`, live partial |
| `DownloadFinal`, `WriteFirstLook` | `performTranscript`, batch transcript |
| `DownloadEvent`, `WriteInbox` | `performEvent` and `noteFix` |
| `ReadBelieved`, `WriteBelieved`, `End` | reduction into latest-location |
| `Fault`, `Crash` | `onFailure` of an item; eviction, or a failed listing |
| `Upload`, `AgeOut` | the phone; time |

`Promise` instantiates `ReceiptedWork` with the performed items as `done` and the
items whose receipt is in the bucket as `receipted`; `ReceiptsKeepPromise` is its
specification.

Every call to the bucket or the index is one step, computation between calls is
not. Payloads are classified by constant sets; an upload's stamp stands for its
modification time and its etag.

### `TranscribeStage`

`jobs` is what AssemblyAI holds: a job is `<<capture, chunk, n>>`, the n-th
bought for that chunk, with its status. A pass has the snapshot of settle
markers it took when it began (the code lists them before it works) and its
items at work, each with a program point and the receipt in its hand. Items of a
pass interleave (the code works 8 at a time).

| action | code (`cloudflare/src/transcribe.ts`) |
|---|---|
| `BeginCron`, `BeginManual`, `End` | `runTranscribePass`: frontier and limit, or one named capture |
| `Gather`, `ReadCanonical`, `ClearError` | `gatherState`; `performCapture` up to the receipt's check |
| `Buy`, `BuyUnanswered`, `Commit` | the submit loop, `assemblyAiRequest` |
| `Poll` | polling; one running job ends the item |
| `KeepAnswers`, `Publish`, `Settle` | vendor receipt, canonical transcript, settle marker |
| `Fault`, `Crash` | per-item isolation; eviction |
| `VendorFinishes`, `Normalize` | the vendor; media-normalize publishing a manifest (external) |

`Init` is not empty: a bucket that earlier versions have written to can hold a
receipt that contradicts its manifest (`Mismatched`; the code checks for it) and
an error record under a canonical key (`StaleError`; the code clears it, and
`lib/capture/Media.ts` 657-663 says where such records come from).

The listings a pass begins with are one step, and so are the reads of manifest
and receipt: a manifest does not change, and nothing in a single pass writes
what they read.

### `CaptureAudit`

`runCaptureShadowPass` as a function of the state: the window, the receipt it
finds, the keys it derives for that receipt, the verdict by age, the newest fix of
the window against the believed position. It reads the modules of the live pass
only through the bucket, so a key or a version that the two derive differently
shows up as a verdict (`ShadowAgrees`). One disagreement is the audit's own and
`LatestIsTold` names it: of two fixes of one time the sequence number decides, but
the audit compares only the time, and calls the position stale.
`TranscribeStage!DiffCapture`, `StarRetention!AuditStars`,
`NormalizeStage!AuditOf` and `ArchiveSweep!ShadowVerdict` are the other stages'
audits in the same form.

### `NormalizeStage` and `MediaVerdict`

`NormalizeStage`: per capture its kind (image, bare bytes, direct, long, of an
older layout), manifest, receipt, the stored chunks; `assemblies` is what
Transloadit holds and was paid for. Each pass works on its captures side by side;
a capture's work is a program point and every read, poll, creation and write a
step (`ReadManifest`, `ReadReceipt`, `CheckHeads`, `Settle`, `WriteWhole`,
`PollAssembly`, `ListChunks`, `CreateAssembly`, `WriteReceipt`, `WriteChunks`,
`FinishReceipt`). `CronPass` takes the census, the frontier and a rotating slice
of the rest; `NamedPass` is an operator's.

A recording that needs the transcode and whose duration `segmentsFor` refuses (not
positive, or over `MaxChunks` spans) is `Unsized`; `MediaVerdict!PlanOf` is where a
verdict makes one of a blob, a fragmented MP4 among them. Its work comes as far as the
creation, where `ChunkThrows` takes its whole pass down, siblings included: a paid
assembly of theirs may be left without its receipt. `EveryRecordingNormalized` promises
nothing of a shelf that holds one, because neither does the code.

`MediaVerdict`: a blob is what its writer made of it (boxes, chunks, a stream of
frames), with the `truth` ffprobe would tell. `Mp4Verdict`, `WavVerdict`,
`FlacVerdict`, `Mp3Verdict` and `OggVerdict` are the walks, `Walk` tries them in
the code's order with a read that may fail, `Resolved` is the order of stored
probe, cache and walk. `VerdictIsRight` compares what a verdict *plans* (which
chunks, how many) with what the truth plans. The blobs for which they differ are
listed by `Misread`, and every entry is needed:

- a chance frame sync in bytes that are not MP3, and in an Ogg file's first page,
  because MP3 is tried before Ogg and on anything;
- FLAC's sample count, assembled with a signed 32-bit shift (`Word` is 8 in place
  of 2^32);
- a fragmented MP4, whose movie header says zero; Opus in MP4, whose sample entry
  holds the encoder's rate; a movie box behind more boxes than are walked;
- a WAV whose data size was never filled in; a varying bit rate with no count of
  frames.

`normalize.ts` 728-730 promises only that null is not a claim about the bytes; of
a wrong verdict it says nothing, so these are recorded as hazards and not as
findings.

### `ArchiveSweep` and `ReceiptedWork`

A file is its size; `tree` is what each store holds and `receipts` the sizes each
side believes are archived. Passes 1 and 2 are the Worker's (cron and operator),
3 the server's, whose store is the same bucket or its own disk. `BeginSweep`
chooses the frontier and then the census slice, saving the cursor first;
`ListFiles`, `ReadKnown`, `VerifyFile`, `ReadBytes`, `CopyFile` and
`WriteArchReceipt` are single calls. `Promise` instantiates `ReceiptedWork` with
`done`, the files the archive holds at a size or more, and `receipted`, those a
receipt claims; `ArchiveKeepsPromise` is its specification. A pass settles its slice
in id order (`InIdOrder`), so the catalog lists each capture once; receipts and
buckets start as the sweep leaves them (`ArchScenesAssumption`): a receipt claims no
more than the archive holds, and the archive no more than there was.

### `StarRetention`

Time is counted in default retentions. A detector pass takes its `now`, reads
transcripts (`Gather`) and records (`ListStars`), plans, and performs the plan call
by call (`FileStar`, `SweepReceipt`, `SweepRemove`); the Worker's cron, an operator
and the server's resource run beside the authoring API (`SetStar`, `UpdateRead`,
`UpdateWrite`, `RemoveStar`). Of a record are kept its author, creation, interval and
retention, and for the name, the note and the visibility whether they are as filed
(`text`): an update may change the retention, the text or both, and `sameStarRecord`
compares all. Transcripts enter the index (`IndexGrows`) and leave it (`IndexDrops`: a
live partial becomes its capture, a first look gives way, a listed transcript is not
there). `patched` remembers the stars that `updateStar` was the last to write;
`AuditIsExplained` says by what each of the audit's findings is explained.

### `JournalSnapshot`

A fingerprint is the pair of listings it hashes. A builder is a rebuild, which
stamps and then gathers, or a request's load, which gathers and then stamps; every
listing, scan and write is a step, builders overlap, and journals and day indexes
land meanwhile. `StampIsHonest` is stated for the snapshots of rebuilds. A load
may vouch for what it has not read (hazard at `journal.ts` 621): its snapshot stays
until an input moves again, which is why `SnapshotCatchesUp` excuses it.

### `DayDerivation`

`evidence` is what the days derive from (texts, corrections, notes, places),
`track` the positions, partitions and stays, `shelf` the derived files by key,
`flow` the durable workflows with what their activities have remembered, `memo`
the memo of the journal instances. The pass goes through the stages of
`main.ts` (compaction, stays, search, movement, notes, journals), the workflows
run beside it and across `ServerRestarts`, and `World` changes the evidence at any
time. A workflow was keyed by what was current when it was enumerated and reads
again as it runs; `CurrentJournalTells` says a reader is nevertheless never given
an overtaken journal. What is current is the index as it was when it was made: the
journal tells everything that is still in it, and of the recordings in both says the
same. It may tell of one more, a recording that came to the day and was corrected
away again while the journal was being written (`Journal.ts` 289-305, 587-606;
`Resource.ts` 4-6). This holds because evidence never returns to an earlier state:
a note and the places count their versions, and what a scene may still change of a
text is none of what it starts with (`DayScenesAssumption`).

### `AndroidSpool`, `CaptureService`, `CapturePolicy`

`AndroidSpool`: `files`, `rows`, the bucket, the requests on the wire, two upload
passes with their snapshots of rows, the recorder, the live transcriber, the
transcription worker, events and `recover`. An answer can be lost, a pass replaced
while its request still arrives, the process can die between any two steps. A pass
takes its items in any order that lists newer rows first (`NewestFirst`), which is
the order of the query.

`CaptureService`: segments in the order they are recorded, `mutex`, the rollover
`timers`, the coroutines of the service (`task`) and the location gear. An early
roll looks at a segment, waits for the mutex (`RollNow`, `RollLocked`) and must
look again.

`CapturePolicy`: the document with its cache, the registry with its mirror, a gate
through which the server's writers go one at a time (`EnterGate`, `WriteRegistry`,
`MirrorRegistry`), the publishing script in a process of its own, the edge, and
the phone's refreshers (screen, worker, a refused upload).

### `ServerIngest`, `ServerMedia`, `ServerStore`

`ServerIngest`: a `loop` per caller with its source and the items in hand, each at
a step (`StoreBytes`, `WriteProvenance`, `WriteReceiptOf`, `LookForProvisional`,
`Promote`, ...), `seen` and `ingested` the discovery index and the receipts.
`Begin` is a discovery: cold, it learns everything, warm, it asks for the newest
`IngestLimit`.

`ServerMedia`: one capture. `kept` is which store holds which object, `fired` the
assembly's receipt, `accepted` the jobs AssemblyAI took, `bought` those on the
receipt. `ServerSpend` counts purchases against the calls and deaths that fell
between an acceptance and its filing (`harm.unfiled`).

`ServerStore`: a content is the set of parts there are of one version, so that a
torn or mixed artifact shows. Local writes go through a scratch file and a rename,
bucket writes are put and registration; the migration lists, compares by size,
copies, registers and samples. Two writers may put one key, but a key that is deleted
from the bucket has one writer; a process has one store, so that all of a scene is
local or all of it in the bucket; and the versions of a key that is migrated differ in
size, as `MigrateArtifacts.ts` 9-15 argues (`StoreScenesAssumption`).

### `DayPreviews` and `JournalClient`

`DayPreviews`: `journals` are the editions on disk, `due` the days whose inputs moved,
`memo` and `snapshot` the rows as remembered and as saved, `readings` the recomputes
that have read and not stored, `told` what the listener on the hub has not taken.
A recompute may be begun by the boot, the listener, the end of a pass or a read that
finds the memo expired; any of them may store after a later one.

`JournalClient`: `hash` and the `view` mounted for it, `calls` the bag of RPCs and
timers in flight, each with the route, generation and offset it was made for, `feed`
the live updates not yet handled. An answer is fixed by the server at one step and
handled by the page at a later one. A visit is the set of routes the reader may take
with how often; answers, timers, close events and hash changes come in any order.

### `MCStages`, `MCHosts` and `MCJournal`

These stages and hosts meet only in keys that are written once, so a behaviour of
the composed specification runs one of them (`stage`, `part`) and the others are
inert; which one, and which scene of it, is chosen in `Init`. A scene is the
smallest situation in which one hazard can happen, with a budget of what may go
wrong in it. `MCJournal` runs the server's rows alone, with three reads of the disk
under way at once, or a visit to them.

### Seeded faults

Some definitions marked *Seeded fault* stand before the definition they corrupt:
a dropped guard, an inverted check, an off-by-one, a whole document rewritten
from too little. They are never part of a specification. Putting one in the
place of the definition it precedes must make TLC refute a property;
`PROJECT.json` pairs each property of each passing run with the fault that
breaks it. A property no such fault could break would say nothing about the
code.

## The runs

| run | what varies | properties | outcome |
|---|---|---|---|
| `capture` | 1 pass, 1 fault, five phones, every upload order | types, the audit agrees, sightings, index, transcripts kept, first looks stand, positions, backlog | holds |
| `capture_overlap` | 2 passes | the loop is receipted work | holds |
| `capture_unlisted` | 1 pass, 1 fault | `ReceiptedIsListed` | violated |
| `capture_orphan` | 1 pass | `NoOrphanProvisional` | violated |
| `transcribe` | 1 pass, 1 fault | money, receipts, transcripts and markers against the vendor, progress | holds |
| `transcribe_stale` | 1 pass | `StaleErrorRetried` | violated |
| `hosts` | scenes of six parts | spool, recorder, policy, ingest, media, store | holds |
| `server_stranded` | 4 uploads, no fault | `RecordingsNeverStranded` | violated |
| `stages` | some 350 scenes of six stages | normalize, verdicts, stars, snapshot, days, archive | holds |
| `archive_race` | 1 pass, 2 sightings | `CopiesAreIdempotent` | violated |
| `journal_stuck` | 1 failed model call | `FailuresAreRetried` | violated |
| `pages` | 3 scenes of the server, 9 visits | rows converge, pages line up, the modal stays where it was asked, a pending day fills | holds |

A property that is a conjunction of named ones (`MediaIsSound`, `DaysAreSound`,
`PhoneFinishes`, `ServerFinishes`, `CapturesAreFollowedUp`, `DaysFollow`,
`FirstLooksStand`, `PositionsAreNewest`) states one question about one component;
each conjunct has its own comment where it is defined.

A pass that ends can begin again, so "1" is any number of passes one after the
other, and "2" any number with at most two at work.

**Bounds of the capture and transcribe runs, and why they are enough.**
`MaxUploads` bounds the uploads of a behaviour, `MaxFaults` the failed calls and
crashes, `PerSourceLimit` and `Limit` are the code's 25 and 8 made small enough to
be reached. The hazards need few actors: two uploads of one content share a
provenance, one partial and one recording make a promotion race, two fixes with
equal timestamps reach the tie-break, two items that always fail fill a cap of
two. One fault at any point reaches every partial effect a handler can leave,
because all the guards ask the bucket and not the history; a second fault can only
repeat the first on another item. The proofs do without these bounds where it
matters most.

- `capture`: what a phone uploads in one behaviour (`Phones`): a recording that seals
  a segment with the segment's live partial and the batch transcript; two recordings
  of one content with either; a recording over the size cap and a transcript that is
  not JSON, which fail on every pass and stay in the batch, beside a recording and a
  fix; three fixes of one device, two of which share a timestamp.
- `capture_overlap`: a recording and its partial, a recording with a
  grandfathered transcript, a partial that fails validation.
- `transcribe`: capture 1 is stuck for ever (receipt against manifest), 2 has a
  stale error record, 3 is new with two chunks, 4 lacks its second chunk; a
  pass takes two.

**Bounds of `hosts`.** `Segments` is 2 (a third only repeats the second),
`MaxSegments` 3 rolls of the recorder, `LastEdition` 3 documents, `IngestLimit` 2
for the listing's 25, `Attempts` 3 as in the code, `SampleSize` 1 for the
migration's sample. Each scene grants one or two mishaps: a death or failed call
falls between any two steps of it.

**Bounds of `stages`.** `NormLimit` and `ArchLimit` 2, one pass of a scene that an
unsized capture cuts between a sibling's creation and its receipt (`cuts`; what it cuts
elsewhere is not bounded), one transcript that leaves the index (`drops`), `MaxSize` 3 for a
provenance that grows twice, `MaxHour` 3 retentions, two builders of the snapshot,
`LastWindow` 1 for a journal's attempt window, and for the verdicts the smallest
words that keep the arithmetic: `Word` 8 for 2^32, `BoxLimit` 4 for 64 boxes,
`WindowSize` 2 frames for 4096 bytes, `MaxChunks` 3; durations fall on both sides
of each. The writers of blobs are those the walks tell apart: phone, camera,
fast-start, fragmented, dubbed and silent MP4; WAV whole and piped; FLAC; constant,
variable and tagged MP3; Opus and Vorbis in Ogg; photographs and notes that do or
do not happen to hold a frame sync.

**Bounds of `pages`.** Three days and pages of one row, so that two rows already are two
pages and a third day grows the list; a hub that replays one update; up to three reads of the
disk at once, because the third can be overtaken by two others. A visit has at most two
moves of the reader, one failed call, one dropped stream and one restart of the server
(in one visit from a snapshot that two recomputes have left behind), and the two days
that are the viewer's today and its last.

**Overlapping passes.** The properties marked *Needs passes that do not
overlap* are false when they do. `docs/cloudflare-migration.md` 1090 accepts
this for the believed position; the same holds of the provenance (a sighting
read before another pass's write is lost), the promotion marker (a partial can
come back) and the batch transcript (a promoter can overwrite it). In
media-transcribe, the code claims one submitter at any moment (`transcribe.ts`
30-31), but nothing prevents a manual run beside the cron. In media-normalize two
passes at once buy more assemblies than the cap (`SpendBounded` says so). What is
claimed of archive, stars, snapshot, uploads, ingest and store is claimed of
overlapping actors.

**Scenes left out, because the code does not promise anything there.** The capture
service started again between a stop and the end of its recorder, or stopped while a
reload is under way; a file rewritten at the same size during a migration, which
compares sizes; the publishing script, the admin route and the first-run seed all at
once, each of which writes the document whole.

**Fairness.** The cron fires every minute whatever happened to the last pass, and a
handler that is not evicted goes on: weak fairness of each pass's steps, its start
among them, in `CaptureLoop`, `NormalizeStage`, `ArchiveSweep`, `StarRetention` and
`JournalSnapshot`. Items that a pass works on side by side are each awaited, so each
is fair by itself. In `TranscribeStage` the cron's start is strongly fair, because
manual runs may occupy the model's only pass again and again but the cron has a
trigger of its own. Vendors end what they accepted. On the server the ingest loops
and the capture loop are repeated for ever, the workflow engine drives every
execution, and the clock advances (`Hour`). On the phone a seal and a pass once
begun go on, WorkManager starts the background pass again, the policy worker runs on
its schedule, and a recovery goes on; opening the app is a budget of the scene, so
`UploadedFilesGo` speaks only of scenes that open it. In the browser a hash change, a
close event, an answer of each kind of call, a reconnection and a day event that is due
is handled in the end (one thread, nothing ever cancelled but a page of rows); a
recompute that is running ends. The reader's moves are never owed. Uploads, new
evidence, failed calls, lost answers and deaths are never owed and always bounded: the liveness
properties say that what is owed is done once the trouble stops. The throw of
`segmentsFor` is no such trouble: it comes back with every pass, so a shelf with an
unsized capture is left out of `EveryRecordingNormalized`; on the server, which isolates
each capture, `ServerMedia` has only recordings of a duration it accepts.

## What the runs found

Each is an entry of `PROJECT.json` with the text it disagrees with.

1. *A failed registration strands a capture* (`capture_unlisted`). The object
   stays in the bucket, every later guard sees it there, and nothing registers
   it.
2. *A partial performed after its recording is never retired*
   (`capture_orphan`). Newest-first order and the missing promotion marker; no
   fault needed.
3. *A stale error record hides its capture from the cron*
   (`transcribe_stale`). The frontier excludes canonical keys whatever their
   status.
4. *A copy takes a sighting away* (`archive_race`). The archive copies what it read
   some calls earlier over a provenance file that has grown since, in one bucket.
5. *A failed journal stays failed* (`journal_stuck`). The attempt window that should
   give a failure a fresh identity every hour is computed inside the enumeration
   that is memoised for as long as the evidence stands.
6. *A recording is stranded behind newer uploads* (`server_stranded`). A warm
   discovery index asks for the newest objects only; what landed beyond them between
   two passes is in no listing and in no backlog.

Also seen while modelling, without a run of its own, because no text of the repository
disagrees, because a property of another run already names the case, or because the model
abstracts the part where it shows: the misread blobs of
`MediaVerdict`; a load's snapshot that vouches for what it has not read; a chunk
bought again for each crash between acceptance and receipt (`PaidJobsAccounted` and
the spending conjunct of `MediaIsSound` are the bounds that hold); the audit's false
alarm over two fixes of one time. Of the stages:

- `normalize.ts` 2789 says that one capture's failure is "never a failed pass"; the
  throw of `segmentsFor` (213, 218, by way of 1057) is a defect that the `Effect.catch`
  below that comment (2792) lets through. `ChunkThrows` is the model of it;
- `lib/lifelog/StarDetector.ts` 14-15 says that a rescan "overwrites the same record with
  the same content"; an edit of a voice star made by the API within the rescanned hour is
  overwritten by what was heard (`FileStar` after `UpdateWrite`).

Of the page and the rows it is served:

- a refetch and a page of rows that are under way together can leave a hole in the
  list (`lib/lifelog/client.ts` 822), and so can a server whose rows lose a day between
  two pages, by a boot from an older snapshot or a recompute stored after a newer one
  (`RowsLost`); `crossed` remembers that either happened, and `PagesLineUp` says that
  nothing else leaves a hole;
- the failure of a call for a day the reader has left replaces what is mounted now
  (`client.ts` 1286 against 1339); a timer reads `location.hash` when it fires and can
  take down the modal of the day the reader went to (1298); an update of the viewed day
  renders the report it was embedded with again (866 against 1279);
- a recompute's end clears the flag of another that still runs (`Views.ts` 405 against
  355), and an update taken from the hub while a recompute reads is dropped
  (`Journal.ts` 668, `Views.ts` 407): the rows still converge, because each pass
  recomputes (`PreviewsConverge`).

## The proofs

| module | theorems | assumes |
|---|---|---|
| `CaptureProofs` | `TypeCorrect`, `ReceiptsAreBacked`, `TranscriptsAreKept`, `LoopKeepsPromise` | nothing: any passes overlap |
| | `SightingsAreKept`, `FirstLooksAreKept`, `IndexIsTheStore` | one pass at a time |
| | `PositionsAreBelieved`, `AuditAgrees` | one pass; for the first, finitely many fixes, no two of a device tied |
| `TranscribeStageProofs` | `TypeCorrect`; `PaidJobsAreAccounted`, `EndsAreEvidence`, `ReceiptsGrow` | the first nothing, the others one pass |
| `LifelogProofs` | `StampsAreHonest` | nothing: any builders overlap |
| | `StarsAreRetained`, `StarsAreTyped` | nothing: passes of three actors and the API overlap |
| | `DaysStand` | nothing: rebuilds, workflows, evidence and restarts in any order |
| `PhoneProofs` | `AudioIsKept`, `UploadsAreConfirmed` | nothing: two upload passes, `recover`, deaths and late requests |
| | `RecordersStay` | the user starts and stops only between one stop or reload and the next (`Apart`) |
| | `RevokedStaysRevoked` | nothing: requests, upkeep and failures in any order |
| `NormalizeStageProofs` | `NormalizeStands` | nothing: any passes overlap; the bound on what is spent is the cron's, alone |
| | `ArchiveIsPromised` | `GrowsApart`: no provenance grows between a read of it and its copy |
| `ServerIngestProofs` | `IngestKeeps`, `BatchIsNeverReplaced` | nothing: both loops, requests and deaths overlap |
| | `StoreHolds` | nothing: writers, deletes, a migration, failures and deaths overlap |
| `JournalClientProofs` | `ListNeverBlank`, `PagesComeOneByOne`, `ModalFollowsHash` | nothing: answers, failures, timers and events in any order |
| | `JournalIsTyped` | nothing: the same, over a server that recomputes, fails and restarts |
| | `PagesAreLinedUp` | finitely many days; `crossed` records what its property excludes: a page under way over a refetch, or a row the server lost |
| | `PreviewsAreTyped`, `RefreshingIsHeld`, `SiteKeepsPreviews` | nothing: recomputes overlap, fail, store late and are cut off |
| `ServerMediaProofs` | `MediaStands` | nothing: vendors, sweep, losses, failures and deaths between any two steps of the one pass |

Beyond the last column each theorem uses only the named assumptions on the constants
of its model (`ObjectAssumption`, `MappingAssumption`, `BoundAssumption`,
`CaptureAssumption`, `SnapshotAssumption`, `StarAssumption`, `StoreScenesAssumption`,
`DayScenesAssumption`, `ArchScenesAssumption`, `ClientAssumption`, ...): kinds of objects are
disjoint, scenes have the fields they are read by, maps are total, bounds are naturals, an authored star's random id is not a
command's hash. TLC evaluates them in every run. The sets of objects, captures, days,
fixes and passes are arbitrary, and so are all caps, bounds and budgets. "One pass" is written `ASSUME NEW p, Pass = {p}`: one pass at a time, as often
as it likes, failing and dying anywhere. Two fixes tie when both their timestamp and
their sequence number agree, which one phone's counter does not produce
(`SpoolRepository.kt` 107); then neither wins, and which of them is believed depends on
the order they are taken in.

### The capture loop

`TypeOK` is inductive as it stands, because it ties the program point of a pass to
the item and the document in its hand (`Holds`): without that a write could not be
shown to store a document of the kind its key promises.

`ReceiptBacked` alone is not inductive: a receipt write is safe only because of what
the handler did before it. `BackedInv` adds `Filed`, for each pass and program point,
what is already in the bucket when the pass gets there (past "sightings" the blob is
there, past "provenance" the provenance is there, past "firstlook" the transcript is
there, and so on). The argument has two halves. *Durable*: no step of any pass takes
anything but a live transcript out of the bucket, so what one pass has filed cannot be
undone by another (`FiledStays`); this is why overlap does no harm here. *FiledStep*:
the pass that moves files what its next program point relies on, by cases on its
action. `ReceiptSource` then says that a new receipt can come only from
`WriteReceipt`, whose program point is backed. Two results follow.
`TranscriptsAreKept`: only `Retire` removes a live transcript (`RemovalSource`), and at
"retire" the first look is filed. `LoopKeepsPromise`: the loop implements
`ReceiptedWork`; the initial state maps to the initial state, the write of a receipt to
`File`, a step that performs an item to `Do`, everything else to a stutter.

With one pass, what it has read is still so when it writes: `SightingsInv` says that
the provenance in the bucket lists nothing that the pass is not about to write again,
`FirstLooksInv` that a segment it is about to file a partial for has no promotion
marker, that the first look it is about to write replaces none, and that past the
removal of a live transcript there is none, `IndexInv` that the index differs
from the bucket by at most the one call whose second half is due, as long as no call
has failed. `PositionsInv` is about what was performed and not yet reduced: the newest
receipted fix of a device is believed, or is noted by the pass, or is the item in hand.
`ShownInv` says of each receipted partial that the bucket shows what became of it,
except between the two calls of its own promotion; that is what the audit's verdicts
rest on.

Three properties took the form they have in order to be provable: `FirstLooksStand`,
`PositionsAreNewest` and `RecordingIsHeld` speak of states and steps of the bucket or
the recorder, and not of the moment an action of the model happens. They say no less,
and their runs check them in that form.

### Transcripts

`StageInv` carries, for each capture, what the bucket's documents say of the vendor's
jobs (`Documented`), what the pass has in its hand at each point (`Toils`) and the
account (`Paid`): the jobs that are on no receipt and in no hand are at most as many as
the calls that failed or died. A purchase adds one job to the capture's and puts it in
the hand; a commit moves it from the hand to the receipt; only a fault drops a hand,
and it drops one job. Cardinalities of finite sets do the counting.

### The snapshot

`StampIsHonest` is about one snapshot and says nothing of the builder that is about to
write the next, so `HonestInv` carries it back through a rebuild's points: from the
moment both listings are stamped, the stamp is `Behind` the bucket (it is the bucket's,
or the bucket has more and will never match it again); from the journals' scan on, the
journals told are those the stamped listing selects, if that listing still is the
bucket's; likewise the day index. `UploadsKeepBehind` is the heart: an upload makes a
listing longer, so a stamp that matched no longer does and one that did not never will.
This is where stamping before gathering is needed: for a load, which gathers first,
`RebuildHonest` does not hold, and the theorem leaves its snapshots out.

### Stars

`StarInv` says of every record that it is `Genuine` (a command's own but for its
retention and text, or the API's) and, unless an update was the last to write it, as it
was filed (`AsFiled`), of every receipt that what it forgets on schedule had
`RanOut` by then, and of every pass that what it knows is `Fit`: its clock is not ahead,
its sweeps are due, what it is about to file had not run out by its own clock, and
before it removes a record the receipt is there. What was forgotten on schedule before
a pass began had run out by the pass's clock, so the two sets do not meet; that is
`NoRevival`. The receipt is written before the record goes, so a record that is gone
has one, whichever of three passes took it. The audit follows: an unpatched record is the
one the transcript gives, so it differs nowhere, and it is not in the plan only when its
transcript is not in the index or its sweep is due.

### The phone

`SpoolInv` is about what each actor is about to do to the files. Rows and objects only
ever grow and a row keeps its key (`Grows`), so whatever a pass, a cancelled request
(`RequestFit`) or `recover` has read of them stays good (`PassStays`, `RequestStays`,
`RecoveryStays`), although its snapshot of the payload may not. An item is a snapshot
of a row that is still there under the same key (`ItemFit`); past "stored" its key is in
the bucket; what `recover` deletes is no partial, and a recording only if its row is
uploaded (`RecoveryFit`). An object is stored under the key of exactly one row
(`BucketFit`), and a recording's row is inserted once, under the key of whoever came
first, the seal or `recover`: hence one object per segment. `PayloadGone` is the lemma
that matters: a file whose row's key is in the bucket may go. Every other step keeps
each segment in one of its four places.

**The recorder.** Every task of the service takes the transition mutex, and a recorder
is in hand only while it is free: who holds it has let go of the recorder before.
`ServiceInv` says so (`HandFits`), that whoever finishes a segment is the one that holds it
(`TasksFit`), and what each task says of the user's wish: a reload is under way only
while capture is desired, a stop only when it is not, and once it is through nothing is
in hand (`WishFits`). An early roll looks again when it has the mutex, so what it seals is
the segment it looked at or another that is old enough. `Apart` is the one hypothesis:
a start between a stop and its end finds the mutex held and does not ask for it, which
gives two recorders, and a stop during a reload ends the service under it. TLC finds both
without `Apart`; the scenes of `hosts` keep to it, and so does the theorem.

**The tokens.** The registry is rewritten whole, from what was read at the gate.
`GateFits` is the gate's promise: one caller is inside, and the registry is still what
he read. So what he writes back differs in his own token only, and a token that is issued
is one nobody knew.

### Normalize

`NormInv` says of each work what it was reached by (`WorkFits`): the receipt in hand
names an assembly of the capture, which has ended once the chunks are listed; past the
listing the chunks are whole or two assemblies were bought; past the manifest's write the
manifest is there. None of that can be undone by another pass (`Later`): manifests
and receipts are never taken away, an assembly that ended stays ended, and a chunk that
is there is written again only by an assembly that still runs, so by a second one. The
audit's verdicts follow, for any number of passes.

The cap holds of the cron alone, because then the receipt in hand is the one in the
bucket (`LoneFits`). The assemblies paid for are at most the links of the receipt's
chain, one that is in hand with its receipt to come, and one for each death, failed
call or pass taken down so far (`Tallied`); the chain has at most `MaxChunkAttempts` links.

### What the server takes in

An item in hand has some of its steps behind it, and what those left on the server is
what its receipt will stand for. `Told` says of an item at each step what it vouches
for: past "bytes" the blob is there, at "receipt" everything its kind requires (`Worth`).
Nothing that is on file is ever lost (`FiledGrows`), whichever loop or request moves, so
what one item vouches for no other can undo, and a receipt, written last, inherits it.
`IngestKeeps` follows, for overlapping items of both loops and any number of requests.

`BatchIsNeverReplaced` needs more than that. A recording that saw no batch
transcript promotes the live one a step later (`LookForProvisional`, `Promote`); a batch
transcript filed in between would be replaced. The proof is that they are never in hand together: an item is
of a kind its source takes (`Suits`), only the third source of the capture loop promotes
(`PromotesLast`), a source is left when its hands are empty, and it is another source of
the same loop that files batch transcripts. It is the order of the loop's sources that
protects the transcript, not a check: two capture loops at once would not have it.

### What the media stages are worth

`MediaIsSound` relates records that are written in different passes, so its invariant
(`MediaInv`) is about what a step of the pass was reached by. `StageFits`: chunks are
assembled only of a recording that comes to spans and has no completed receipt, a
provenance is filed only after the completed receipt, a transcode follows its verdict.
`ReceiptsFit`: a phase of the receipt is one its source can have, and a Drive file past
its import has the original in the bucket. `AllBacked`: every chunk of the manifest is
stored or was lost, which `WhatGoes` carries over every step, since nothing but a loss
empties a store. `AssembliesFit`: chunks come from ffmpeg or from an assembly, never
from both, and are listed only when one completed. `JobsFit`: the jobs on record are of the manifest's chunks, in order.

The bound on what is spent is the balance of two accounts (`SpendFits`): the jobs of a
chunk are at most the one on record or the one in hand, plus what was asked for and
never filed; the assemblies are at most those the receipt remembers, plus the one in
hand, plus the same. Every step keeps each balance (`JobsPaid`, `Balance`), and at the
end a chunk is never on record and in hand at once, because a manifest names no chunk twice.

A settled capture keeps its reason (`SettledStays`): a lost chunk can only come back by
the operator's restore, which takes the markers off, or by a second assembly.

Looking for this invariant corrected the model three times. `Probe` went on to look for
a form of what is not media, where the code skips it (`Media.ts` 481). A transcript
that was given up for a lost chunk may stand beside chunks that are all there: an
assembly bought twice, its first receipt never filed, may end after the loss and write
them anew (`CameBack`); the property now says so. And choices between overlapping
conditions are written as ordered ones here and in the other modules, for a `CASE`
of TLA+ does not prefer its first arm. `MediaInv` itself was checked by TLC on every
combination of form, blob, source and route before it was proved.

### The server's store

`StoreInv` says that some scene is being played, and of every part of the state what
that scene allows. `ContentsFit`: a key holds a whole version of it or nothing, because
what is half written is in a scratch file. `WriterFits`: a writer past its upload has
the object there, and one past its removal does not. `VouchFits` is what a caller was
told: what was stored is there, what was deleted is gone, and a key the bucket's list
names is there unless its deletion is half way. `MoveFits` follows the migration:
every key it has scanned is yet to be done, at hand, failed, or registered with the
content it was read with. Sizes decide what the migration skips, which is why the invariant must
know the versions a scene has of a key.

### The days

`DayInv` is about keys: each derived file was made from what its key names, and each
workflow works for the key it was enumerated with. What makes that worth anything is
`Later`: evidence only goes on. A text that was replaced does not come back, a note's and
the places' versions grow. So what an index showed is either still so or never so again
(`Still`), and a journal's texts, gathered at several moments between (`Gathered`), cover what
is still so. If the journal's key is the current one when a reader asks, everything its
index names is still so, and the journal tells it (`ToldFits`). Were evidence able to
return, a journal gathered in the interval would pass for current and tell the
other state.

### The archive

`ArchInv` has two facts of the whole and one of each pass. `BucketFollows`: the
archive's copy of a file is no larger than the original, or the original has been
cleared away. `ReceiptsEarned`: what a receipt claims the archive holds. `Knows` says
of a pass at a capture what it has learned: a file it listed and has looked at is in the
archive at the listed size; what it is to upload was different there; what it read
and is about to put is what there is. `EnvFits` is all that others can do to this
knowledge: a part vanishes, a copy arrives. `KnowsStill` shows that `Knows` survives
that. A provenance that grows is not among these: if it does so between one pass's read
and its copy, another may copy the longer one and write its receipt, and the first then
puts the shorter one over it. `GrowsApart` excludes exactly this, and `archive_race`
finds it. The refinement follows: a copy is a `Do`, a receipt's write a `File` of what
was done.

### The rows and the page

`PageInv`: of the bag of calls at most one is for a page of rows, once, and it carries the
generation of the table that is mounted. A reload or another source takes a new
generation and asks at once, so a table without a row always has its page under way
(`NotBlank`), and a late answer of an old generation is dropped without touching it.
`ModalFollowsHash` is proved from the step alone, by cases on what lands.

`PreviewsInv` says of the recomputes under way that none has read ahead of the disk,
and that the flag `refreshing` is held (`FlagIsHeld`): while it is up, one of them has
yet to store or fail and will lower it. A recompute may lower the flag of another
(`Views.ts` 405), but none leaves it up. `SiteKeepsPreviews` carries both facts to the
page's specification: each step of `JournalNext` is one of `PreviewsNext` or changes
nothing of the server, and its fairness includes the server's.

`JournalIsTyped` and `PagesAreLinedUp` are about the page over its server. Every row in a
window, in an answer under way, in the memo, the snapshot, on disk or read by a
recompute is a row of a day (`SiteFits`); the days written from the start are in each of
the server's (`Kept`); and the rows served only grow, except where `RowsLost`. `Lined(source, W, M)` says that a window has no hole: no day of `W` is
missing from it above one it has, or among the `Len(source)` newest of `M`. A refetch
that was served is lined up by itself; a page asked at offset `Len(source)` carries on
where the window ends (`PageLines`), because the rows above the offset are those of the
window or newer. `LinesNow` says so of the window and of every answer under way, for the
days that were written all along, and the induction runs over `crossed \/
(LinesNow(Page) /\ ~PageOverRefetch)`. The order of the rows is a listing chosen by its
property, strictly descending; that it exists and that the rank of a day is its place
(`RankIsOnto`) are lemmas of their own.

### What stays with TLC

- Liveness (`BacklogDrains`, `EveryManifestSettles`, `PhoneFinishes`, `ServerFinishes`,
  `RetentionEnforced`, `CapturesAreFollowedUp`, `DaysFollow`, `PreviewsConverge`,
  `PendingDayFills`): the prover does not do fairness or `ENABLED`.
- `VerdictIsRight`: the walks are loops over a blob, and `MediaVerdict` is a function of
  finite data that a run enumerates.
- The type invariants of two composed runs (`HostsTypeOK`, `StagesTypeOK`): their parts
  are in the inductive invariants above where a proof needs them; what is left is
  `SpoolTypeOK`'s order of the manifest, which `SelectSeq` rearranges.

## What is not modelled

`PROJECT.json` lists every component with its status. In the stages that are
modelled: proof mode (it writes to keys of its own), the wording and counts of
reports, listing pages (a listing stops after 50,000 objects), presigning, a receipt
that does not parse where it was written in one put (whole or absent), vendors' wire
formats, how a star command is found in a transcript's words, the rules inside a
day's derivation (where a stay begins, how a start time is believed, local time),
which are functions of what they read. The server's `bucket-audio` source
(`example-lifelog/main.ts` 844-891) is discovery and audio ingest over another
prefix, both of which `ServerIngest` has. The discovery notebook of the shadow
audits is a single-threaded store of cursors that only the audits read.

One hazard has no property: a PUT in flight that is answered after the live transcriber
has replaced the payload and re-pended the row (`UploadWorker.kt` 49): the row is marked
uploaded with the older text in the bucket, until the next tick pends it again. The code
promises nothing about it, and `UploadedIsConfirmed` speaks of payloads that do not change.

Not modelled at all, with the reason:

- temporary credentials, request signatures: byte-level cryptography;
- the Android screens, the app's updates, Whisper, the sensors and the recorder's
  encoder: device I/O and the system's installer;
- Git, Drive and DuckDB adapters, vendors' clients beyond what they accept and
  answer: pure I/O;
- the journal's site, API and MCP server: rendering, routing and token checks over what
  the modelled parts leave. Of the page, `JournalClient` has routes, table, modal and
  live updates; status, the events sheet, the words of a search and the editing of
  places are left out;
- runtime, deployment and one-off scripts: wiring, telemetry and declarations. The
  two scripts that publish the capture policy are in `CapturePolicy`.
