---------------------------- MODULE AndroidSpool ----------------------------
(***************************************************************************)
(* The phone: recorded segments, live and batch transcripts and location   *)
(* events become files, rows of the Room manifest and objects of the       *)
(* bucket (android-capture: SpoolRepository, Manifest, UploadWorker,       *)
(* S3Uploader, ForegroundSync, AudioCapture, LiveTranscriber,              *)
(* TranscribeWorker).                                                      *)
(*                                                                         *)
(* Two upload passes may run at once, the background and the foreground    *)
(* work; scheduling a work again replaces its running pass, and a request  *)
(* on the wire may still arrive.  Opening the app runs `recover` beside    *)
(* everything else.  The process may die between any two steps; files,     *)
(* rows and queued work survive.                                           *)
(*                                                                         *)
(* Abstractions.  Segments are numbered in the order they are recorded.    *)
(* The contents of a file are 1, or the number of the text for a live      *)
(* transcript, which only grows; a payload's length and its MD5 therefore  *)
(* change together.  Credentials are always configured.  Ninety-day        *)
(* pruning and the location batches of older installs are left out.        *)
(***************************************************************************)
EXTENDS Integers, Sequences, FiniteSets, SequencesExt

CONSTANTS
  Segments,    \* how many audio segments the phone may record
  Event,       \* the location fixes it may emit
  SpoolScenes  \* the budgets a behaviour may start with (see `left`)

ASSUME SegmentAssumption ==
  /\ Segments \in Nat
  /\ Event \subseteq Nat
  /\ \A s \in SpoolScenes :
       /\ DOMAIN s = {"segments", "texts", "takes", "events", "deaths", "faults", 
                     "replaces", "foreground", "reopened"}
       /\ \A b \in DOMAIN s : s[b] \in Nat

VARIABLES
  files,     \* the spool directory: path -> contents
  rows,      \* the manifest: id -> row
  newest,    \* the ids of the manifest, newest createdAt first
  recorder,  \* AudioCapture: the segment in hand, and how far it got
  live,      \* LiveTranscriber: accumulated text, and the tick in flight
  scribe,    \* TranscribeWorker, and the segments it has marked
  emitting,  \* fixes whose file is written and whose row is not
  pass,      \* the two unique upload works
  late,      \* requests whose pass was cancelled, still on the wire
  recovery,  \* SpoolRepository.recover
  bucket,    \* the source bucket: key -> contents
  left       \* the bounds: what remains of segments, texts, takes,
             \* events, deaths, faults and replaces, and whether the foreground work and
             \* recover take part at all

spoolVars ==
  <<files, rows, newest, recorder, live, scribe, emitting, pass, late,
    recovery, bucket, left>>

Work    == {"background", "foreground"}
Segment == 1..Segments

-----------------------------------------------------------------------------
(* Files, rows and keys. *)

Recording(n)  == <<"recording", n>>
Quarantine(n) == <<"quarantine", n>>
AudioId(n)    == <<"audio", n>>
LiveId(n)     == <<"live", n>>
TakeId(n, k)  == <<"transcript", n, k>>
EventId(e)    == <<"event", e>>

Kind(id)      == id[1]
Immutable(id) == Kind(id) # "live"

\* A row's local path is its id's, or none once the payload is cleared.
NoFile == <<"none">>

SealedKey(id)    == <<id, "sealed">>
RecoveredKey(id) == <<id, "recovered">>

Exists(f) == f \in DOMAIN files
Row(id)   == id \in DOMAIN rows

With(f, k, v)  == [x \in DOMAIN f \cup {k} |-> IF x = k THEN v ELSE f[x]]
Without(f, ks) == [x \in DOMAIN f \ ks |-> f[x]]

Pending(id) == Row(id) /\ rows[id].state = "PENDING"

NewRow(key, id) ==
  [key |-> key, file |-> id, md5 |-> files[id], state |-> "PENDING",
   error |-> FALSE]

Spend(b) == left[b] > 0 /\ left' = [left EXCEPT ![b] = @ - 1]

-----------------------------------------------------------------------------
(* Upload works.  A pass is idle, queued, or at a point of doWork's loop.  *)

Point == {"check", "send", "sent", "stored", "retry", "refused", "unlink"}

IdlePass == [at |-> "idle", todo |-> << >>, body |-> 0, again |-> FALSE]

Running(w) == pass[w].at \in Point
Current(w) == Head(pass[w].todo)

\* The request a pass has on the wire.
Request(w) ==
  [key |-> Current(w).key, md5 |-> Current(w).md5, body |-> pass[w].body]

\* What a cancelled pass leaves behind: its unanswered request.
Orphaned(ws) == {Request(w) : w \in {v \in ws : pass[v].at = "sent"}}

Queue(w) ==
  /\ pass' = [pass EXCEPT ![w] = [IdlePass EXCEPT !.at = "queued"]]
  /\ late' = late \cup Orphaned({w})

\* SyncScheduler.schedule: unique work with REPLACE.
Schedule == Queue("background")

\* Insert a row (ABORT when the id is taken) and schedule the upload.
Insert(id, key) ==
  /\ rows' = With(rows, id, NewRow(key, id))
  /\ newest' = <<id>> \o newest
  /\ Schedule

-----------------------------------------------------------------------------
(* AudioCapture. *)

\* startSegment, and LiveTranscriber.onSegment, which forgets the text of
\* the segment before.
StartSegment ==
  /\ recorder.at = "idle"
  /\ recorder.segment + 1 \in Segment
  /\ Spend("segments")
  /\ recorder' = [segment |-> recorder.segment + 1, at |-> "recording"]
  /\ files' = With(files, Recording(recorder.segment + 1), 1)
  /\ live' = [live EXCEPT !.said = 0, !.kept = 0]
  /\ UNCHANGED <<rows, newest, scribe, emitting, pass, late, recovery,
                 bucket>>

\* seal, up to the rename; a partial that is not there is an empty recording.
SealRename ==
  LET n == recorder.segment IN
  /\ recorder.at = "recording"
  /\ IF Exists(Recording(n))
     THEN /\ files' = With(Without(files, {Recording(n)}), AudioId(n), 1)
          /\ recorder' = [recorder EXCEPT !.at = "renamed"]
     ELSE recorder' = [recorder EXCEPT !.at = "idle"] /\ UNCHANGED files
  /\ UNCHANGED <<rows, newest, live, scribe, emitting, pass, late, recovery,
                 bucket, left>>

\* seal's enqueue; a row that recover inserted first aborts it.
SealEnqueue ==
  LET id == AudioId(recorder.segment) IN
  /\ recorder.at = "renamed"
  /\ recorder' = [recorder EXCEPT !.at = "idle"]
  /\ IF Exists(id) /\ ~Row(id) THEN Insert(id, SealedKey(id))
     ELSE UNCHANGED <<rows, newest, pass, late>>
  /\ UNCHANGED <<files, live, scribe, emitting, recovery, bucket, left>>

-----------------------------------------------------------------------------
(* LiveTranscriber. *)

\* tick, up to the end of the locked section: either there is new speech,
\* or the text of an earlier tick was never spooled.
LiveMerge ==
  /\ recorder.at = "recording"
  /\ live.tick = "idle"
  /\ \/ Spend("texts") /\ live' =
          [live EXCEPT !.tick = "merged", !.of = recorder.segment,
                       !.said = @ + 1, !.text = live.said + 1]
     \/ /\ live.said # live.kept
        /\ live' = [live EXCEPT !.tick = "merged", !.of = recorder.segment,
                                !.text = live.said]
        /\ UNCHANGED left
  /\ UNCHANGED <<files, rows, newest, recorder, scribe, emitting, pass, late,
                 recovery, bucket>>

\* spoolLive: the payload is renamed over the one before it.
LiveRename ==
  /\ live.tick = "merged"
  /\ files' = With(files, LiveId(live.of), live.text)
  /\ live' = [live EXCEPT !.tick = "renamed"]
  /\ UNCHANGED <<rows, newest, recorder, scribe, emitting, pass, late,
                 recovery, bucket, left>>

\* Seeded fault: the refreshed row is listed a second time.
UpsertTwice(id) ==
  /\ rows' = With(rows, id, NewRow(SealedKey(id), id))
  /\ newest' = <<id>> \o newest
  /\ Schedule

\* upsertLiveTranscript: insert, or refreshPayload whatever the row's state.
Upsert(id) ==
  IF ~Row(id) THEN Insert(id, SealedKey(id))
  ELSE /\ rows' = [rows EXCEPT ![id] = NewRow(rows[id].key, id)]
       /\ newest' = <<id>> \o SelectSeq(newest, LAMBDA x : x # id)
       /\ Schedule

\* The segment is not looked at again before the text is noted as spooled.
LiveUpsert ==
  LET id == LiveId(live.of) IN
  /\ live.tick = "renamed"
  /\ IF Exists(id)
     THEN /\ Upsert(id)
          /\ live' = [live EXCEPT !.tick = "idle", !.of = 0, !.text = 0,
                        !.kept = IF live.of = recorder.segment
                                 THEN live.text ELSE @]
     ELSE /\ live' = [live EXCEPT !.tick = "idle", !.of = 0, !.text = 0]
          /\ UNCHANGED <<rows, newest, pass, late>>
  /\ UNCHANGED <<files, recorder, scribe, emitting, recovery, bucket, left>>

-----------------------------------------------------------------------------
(* TranscribeWorker: one take of a sealed segment at a time. *)

TakeDue(n) == Row(AudioId(n)) /\ n \notin scribe.marked

\* kickTranscription picks the newest recording; the work starts unless it
\* is marked, and fails when the payload has already been uploaded.
TakeStart ==
  \E n \in Segment :
    /\ scribe.at = "idle"
    /\ TakeDue(n)
    /\ \A m \in Segment : m > n => ~Row(AudioId(m))
    /\ Exists(rows[AudioId(n)].file)
    /\ scribe' = [scribe EXCEPT !.at = "decoded", !.of = n]
    /\ UNCHANGED <<files, rows, newest, recorder, live, emitting, pass, late,
                   recovery, bucket, left>>

\* The app left the foreground, or the payload went: the attempt ends.
TakeDefer ==
  /\ scribe.at = "decoded"
  /\ scribe' = [scribe EXCEPT !.at = "idle", !.of = 0]
  /\ UNCHANGED <<files, rows, newest, recorder, live, emitting, pass, late,
                 recovery, bucket, left>>

\* The text, the audio's digest (the file is read again), the payload.
TakeWrite ==
  /\ scribe.at = "decoded"
  /\ Exists(AudioId(scribe.of))
  /\ Spend("takes")
  /\ files' = With(files, TakeId(scribe.of, left.takes), 1)
  /\ scribe' = [scribe EXCEPT !.at = "written", !.take = left.takes]
  /\ UNCHANGED <<rows, newest, recorder, live, emitting, pass, late,
                 recovery, bucket>>

\* enqueue; without the payload the attempt fails.
TakeEnqueue ==
  LET id == TakeId(scribe.of, scribe.take) IN
  /\ scribe.at = "written"
  /\ IF Exists(id)
     THEN Insert(id, SealedKey(id)) /\ scribe' = [scribe EXCEPT !.at = "spooled"]
     ELSE /\ scribe' = [scribe EXCEPT !.at = "idle", !.of = 0, !.take = 0]
          /\ UNCHANGED <<rows, newest, pass, late>>
  /\ UNCHANGED <<files, recorder, live, emitting, recovery, bucket, left>>

\* markTranscribed, then schedule.
TakeMark ==
  /\ scribe.at = "spooled"
  /\ scribe' = [at |-> "idle", of |-> 0, take |-> 0,
                marked |-> scribe.marked \cup {scribe.of}]
  /\ Schedule
  /\ UNCHANGED <<files, rows, newest, recorder, live, emitting, recovery,
                 bucket, left>>

-----------------------------------------------------------------------------
(* emitLocationEvent. *)

EventWrite ==
  \E e \in Event :
    /\ ~Exists(EventId(e)) /\ ~Row(EventId(e)) /\ e \notin emitting
    /\ \A d \in Event : d < e => Row(EventId(d)) \/ d \in emitting
    /\ Spend("events")
    /\ files' = With(files, EventId(e), 1)
    /\ emitting' = emitting \cup {e}
    /\ UNCHANGED <<rows, newest, recorder, live, scribe, pass, late, recovery,
                   bucket>>

\* The row, unless the file has gone.
EventInsert ==
  \E e \in emitting :
    /\ emitting' = emitting \ {e}
    /\ IF Exists(EventId(e)) THEN Insert(EventId(e), SealedKey(EventId(e)))
       ELSE UNCHANGED <<rows, newest, pass, late>>
    /\ UNCHANGED <<files, recorder, live, scribe, recovery, bucket, left>>

-----------------------------------------------------------------------------
(* UploadWorker.doWork. *)

Snapshot(id) == [id |-> id, key |-> rows[id].key, file |-> rows[id].file,
                 md5 |-> rows[id].md5]

\* Seeded fault: what failed once is not taken again.
PendingUnfailed == {id \in DOMAIN rows : Pending(id) /\ ~rows[id].error}

PendingAll == {id \in DOMAIN rows : Pending(id)}

\* a was listed after b (ORDER BY createdAt DESC).
Newer(a, b) == \E i, j \in DOMAIN newest : i < j /\ newest[i] = a /\ newest[j] = b

NewestFirst(ids) ==
  {s \in [1..Cardinality(ids) -> ids] : \A i, j \in DOMAIN s : i < j => Newer(s[i], s[j])}

\* selectForegroundItems: transcripts, then the newest recording; location
\* events are of neither kind.
Transcripts(ids) == {id \in ids : Kind(id) \in {"live", "transcript"}}

NewestAudio(ids) ==
  {id \in ids : Kind(id) = "audio" /\ \A x \in ids : Kind(x) = "audio" => ~Newer(x, id)}

Items(ids) == [i \in DOMAIN ids |-> Snapshot(ids[i])]

Goto(w, l)  == pass' = [pass EXCEPT ![w].at = l]
EndPass(w)  == pass' = [pass EXCEPT ![w] = IdlePass]
RetryPass(w) == pass' = [pass EXCEPT ![w] = [IdlePass EXCEPT !.at = "queued"]]

\* The pass with the rest of its items: the next one, or its end.
NextItem(w) ==
  pass' = [pass EXCEPT ![w] =
             IF Len(@.todo) = 1 THEN IdlePass
             ELSE [IdlePass EXCEPT !.at = "check", !.todo = Tail(pass[w].todo)]]

PassFrame == UNCHANGED <<newest, recorder, live, scribe, emitting, recovery>>

\* ManifestDao.failed: only a row that is still PENDING.
Failed(id) ==
  rows' = IF Pending(id) THEN [rows EXCEPT ![id].error = TRUE] ELSE rows

\* A pass with something to take goes through it.
Undertake(w, items) ==
  IF items = << >> THEN EndPass(w)
  ELSE pass' = [pass EXCEPT ![w] = [IdlePass EXCEPT !.at = "check", !.todo = items]]

\* A foreground pass on a metered network takes a selection.
BeginPass(w) ==
  /\ pass[w].at = "queued"
  /\ \/ \E ids \in NewestFirst(PendingAll) : Undertake(w, Items(ids))
     \/ /\ w = "foreground"
        /\ \E ids \in NewestFirst(Transcripts(PendingAll)),
              audio \in NewestFirst(NewestAudio(PendingAll)) :
             Undertake(w, Items(ids) \o Items(audio))
  /\ UNCHANGED <<files, rows, late, bucket, left>>
  /\ PassFrame

\* The payload must be there with the length of the snapshot.
CheckItem(w) ==
  LET i == Current(w) IN
  /\ pass[w].at = "check"
  /\ IF Exists(i.file) /\ files[i.file] = i.md5
     THEN Goto(w, "send") /\ UNCHANGED rows
     ELSE Failed(i.id) /\ NextItem(w)
  /\ UNCHANGED <<files, late, bucket, left>>
  /\ PassFrame

\* S3Uploader.put: the file as it is now, under the snapshot's MD5.
Send(w) ==
  LET i == Current(w) IN
  /\ pass[w].at = "send"
  /\ pass' = [pass EXCEPT ![w] =
       IF Exists(i.file) THEN [@ EXCEPT !.at = "sent", !.body = files[i.file]]
       ELSE [@ EXCEPT !.at = "refused"]]
  /\ UNCHANGED <<files, rows, late, bucket, left>>
  /\ PassFrame

\* The bucket checks the MD5, stores the object and answers.
Answer(w) ==
  /\ pass[w].at = "sent"
  /\ IF Request(w).md5 = Request(w).body
     THEN bucket' = With(bucket, Request(w).key, Request(w).body) /\ Goto(w, "stored")
     ELSE Goto(w, "refused") /\ UNCHANGED bucket
  /\ UNCHANGED <<files, rows, late, left>>
  /\ PassFrame

\* Seeded fault: a lost answer is taken for a confirmation.
AnswerAssumed(w) ==
  /\ pass[w].at = "sent"
  /\ Spend("faults")
  /\ Goto(w, "stored")
  /\ UNCHANGED <<files, rows, late, bucket>>
  /\ PassFrame

\* A 5xx, a timeout or a lost connection; the object may have been stored.
AnswerLost(w) ==
  /\ pass[w].at = "sent"
  /\ Spend("faults")
  /\ Goto(w, "retry")
  /\ \/ UNCHANGED bucket
     \/ /\ Request(w).md5 = Request(w).body
        /\ bucket' = With(bucket, Request(w).key, Request(w).body)
  /\ UNCHANGED <<files, rows, late>>
  /\ PassFrame

\* HTTP 403: one policy refresh; if it succeeds, one retry of the item.
Forbidden(w) ==
  /\ pass[w].at = "sent"
  /\ Spend("faults")
  /\ \/ ~pass[w].again /\ pass' = [pass EXCEPT ![w].at = "send", ![w].again = TRUE]
     \/ Goto(w, "refused")
  /\ UNCHANGED <<files, rows, late, bucket>>
  /\ PassFrame

\* ManifestDao.uploaded counts the row it changed; the payload is deleted
\* only when that was one.
MarkUploaded(w) ==
  LET i == Current(w) IN
  /\ pass[w].at = "stored"
  /\ IF Pending(i.id)
     THEN /\ rows' = [rows EXCEPT ![i.id].state = "UPLOADED", ![i.id].error = FALSE]
          /\ Goto(w, "unlink")
     ELSE NextItem(w) /\ UNCHANGED rows
  /\ UNCHANGED <<files, late, bucket, left>>
  /\ PassFrame

\* ManifestDao.cleared: only a row that is UPLOADED.
Cleared(id) ==
  rows' = IF rows[id].state = "UPLOADED"
          THEN [rows EXCEPT ![id].file = NoFile] ELSE rows

UnlinkPayload(w) ==
  LET i == Current(w) IN
  /\ pass[w].at = "unlink"
  /\ files' = Without(files, {i.file})
  /\ Cleared(i.id)
  /\ NextItem(w)
  /\ UNCHANGED <<late, bucket, left>>
  /\ PassFrame

\* Retry: the pass ends and its work stays queued.
PassRetries(w) ==
  /\ pass[w].at = "retry"
  /\ Failed(Current(w).id)
  /\ RetryPass(w)
  /\ UNCHANGED <<files, late, bucket, left>>
  /\ PassFrame

\* ConfigurationError: the pass and its work end.
PassFails(w) ==
  /\ pass[w].at = "refused"
  /\ Failed(Current(w).id)
  /\ EndPass(w)
  /\ UNCHANGED <<files, late, bucket, left>>
  /\ PassFrame

PassStep(w) ==
  \/ BeginPass(w) \/ CheckItem(w) \/ Send(w) \/ MarkUploaded(w)
  \/ UnlinkPayload(w) \/ PassRetries(w) \/ PassFails(w)

\* A foreground kick, or the six-hourly policy worker.
Trigger(w) ==
  /\ pass[w].at = "idle"
  /\ w = "foreground" => left.foreground > 0
  /\ Queue(w)
  /\ UNCHANGED <<files, rows, bucket, left>>
  /\ PassFrame

\* The same while the pass runs: REPLACE.
Replace(w) ==
  /\ Running(w)
  /\ Spend("replaces")
  /\ Queue(w)
  /\ UNCHANGED <<files, rows, bucket>>
  /\ PassFrame

\* An orphaned request arrives, or never does.
LateArrives ==
  \E r \in late :
    /\ late' = late \ {r}
    /\ \/ UNCHANGED bucket
       \/ r.md5 = r.body /\ bucket' = With(bucket, r.key, r.body)
    /\ UNCHANGED <<files, rows, pass, left>>
    /\ PassFrame

-----------------------------------------------------------------------------
(* recover: runs when the app is opened. *)

IdleRecovery == [at |-> "idle", todo |-> {}, suspect |-> NoFile]

RecoverFrame == UNCHANGED <<recorder, live, scribe, emitting, bucket, left>>

\* Every .recording file is moved to quarantine, the one in hand included;
\* then the payloads are walked.
RecoverStart ==
  LET moved == {f \in DOMAIN files : Kind(f) = "recording"}
      kept  == Without(files, moved)
      held  == DOMAIN kept \cup {Quarantine(f[2]) : f \in moved}
  IN
  /\ recovery.at = "idle"
  /\ left.reopened > 0
  /\ files' = [f \in held |-> IF f \in DOMAIN kept THEN kept[f] ELSE 1]
  /\ recovery' = [at |-> "walk", suspect |-> NoFile,
                  todo |-> {f \in DOMAIN kept : Kind(f) # "quarantine"}]
  /\ UNCHANGED <<rows, newest, pass, late>>
  /\ RecoverFrame

\* countPath: is there a row with this path?
RecoverLook ==
  \E f \in recovery.todo :
    /\ recovery.at = "walk" /\ recovery.suspect = NoFile
    /\ recovery' = [recovery EXCEPT !.todo = @ \ {f},
         !.suspect = IF \E id \in DOMAIN rows : rows[id].file = f THEN NoFile ELSE f]
    /\ UNCHANGED <<files, rows, newest, pass, late>>
    /\ RecoverFrame

\* Seeded fault: a recording without a row is deleted like the others.
AdoptableNone(f) == FALSE

Adoptable(f) == Kind(f) = "audio"

\* A recording without a row is enqueued under a new key, unless its id has
\* a row by now; any other payload is deleted.
RecoverAct ==
  LET f == recovery.suspect IN
  /\ recovery.at = "walk" /\ f # NoFile
  /\ recovery' = [recovery EXCEPT !.suspect = NoFile]
  /\ IF Adoptable(f)
     THEN /\ UNCHANGED files
          /\ IF Exists(f) /\ ~Row(f) THEN Insert(f, RecoveredKey(f))
             ELSE UNCHANGED <<rows, newest, pass, late>>
     ELSE /\ files' = Without(files, {f})
          /\ UNCHANGED <<rows, newest, pass, late>>
  /\ RecoverFrame

\* uploadedWithFiles, read once.
RecoverUploaded ==
  /\ recovery.at = "walk" /\ recovery.suspect = NoFile /\ recovery.todo = {}
  /\ recovery' = [at |-> "clean", suspect |-> NoFile,
       todo |-> {id \in DOMAIN rows : /\ rows[id].state = "UPLOADED"
                                      /\ rows[id].file # NoFile}]
  /\ UNCHANGED <<files, rows, newest, pass, late>>
  /\ RecoverFrame

\* Each of those payloads is deleted, and its row cleared.
RecoverClean ==
  \E id \in recovery.todo :
    /\ recovery.at = "clean"
    /\ recovery' = [recovery EXCEPT !.todo = @ \ {id}]
    /\ files' = Without(files, {id})
    /\ Cleared(id)
    /\ UNCHANGED <<newest, pass, late>>
    /\ RecoverFrame

\* clearUploadedErrors.
RecoverEnd ==
  /\ recovery.at = "clean" /\ recovery.todo = {}
  /\ recovery' = IdleRecovery
  /\ rows' = [id \in DOMAIN rows |->
                IF Pending(id) THEN rows[id] ELSE [rows[id] EXCEPT !.error = FALSE]]
  /\ UNCHANGED <<files, newest, pass, late>>
  /\ RecoverFrame

-----------------------------------------------------------------------------
(* The process dies: what only memory held is gone, WorkManager queues the *)
(* interrupted work again.                                                 *)

ProcessDies ==
  /\ Spend("deaths")
  /\ recorder' = [recorder EXCEPT !.at = "idle"]
  /\ live' = [said |-> 0, kept |-> 0, tick |-> "idle", of |-> 0, text |-> 0]
  /\ scribe' = [scribe EXCEPT !.at = "idle", !.of = 0, !.take = 0]
  /\ emitting' = {}
  /\ late' = late \cup Orphaned(Work)
  /\ pass' = [w \in Work |-> IF Running(w) THEN [IdlePass EXCEPT !.at = "queued"]
                             ELSE pass[w]]
  /\ recovery' = IdleRecovery
  /\ UNCHANGED <<files, rows, newest, bucket>>

-----------------------------------------------------------------------------
SpoolInit ==
  /\ files = << >> /\ rows = << >> /\ newest = << >> /\ bucket = << >>
  /\ recorder = [segment |-> 0, at |-> "idle"]
  /\ live = [said |-> 0, kept |-> 0, tick |-> "idle", of |-> 0, text |-> 0]
  /\ scribe = [at |-> "idle", of |-> 0, take |-> 0, marked |-> {}]
  /\ emitting = {} /\ late = {}
  /\ pass = [w \in Work |-> IdlePass]
  /\ recovery = IdleRecovery
  /\ left \in SpoolScenes

Capturing == StartSegment \/ SealRename \/ SealEnqueue
Ticking   == LiveMerge \/ LiveRename \/ LiveUpsert
Taking    == TakeStart \/ TakeDefer \/ TakeWrite \/ TakeEnqueue \/ TakeMark
Emitting  == EventWrite \/ EventInsert
Uploading ==
  \/ \E w \in Work : \/ PassStep(w) \/ Answer(w) \/ AnswerLost(w)
                     \/ Forbidden(w) \/ Trigger(w) \/ Replace(w)
  \/ LateArrives
Recovering ==
  \/ RecoverStart \/ RecoverLook \/ RecoverAct \/ RecoverUploaded
  \/ RecoverClean \/ RecoverEnd

SpoolNext ==
  \/ Capturing \/ Ticking \/ Taking \/ Emitting
  \/ Uploading \/ Recovering \/ ProcessDies

\* What the phone owes: a pass and a seal once begun go on, the bucket
\* answers, the six-hourly policy worker queues an upload.  That the app is
\* opened again, and recover then run to its end, is the user's doing.
SpoolFairness ==
  /\ WF_spoolVars(SealRename \/ SealEnqueue)
  /\ \A w \in Work : WF_spoolVars(PassStep(w) \/ Answer(w))
  /\ WF_spoolVars(Trigger("background"))
  /\ WF_spoolVars(Recovering)

Spec     == SpoolInit /\ [][SpoolNext]_spoolVars
FairSpec == Spec /\ SpoolFairness
-----------------------------------------------------------------------------
(* Properties. *)

Ids ==
  {AudioId(n) : n \in Segment} \cup {LiveId(n) : n \in Segment}
    \cup {EventId(e) : e \in Event}
    \cup {TakeId(n, k) : n \in Segment, k \in 1..8}

Paths ==
  Ids \cup {Recording(n) : n \in Segment} \cup {Quarantine(n) : n \in Segment}

\* Every row is about a payload the app makes, its path is its own file or
\* none, one row per key (the manifest's unique index), and a pass holds a
\* snapshot exactly while it works.
SpoolTypeOK ==
  /\ DOMAIN files \subseteq Paths
  /\ DOMAIN rows \subseteq Ids
  /\ ToSet(newest) = DOMAIN rows /\ Len(newest) = Cardinality(DOMAIN rows)
  /\ \A id \in DOMAIN rows :
       /\ rows[id].file \in {id, NoFile}
       /\ rows[id].state \in {"PENDING", "UPLOADED"}
       /\ Pending(id) => rows[id].file = id
  /\ \A id, other \in DOMAIN rows : rows[id].key = rows[other].key => id = other
  /\ \A w \in Work : Running(w) <=> pass[w].todo # << >>
  /\ recorder.at \in {"idle", "recording", "renamed"}
  /\ live.tick \in {"idle", "merged", "renamed"}
  /\ scribe.at \in {"idle", "decoded", "written", "spooled"}
  /\ emitting \subseteq Event
  /\ recovery.at \in {"idle", "walk", "clean"}

Received(id) ==
  \E key \in {SealedKey(id), RecoveredKey(id)} : key \in DOMAIN bucket

\* No step of any pass, seal, recovery or death loses a recording: what was
\* begun is a partial, a sealed file, in quarantine or in the bucket
\* (plan: "pending bytes are never removed automatically").
NoAudioLost ==
  \A n \in 1..recorder.segment :
    \/ Exists(Recording(n)) \/ Exists(AudioId(n)) \/ Exists(Quarantine(n))
    \/ Received(AudioId(n))

\* The seal and a recovery that finds the sealed file before its row derive
\* two keys for it; the bucket never receives both.
OneObjectPerSegment ==
  \A n \in Segment :
    Cardinality({SealedKey(AudioId(n)), RecoveredKey(AudioId(n))}
                  \cap DOMAIN bucket) <= 1

\* A payload that does not change is marked UPLOADED only once the bucket
\* has its bytes under its row's key, and they stay, late and repeated
\* requests included.
UploadedIsConfirmed ==
  \A id \in DOMAIN rows :
    rows[id].state = "UPLOADED" /\ Immutable(id) =>
      rows[id].key \in DOMAIN bucket /\ bucket[rows[id].key] = rows[id].md5

\* An error a racing pass reports about a row that is already uploaded is
\* not kept: nothing would ever clear it (Manifest.kt, failed).
UploadedKeepsNoError ==
  \A id \in DOMAIN rows : rows[id].state = "UPLOADED" => ~rows[id].error

\* A recording that is over reaches the bucket, or is found in quarantine:
\* the app is opened again, faults stop, and no pass starves it.
AudioArrives ==
  <>[](\A n \in Segment :
         recorder.segment > n \/ (recorder.segment = n /\ recorder.at # "recording")
           => Received(AudioId(n)) \/ Exists(Quarantine(n)))

\* Where the app is opened again, an uploaded recording is eventually
\* removed from the phone, also when the process dies, or a replacement
\* cancels the pass, between the mark and the removal.
UploadedFilesGo ==
  \A n \in Segment :
    (left.reopened > 0 /\ Row(AudioId(n)) /\ rows[AudioId(n)].state = "UPLOADED")
      ~> ~Exists(AudioId(n))

\* What the passes upload is what the phone recorded: one object of each
\* segment, a row marked only on the bucket's word, no error left behind it
\* (Manifest.kt, UploadWorker.kt, S3Uploader.kt).
UploadsAreSound == OneObjectPerSegment /\ UploadedIsConfirmed /\ UploadedKeepsNoError

\* Recordings leave the phone, first their bytes and then their file
\* (UploadWorker.kt, ForegroundSync.kt).
UploadsFinish == AudioArrives /\ UploadedFilesGo
=============================================================================
