---------------------------- MODULE ServerMedia ----------------------------
(***************************************************************************)
(* One capture through the server's media stages (lib/capture: DriveAllow, *)
(* Media, TransloaditNormalize): an allowlisted Drive file is imported, a  *)
(* capture is probed once, brought into chunks (as it is, by Transloadit   *)
(* or by the local ffmpeg) and its chunks are transcribed, all in passes   *)
(* that poll what earlier ones left with a vendor.  Captures share no      *)
(* artifact and passes never overlap, so one capture and one pass suffice; *)
(* a failed call or a crash can fall between any two of its writes.        *)
(*                                                                         *)
(* Abstractions.  A recording is one chunk or two, of a duration that      *)
(* segmentsFor accepts (it throws for any other: the capture fails in each *)
(* pass, by itself).  Of a transcript only the chunks it holds are kept,   *)
(* of an assembly what it was for and how it ended.  What one actor alone  *)
(* writes is read in the step that acts on it.                             *)
(***************************************************************************)
EXTENDS Integers, Sequences, FiniteSets

CONSTANTS
  MediaScenes,  \* what a behaviour may start with (see MediaStart)
  Attempts      \* MAX_CHUNK_ATTEMPTS

ASSUME MediaAssumption == Attempts \in Nat \ {0}

VARIABLES
  media,      \* what is there to know: [form, blob, source, route]
  kept,       \* object -> the stores that hold it
  lost,       \* <<object, store>> that were there and are gone
  verdict,    \* the probe on record: unasked | media | nothing
  assembled,  \* Transloadit's assemblies: [for, end], by their number
  fired,      \* the Transloadit receipt: [phase, job, previous]
  manifest,   \* the chunks, <<>> before the manifest is there
  impossible, \* the settled markers there are: "normalize", "transcribe"
  accepted,   \* the vendor's transcriptions: [chunk, end], by their number
  bought,     \* the jobs receipt: transcriptions on record, by chunk
  transcript, \* the canonical: [status, chunks]
  acquired,   \* of a Drive file: "provenance", "receipt"
  stage,      \* where the pass is, and what it holds
  harm        \* the bounds, and how often a vendor's yes was not filed

mediaVars == <<media, kept, lost, verdict, assembled, fired, manifest,
  impossible, accepted, bought, transcript, acquired, stage, harm>>

-----------------------------------------------------------------------------
(* Objects. *)

Object == {"original", "chunk 0", "chunk 1", "stray"}
Store == {"local", "bucket"}

\* segmentsFor: the spans of the recording.
Spans == <<"chunk 0", "chunk 1">>
Span == {Spans[i] : i \in DOMAIN Spans}

NoReceipt == [phase |-> "none", job |-> 0, previous |-> 0]
NoTranscript == [status |-> "none", chunks |-> {}]

InBucket(o) == "bucket" \in kept[o]
Put(o, s) == kept' = [kept EXCEPT ![o] = @ \cup {s}]

\* The pass is at this step, and goes on to that one.
At(step) == stage.step = step
Onto(step) == stage' = [step |-> step, job |-> 0]
Hold(step, j) == stage' = [step |-> step, job |-> j]

artifacts == <<kept, verdict, fired, manifest, impossible, bought, transcript, acquired>>
world == <<media, lost, harm>>

-----------------------------------------------------------------------------
(* Transloadit: create, poll, and what a completed assembly of chunks is   *)
(* worth.  Drive imports and archived captures share these.                *)

\* The stage a Drive file's steps end in, and a capture's.
Onward == IF media.source = "drive" THEN "normalize" ELSE "transcribe"

Create(what, then) ==
  /\ assembled' = Append(assembled, [for |-> what, end |-> "running"])
  /\ Hold(then, Len(assembled) + 1)

\* requireCompleted fails on an assembly that ended in an error.
Polled == assembled[fired.job].end

\* createChunkReceipt over the receipt's own history.
FireChunks ==
  /\ At("fire chunks")
  /\ Create("chunks", "file chunks")
  /\ UNCHANGED <<artifacts, accepted, world>>

\* The old assembly is remembered by its number alone.
FileChunks ==
  /\ At("file chunks")
  /\ fired' = [phase |-> "chunks", job |-> stage.job,
               previous |-> IF fired.phase = "none" THEN 0 ELSE fired.previous + 1]
  /\ Onto(Onward)
  /\ UNCHANGED <<kept, verdict, assembled, manifest, impossible, accepted,
                 bought, transcript, acquired, world>>

\* The chunks are discovered by listing the prefix, and nothing else may be there.
ListingIsSound == (\A c \in Span : InBucket(c)) /\ ~InBucket("stray")

\* Seeded fault: the chunks the recording should have, unlisted.
AcceptChunks ==
  /\ At("list chunks")
  /\ manifest' = Spans
  /\ Onto("complete")
  /\ UNCHANGED <<kept, verdict, assembled, fired, impossible, accepted, bought,
                 transcript, acquired, world>>

\* settleCompletedChunks: a manifest of what the listing holds, or a fresh
\* assembly while there are attempts left.
ListChunks ==
  /\ At("list chunks")
  /\ IF ListingIsSound
     THEN manifest' = Spans /\ Onto("complete")
     ELSE /\ UNCHANGED manifest
          /\ Onto(IF fired.previous + 1 >= Attempts THEN Onward ELSE "fire chunks")
  /\ UNCHANGED <<kept, verdict, assembled, fired, impossible, accepted, bought,
                 transcript, acquired, world>>

CompleteReceipt ==
  /\ At("complete")
  /\ fired' = [fired EXCEPT !.phase = "completed"]
  /\ Onto(IF media.source = "drive" THEN "provenance" ELSE "transcribe")
  /\ UNCHANGED <<kept, verdict, assembled, manifest, impossible, accepted,
                 bought, transcript, acquired, world>>

TransloaditStep ==
  FireChunks \/ FileChunks \/ ListChunks \/ CompleteReceipt

-----------------------------------------------------------------------------
(* Drive: ingestDrive. *)

\* An allowlisted file whose receipt is there is cached; one with no job
\* receipt is imported; a completed one is finalized, again if need be.
LookAtDrive ==
  /\ At("look")
  /\ Onto(IF media.source # "drive" \/ "receipt" \in acquired THEN "normalize"
          ELSE CASE fired.phase = "none"      -> "import"
                 [] fired.phase = "completed" -> "provenance"
                 [] OTHER                     -> "poll import")
  /\ UNCHANGED <<artifacts, assembled, accepted, world>>

Import ==
  /\ At("import")
  /\ Create("original", "file import")
  /\ UNCHANGED <<artifacts, accepted, world>>

FileImport ==
  /\ At("file import")
  /\ fired' = [phase |-> "import", job |-> stage.job, previous |-> 0]
  /\ Onto("normalize")
  /\ UNCHANGED <<kept, verdict, assembled, manifest, impossible, accepted,
                 bought, transcript, acquired, world>>

\* A media file goes on to its chunks, any other is complete.
PollImport ==
  /\ At("poll import")
  /\ Onto(IF Polled # "completed" THEN "normalize"
          ELSE IF fired.phase = "chunks" THEN "list chunks"
          ELSE IF ~InBucket("original") THEN "normalize"
          ELSE IF media.form = "none" THEN "complete" ELSE "fire chunks")
  /\ UNCHANGED <<artifacts, assembled, accepted, world>>

FileProvenance ==
  /\ At("provenance")
  /\ acquired' = acquired \cup {"provenance"}
  /\ Onto("receipt")
  /\ UNCHANGED <<kept, verdict, assembled, fired, manifest, impossible,
                 accepted, bought, transcript, world>>

FileReceipt ==
  /\ At("receipt")
  /\ acquired' = acquired \cup {"receipt"}
  /\ Onto("normalize")
  /\ UNCHANGED <<kept, verdict, assembled, fired, manifest, impossible,
                 accepted, bought, transcript, world>>

DriveStep == LookAtDrive \/ Import \/ FileImport \/ PollImport \/ FileProvenance \/ FileReceipt

-----------------------------------------------------------------------------
(* Probe and normalize: mediaNormalizeSource. *)

\* A missing blob is no answer, and neither is a failed read of a signed URL:
\* both leave the record unwritten.  A Drive import has no listed blob.
Readable == media.source # "drive" /\ media.blob # "absent"

\* Seeded fault: what the probe says is kept, whatever it read.
CacheEveryProbe ==
  /\ At("normalize") /\ verdict = "unasked"
  /\ \/ /\ Readable
        /\ verdict' = IF media.form = "none" THEN "nothing" ELSE "media"
        /\ Onto(IF media.form = "none" THEN "transcribe" ELSE "form")
     \/ /\ ~Readable \/ media.blob = "url"
        /\ verdict' = "nothing" /\ Onto("transcribe")
  /\ UNCHANGED <<kept, assembled, fired, manifest, impossible, accepted,
                 bought, transcript, acquired, world>>

Probe ==
  /\ At("normalize") /\ "normalize" \notin impossible /\ verdict = "unasked"
  /\ IF Readable
     THEN /\ verdict' = IF media.form = "none" THEN "nothing" ELSE "media"
          /\ Onto(IF media.form = "none" THEN "transcribe" ELSE "form")
     ELSE UNCHANGED verdict /\ Onto("transcribe")
  /\ UNCHANGED <<kept, assembled, fired, manifest, impossible, accepted,
                 bought, transcript, acquired, world>>

\* The read of the URL fails: not media for this pass.
ProbeUnread ==
  /\ At("normalize") /\ "normalize" \notin impossible /\ verdict = "unasked"
  /\ Readable /\ media.blob = "url" /\ harm.fails > 0
  /\ harm' = [harm EXCEPT !.fails = @ - 1]
  /\ Onto("transcribe")
  /\ UNCHANGED <<artifacts, assembled, accepted, media, lost>>

\* What is on record decides.
Recall ==
  /\ At("normalize") /\ ("normalize" \in impossible \/ verdict # "unasked")
  /\ Onto(IF "normalize" \in impossible \/ verdict = "nothing" THEN "transcribe" ELSE "form")
  /\ UNCHANGED <<artifacts, assembled, accepted, world>>

\* A manifest needs its chunks in the bucket, a canonical-ish recording is its
\* own chunk, anything else is transcoded.  Transloadit reads the original
\* from the bucket, and its completed receipt ends the matter.
Form ==
  /\ At("form")
  /\ Onto(IF manifest # <<>> THEN "ensure"
          ELSE IF media.form = "direct" THEN "point"
          ELSE IF media.route = "ffmpeg" THEN "transcode"
          ELSE IF fired.phase = "completed" THEN "transcribe"
          ELSE IF fired.phase # "none" THEN "poll"
          ELSE IF ~InBucket("original") THEN "transcribe" ELSE "fire chunks")
  /\ UNCHANGED <<artifacts, assembled, accepted, world>>

PointAtOriginal ==
  /\ At("point")
  /\ manifest' = <<"original">>
  /\ Onto("ensure")
  /\ UNCHANGED <<kept, verdict, assembled, fired, impossible, accepted, bought,
                 transcript, acquired, world>>

\* A receipt of the older flow is upgraded from its canonical output, which
\* lies where the chunks will.
Poll ==
  /\ At("poll")
  /\ Onto(IF Polled # "completed" THEN "transcribe"
          ELSE CASE fired.phase = "chunks"                      -> "list chunks"
                 [] fired.phase = "legacy" /\ InBucket("stray") -> "fire chunks"
                 [] OTHER                                       -> "transcribe")
  /\ UNCHANGED <<artifacts, assembled, accepted, world>>

\* segmentToChunks: the chunks land one by one, the manifest last.
Transcode ==
  /\ At("transcode")
  /\ IF \E i \in DOMAIN Spans : "local" \notin kept[Spans[i]]
     THEN /\ \E c \in {c \in Span : "local" \notin kept[c]} : Put(c, "local")
          /\ UNCHANGED <<manifest, stage>>
     ELSE /\ manifest' = Spans
          /\ Onto("ensure")
          /\ UNCHANGED kept
  /\ UNCHANGED <<verdict, assembled, fired, impossible, accepted, bought,
                 transcript, acquired, world>>

\* ensureManifestChunksInR2: what is only here is uploaded; what is nowhere
\* never will be, and the capture is settled.
Ensure ==
  /\ At("ensure")
  /\ LET Away == {i \in DOMAIN manifest : ~InBucket(manifest[i])}
         first == CHOOSE i \in Away : \A j \in Away : i <= j
     IN CASE Away = {} -> Onto("transcribe") /\ UNCHANGED <<kept, impossible>>
          [] Away # {} /\ "local" \in kept[manifest[first]] ->
               Put(manifest[first], "bucket") /\ UNCHANGED <<impossible, stage>>
          [] OTHER ->
               /\ impossible' = impossible \cup {"normalize"}
               /\ Onto("transcribe") /\ UNCHANGED kept
  /\ UNCHANGED <<verdict, assembled, fired, manifest, accepted, bought,
                 transcript, acquired, world>>

NormalizeStep ==
  Probe \/ ProbeUnread \/ Recall \/ Form \/ PointAtOriginal \/ Poll \/ Transcode \/ Ensure

-----------------------------------------------------------------------------
(* Transcribe: mediaTranscribeSource. *)

\* Pending: a manifest with neither marker nor a canonical worth keeping.
Discovered ==
  manifest # <<>> /\ "transcribe" \notin impossible /\ transcript.status # "completed"

\* An older run's error record is no evidence and is cleared up front.
Transcribe ==
  /\ At("transcribe")
  /\ IF Discovered
     THEN /\ transcript' = NoTranscript
          /\ Onto(IF Len(bought) < Len(manifest) THEN "submit" ELSE "collect")
     ELSE UNCHANGED transcript /\ Onto("look")
  /\ UNCHANGED <<kept, verdict, assembled, fired, manifest, impossible,
                 accepted, bought, acquired, world>>

Wanted == manifest[Len(bought) + 1]

\* Seeded fault: the receipt once all chunks are submitted.
SubmitAll ==
  /\ At("submit")
  /\ accepted' = Append(accepted, [chunk |-> manifest[stage.job + 1], end |-> "running"])
  /\ Hold(IF stage.job + 1 = Len(manifest) THEN "record" ELSE "submit", stage.job + 1)
  /\ UNCHANGED <<artifacts, assembled, world>>

\* A chunk that is only here waits for the normalize stage; one that is
\* nowhere settles the capture.
Submit ==
  /\ At("submit")
  /\ CASE InBucket(Wanted) ->
            /\ accepted' = Append(accepted, [chunk |-> Wanted, end |-> "running"])
            /\ Hold("record", Len(accepted) + 1)
            /\ UNCHANGED impossible
       [] ~InBucket(Wanted) /\ "local" \in kept[Wanted] ->
            Onto("look") /\ UNCHANGED <<accepted, impossible>>
       [] OTHER ->
            /\ impossible' = impossible \cup {"transcribe"}
            /\ Onto("look") /\ UNCHANGED accepted
  /\ UNCHANGED <<kept, verdict, assembled, fired, manifest, bought, transcript,
                 acquired, world>>

\* Committed after every accepted job.
Record ==
  /\ At("record")
  /\ bought' = Append(bought, stage.job)
  /\ Onto(IF Len(bought) + 1 < Len(manifest) THEN "submit" ELSE "look")
  /\ UNCHANGED <<kept, verdict, assembled, fired, manifest, impossible,
                 accepted, transcript, acquired, world>>

Ended(how) == {i \in DOMAIN bought : accepted[bought[i]].end = how}

\* Every job is polled and none may still run.  What completed is the
\* transcript, silence is an empty one; if every chunk failed and not all for
\* silence, the capture is settled and the receipt stays.
Collect ==
  /\ At("collect") /\ Onto("look")
  /\ CASE Ended("running") # {} -> UNCHANGED <<transcript, impossible>>
       [] Ended("running") = {} /\ (Ended("completed") # {} \/ Ended("failed") = {}) ->
            /\ transcript' = [status |-> "completed",
                              chunks |-> {manifest[i] : i \in Ended("completed")}]
            /\ UNCHANGED impossible
       [] OTHER -> impossible' = impossible \cup {"transcribe"} /\ UNCHANGED transcript
  /\ UNCHANGED <<kept, verdict, assembled, fired, manifest, accepted, bought,
                 acquired, world>>

TranscribeStep == Transcribe \/ Submit \/ Record \/ Collect

-----------------------------------------------------------------------------
(* The vendors, the archive sweep, the operator, and what goes wrong. *)

\* An assembly stores what it made: the original of an import; of chunks all,
\* or (spoilt) all but one, or something beside them.
AssemblyEnds(j) ==
  /\ assembled[j].end = "running"
  /\ \/ /\ assembled' = [assembled EXCEPT ![j].end = "completed"]
        /\ \/ /\ UNCHANGED harm
              /\ kept' = [o \in Object |->
                   IF o \in IF assembled[j].for = "chunks" THEN Span ELSE {"original"}
                   THEN kept[o] \cup {"bucket"} ELSE kept[o]]
           \/ /\ assembled[j].for = "chunks" /\ harm.spoils > 0
              /\ harm' = [harm EXCEPT !.spoils = @ - 1]
              /\ \/ Put("chunk 0", "bucket") \/ Put("stray", "bucket")
     \/ /\ harm.refusals > 0
        /\ harm' = [harm EXCEPT !.refusals = @ - 1]
        /\ assembled' = [assembled EXCEPT ![j].end = "failed"]
        /\ UNCHANGED kept
  /\ UNCHANGED <<media, lost, verdict, fired, manifest, impossible, accepted,
                 bought, transcript, acquired, stage>>

TranscriptionEnds(j) ==
  /\ accepted[j].end = "running"
  /\ \/ accepted' = [accepted EXCEPT ![j].end = "completed"] /\ UNCHANGED harm
     \/ /\ harm.refusals > 0
        /\ harm' = [harm EXCEPT !.refusals = @ - 1]
        /\ \E end \in {"silent", "failed"} : accepted' = [accepted EXCEPT ![j].end = end]
  /\ UNCHANGED <<media, artifacts, lost, assembled, stage>>

\* The archive sweep copies the original to the bucket; a late blob lands.
Archived ==
  /\ kept["original"] = {"local"}
  /\ Put("original", "bucket")
  /\ UNCHANGED <<world, verdict, assembled, fired, manifest, impossible,
                 accepted, bought, transcript, acquired, stage>>

BlobLands ==
  /\ media.blob = "absent" /\ media.source = "capture"
  /\ media' = [media EXCEPT !.blob = "disk"]
  /\ Put("original", "local")
  /\ UNCHANGED <<lost, harm, verdict, assembled, fired, manifest, impossible,
                 accepted, bought, transcript, acquired, stage>>

\* A chunk is deleted from a store, outside these stages.
ChunkGoes ==
  /\ harm.losses > 0
  /\ \E i \in DOMAIN manifest : \E s \in kept[manifest[i]] :
       /\ kept' = [kept EXCEPT ![manifest[i]] = @ \ {s}]
       /\ lost' = lost \cup {<<manifest[i], s>>}
  /\ harm' = [harm EXCEPT !.losses = @ - 1]
  /\ UNCHANGED <<media, verdict, assembled, fired, manifest, impossible,
                 accepted, bought, transcript, acquired, stage>>

\* The requeue of a capture whose media is back: put there again, markers off.
Restore ==
  /\ impossible # {} /\ harm.restores > 0
  /\ \E i \in DOMAIN manifest : kept[manifest[i]] = {}
  /\ kept' = [o \in Object |-> IF kept[o] = {} /\ \E i \in DOMAIN manifest : manifest[i] = o
                               THEN {"local"} ELSE kept[o]]
  /\ impossible' = {}
  /\ harm' = [harm EXCEPT !.restores = @ - 1]
  /\ UNCHANGED <<media, lost, verdict, assembled, fired, manifest, accepted,
                 bought, transcript, acquired, stage>>

\* Where the stage the pass is in leaves off when a call of it fails.
Onwards ==
  CASE stage.step \in {"transcribe", "submit", "record", "collect"} -> "look"
    [] stage.step \in {"look", "import", "file import", "poll import", "provenance", "receipt"} ->
         "normalize"
    [] stage.step \in {"fire chunks", "file chunks", "list chunks", "complete"} -> Onward
    [] OTHER -> "transcribe"

\* What a vendor was asked for and no receipt holds yet.
InHand == IF stage.step \in {"file import", "file chunks", "record"} THEN 1 ELSE 0

\* A call fails: the capture is left to the next pass, the pass goes on.
MediaCallFails ==
  /\ harm.fails > 0
  /\ harm' = [harm EXCEPT !.fails = @ - 1, !.unfiled = @ + InHand]
  /\ Onto(Onwards)
  /\ UNCHANGED <<artifacts, assembled, accepted, media, lost>>

\* The vendor accepts and its answer is lost.  AssemblyAI's client asks again
\* after a transport error and leaves an answer it cannot decode at that.
Unanswered ==
  /\ harm.fails > 0
  /\ harm' = [harm EXCEPT !.fails = @ - 1, !.unfiled = @ + 1]
  /\ \/ /\ At("submit") /\ InBucket(Wanted)
        /\ accepted' = Append(accepted, [chunk |-> Wanted, end |-> "running"])
        /\ UNCHANGED assembled
        /\ UNCHANGED stage \/ Onto(Onwards)
     \/ /\ stage.step \in {"import", "fire chunks"}
        /\ assembled' = Append(assembled, [end |-> "running",
             for |-> IF At("import") THEN "original" ELSE "chunks"])
        /\ UNCHANGED accepted
        /\ Onto(Onwards)
  /\ UNCHANGED <<artifacts, media, lost>>

MediaProcessDies ==
  /\ harm.deaths > 0
  /\ harm' = [harm EXCEPT !.deaths = @ - 1, !.unfiled = @ + InHand]
  /\ Onto("look")
  /\ UNCHANGED <<artifacts, assembled, accepted, media, lost>>

-----------------------------------------------------------------------------
MediaStart(s) ==
  /\ media = s.media
  /\ harm = s.harm
  /\ kept = [o \in Object |->
       CASE o = "original" -> (CASE s.media.blob = "disk" -> {"local"}
                                 [] s.media.blob = "url"  -> {"bucket"}
                                 [] OTHER                 -> {})
         [] o = "stray" /\ s.media.source = "legacy" -> {"bucket"}
         [] OTHER -> {}]
  /\ lost = {} /\ verdict = "unasked" /\ manifest = <<>> /\ impossible = {}
  /\ accepted = <<>> /\ bought = <<>> /\ acquired = {}
  /\ assembled = IF s.media.source = "legacy"
                 THEN <<[for |-> "original", end |-> "completed"]>> ELSE <<>>
  /\ fired = IF s.media.source = "legacy"
             THEN [phase |-> "legacy", job |-> 1, previous |-> 0] ELSE NoReceipt
  /\ \/ transcript = NoTranscript
     \/ transcript = [status |-> "error", chunks |-> {}]
  /\ stage = [step |-> "look", job |-> 0]

\* What there is to know of a capture, and bounds that are numbers.
ASSUME MediaScenesAssumption ==
  \A s \in MediaScenes :
    /\ s.media \in [form : {"direct", "long", "none"}, blob : {"disk", "url", "absent"},
                   source : {"capture", "drive", "legacy"}, route : {"ffmpeg", "transloadit"}]
    /\ s.harm \in [{"deaths", "fails", "spoils", "refusals", "losses", "restores", "unfiled"} -> Nat]

PassOn == TransloaditStep \/ DriveStep \/ NormalizeStep \/ TranscribeStep

MediaNext ==
  \/ PassOn
  \/ \E j \in DOMAIN assembled : AssemblyEnds(j)
  \/ \E j \in DOMAIN accepted : TranscriptionEnds(j)
  \/ Archived \/ BlobLands \/ ChunkGoes \/ Restore
  \/ MediaCallFails \/ Unanswered \/ MediaProcessDies

\* Passes are repeated for ever, vendors end what they accept, and the
\* archive sweep runs before these stages.
MediaFairness ==
  /\ WF_mediaVars(PassOn)
  /\ WF_mediaVars(\E j \in DOMAIN assembled : AssemblyEnds(j))
  /\ WF_mediaVars(\E j \in DOMAIN accepted : TranscriptionEnds(j))
  /\ WF_mediaVars(Archived)

MediaSpec == (\E s \in MediaScenes : MediaStart(s)) /\ [][MediaNext]_mediaVars /\ MediaFairness

-----------------------------------------------------------------------------
(* Properties. *)

MediaTypeOK ==
  /\ kept \in [Object -> SUBSET Store]
  /\ verdict \in {"unasked", "media", "nothing"}
  /\ fired.phase \in {"none", "legacy", "import", "chunks", "completed"}
  /\ manifest \in {<<>>, <<"original">>, Spans}
  /\ impossible \subseteq {"normalize", "transcribe"}
  /\ Len(bought) <= Len(manifest) \/ manifest = <<>>
  /\ transcript.status \in {"none", "error", "completed"}

Missing(o) == kept[o] = {} /\ \E s \in Store : <<o, s>> \in lost

\* A receipt or a manifest written last speaks for what was written before
\* it (Media.ts 356-358, TransloaditNormalize.ts 535-537): whatever crashed in
\* between, the manifest's chunks were stored, a completed receipt of a
\* recording has its manifest, and a Drive file's receipt its original and
\* its provenance.
MediaIsBacked ==
  /\ \A i \in DOMAIN manifest : kept[manifest[i]] # {} \/ Missing(manifest[i])
  /\ fired.phase = "completed" /\ media.form # "none" => manifest # <<>>
  /\ "receipt" \in acquired =>
       "provenance" \in acquired /\ fired.phase = "completed" /\ InBucket("original")

\* A chunk is bought once, and once more only for a call or a process that
\* failed between the vendor's yes and the receipt, which is committed after
\* every accepted job (Media.ts 688-689); chunks are assembled at most Attempts
\* times likewise (TransloaditNormalize.ts 42-44).
ServerSpend ==
  /\ \A c \in Object :
       Cardinality({j \in DOMAIN accepted : accepted[j].chunk = c}) <= 1 + harm.unfiled
  /\ Cardinality({j \in DOMAIN assembled : assembled[j].for = "chunks"})
       <= Attempts + harm.unfiled

\* A chunk that was lost is here again: a second assembly, whose receipt was
\* never filed, came to its end after the loss.
CameBack(o) ==
  /\ \E s \in Store : <<o, s>> \in lost
  /\ \E j, k \in DOMAIN assembled :
       /\ j # k
       /\ \A n \in {j, k} : assembled[n].for = "chunks" /\ assembled[n].end = "completed"

\* A transcript is of every chunk that was transcribed and of no other, and is
\* there only once nothing is in the works; a capture is given up only if no
\* chunk of it can have words, or one was in neither store and is there again
\* for a second assembly alone.
TranscriptIsWhole ==
  /\ transcript.status = "completed" =>
       /\ Len(bought) = Len(manifest)
       /\ \A i \in DOMAIN bought :
            /\ accepted[bought[i]].end # "running"
            /\ accepted[bought[i]].chunk = manifest[i]
            /\ manifest[i] \in transcript.chunks <=> accepted[bought[i]].end = "completed"
  /\ "transcribe" \in impossible =>
       \/ \E i \in DOMAIN manifest : Missing(manifest[i]) \/ CameBack(manifest[i])
       \/ /\ Len(bought) = Len(manifest)
          /\ \A i \in DOMAIN bought : accepted[bought[i]].end \in {"failed", "silent"}

\* The ends that are not a transcript: a marker, an assembly that failed
\* (its receipt is polled for ever), chunks that never were sound.
GivenUp ==
  \/ impossible # {}
  \/ fired.job # 0 /\ Polled = "failed"
  \/ fired.previous + 1 >= Attempts /\ ~ListingIsSound

\* Every recording that can be read is transcribed, or given up on record.
MediaArrives ==
  media.form # "none" /\ (media.blob # "absent" \/ media.source = "drive")
    ~> transcript.status = "completed" \/ GivenUp

\* What the stages leave is what they were given: no receipt, manifest or
\* transcript speaks for bytes or words that are not there, and nothing is
\* bought twice but for the calls and processes that failed.
MediaIsSound == MediaIsBacked /\ TranscriptIsWhole /\ ServerSpend
=============================================================================
