---------------------------- MODULE ServerIngest ----------------------------
(***************************************************************************)
(* What the server takes in: the capture loop's three sources over the     *)
(* phone's bucket (lib/capture: LocalTranscripts, DeviceEvents,            *)
(* CaptureBucket, in that order), the main loop's Drive recordings (Audio) *)
(* beside it, and bodies posted over HTTP (HttpIngest).                    *)
(*                                                                         *)
(* A source discovers its next objects through a persisted index of what   *)
(* it has seen (Discover), then performs them newest first, several at     *)
(* once, each guarded by a receipt.  Every write of an item is a step: the *)
(* other loop, a failed call or a crash can fall between any two.          *)
(*                                                                         *)
(* Abstractions.  An upload is named by its key and its moment, which      *)
(* stands for both etag and lastModified.  The transcripts and positions   *)
(* themselves are not modelled, only which one a key holds.  Only one loop *)
(* uses a discovery index, so a discovery is one step.                     *)
(***************************************************************************)
EXTENDS Integers, Sequences, FiniteSets, SequencesExt

CONSTANTS
  Upload,        \* object key -> what the object is (see UploadKind)
  IngestScenes,  \* what a behaviour may start with (see IngestStart)
  IngestLimit    \* objects one source takes in a pass

ASSUME IngestAssumption == IngestLimit \in Nat \ {0}

VARIABLES
  shelf,        \* the phone's bucket: one [key, at] per key
  coming,       \* what the phone may still upload: how often, by key
  folder,       \* recordings in the Drive folder
  seen,         \* source -> the objects its discovery index keeps
  ingested,     \* the ingest receipts, [source, key, at]
  blobs,        \* contents stored as captures
  provenance,   \* content -> the sightings on record, <<source, key>>
  firstLook,    \* content -> none | live | batch
  provisional,  \* segments with a provisional live transcript
  promoted,     \* segments whose provisional was promoted
  believed,     \* the upload the device's latest location comes from
  inbox,        \* the fixes handed to the day path
  loop,         \* loop -> the source at work, its queue and items in hand
  posting,      \* content -> the HTTP request that brings it
  mishaps       \* the bounds: calls that fail, crashes

ingestVars == <<shelf, coming, folder, seen, ingested, blobs, provenance,
  firstLook, provisional, promoted, believed, inbox, loop, posting, mishaps>>

filed == <<blobs, provenance, firstLook, provisional, promoted, believed, inbox>>

-----------------------------------------------------------------------------
(* Objects and sources. *)

UploadKind ==
  {"audio",    \* a sealed recording
   "adopted",  \* a recording transcribed under its pre-contenthash id
   "live",     \* the live partial of a segment, overwritten on every tick
   "final",    \* the phone's transcript of a sealed recording
   "fix",      \* a location.fix event
   "invalid",  \* an event or a transcript that fails validation
   "other"}    \* what no source of the loop takes

UploadKindOf(k) == Upload[k].kind
Content(k) == Upload[k].bytes
SegmentAt(k) == Upload[k].segment
Contents == {Content(k) : k \in DOMAIN Upload}

Recordings == {"capture-bucket", "audio-drive"}
SourceName == Recordings \cup {"local-transcripts", "device-events"}

\* A loop performs its sources one after the other.
Sources(l) == IF l = "capture"
              THEN <<"local-transcripts", "device-events", "capture-bucket">>
              ELSE <<"audio-drive">>

\* captureBucketObjects maps every object to a recording of some mime type;
\* the other two keep their own kinds.
Maps(source, o) ==
  CASE source = "local-transcripts" -> UploadKindOf(o.key) \in {"live", "final"}
    [] source = "device-events"     -> UploadKindOf(o.key) \in {"fix", "invalid"}
    [] OTHER                        -> TRUE

\* Only audio is ingestable; discovery drops the rest from the window.
Ingestable(source, o) == source \in Recordings => UploadKindOf(o.key) \in {"audio", "adopted"}

Receipt(source, o) == [source |-> source, key |-> o.key, at |-> o.at]

\* topNewest, and the bucket's listing.
NewestOf(objects, n) ==
  {o \in objects : Cardinality({x \in objects : x.at > o.at}) < n}

-----------------------------------------------------------------------------
(* Discovery. *)

\* A cold index expands the listing until it holds the whole prefix; a warm
\* one asks only for the newest.
Listing(source) ==
  IF seen[source] = {} THEN shelf ELSE NewestOf(shelf, IngestLimit)

\* A listing that exactly fills the request may be truncated.
Exhaustive(source) ==
  seen[source] = {} \/ Cardinality(Listing(source)) < IngestLimit

\* An exhaustive listing replaces what was seen, another one joins it.
Merged(source) ==
  Listing(source) \cup
    IF Exhaustive(source) THEN {}
    ELSE {o \in seen[source] : \A x \in Listing(source) : x.key # o.key}

Unreceipted(source, objects) ==
  {o \in objects : Maps(source, o) /\ Receipt(source, o) \notin ingested}

\* Seeded fault: the window is cut off the listing before the filter.
FreshOfWindow(source) ==
  LET window == NewestOf(Merged(source), IngestLimit)
  IN {o \in Unreceipted(source, window) : Ingestable(source, o)}

\* What a pass of the source will perform.
Fresh(source) ==
  LET pending == Unreceipted(source, Merged(source))
  IN NewestOf({o \in pending : Ingestable(source, o)}, IngestLimit)

\* The objects that are pending stay in the index, those no pass performs too.
Kept(source) == Unreceipted(source, Merged(source))

Asleep == [turn |-> 0, queue |-> {}, hands |-> {}]
AtRest(l) == loop[l].queue = {} /\ loop[l].hands = {}

\* The next source of the pass discovers; after the last one the loop sleeps.
NextSource(l) ==
  /\ AtRest(l)
  /\ LET turn == (loop[l].turn + 1) % (Len(Sources(l)) + 1)
         source == Sources(l)[turn]
     IN CASE turn = 0 ->
               /\ loop' = [loop EXCEPT ![l] = Asleep]
               /\ UNCHANGED seen
          [] turn # 0 /\ source = "audio-drive" ->
               /\ loop' = [loop EXCEPT ![l] = [turn |-> turn, hands |-> {},
                    queue |-> {[key |-> k, at |-> 0] : k \in folder}]]
               /\ UNCHANGED seen
          [] OTHER ->
               /\ loop' = [loop EXCEPT ![l] =
                    [turn |-> turn, hands |-> {}, queue |-> Fresh(source)]]
               /\ seen' = [seen EXCEPT ![source] = Kept(source)]
  /\ UNCHANGED <<shelf, coming, folder, ingested, filed, posting, mishaps>>

-----------------------------------------------------------------------------
(* The items of a source. *)

SourceOf(l) == Sources(l)[loop[l].turn]
Room(l) == SourceOf(l) \in Recordings => Cardinality(loop[l].hands) < 2

\* What ingesting the object writes first.
FirstWrite(o) ==
  CASE UploadKindOf(o.key) = "audio"            -> "bytes"
    [] UploadKindOf(o.key) = "live"             -> "promoted?"
    [] UploadKindOf(o.key) = "final"            -> "batch"
    [] UploadKindOf(o.key) = "fix"              -> "believe"
    [] UploadKindOf(o.key) \in {"adopted", "invalid"} -> "receipt"

Item(o) == [key |-> o.key, at |-> o.at, step |-> FirstWrite(o), had |-> {}]

\* The newest of the queue, unless its receipt is there.
Begin(l) ==
  /\ loop[l].turn # 0 /\ Room(l)
  /\ \E o \in loop[l].queue :
       /\ \A x \in loop[l].queue : x.at <= o.at
       /\ loop' = [loop EXCEPT ![l] =
            [turn |-> @.turn, queue |-> @.queue \ {o},
             hands |-> IF Receipt(SourceOf(l), o) \in ingested THEN @.hands
                       ELSE @.hands \cup {Item(o)}]]
  /\ UNCHANGED <<shelf, coming, folder, seen, ingested, filed, posting, mishaps>>

\* The item goes on to its next step, or is done.
Go(l, i, step) ==
  loop' = [loop EXCEPT ![l].hands = (@ \ {i}) \cup {[i EXCEPT !.step = step]}]
Finish(l, i) == loop' = [loop EXCEPT ![l].hands = @ \ {i}]

\* The bytes land under their hash unless they are there; then provenance is
\* read.
StoreBytes(l, i) ==
  /\ i.step = "bytes"
  /\ blobs' = blobs \cup {Content(i.key)}
  /\ loop' = [loop EXCEPT ![l].hands = (@ \ {i}) \cup
       {[i EXCEPT !.step = "provenance", !.had = provenance[Content(i.key)]]}]
  /\ UNCHANGED <<ingested, provenance, firstLook, provisional, promoted, believed, inbox>>

\* The record read, and this sighting.
WriteProvenance(l, i) ==
  /\ i.step = "provenance"
  /\ LET sighting == <<SourceOf(l), i.key>>
     IN provenance' = IF sighting \in i.had THEN provenance
                      ELSE [provenance EXCEPT ![Content(i.key)] = i.had \cup {sighting}]
  /\ Go(l, i, "receipt")
  /\ UNCHANGED <<ingested, blobs, firstLook, provisional, promoted, believed, inbox>>

\* Seeded fault: the receipt is written before the provenance.
ReceiptTooEarly(l, i) ==
  /\ i.step \in {"provenance", "receipt"}
  /\ ingested' = ingested \cup {Receipt(SourceOf(l), i)}
  /\ IF i.step = "provenance" THEN UNCHANGED loop ELSE Finish(l, i)
  /\ UNCHANGED filed

\* Only a recording has more to do after its receipt: the promotion.
WriteReceiptOf(l, i) ==
  /\ i.step = "receipt"
  /\ ingested' = ingested \cup {Receipt(SourceOf(l), i)}
  /\ IF SourceOf(l) = "capture-bucket" /\ UploadKindOf(i.key) = "audio"
     THEN Go(l, i, "promote?") ELSE Finish(l, i)
  /\ UNCHANGED filed

\* Seeded fault: the provisional is filed over whatever is there.
OverwriteFirstLook(l, i) ==
  /\ i.step = "promote?"
  /\ IF SegmentAt(i.key) \in provisional THEN Go(l, i, "promote") ELSE Finish(l, i)
  /\ UNCHANGED <<ingested, filed>>

\* promoteLiveTranscript: only for a segment with a provisional, and never
\* over a first look.
LookForProvisional(l, i) ==
  /\ i.step = "promote?"
  /\ IF SegmentAt(i.key) \notin provisional THEN Finish(l, i)
     ELSE Go(l, i, IF firstLook[Content(i.key)] = "none" THEN "promote" ELSE "drop")
  /\ UNCHANGED <<ingested, filed>>

Promote(l, i) ==
  /\ i.step = "promote"
  /\ firstLook' = [firstLook EXCEPT ![Content(i.key)] = "live"]
  /\ Go(l, i, "drop")
  /\ UNCHANGED <<ingested, blobs, provenance, provisional, promoted, believed, inbox>>

DropProvisional(l, i) ==
  /\ i.step = "drop"
  /\ provisional' = provisional \ {SegmentAt(i.key)}
  /\ Go(l, i, "mark")
  /\ UNCHANGED <<ingested, blobs, provenance, firstLook, promoted, believed, inbox>>

MarkPromoted(l, i) ==
  /\ i.step = "mark"
  /\ promoted' = promoted \cup {SegmentAt(i.key)}
  /\ Finish(l, i)
  /\ UNCHANGED <<ingested, blobs, provenance, firstLook, provisional, believed, inbox>>

\* A partial of a promoted segment is only receipted.
LookForMark(l, i) ==
  /\ i.step = "promoted?"
  /\ Go(l, i, IF SegmentAt(i.key) \in promoted THEN "receipt" ELSE "live")
  /\ UNCHANGED <<ingested, filed>>

FileProvisional(l, i) ==
  /\ i.step = "live"
  /\ provisional' = provisional \cup {SegmentAt(i.key)}
  /\ Go(l, i, "receipt")
  /\ UNCHANGED <<ingested, blobs, provenance, firstLook, promoted, believed, inbox>>

\* The batch transcript always wins.
FileBatch(l, i) ==
  /\ i.step = "batch"
  /\ firstLook' = [firstLook EXCEPT ![Content(i.key)] = "batch"]
  /\ Go(l, i, "receipt")
  /\ UNCHANGED <<ingested, blobs, provenance, provisional, promoted, believed, inbox>>

\* The latest location is whatever fix was routed last.
Believe(l, i) ==
  /\ i.step = "believe"
  /\ believed' = Receipt("device-events", i)
  /\ Go(l, i, "inbox")
  /\ UNCHANGED <<ingested, blobs, provenance, firstLook, provisional, promoted, inbox>>

FillInbox(l, i) ==
  /\ i.step = "inbox"
  /\ inbox' = inbox \cup {i.key}
  /\ Go(l, i, "receipt")
  /\ UNCHANGED <<ingested, blobs, provenance, firstLook, provisional, promoted, believed>>

ItemStep(l, i) ==
  /\ \/ StoreBytes(l, i) \/ WriteProvenance(l, i) \/ WriteReceiptOf(l, i)
     \/ LookForProvisional(l, i) \/ Promote(l, i)
     \/ DropProvisional(l, i) \/ MarkPromoted(l, i)
     \/ LookForMark(l, i) \/ FileProvisional(l, i) \/ FileBatch(l, i)
     \/ Believe(l, i) \/ FillInbox(l, i)
  /\ UNCHANGED <<shelf, coming, folder, seen, posting, mishaps>>

-----------------------------------------------------------------------------
(* HTTP, the phone, and what goes wrong. *)

\* httpIngest: provenance is read first and says whether the bytes are here.
PostArrives(c) ==
  /\ posting[c].step = "expected"
  /\ posting' = [posting EXCEPT ![c] =
       [step |-> IF provenance[c] = {} THEN "bytes" ELSE "provenance",
        had |-> provenance[c]]]
  /\ UNCHANGED <<filed, loop, mishaps>>

PostBytes(c) ==
  /\ posting[c].step = "bytes"
  /\ blobs' = blobs \cup {c}
  /\ posting' = [posting EXCEPT ![c].step = "provenance"]
  /\ UNCHANGED <<provenance, firstLook, provisional, promoted, believed, inbox, loop, mishaps>>

\* The answer follows, whatever becomes of the archive's copy.
PostProvenance(c) ==
  /\ posting[c].step = "provenance"
  /\ provenance' = [provenance EXCEPT ![c] = posting[c].had \cup {<<"http", c>>}]
  /\ posting' = [posting EXCEPT ![c].step = "answered"]
  /\ UNCHANGED <<blobs, firstLook, provisional, promoted, believed, inbox, loop, mishaps>>

NoPost(step) == [step |-> step, had |-> {}]

\* A call fails: the item is left to a later pass, the request refused.
CallFails ==
  /\ mishaps.fails > 0
  /\ mishaps' = [mishaps EXCEPT !.fails = @ - 1]
  /\ \/ \E l \in DOMAIN loop : \E i \in loop[l].hands : Finish(l, i) /\ UNCHANGED posting
     \/ \E c \in DOMAIN posting :
          /\ posting[c].step \in {"bytes", "provenance"}
          /\ posting' = [posting EXCEPT ![c] = NoPost("refused")]
          /\ UNCHANGED loop
  /\ UNCHANGED filed

\* The process dies: what was in hand is forgotten, both loops start over.
ServerDies ==
  /\ mishaps.crashes > 0
  /\ mishaps' = [mishaps EXCEPT !.crashes = @ - 1]
  /\ loop' = [l \in DOMAIN loop |-> Asleep]
  /\ posting' = [c \in DOMAIN posting |->
       IF posting[c].step \in {"bytes", "provenance"} THEN NoPost("refused") ELSE posting[c]]
  /\ UNCHANGED filed

\* The phone uploads, or overwrites what it uploaded.
PhoneUploads(k) ==
  /\ coming[k] > 0
  /\ coming' = [coming EXCEPT ![k] = @ - 1]
  /\ LET moment == 1 + Max({0} \cup {o.at : o \in shelf})
     IN shelf' = {o \in shelf : o.key # k} \cup {[key |-> k, at |-> moment]}
  /\ UNCHANGED <<folder, seen, ingested, filed, loop, posting, mishaps>>

-----------------------------------------------------------------------------
IngestStart(s) ==
  /\ shelf = {} /\ coming = s.coming /\ folder = s.folder
  /\ seen = [source \in SourceName |-> {}]
  /\ ingested = {} /\ blobs = {} /\ inbox = {} /\ provisional = {} /\ promoted = {}
  /\ provenance = [c \in Contents |-> {}]
  /\ firstLook = [c \in Contents |-> "none"]
  /\ believed = Receipt("none", [key |-> "none", at |-> 0])
  /\ loop = [l \in s.loops |-> Asleep]
  /\ posting = [c \in s.posts |-> NoPost("expected")]
  /\ mishaps = s.mishaps

\* What is uploaded, posted or in the folder is among the uploads, and the
\* Drive folder is listed for its recordings alone.
ASSUME IngestScenesAssumption ==
  \A s \in IngestScenes :
    /\ DOMAIN s.coming \subseteq DOMAIN Upload
    /\ s.folder \subseteq {k \in DOMAIN Upload : UploadKindOf(k) = "audio"}
    /\ s.posts \subseteq Contents

LoopStep(l) ==
  NextSource(l) \/ Begin(l) \/ \E i \in loop[l].hands : ItemStep(l, i)

PostStep(c) ==
  /\ PostArrives(c) \/ PostBytes(c) \/ PostProvenance(c)
  /\ UNCHANGED <<shelf, coming, folder, seen, ingested>>

IngestNext ==
  \/ \E l \in DOMAIN loop : LoopStep(l)
  \/ \E c \in DOMAIN posting : PostStep(c)
  \/ (CallFails \/ ServerDies) /\ UNCHANGED <<shelf, coming, folder, seen, ingested>>
  \/ \E k \in DOMAIN coming : PhoneUploads(k)

\* Both loops are repeated for ever (main.ts), and their calls return.
IngestFairness ==
  \A l \in {"capture", "main"} : WF_ingestVars(l \in DOMAIN loop /\ LoopStep(l))

IngestSpec ==
  (\E s \in IngestScenes : IngestStart(s)) /\ [][IngestNext]_ingestVars /\ IngestFairness

-----------------------------------------------------------------------------
(* Properties. *)

IngestTypeOK ==
  /\ \A o \in shelf : o.key \in DOMAIN Upload /\ o.at \in Nat \ {0}
  /\ seen \in [SourceName -> SUBSET [key : DOMAIN Upload, at : Nat]]
  /\ ingested \subseteq [source : SourceName, key : DOMAIN Upload, at : Nat]
  /\ blobs \subseteq Contents
  /\ DOMAIN provenance = Contents
  /\ firstLook \in [Contents -> {"none", "live", "batch"}]
  /\ inbox \subseteq DOMAIN Upload

\* A receipt is written last and makes every later pass skip the object
\* (Audio.ts 72-75, LocalTranscripts.ts 196, DeviceEvents.ts 145), so what it
\* stands for is there whatever crashed, failed or ran beside it: a
\* recording has its bytes and a sighting, a batch transcript is the first
\* look, a fix is on the day path, and the text of a live partial is in the
\* provisional, promoted, or the first look of the recording of its segment.
IngestIsReceipted ==
  \A r \in ingested :
    LET k == r.key IN
    CASE UploadKindOf(k) = "audio" -> Content(k) \in blobs /\ provenance[Content(k)] # {}
      [] UploadKindOf(k) = "final" -> firstLook[Content(k)] = "batch"
      [] UploadKindOf(k) = "fix"   -> k \in inbox
      [] UploadKindOf(k) = "live"  ->
           \/ SegmentAt(k) \in provisional \cup promoted
           \/ \E x \in DOMAIN Upload : /\ UploadKindOf(x) = "audio" /\ SegmentAt(x) = SegmentAt(k)
                                      /\ firstLook[Content(x)] # "none"
      [] OTHER -> TRUE

\* The client that posts keeps no copy (HttpIngest.ts 23-24): once it is
\* answered the bytes and their story are here.
PostIsKept ==
  \A c \in DOMAIN posting :
    posting[c].step = "answered" => c \in blobs /\ provenance[c] # {}

\* The phone's batch transcript is never replaced by a live one
\* (LocalTranscripts.ts 163-168, 262-264), in whatever order they are taken in.
BatchStands ==
  [][\A c \in Contents : firstLook[c] = "batch" => firstLook'[c] = "batch"]_firstLook

UploadedAs(k) == {o \in shelf : o.key = k}
TakenIn(source, k) == \E o \in UploadedAs(k) : Receipt(source, o) \in ingested

\* Whatever the backlog, every transcript and every event comes to be taken
\* in, in the version last uploaded (Discover.ts 7-13); and every recording,
\* where the bucket holds nothing else.
UploadsTakenIn ==
  <>[](\A k \in DOMAIN Upload :
         UploadedAs(k) # {} =>
           CASE UploadKindOf(k) \in {"live", "final"} -> TakenIn("local-transcripts", k)
             [] UploadKindOf(k) \in {"fix", "invalid"} -> TakenIn("device-events", k)
             [] UploadKindOf(k) = "audio" ->
                  \/ TakenIn("capture-bucket", k)
                  \/ \E x \in DOMAIN coming : UploadKindOf(x) \notin {"audio", "adopted"}
             [] OTHER -> TRUE)

\* Discover.ts 11-13: "newest-first ordering can't strand older ones".
RecordingsNeverStranded ==
  \A k \in DOMAIN Upload :
    UploadKindOf(k) = "audio" => (UploadedAs(k) # {} ~> TakenIn("capture-bucket", k))

\* What is taken in and what is answered are kept.
IngestIsSound == IngestIsReceipted /\ PostIsKept
=============================================================================
