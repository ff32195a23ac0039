-------------------------- MODULE ServerMediaProofs --------------------------
(***************************************************************************)
(* What the media stages of the server leave behind is backed, whole and   *)
(* paid for within its bounds, for every scene, number of attempts and     *)
(* budget of failed calls, crashes, refusals and losses.                   *)
(*                                                                         *)
(* The invariant says of every step of the pass which records it was       *)
(* reached by (StageFits), so that what is filed last speaks for what was  *)
(* filed before; of every chunk of a manifest that it is stored or was     *)
(* lost (AllBacked); and it keeps two accounts (SpendFits): of each        *)
(* chunk's jobs and of the assemblies, against what is on record, in hand, *)
(* or was never filed.                                                     *)
(***************************************************************************)
EXTENDS ServerMedia, FiniteSetTheorems, TLAPS

(* The parts of the invariant over the media stages. *)

Phase == {"none", "legacy", "import", "chunks", "completed"}
Step ==
  {"look", "import", "file import", "poll import", "provenance", "receipt", "normalize",
   "form", "point", "transcode", "poll", "ensure", "fire chunks", "file chunks",
   "list chunks", "complete", "transcribe", "submit", "record", "collect"}
Assembling == {"fire chunks", "file chunks", "list chunks"}

\* The chunks the capture comes to: the recording itself, or its spans.
Target ==
  IF media.source # "drive" /\ media.form = "direct" THEN <<"original">> ELSE Spans

TypedWorld ==
  /\ media \in [form : {"direct", "long", "none"}, blob : {"disk", "url", "absent"},
               source : {"capture", "drive", "legacy"}, route : {"ffmpeg", "transloadit"}]
  /\ harm \in [{"deaths", "fails", "spoils", "refusals", "losses", "restores", "unfiled"} -> Nat]
  /\ kept \in [Object -> SUBSET Store] /\ lost \subseteq Object \X Store

TypedVendors ==
  /\ assembled \in Seq([for : {"original", "chunks"}, end : {"running", "completed", "failed"}])
  /\ accepted \in Seq([chunk : Object, end : {"running", "completed", "silent", "failed"}])

TypedRecords ==
  /\ verdict \in {"unasked", "media", "nothing"}
  /\ fired \in [phase : Phase, job : Nat, previous : Nat]
  /\ manifest \in {<<>>, Target}
  /\ impossible \subseteq {"normalize", "transcribe"}
  /\ bought \in Seq(Nat)
  /\ transcript \in [status : {"none", "error", "completed"}, chunks : SUBSET Object]
  /\ acquired \subseteq {"provenance", "receipt"}

TypedStage == stage \in [step : Step, job : Nat]

MediaTyped == TypedWorld /\ TypedVendors /\ TypedRecords /\ TypedStage

\* What a step of the pass, and a receipt, were reached by.
StageFits ==
  /\ stage.step \in Assembling \cup {"poll", "transcode"} => Target = Spans
  /\ stage.step \in Assembling =>
       fired.phase # "completed" /\ (media.source = "drive" => fired.phase # "none")
  /\ stage.step \in {"import", "file import"} => fired.phase = "none" /\ media.source = "drive"
  /\ stage.step = "poll import" =>
       fired.phase \in {"import", "chunks"} /\ media.source = "drive"
  /\ stage.step \in {"provenance", "receipt"} =>
       fired.phase = "completed" /\ media.source = "drive"
  /\ stage.step = "receipt" => "provenance" \in acquired
  /\ stage.step = "complete" => manifest # <<>> \/ media.form = "none"
  /\ stage.step \in {"form", "point", "transcode", "poll"} => verdict = "media"
  /\ stage.step = "point" => Target = <<"original">>

ReceiptsFit ==
  /\ verdict = "media" => media.source # "drive" /\ media.blob # "absent"
  /\ fired.phase \in CASE media.source = "capture" -> {"none", "chunks", "completed"}
                       [] media.source = "drive"   -> {"none", "import", "chunks", "completed"}
                       [] OTHER                    -> {"legacy", "chunks", "completed"}
  /\ fired.phase = "completed" /\ media.form # "none" => manifest # <<>>
  /\ "receipt" \in acquired =>
       "provenance" \in acquired /\ fired.phase = "completed" /\ media.source = "drive"
  /\ media.source = "drive" /\ fired.phase \in {"chunks", "completed"} => InBucket("original")
  /\ media.source = "drive" /\ stage.step \in Assembling \cup {"complete"} => InBucket("original")

\* It is there, or was and was lost.
Backed(o) == kept[o] # {} \/ \E s \in Store : <<o, s>> \in lost

AllBacked ==
  /\ lost # {} => manifest # <<>>
  /\ \A i \in DOMAIN manifest : Backed(manifest[i])
  /\ media.source # "drive" /\ media.blob # "absent" => Backed("original")
  /\ manifest # <<>> /\ Target = <<"original">> => media.blob # "absent" /\ media.source # "drive"

\* The local ffmpeg makes the chunks, or an assembly that completed.
ByFfmpeg == media.source # "drive" /\ media.route = "ffmpeg"
ChunksMade ==
  \E j \in DOMAIN assembled : assembled[j].for = "chunks" /\ assembled[j].end = "completed"

AssembliesFit ==
  /\ ByFfmpeg =>
       /\ \A j \in DOMAIN assembled : assembled[j].for # "chunks"
       /\ stage.step \notin Assembling \cup {"poll", "complete"}
       /\ fired.phase \in {"none", "legacy"}
  /\ stage.step = "transcode" => ByFfmpeg /\ manifest = <<>>
  /\ ~ByFfmpeg /\ manifest = Spans => ChunksMade
  /\ stage.step = "list chunks" => ChunksMade
  /\ fired.phase = "chunks" =>
       fired.job \in DOMAIN assembled /\ assembled[fired.job].for = "chunks"
  /\ stage.step = "file chunks" =>
       stage.job \in DOMAIN assembled /\ assembled[stage.job].for = "chunks"
  /\ \A j \in DOMAIN assembled :
       assembled[j].for = "original" => media.source = "drive" \/ assembled[j].end = "completed"

\* The jobs on record are of the chunks in their order.
JobsFit ==
  /\ Len(bought) <= Len(manifest)
  /\ \A i \in DOMAIN bought :
       bought[i] \in DOMAIN accepted /\ accepted[bought[i]].chunk = manifest[i]
  /\ stage.step \in {"submit", "record"} => Len(bought) < Len(manifest)
  /\ stage.step = "collect" => Len(bought) = Len(manifest)
  /\ stage.step = "record" =>
       stage.job \in DOMAIN accepted /\ accepted[stage.job].chunk = manifest[Len(bought) + 1]
  /\ stage.step \in {"submit", "record", "collect"} =>
       transcript.status # "completed" /\ "transcribe" \notin impossible /\ manifest # <<>>
  /\ transcript.status = "completed" \/ "transcribe" \in impossible => manifest # <<>>

\* The jobs on record, the one that is about to be, and those never filed.
IsBought(c) == \E i \in DOMAIN bought : manifest[i] = c
InHandFor(c) == stage.step = "record" /\ accepted[stage.job].chunk = c
JobsOf(c) == {j \in DOMAIN accepted : accepted[j].chunk = c}
Spent(c) == (IF IsBought(c) THEN 1 ELSE 0) + (IF InHandFor(c) THEN 1 ELSE 0) + harm.unfiled

\* Likewise the assemblies of chunks: an import's or an older receipt's own
\* assembly is not one.
FiredChunks ==
  IF fired.phase = "none" THEN 0
  ELSE IF media.source = "capture" THEN fired.previous + 1 ELSE fired.previous
ChunkJobs == {j \in DOMAIN assembled : assembled[j].for = "chunks"}
Filing == IF stage.step = "file chunks" THEN 1 ELSE 0

SpendFits ==
  /\ \A c \in Object : Cardinality(JobsOf(c)) <= Spent(c)
  /\ Cardinality(ChunkJobs) <= FiredChunks + Filing + harm.unfiled
  /\ FiredChunks <= Attempts
  /\ stage.step \in {"fire chunks", "file chunks"} => FiredChunks < Attempts
  /\ fired.phase \in {"none", "import", "legacy"} => fired.previous = 0

MediaInv ==
  /\ MediaTyped /\ StageFits /\ ReceiptsFit /\ AllBacked /\ AssembliesFit /\ JobsFit
  /\ SpendFits /\ TranscriptIsWhole

-----------------------------------------------------------------------------
(* Which action writes what. *)

VendorEnds ==
  \/ \E j \in DOMAIN assembled : AssemblyEnds(j)
  \/ \E j \in DOMAIN accepted : TranscriptionEnds(j)

Upsets == MediaCallFails \/ Unanswered \/ MediaProcessDies

\* Every variable, and the actions that write it.
LEMMA WhoWrites ==
  ASSUME MediaNext
  PROVE  /\ UNCHANGED media \/ BlobLands
         /\ \/ UNCHANGED kept
            \/ Transcode \/ Ensure \/ Archived \/ BlobLands \/ ChunkGoes \/ Restore
            \/ \E j \in DOMAIN assembled : AssemblyEnds(j)
         /\ UNCHANGED lost \/ ChunkGoes
         /\ UNCHANGED verdict \/ Probe
         /\ \/ UNCHANGED assembled \/ FireChunks \/ Import \/ Unanswered
            \/ \E j \in DOMAIN assembled : AssemblyEnds(j)
         /\ UNCHANGED fired \/ FileChunks \/ CompleteReceipt \/ FileImport
         /\ UNCHANGED manifest \/ ListChunks \/ PointAtOriginal \/ Transcode
         /\ UNCHANGED impossible \/ Ensure \/ Submit \/ Collect \/ Restore
         /\ \/ UNCHANGED accepted \/ Submit \/ Unanswered
            \/ \E j \in DOMAIN accepted : TranscriptionEnds(j)
         /\ UNCHANGED bought \/ Record
         /\ UNCHANGED transcript \/ Transcribe \/ Collect
         /\ UNCHANGED acquired \/ FileProvenance \/ FileReceipt
         /\ UNCHANGED stage \/ PassOn \/ Upsets
         /\ \/ UNCHANGED harm
            \/ ProbeUnread \/ VendorEnds \/ ChunkGoes \/ Restore \/ Upsets
<1>1. CASE TransloaditStep
  BY <1>1 DEF TransloaditStep, FireChunks, FileChunks, ListChunks, CompleteReceipt, Create,
              artifacts, world, PassOn
<1>2. CASE DriveStep
  BY <1>2 DEF DriveStep, LookAtDrive, Import, FileImport, PollImport, FileProvenance, FileReceipt,
              Create, artifacts, world, PassOn
<1>3. CASE NormalizeStep
  BY <1>3 DEF NormalizeStep, Probe, ProbeUnread, Recall, Form, PointAtOriginal, Poll, Transcode,
              Ensure, artifacts, world, PassOn
<1>4. CASE TranscribeStep
  BY <1>4 DEF TranscribeStep, Transcribe, Submit, Record, Collect, artifacts, world, PassOn
<1>5. CASE VendorEnds
  BY <1>5 DEF VendorEnds, AssemblyEnds, TranscriptionEnds, artifacts
<1>6. CASE Archived \/ BlobLands \/ ChunkGoes \/ Restore
  BY <1>6 DEF Archived, BlobLands, ChunkGoes, Restore, world
<1>7. CASE Upsets
  BY <1>7 DEF Upsets, MediaCallFails, Unanswered, MediaProcessDies, artifacts
<1> QED
  BY <1>1, <1>2, <1>3, <1>4, <1>5, <1>6, <1>7 DEF MediaNext, PassOn, VendorEnds, Upsets

-----------------------------------------------------------------------------
(* Types. *)

\* A recording's form, source and route never change, so neither does what it
\* comes to.
LEMMA MediaStays ==
  ASSUME TypedWorld, MediaNext
  PROVE  /\ media'.form = media.form /\ media'.source = media.source /\ media'.route = media.route
         /\ Target' = Target /\ ByFfmpeg' = ByFfmpeg
         /\ media'.blob = media.blob \/ (media.blob = "absent" /\ media'.blob = "disk")
         /\ media' \in [form : {"direct", "long", "none"}, blob : {"disk", "url", "absent"},
                        source : {"capture", "drive", "legacy"}, route : {"ffmpeg", "transloadit"}]
<1>1. CASE UNCHANGED media
  BY <1>1 DEF TypedWorld, Target, ByFfmpeg
<1>2. CASE BlobLands
  BY <1>2 DEF BlobLands, TypedWorld, Target, ByFfmpeg
<1> QED
  BY <1>1, <1>2, WhoWrites

\* What is granted stays a number, and nothing unfiled is forgotten.
Bounds == {"deaths", "fails", "spoils", "refusals", "losses", "restores", "unfiled"}

Granted(b) == [harm EXCEPT ![b] = @ - 1]
GrantedFor(b, n) == [harm EXCEPT ![b] = @ - 1, !.unfiled = @ + n]

\* A bound that is drawn on stays a number.
LEMMA OneGrant ==
  ASSUME harm \in [Bounds -> Nat], NEW b \in Bounds \ {"unfiled"}, harm[b] > 0, NEW n \in {0, 1}
  PROVE  /\ Granted(b) \in [Bounds -> Nat] /\ Granted(b).unfiled = harm.unfiled
         /\ GrantedFor(b, n) \in [Bounds -> Nat] /\ GrantedFor(b, n).unfiled = harm.unfiled + n
<1>1. "unfiled" \in Bounds /\ b \in Bounds /\ b # "unfiled"
  BY DEF Bounds
<1>2. harm[b] - 1 \in Nat
  BY <1>1
<1>3. Granted(b) \in [Bounds -> Nat]
  BY <1>1, <1>2 DEF Granted
<1>4. Granted(b)["unfiled"] = harm["unfiled"]
  BY <1>1 DEF Granted
<1>5. GrantedFor(b, n) = [Granted(b) EXCEPT !.unfiled = @ + n]
  BY DEF Granted, GrantedFor
<1>6. Granted(b)["unfiled"] \in Nat /\ Granted(b)["unfiled"] + n \in Nat
  BY <1>1, <1>3
<1>7. GrantedFor(b, n) \in [Bounds -> Nat]
  BY <1>1, <1>3, <1>5, <1>6
<1>8. GrantedFor(b, n)["unfiled"] = Granted(b)["unfiled"] + n
  BY <1>1, <1>3, <1>5
<1> QED
  BY <1>3, <1>4, <1>7, <1>8

\* What a vendor was asked for and no receipt holds is counted and never forgotten.
LEMMA UnfiledGrows ==
  ASSUME TypedWorld, MediaNext
  PROVE  /\ harm' \in [Bounds -> Nat]
         /\ harm'.unfiled >= harm.unfiled
         /\ MediaCallFails \/ MediaProcessDies => harm'.unfiled = harm.unfiled + InHand
         /\ Unanswered => harm'.unfiled = harm.unfiled + 1
<1>1. harm \in [Bounds -> Nat] /\ InHand \in {0, 1} /\ harm.unfiled \in Nat
  BY DEF TypedWorld, InHand, Bounds
<1>2. ASSUME UNCHANGED harm \/ ProbeUnread \/ VendorEnds \/ ChunkGoes \/ Restore
      PROVE  harm' \in [Bounds -> Nat] /\ harm'.unfiled = harm.unfiled
  <2>1. \/ UNCHANGED harm
        \/ \E b \in Bounds \ {"unfiled"} : harm[b] > 0 /\ harm' = Granted(b)
    BY <1>2 DEF ProbeUnread, VendorEnds, AssemblyEnds, TranscriptionEnds, ChunkGoes, Restore,
                Bounds, Granted
  <2> QED
    BY <1>1, <2>1, OneGrant
<1>3. ASSUME MediaCallFails \/ MediaProcessDies
      PROVE  harm' \in [Bounds -> Nat] /\ harm'.unfiled = harm.unfiled + InHand
  <2>1. CASE MediaCallFails
    <3>1. harm["fails"] > 0 /\ harm' = GrantedFor("fails", InHand)
      BY <2>1 DEF MediaCallFails, GrantedFor
    <3> QED
      BY <1>1, <3>1, OneGrant DEF Bounds
  <2>2. CASE MediaProcessDies
    <3>1. harm["deaths"] > 0 /\ harm' = GrantedFor("deaths", InHand)
      BY <2>2 DEF MediaProcessDies, GrantedFor
    <3> QED
      BY <1>1, <3>1, OneGrant DEF Bounds
  <2> QED
    BY <1>3, <2>1, <2>2
<1>4. ASSUME Unanswered
      PROVE  harm' \in [Bounds -> Nat] /\ harm'.unfiled = harm.unfiled + 1
  <2>1. harm["fails"] > 0 /\ harm' = GrantedFor("fails", 1)
    BY <1>4 DEF Unanswered, GrantedFor
  <2> QED
    BY <1>1, <2>1, OneGrant DEF Bounds
<1>5. UNCHANGED harm \/ ProbeUnread \/ VendorEnds \/ ChunkGoes \/ Restore \/ Upsets
  BY WhoWrites
<1> QED
  BY <1>1, <1>2, <1>3, <1>4, <1>5 DEF Upsets

\* The manifest names one object, or the two spans, none twice.
LEMMA ManifestObjects ==
  ASSUME TypedRecords
  PROVE  /\ Len(manifest) \in 0..2 /\ DOMAIN manifest = 1..Len(manifest)
         /\ Len(manifest) \in Nat
         /\ \A i \in DOMAIN manifest : manifest[i] \in Object
         /\ \A i, k \in DOMAIN manifest : manifest[i] = manifest[k] => i = k
         /\ Len(Target) \in 1..2
         /\ manifest = Spans =>
              DOMAIN manifest = {1, 2} /\ manifest[1] = "chunk 0" /\ manifest[2] = "chunk 1"
         /\ manifest = <<"original">> => DOMAIN manifest = {1} /\ manifest[1] = "original"
<1>1. manifest = <<>> \/ manifest = <<"original">> \/ manifest = Spans
  BY DEF TypedRecords, Target
<1>2. Len(Target) \in 1..2
  BY DEF Target, Spans
<1>3. CASE manifest = <<>>
  BY <1>2, <1>3 DEF Spans
<1>4. CASE manifest = <<"original">>
  <2>1. Spans # <<"original">> /\ Len(manifest) = 1 /\ DOMAIN manifest = {1} /\ manifest[1] = "original"
    BY <1>4 DEF Spans
  <2> QED
    BY <1>2, <2>1, <1>4 DEF Object
<1>5. CASE manifest = Spans
  <2>1. Len(Spans) = 2 /\ DOMAIN Spans = {1, 2} /\ Spans[1] = "chunk 0" /\ Spans[2] = "chunk 1"
    BY DEF Spans
  <2>2. Spans # <<"original">>
    BY <2>1
  <2> HIDE DEF Spans
  <2> QED
    <3>1. Len(manifest) = 2 /\ DOMAIN manifest = {1, 2} /\ manifest # <<"original">>
          /\ manifest[1] = "chunk 0" /\ manifest[2] = "chunk 1"
      BY <1>5, <2>1, <2>2
    <3>2. {1, 2} = 1..2
      OBVIOUS
    <3>3. \A i, k \in DOMAIN manifest : manifest[i] = manifest[k] => i = k
      BY <3>1
    <3>4. \A i \in DOMAIN manifest : manifest[i] \in Object
      BY <3>1 DEF Object
    <3>5. Len(manifest) \in 0..2 /\ DOMAIN manifest = 1..Len(manifest)
      <4>1. 2 \in 0..2
        OBVIOUS
      <4>2. Len(manifest) = 2 /\ DOMAIN manifest = {1, 2}
        BY <3>1
      <4> QED
        BY <3>2, <4>1, <4>2, Zenon
    <3>6. Len(manifest) \in Nat
      <4>1. Len(manifest) = 2
        BY <3>1, Zenon
      <4> HIDE DEF Spans
      <4> QED
        BY <4>1
    <3> QED
      BY <1>2, <3>1, <3>3, <3>4, <3>5, <3>6
<1>6. Len(manifest) \in 0..2 => Len(manifest) \in Nat
  OBVIOUS
<1> QED
  BY <1>1, <1>3, <1>4, <1>5, <1>6

\* Storing an object leaves the others alone.
LEMMA PutStays ==
  ASSUME TypedWorld, NEW o \in Object, NEW s \in Store, Put(o, s)
  PROVE  /\ kept' \in [Object -> SUBSET Store]
         /\ kept'[o] = kept[o] \cup {s} /\ \A x \in Object : x # o => kept'[x] = kept[x]
BY DEF TypedWorld, Put

\* What is uploaded was here.
LEMMA EnsurePuts ==
  ASSUME TypedRecords, Ensure
  PROVE  \/ UNCHANGED kept
         \/ \E i \in DOMAIN manifest :
              Put(manifest[i], "bucket") /\ "local" \in kept[manifest[i]]
<1> DEFINE Away == {i \in DOMAIN manifest : ~InBucket(manifest[i])}
           first == CHOOSE i \in Away : \A j \in Away : i <= j
<1>1. DOMAIN manifest \subseteq {1, 2}
  <2>1. Len(manifest) \in 0..2 /\ DOMAIN manifest = 1..Len(manifest)
    BY ManifestObjects
  <2> QED
    BY <2>1
<1>2. Away = {} \/ \E i \in Away : \A j \in Away : i <= j
  BY <1>1
<1>3. Away # {} => first \in DOMAIN manifest
  BY <1>2
<1>4. \/ UNCHANGED kept
      \/ Away # {} /\ Put(manifest[first], "bucket") /\ "local" \in kept[manifest[first]]
  BY DEF Ensure
<1> QED
  BY <1>3, <1>4

\* Who writes the stores, in one form.
LEMMA StoresChange ==
  ASSUME TypedWorld, TypedRecords, MediaNext
  PROVE  /\ kept' \in [Object -> SUBSET Store] /\ lost' \subseteq Object \X Store
         /\ \/ \A o \in Object : kept[o] \subseteq kept'[o]
            \/ ChunkGoes
         /\ lost \subseteq lost'
<1>1. CASE ChunkGoes
  <2>1. PICK i \in DOMAIN manifest : \E s \in kept[manifest[i]] :
          /\ kept' = [kept EXCEPT ![manifest[i]] = @ \ {s}]
          /\ lost' = lost \cup {<<manifest[i], s>>}
    BY <1>1 DEF ChunkGoes
  <2>3. PICK s \in kept[manifest[i]] :
          /\ kept' = [kept EXCEPT ![manifest[i]] = @ \ {s}]
          /\ lost' = lost \cup {<<manifest[i], s>>}
    BY <2>1
  <2>2. manifest[i] \in Object /\ s \in Store
    BY ManifestObjects DEF TypedWorld
  <2> QED
    BY <1>1, <2>2, <2>3 DEF TypedWorld
<1>2. ASSUME ~ChunkGoes
      PROVE  kept' \in [Object -> SUBSET Store] /\ \A o \in Object : kept[o] \subseteq kept'[o]
  <2>1. ASSUME NEW o \in Object, NEW s \in Store, Put(o, s)
        PROVE  kept' \in [Object -> SUBSET Store] /\ \A x \in Object : kept[x] \subseteq kept'[x]
    BY <2>1, PutStays
  <2>2. CASE Transcode
    <3>1. UNCHANGED kept \/ \E c \in Span : Put(c, "local")
      BY <2>2 DEF Transcode
    <3>2. Span \subseteq Object /\ "local" \in Store
      <4>1. DOMAIN Spans = {1, 2} /\ Spans[1] = "chunk 0" /\ Spans[2] = "chunk 1"
        BY DEF Spans
      <4> QED
        BY <4>1 DEF Span, Object, Store
    <3> QED
      BY <2>1, <3>1, <3>2 DEF TypedWorld
  <2>3. CASE Ensure
    <3>1. UNCHANGED kept \/ \E i \in DOMAIN manifest : Put(manifest[i], "bucket")
      BY <2>3, EnsurePuts
    <3> QED
      BY <2>1, <3>1, ManifestObjects DEF TypedWorld, Store
  <2>4. CASE Archived \/ BlobLands
    BY <2>1, <2>4 DEF Archived, BlobLands, Object, Store
  <2>5. CASE Restore
    BY <2>5 DEF Restore, TypedWorld, Store
  <2>6. ASSUME NEW j \in DOMAIN assembled, AssemblyEnds(j)
        PROVE  kept' \in [Object -> SUBSET Store] /\ \A x \in Object : kept[x] \subseteq kept'[x]
    <3>1. \/ UNCHANGED kept
          \/ Put("chunk 0", "bucket") \/ Put("stray", "bucket")
          \/ kept' = [o \in Object |->
                IF o \in IF assembled[j].for = "chunks" THEN Span ELSE {"original"}
                THEN kept[o] \cup {"bucket"} ELSE kept[o]]
      BY <2>6 DEF AssemblyEnds
    <3>2. "chunk 0" \in Object /\ "stray" \in Object /\ "bucket" \in Store
      BY DEF Object, Store
    <3>3. CASE kept' = [o \in Object |->
                IF o \in IF assembled[j].for = "chunks" THEN Span ELSE {"original"}
                THEN kept[o] \cup {"bucket"} ELSE kept[o]]
      <4>1. \A o \in Object : kept'[o] = kept[o] \cup {"bucket"} \/ kept'[o] = kept[o]
        BY <3>3
      <4> QED
        BY <3>2, <3>3, <4>1 DEF TypedWorld
    <3>4. CASE UNCHANGED kept
      BY <3>4 DEF TypedWorld
    <3> QED
      BY <2>1, <3>1, <3>2, <3>3, <3>4
  <2> QED
    BY <1>2, <2>2, <2>3, <2>4, <2>5, <2>6, WhoWrites DEF TypedWorld
<1>3. ~ChunkGoes => lost' = lost
  BY WhoWrites
<1> QED
  BY <1>1, <1>2, <1>3 DEF TypedWorld

\* The recording, the stores and the bounds keep their types.
LEMMA TypedWorldStep ==
  ASSUME TypedWorld, TypedRecords, MediaNext
  PROVE  TypedWorld'
BY StoresChange, MediaStays, UnfiledGrows DEF TypedWorld, Bounds

Assembly == [for : {"original", "chunks"}, end : {"running", "completed", "failed"}]
Transcription == [chunk : Object, end : {"running", "completed", "silent", "failed"}]

\* One more entry, or one that comes to its end.
LEMMA OneMore ==
  ASSUME NEW S, NEW s \in Seq(S), NEW x \in S
  PROVE  /\ Append(s, x) \in Seq(S) /\ Len(Append(s, x)) = Len(s) + 1
         /\ DOMAIN Append(s, x) = DOMAIN s \cup {Len(s) + 1} /\ Len(s) + 1 \notin DOMAIN s
         /\ Append(s, x)[Len(s) + 1] = x
         /\ \A j \in DOMAIN s : Append(s, x)[j] = s[j]
<1>1. DOMAIN s = 1..Len(s) /\ Len(s) \in Nat
  OBVIOUS
<1>2. DOMAIN Append(s, x) = 1..(Len(s) + 1)
  OBVIOUS
<1> QED
  BY <1>1, <1>2

\* One entry replaced leaves the others alone.
LEMMA OneEnds ==
  ASSUME NEW S, NEW s \in Seq(S), NEW k \in DOMAIN s, NEW x \in S
  PROVE  /\ [s EXCEPT ![k] = x] \in Seq(S)
         /\ Len([s EXCEPT ![k] = x]) = Len(s) /\ DOMAIN [s EXCEPT ![k] = x] = DOMAIN s
         /\ [s EXCEPT ![k] = x][k] = x
         /\ \A j \in DOMAIN s : j # k => [s EXCEPT ![k] = x][j] = s[j]
<1>1. DOMAIN s = 1..Len(s) /\ Len(s) \in Nat /\ s \in [1..Len(s) -> S]
  OBVIOUS
<1>2. [s EXCEPT ![k] = x] \in [1..Len(s) -> S]
  BY <1>1
<1>3. [s EXCEPT ![k] = x] \in Seq(S)
  BY <1>1, <1>2
<1> QED
  BY <1>1, <1>2, <1>3

\* What the vendors were asked for stays, and what came to its end is over.
LEMMA AssembledChanges ==
  ASSUME TypedVendors, MediaNext
  PROVE  /\ assembled' \in Seq(Assembly) /\ DOMAIN assembled \subseteq DOMAIN assembled'
         /\ \A j \in DOMAIN assembled :
              /\ assembled'[j].for = assembled[j].for
              /\ assembled[j].end # "running" => assembled'[j].end = assembled[j].end
         /\ \A j \in DOMAIN assembled' \ DOMAIN assembled :
              /\ j = Len(assembled) + 1 /\ assembled'[j].end = "running"
              /\ assembled'[j].for = "original" => Import \/ (Unanswered /\ At("import"))
<1>1. assembled \in Seq(Assembly)
  BY DEF TypedVendors, Assembly
<1>2. ASSUME NEW what \in {"original", "chunks"},
             assembled' = Append(assembled, [for |-> what, end |-> "running"]),
             what = "original" => Import \/ (Unanswered /\ At("import"))
      PROVE  /\ assembled' \in Seq(Assembly) /\ DOMAIN assembled \subseteq DOMAIN assembled'
             /\ \A j \in DOMAIN assembled : assembled'[j] = assembled[j]
             /\ \A j \in DOMAIN assembled' \ DOMAIN assembled :
                  /\ j = Len(assembled) + 1 /\ assembled'[j].end = "running"
                  /\ assembled'[j].for = "original" => Import \/ (Unanswered /\ At("import"))
  <2>1. [for |-> what, end |-> "running"] \in Assembly
    BY DEF Assembly
  <2> QED
    BY <1>1, <1>2, <2>1, OneMore
<1>3. ASSUME NEW j \in DOMAIN assembled, AssemblyEnds(j)
      PROVE  /\ assembled' \in Seq(Assembly) /\ DOMAIN assembled' = DOMAIN assembled
             /\ \A k \in DOMAIN assembled :
                  /\ assembled'[k].for = assembled[k].for
                  /\ assembled[k].end # "running" => assembled'[k].end = assembled[k].end
  <2>1. assembled[j].end = "running"
        /\ \E end \in {"completed", "failed"} : assembled' = [assembled EXCEPT ![j].end = end]
    BY <1>3 DEF AssemblyEnds
  <2>2. PICK end \in {"completed", "failed"} : assembled' = [assembled EXCEPT ![j].end = end]
    BY <2>1
  <2> DEFINE ended == [assembled[j] EXCEPT !.end = end]
  <2>3. assembled[j] \in Assembly
    BY <1>1
  <2>4. ended \in Assembly /\ ended.for = assembled[j].for
    BY <2>3 DEF Assembly
  <2>5. assembled' = [assembled EXCEPT ![j] = ended]
    BY <2>2
  <2> HIDE DEF ended
  <2> QED
    BY <1>1, <2>1, <2>4, <2>5, OneEnds
<1>4. CASE FireChunks \/ Import
  <2>1. \E what \in {"original", "chunks"} :
          /\ assembled' = Append(assembled, [for |-> what, end |-> "running"])
          /\ what = "original" => Import
    BY <1>4 DEF FireChunks, Import, Create
  <2> QED
    BY <1>2, <2>1
<1>5. CASE Unanswered
  <2>1. \/ UNCHANGED assembled
        \/ \E what \in {"original", "chunks"} :
             /\ assembled' = Append(assembled, [for |-> what, end |-> "running"])
             /\ what = "original" => At("import")
    BY <1>5 DEF Unanswered
  <2> QED
    BY <1>1, <1>2, <1>5, <2>1
<1> QED
  BY <1>1, <1>3, <1>4, <1>5, WhoWrites

\* The list of transcriptions is only appended to; an end stands, and a new one
\* is of the chunk the pass wants.
LEMMA AcceptedChanges ==
  ASSUME TypedVendors, TypedRecords, JobsFit, MediaNext
  PROVE  /\ accepted' \in Seq(Transcription) /\ DOMAIN accepted \subseteq DOMAIN accepted'
         /\ \A j \in DOMAIN accepted :
              /\ accepted'[j].chunk = accepted[j].chunk
              /\ accepted[j].end # "running" => accepted'[j].end = accepted[j].end
         /\ \A j \in DOMAIN accepted' \ DOMAIN accepted :
              /\ j = Len(accepted) + 1
              /\ accepted'[j] = [chunk |-> Wanted, end |-> "running"]
              /\ At("submit") /\ (Submit \/ Unanswered)
<1>1. accepted \in Seq(Transcription)
  BY DEF TypedVendors, Transcription
<1>2. CASE Submit \/ Unanswered
  <2>1. \/ UNCHANGED accepted
        \/ /\ At("submit")
           /\ accepted' = Append(accepted, [chunk |-> Wanted, end |-> "running"])
    BY <1>2 DEF Submit, Unanswered
  <2>2. CASE UNCHANGED accepted
    BY <1>1, <2>2
  <2>3. CASE /\ At("submit")
             /\ accepted' = Append(accepted, [chunk |-> Wanted, end |-> "running"])
    <3>1. Len(bought) < Len(manifest) /\ Len(bought) \in Nat
      BY <2>3 DEF JobsFit, At, TypedRecords
    <3>2. Wanted \in Object
      <4>0. DOMAIN manifest = 1..Len(manifest) /\ Len(manifest) \in Nat
        BY ManifestObjects, Zenon
      <4>1. Len(bought) + 1 \in DOMAIN manifest
        BY <3>1, <4>0
      <4> QED
        BY <4>1, ManifestObjects DEF Wanted
    <3>3. [chunk |-> Wanted, end |-> "running"] \in Transcription
      BY <3>2 DEF Transcription
    <3> QED
      BY <1>1, <1>2, <2>3, <3>3, OneMore
  <2> QED
    BY <2>1, <2>2, <2>3
<1>3. ASSUME NEW j \in DOMAIN accepted, TranscriptionEnds(j)
      PROVE  /\ accepted' \in Seq(Transcription) /\ DOMAIN accepted' = DOMAIN accepted
             /\ \A k \in DOMAIN accepted :
                  /\ accepted'[k].chunk = accepted[k].chunk
                  /\ accepted[k].end # "running" => accepted'[k].end = accepted[k].end
  <2>1. accepted[j].end = "running"
        /\ \E end \in {"completed", "silent", "failed"} : accepted' = [accepted EXCEPT ![j].end = end]
    BY <1>3 DEF TranscriptionEnds
  <2>2. PICK end \in {"completed", "silent", "failed"} : accepted' = [accepted EXCEPT ![j].end = end]
    BY <2>1
  <2> DEFINE ended == [accepted[j] EXCEPT !.end = end]
  <2>3. accepted[j] \in Transcription
    BY <1>1
  <2>4. ended \in Transcription /\ ended.chunk = accepted[j].chunk
    BY <2>3 DEF Transcription
  <2>5. accepted' = [accepted EXCEPT ![j] = ended]
    BY <2>2
  <2> HIDE DEF ended
  <2> QED
    BY <1>1, <2>1, <2>4, <2>5, OneEnds
<1> QED
  BY <1>1, <1>2, <1>3, WhoWrites

\* What is on record keeps its type.
LEMMA TypedRecordsStep ==
  ASSUME MediaTyped, StageFits, JobsFit, MediaNext
  PROVE  TypedRecords'
<1>1. verdict' \in {"unasked", "media", "nothing"}
  BY WhoWrites DEF Probe, MediaTyped, TypedRecords
<1>2. fired' \in [phase : Phase, job : Nat, previous : Nat]
  <2>1. CASE FileChunks
    <3>1. fired.previous + 1 \in Nat /\ stage.job \in Nat
      BY DEF MediaTyped, TypedRecords, TypedStage
    <3>2. (IF fired.phase = "none" THEN 0 ELSE fired.previous + 1) \in Nat
      BY <3>1
    <3>3. "chunks" \in Phase
      BY DEF Phase
    <3> QED
      BY <2>1, <3>1, <3>2, <3>3 DEF FileChunks
  <2>2. CASE FileImport
    BY <2>2 DEF FileImport, MediaTyped, TypedRecords, TypedStage, Phase
  <2>3. CASE CompleteReceipt
    BY <2>3 DEF CompleteReceipt, MediaTyped, TypedRecords, Phase
  <2> QED
    BY <2>1, <2>2, <2>3, WhoWrites DEF MediaTyped, TypedRecords
<1>3. manifest' \in {<<>>, Target'}
  <2>1. Target' = Target
    BY MediaStays DEF MediaTyped
  <2>2. CASE ListChunks
    <3>1. Target = Spans
      BY <2>2 DEF ListChunks, At, StageFits, Assembling
    <3> QED
      BY <2>1, <2>2, <3>1 DEF ListChunks, MediaTyped, TypedRecords
  <2>3. CASE PointAtOriginal
    BY <2>1, <2>3 DEF PointAtOriginal, At, StageFits
  <2>4. CASE Transcode
    <3>1. Target = Spans
      BY <2>4 DEF Transcode, At, StageFits
    <3> QED
      BY <2>1, <2>4, <3>1 DEF Transcode, MediaTyped, TypedRecords
  <2> QED
    BY <2>1, <2>2, <2>3, <2>4, WhoWrites DEF MediaTyped, TypedRecords
<1>4. impossible' \subseteq {"normalize", "transcribe"}
  <2>1. CASE Ensure
    BY <2>1 DEF Ensure, MediaTyped, TypedRecords
  <2>2. CASE Submit \/ Collect \/ Restore
    BY <2>2 DEF Submit, Collect, Restore, MediaTyped, TypedRecords
  <2> QED
    BY <2>1, <2>2, WhoWrites DEF MediaTyped, TypedRecords
<1>5. bought' \in Seq(Nat)
  <2>1. CASE Record
    BY <2>1 DEF Record, MediaTyped, TypedRecords, TypedStage
  <2> QED
    BY <2>1, WhoWrites DEF MediaTyped, TypedRecords
<1>6. transcript' \in [status : {"none", "error", "completed"}, chunks : SUBSET Object]
  <2>1. CASE Transcribe
    BY <2>1 DEF Transcribe, MediaTyped, TypedRecords, NoTranscript
  <2>2. CASE Collect
    <3>1. Ended("completed") \subseteq DOMAIN manifest
      <4>1. Len(bought) <= Len(manifest) /\ Len(bought) \in Nat /\ DOMAIN bought = 1..Len(bought)
        BY DEF JobsFit, MediaTyped, TypedRecords
      <4>2. DOMAIN manifest = 1..Len(manifest) /\ Len(manifest) \in Nat
        <5>1. TypedRecords
          BY DEF MediaTyped
        <5> HIDE DEF TypedRecords
        <5> QED
          BY <5>1, ManifestObjects, Zenon
      <4>3. DOMAIN bought \subseteq DOMAIN manifest
        BY <4>1, <4>2
      <4> QED
        BY <4>3 DEF Ended
    <3>2. {manifest[i] : i \in Ended("completed")} \subseteq Object
      BY <3>1, ManifestObjects DEF MediaTyped
    <3>3. \/ UNCHANGED transcript
          \/ transcript' = [status |-> "completed",
                            chunks |-> {manifest[i] : i \in Ended("completed")}]
      BY <2>2 DEF Collect
    <3> QED
      BY <3>2, <3>3 DEF MediaTyped, TypedRecords
  <2> QED
    BY <2>1, <2>2, WhoWrites DEF MediaTyped, TypedRecords
<1>7. acquired' \subseteq {"provenance", "receipt"}
  BY WhoWrites DEF FileProvenance, FileReceipt, MediaTyped, TypedRecords
<1> QED
  BY <1>1, <1>2, <1>3, <1>4, <1>5, <1>6, <1>7 DEF TypedRecords

\* The vendors' lists keep their types.
LEMMA TypedVendorsStep ==
  ASSUME MediaTyped, JobsFit, MediaNext
  PROVE  TypedVendors'
BY AssembledChanges, AcceptedChanges DEF MediaTyped, TypedVendors, Assembly, Transcription

\* The pass goes on to a step there is, or stays where it is.
LEMMA TypedStageStep ==
  ASSUME MediaTyped, MediaNext
  PROVE  TypedStage'
<1>1. ASSUME NEW step \in Step, NEW j \in Nat, Hold(step, j) PROVE TypedStage'
  BY <1>1 DEF Hold, TypedStage
<1>2. ASSUME NEW step \in Step, Onto(step) PROVE TypedStage'
  BY <1>2 DEF Onto, TypedStage
<1>3. UNCHANGED stage => TypedStage'
  BY DEF MediaTyped, TypedStage
<1>4. Len(assembled) + 1 \in Nat /\ Len(accepted) + 1 \in Nat
  BY DEF MediaTyped, TypedVendors
<1>5. Onward \in Step
  BY DEF Onward, Step
<1>6. CASE TransloaditStep
  <2>1. CASE FireChunks
    <3>1. Hold("file chunks", Len(assembled) + 1)
      BY <2>1 DEF FireChunks, Create
    <3> QED
      BY <1>1, <1>4, <3>1 DEF Step
  <2>2. CASE FileChunks \/ ListChunks \/ CompleteReceipt
    <3>1. Onto(Onward) \/ Onto("complete") \/ Onto("fire chunks") \/ Onto("provenance")
          \/ Onto("transcribe")
      BY <2>2 DEF FileChunks, ListChunks, CompleteReceipt
    <3> QED
      BY <1>2, <1>5, <3>1 DEF Step
  <2> QED
    BY <1>6, <2>1, <2>2 DEF TransloaditStep
<1>7. CASE DriveStep
  <2>1. CASE Import
    <3>1. Hold("file import", Len(assembled) + 1)
      BY <2>1 DEF Import, Create
    <3> QED
      BY <1>1, <1>4, <3>1 DEF Step
  <2>2. CASE ~Import
    <3>1. Onto("normalize") \/ Onto("import") \/ Onto("provenance") \/ Onto("poll import")
          \/ Onto("list chunks") \/ Onto("complete") \/ Onto("fire chunks") \/ Onto("receipt")
      BY <1>7, <2>2 DEF DriveStep, LookAtDrive, FileImport, PollImport, FileProvenance, FileReceipt
    <3> QED
      BY <1>2, <3>1 DEF Step
  <2> QED
    BY <2>1, <2>2
<1>8. CASE NormalizeStep
  <2>1. UNCHANGED stage \/ Onto("transcribe") \/ Onto("form") \/ Onto("ensure") \/ Onto("point")
        \/ Onto("transcode") \/ Onto("poll") \/ Onto("fire chunks") \/ Onto("list chunks")
    BY <1>8 DEF NormalizeStep, Probe, ProbeUnread, Recall, Form, PointAtOriginal, Poll, Transcode,
                Ensure
  <2> QED
    BY <1>2, <1>3, <2>1 DEF Step
<1>9. CASE TranscribeStep
  <2>1. Onto("submit") \/ Onto("collect") \/ Onto("look") \/ Hold("record", Len(accepted) + 1)
    BY <1>9 DEF TranscribeStep, Transcribe, Submit, Record, Collect
  <2> QED
    BY <1>1, <1>2, <1>4, <2>1 DEF Step
<1>10. CASE Upsets
  <2>1. UNCHANGED stage \/ Onto(Onwards) \/ Onto("look")
    BY <1>10 DEF Upsets, MediaCallFails, Unanswered, MediaProcessDies
  <2>2. Onwards \in Step
    BY <1>5 DEF Onwards, Step
  <2> QED
    BY <1>2, <1>3, <2>1, <2>2 DEF Step
<1> QED
  BY <1>3, <1>6, <1>7, <1>8, <1>9, <1>10, WhoWrites DEF PassOn

-----------------------------------------------------------------------------
(* What lasts. *)

\* A manifest, once there, is never changed, and it is written by three steps only.
LEMMA ManifestLasts ==
  ASSUME MediaInv, MediaNext
  PROVE  /\ manifest # <<>> => manifest' = manifest
         /\ manifest' # <<>> => manifest' = Target
         /\ manifest' # manifest =>
              \/ ListChunks /\ ListingIsSound /\ manifest' = Spans
              \/ PointAtOriginal /\ manifest' = <<"original">>
              \/ /\ Transcode /\ Onto("ensure") /\ manifest' = Spans
                 /\ \A i \in DOMAIN Spans : "local" \in kept[Spans[i]]
<1>1. manifest \in {<<>>, Target}
  BY DEF MediaInv, MediaTyped, TypedRecords
<1>2. CASE ListChunks
  <2>1. Target = Spans
    BY <1>2 DEF MediaInv, ListChunks, At, StageFits, Assembling
  <2>2. manifest' = manifest \/ (ListingIsSound /\ manifest' = Spans)
    BY <1>2 DEF ListChunks
  <2> QED
    BY <1>1, <1>2, <2>1, <2>2
<1>3. CASE PointAtOriginal
  <2>1. Target = <<"original">> /\ manifest' = <<"original">>
    BY <1>3 DEF MediaInv, PointAtOriginal, At, StageFits
  <2> QED
    BY <1>1, <1>3, <2>1
<1>4. CASE Transcode
  <2>1. Target = Spans
    BY <1>4 DEF MediaInv, Transcode, At, StageFits
  <2>2. \/ manifest' = manifest
        \/ /\ manifest' = Spans /\ Onto("ensure")
           /\ \A i \in DOMAIN Spans : "local" \in kept[Spans[i]]
    BY <1>4 DEF Transcode
  <2> QED
    BY <1>1, <1>4, <2>1, <2>2
<1> QED
  BY <1>1, <1>2, <1>3, <1>4, WhoWrites

\* A completed receipt and a verdict stand.
LEMMA ReceiptsLast ==
  ASSUME MediaInv, MediaNext
  PROVE  /\ fired.phase = "completed" => fired' = fired
         /\ verdict # "unasked" => verdict' = verdict
         /\ acquired \subseteq acquired'
<1>1. fired.phase = "completed" => fired' = fired
  <2>1. ASSUME FileChunks \/ FileImport PROVE fired.phase # "completed"
    BY <2>1 DEF FileChunks, FileImport, At, MediaInv, StageFits, Assembling
  <2>2. ASSUME CompleteReceipt, fired.phase = "completed" PROVE fired' = fired
    BY <2>2 DEF CompleteReceipt, MediaInv, MediaTyped, TypedRecords
  <2> QED
    BY <2>1, <2>2, WhoWrites
<1>2. verdict # "unasked" => verdict' = verdict
  BY WhoWrites DEF Probe
<1>3. acquired \subseteq acquired'
  BY WhoWrites DEF FileProvenance, FileReceipt
<1> QED
  BY <1>1, <1>2, <1>3

\* Where nothing is asked of a step of the pass.
Idle == {"look", "normalize", "transcribe", "submit", "record", "collect", "ensure"}

\* A pass whose call failed goes on with nothing in hand.
LEMMA OnwardsIdle == Onward \in Idle /\ Onwards \in Idle
BY DEF Onward, Onwards, Idle

-----------------------------------------------------------------------------
(* What a step of the pass was reached by. *)

\* A step of the pass fits the records it was reached by.
LEMMA StageFitsStep ==
  ASSUME MediaInv, MediaNext
  PROVE  StageFits'
<1> DEFINE Holds == StageFits'
<1>0. ASSUME NEW step, Onto(step) PROVE stage'.step = step
  BY <1>0 DEF Onto
<1>1. ASSUME stage'.step \in Idle PROVE Holds
  BY <1>1 DEF Idle, StageFits, Assembling
<1>2. ASSUME stage' = stage, fired' = fired PROVE Holds
  BY <1>2, ManifestLasts, ReceiptsLast, MediaStays
     DEF MediaInv, MediaTyped, StageFits, Assembling
<1>3. Target' = Target /\ media'.source = media.source /\ media'.form = media.form
  BY MediaStays DEF MediaInv, MediaTyped
<1>4. media.source = "drive" => Target = Spans
  BY DEF Target
<1>5. CASE TransloaditStep
  <2>1. CASE FireChunks
    <3>1. stage'.step = "file chunks" /\ fired' = fired /\ At("fire chunks")
      BY <2>1 DEF FireChunks, Create, Hold, artifacts
    <3> QED
      BY <1>3, <3>1 DEF MediaInv, StageFits, Assembling, At
  <2>2. CASE FileChunks
    BY <1>1, <2>2, OnwardsIdle DEF FileChunks, Onto
  <2>3. CASE ListChunks
    <3>0. \/ Onto(Onward)
          \/ Onto("complete") /\ manifest' = Spans
          \/ Onto("fire chunks")
      BY <2>3 DEF ListChunks
    <3>1. \/ stage'.step \in Idle
          \/ stage'.step = "complete" /\ manifest' = Spans
          \/ stage'.step = "fire chunks"
      BY <1>0, <3>0, OnwardsIdle
    <3>2. fired' = fired /\ At("list chunks") /\ Spans # <<>>
      BY <2>3 DEF ListChunks, Spans
    <3> QED
      BY <1>1, <1>3, <3>1, <3>2 DEF MediaInv, StageFits, Assembling, At
  <2>4. CASE CompleteReceipt
    <3>1. \/ stage'.step \in Idle
          \/ stage'.step = "provenance" /\ media.source = "drive"
      BY <2>4 DEF CompleteReceipt, Onto, Idle
    <3>2. fired'.phase = "completed"
      BY <2>4 DEF CompleteReceipt, MediaInv, MediaTyped, TypedRecords
    <3> QED
      BY <1>1, <1>3, <3>1, <3>2 DEF StageFits, Assembling
  <2> QED
    BY <1>5, <2>1, <2>2, <2>3, <2>4 DEF TransloaditStep
<1>6. CASE DriveStep
  <2>1. CASE LookAtDrive
    <3>0. \/ Onto("normalize")
          \/ Onto("import") /\ fired.phase = "none" /\ media.source = "drive"
          \/ Onto("provenance") /\ fired.phase = "completed" /\ media.source = "drive"
          \/ Onto("poll import") /\ fired.phase \notin {"none", "completed"}
             /\ media.source = "drive"
      BY <2>1 DEF LookAtDrive
    <3>1. \/ stage'.step \in Idle
          \/ stage'.step = "import" /\ fired.phase = "none" /\ media.source = "drive"
          \/ stage'.step = "provenance" /\ fired.phase = "completed" /\ media.source = "drive"
          \/ stage'.step = "poll import" /\ fired.phase \notin {"none", "completed"}
             /\ media.source = "drive"
      BY <1>0, <3>0 DEF Idle
    <3>2. fired' = fired
      BY <2>1 DEF LookAtDrive, artifacts
    <3>3. media.source = "drive" => fired.phase \in {"none", "import", "chunks", "completed"}
      BY DEF MediaInv, ReceiptsFit
    <3> QED
      BY <1>1, <1>3, <3>1, <3>2, <3>3 DEF StageFits, Assembling
  <2>2. CASE Import
    <3>1. stage'.step = "file import" /\ fired' = fired /\ At("import")
      BY <2>2 DEF Import, Create, Hold, artifacts
    <3> QED
      BY <1>3, <3>1 DEF MediaInv, StageFits, Assembling, At
  <2>3. CASE FileImport \/ FileReceipt
    <3>1. Onto("normalize")
      BY <2>3 DEF FileImport, FileReceipt
    <3>2. stage'.step \in Idle
      BY <1>0, <3>1 DEF Idle
    <3> QED
      BY <1>1, <3>2
  <2>4. CASE PollImport
    <3>0. \/ Onto("normalize")
          \/ Onto("list chunks") /\ fired.phase = "chunks"
          \/ Onto("complete") /\ media.form = "none"
          \/ Onto("fire chunks")
      BY <2>4 DEF PollImport
    <3>1. \/ stage'.step \in Idle
          \/ stage'.step = "list chunks" /\ fired.phase = "chunks"
          \/ stage'.step = "complete" /\ media.form = "none"
          \/ stage'.step = "fire chunks"
      BY <1>0, <3>0 DEF Idle
    <3>2. fired' = fired /\ media.source = "drive" /\ fired.phase \in {"import", "chunks"}
      BY <2>4 DEF PollImport, artifacts, At, MediaInv, StageFits
    <3> QED
      BY <1>1, <1>3, <1>4, <3>1, <3>2 DEF StageFits, Assembling
  <2>5. CASE FileProvenance
    <3>1. stage'.step = "receipt" /\ fired' = fired /\ "provenance" \in acquired' /\ At("provenance")
      BY <2>5 DEF FileProvenance, Onto
    <3> QED
      BY <1>3, <3>1 DEF MediaInv, StageFits, Assembling, At
  <2> QED
    BY <1>6, <2>1, <2>2, <2>3, <2>4, <2>5 DEF DriveStep
<1>7. CASE NormalizeStep
  <2>1. CASE Probe
    <3>1. stage'.step \in Idle \/ (stage'.step = "form" /\ verdict' = "media")
      BY <2>1 DEF Probe, Onto, Idle
    <3> QED
      BY <1>1, <3>1 DEF StageFits, Assembling
  <2>2. CASE ProbeUnread
    BY <1>1, <2>2 DEF ProbeUnread, Onto, Idle
  <2>3. CASE Recall
    <3>1. stage'.step \in Idle \/ (stage'.step = "form" /\ verdict' \notin {"unasked", "nothing"})
      BY <2>3 DEF Recall, Onto, Idle, artifacts
    <3>2. verdict' \in {"unasked", "media", "nothing"}
      BY WhoWrites DEF Probe, MediaInv, MediaTyped, TypedRecords
    <3> QED
      BY <1>1, <3>1, <3>2 DEF StageFits, Assembling
  <2>4. CASE Form
    <3>1. verdict = "media" /\ verdict' = verdict /\ fired' = fired /\ media.source # "drive"
      BY <2>4 DEF Form, At, artifacts, MediaInv, StageFits, ReceiptsFit
    <3>0. \/ Onto("ensure") \/ Onto("transcribe")
          \/ Onto("point") /\ media.form = "direct"
          \/ (Onto("transcode") \/ Onto("poll")) /\ media.form # "direct"
          \/ Onto("fire chunks") /\ media.form # "direct" /\ fired.phase = "none"
      BY <2>4 DEF Form
    <3>2. \/ stage'.step \in Idle
          \/ stage'.step = "point" /\ media.form = "direct"
          \/ stage'.step \in {"transcode", "poll"} /\ media.form # "direct"
          \/ stage'.step = "fire chunks" /\ media.form # "direct" /\ fired.phase = "none"
      BY <1>0, <3>0 DEF Idle
    <3>3. IF media.form = "direct" THEN Target = <<"original">> ELSE Target = Spans
      BY <3>1 DEF Target
    <3> QED
      BY <1>1, <1>3, <3>1, <3>2, <3>3 DEF StageFits, Assembling
  <2>5. CASE PointAtOriginal
    BY <1>1, <2>5 DEF PointAtOriginal, Onto, Idle
  <2>6. CASE Poll
    <3>0. \/ Onto("transcribe")
          \/ Onto("list chunks") /\ fired.phase = "chunks"
          \/ Onto("fire chunks") /\ fired.phase = "legacy"
      BY <2>6 DEF Poll
    <3>1. \/ stage'.step \in Idle
          \/ stage'.step = "list chunks" /\ fired.phase = "chunks"
          \/ stage'.step = "fire chunks" /\ fired.phase = "legacy"
      BY <1>0, <3>0 DEF Idle
    <3>2. fired' = fired /\ Target = Spans
      BY <2>6 DEF Poll, artifacts, At, MediaInv, StageFits
    <3> QED
      BY <1>1, <1>3, <3>1, <3>2 DEF StageFits, Assembling
  <2>7. CASE Transcode
    <3>1. stage'.step \in Idle \/ (UNCHANGED stage /\ UNCHANGED fired)
      BY <2>7 DEF Transcode, Onto, Idle
    <3> QED
      BY <1>1, <1>2, <3>1
  <2>8. CASE Ensure
    <3>1. stage'.step \in Idle
      BY <2>8 DEF Ensure, Onto, Idle, At
    <3> QED
      BY <1>1, <3>1
  <2> QED
    BY <1>7, <2>1, <2>2, <2>3, <2>4, <2>5, <2>6, <2>7, <2>8 DEF NormalizeStep
<1>8. CASE TranscribeStep
  <2>1. stage'.step \in Idle
    BY <1>8 DEF TranscribeStep, Transcribe, Submit, Record, Collect, Onto, Hold, Idle
  <2> QED
    BY <1>1, <2>1
<1>9. CASE Upsets
  <2>1. UNCHANGED fired /\ (UNCHANGED stage \/ Onto(Onwards) \/ Onto("look"))
    BY <1>9 DEF Upsets, MediaCallFails, Unanswered, MediaProcessDies, artifacts
  <2>2. "look" \in Idle
    BY DEF Idle
  <2> QED
    BY <1>1, <1>2, <2>1, <2>2, OnwardsIdle DEF Onto
<1>10. ~PassOn => fired' = fired
  BY WhoWrites DEF PassOn, TransloaditStep, DriveStep
<1> HIDE DEF Holds
<1>11. CASE PassOn
  BY <1>5, <1>6, <1>7, <1>8, <1>11 DEF PassOn
<1>12. CASE ~PassOn
  <2>1. UNCHANGED stage \/ Upsets
    BY <1>12, WhoWrites
  <2>2. ASSUME UNCHANGED stage PROVE Holds
    <3>1. stage' = stage /\ fired' = fired
      BY <1>10, <1>12, <2>2
    <3> QED
      BY <1>2, <3>1
  <2> QED
    BY <1>9, <2>1, <2>2 DEF Holds
<1> QED
  BY <1>11, <1>12 DEF Holds

-----------------------------------------------------------------------------
(* Stores, receipts and the manifest. *)

\* Only a chunk of the manifest ever leaves a store, and that is remembered.
LEMMA WhatGoes ==
  ASSUME MediaInv, MediaNext
  PROVE  /\ \A o \in Object, s \in Store :
              s \in kept[o] =>
                \/ s \in kept'[o]
                \/ <<o, s>> \in lost' /\ \E i \in DOMAIN manifest : manifest[i] = o
         /\ \A o \in Object : Backed(o) => Backed(o)'
         /\ media.source = "drive" /\ InBucket("original") => InBucket("original")'
         /\ lost' # lost => manifest # <<>>
<1>1. \A o \in Object, s \in Store :
        s \in kept[o] =>
          \/ s \in kept'[o]
          \/ <<o, s>> \in lost' /\ \E i \in DOMAIN manifest : manifest[i] = o
  <2>1. CASE ChunkGoes
    <3>1. PICK i \in DOMAIN manifest : \E s \in kept[manifest[i]] :
            /\ kept' = [kept EXCEPT ![manifest[i]] = @ \ {s}]
            /\ lost' = lost \cup {<<manifest[i], s>>}
      BY <2>1 DEF ChunkGoes
    <3>2. PICK s \in kept[manifest[i]] :
            /\ kept' = [kept EXCEPT ![manifest[i]] = @ \ {s}]
            /\ lost' = lost \cup {<<manifest[i], s>>}
      BY <3>1
    <3>3. manifest[i] \in Object
      BY ManifestObjects DEF MediaInv, MediaTyped
    <3>4. kept \in [Object -> SUBSET Store]
      BY DEF MediaInv, MediaTyped, TypedWorld
    <3> QED
      BY <3>2, <3>3, <3>4
  <2>2. CASE ~ChunkGoes
    BY <2>2, StoresChange DEF MediaInv, MediaTyped
  <2> QED
    BY <2>1, <2>2
<1>2. kept \in [Object -> SUBSET Store] /\ lost \subseteq lost'
  BY StoresChange DEF MediaInv, MediaTyped, TypedWorld
<1>3. \A o \in Object : Backed(o) => Backed(o)'
  BY <1>1, <1>2 DEF Backed
<1>4. media.source = "drive" /\ InBucket("original") => InBucket("original")'
  <2>1. media.source = "drive" => \A i \in DOMAIN manifest : manifest[i] # "original"
    <3>1. media.source = "drive" => manifest = <<>> \/ manifest = Spans
      BY DEF MediaInv, MediaTyped, TypedRecords, Target
    <3>2. manifest = <<>> => DOMAIN manifest = {}
      OBVIOUS
    <3> QED
      BY <3>1, <3>2, ManifestObjects DEF MediaInv, MediaTyped
  <2>2. "original" \in Object /\ "bucket" \in Store
    BY DEF Object, Store
  <2> QED
    BY <1>1, <2>1, <2>2 DEF InBucket
<1>5. lost' # lost => manifest # <<>>
  <2>1. ChunkGoes => \E i : i \in DOMAIN manifest
    BY DEF ChunkGoes
  <2>2. manifest = <<>> => DOMAIN manifest = {}
    OBVIOUS
  <2> QED
    BY <2>1, <2>2, WhoWrites
<1> QED
  BY <1>1, <1>3, <1>4, <1>5

\* The chunks of the manifest stay backed.
LEMMA AllBackedStep ==
  ASSUME MediaInv, MediaNext
  PROVE  AllBacked'
<1>1. lost' # {} => manifest' # <<>>
  BY WhatGoes, ManifestLasts DEF MediaInv, AllBacked
<1>2. (\A i \in DOMAIN manifest : Backed(manifest[i]))'
  <2>1. CASE manifest' = manifest
    <3>1. \A i \in DOMAIN manifest : manifest[i] \in Object /\ Backed(manifest[i])
      BY ManifestObjects DEF MediaInv, MediaTyped, AllBacked
    <3> QED
      BY <2>1, <3>1, WhatGoes DEF Backed
  <2>2. CASE ListChunks /\ ListingIsSound /\ manifest' = Spans
    <3>1. kept' = kept
      BY <2>2 DEF ListChunks
    <3>2. \A i \in DOMAIN Spans : "bucket" \in kept[Spans[i]]
      BY <2>2 DEF ListingIsSound, InBucket, Span
    <3> HIDE DEF Spans
    <3> QED
      BY <2>2, <3>1, <3>2 DEF Backed
  <2>3. CASE PointAtOriginal /\ manifest' = <<"original">>
    <3>1. kept' = kept /\ lost' = lost /\ At("point")
      BY <2>3 DEF PointAtOriginal, world
    <3>2. Backed("original")
      BY <3>1 DEF At, MediaInv, StageFits, ReceiptsFit, AllBacked
    <3>3. \A i \in DOMAIN manifest' : manifest'[i] = "original"
      BY <2>3
    <3> QED
      BY <3>1, <3>2, <3>3 DEF Backed
  <2>4. CASE Transcode /\ manifest' = Spans /\ \A i \in DOMAIN Spans : "local" \in kept[Spans[i]]
    <3>1. kept' = kept
      BY <2>4 DEF Transcode
    <3> HIDE DEF Spans
    <3> QED
      BY <2>4, <3>1 DEF Backed
  <2> QED
    BY <2>1, <2>2, <2>3, <2>4, ManifestLasts
<1>3. media'.source # "drive" /\ media'.blob # "absent" => Backed("original")'
  <2>1. "original" \in Object
    BY DEF Object
  <2>2. CASE BlobLands
    <3>1. "local" \in kept'["original"]
      BY <2>1, <2>2, PutStays DEF BlobLands, MediaInv, MediaTyped, Store
    <3> QED
      BY <3>1 DEF Backed
  <2>3. CASE UNCHANGED media
    BY <2>1, <2>3, WhatGoes DEF MediaInv, AllBacked
  <2> QED
    BY <2>2, <2>3, WhoWrites
<1>4. manifest' # <<>> /\ Target' = <<"original">> => media'.blob # "absent" /\ media'.source # "drive"
  <2> SUFFICES ASSUME manifest' # <<>>, Target = <<"original">>
               PROVE  media.blob # "absent" /\ media.source # "drive"
    BY MediaStays DEF MediaInv, MediaTyped
  <2>1. CASE manifest' = manifest
    BY <2>1 DEF MediaInv, AllBacked
  <2>2. CASE PointAtOriginal
    BY <2>2 DEF PointAtOriginal, At, MediaInv, StageFits, ReceiptsFit
  <2>3. ASSUME manifest' = Spans PROVE FALSE
    <3>1. manifest' = <<"original">>
      BY ManifestLasts
    <3>2. Len(Spans) = 2 /\ Len(<<"original">>) = 1
      BY DEF Spans
    <3> HIDE DEF Spans
    <3> QED
      BY <2>3, <3>1, <3>2
  <2> QED
    BY <2>1, <2>2, <2>3, ManifestLasts
<1> QED
  BY <1>1, <1>2, <1>3, <1>4 DEF AllBacked

\* A receipt is written from these steps alone.
LEMMA FiredFrom ==
  ASSUME MediaInv, MediaNext
  PROVE  \/ UNCHANGED fired
         \/ fired'.phase = "chunks" /\ At("file chunks")
         \/ fired'.phase = "import" /\ At("file import")
         \/ fired'.phase = "completed" /\ At("complete")
<1>1. CompleteReceipt => fired'.phase = "completed" /\ At("complete")
  <2>1. fired \in [phase : Phase, job : Nat, previous : Nat]
    BY DEF MediaInv, MediaTyped, TypedRecords
  <2> QED
    BY <2>1 DEF CompleteReceipt
<1>2. ASSUME FileChunks PROVE fired'.phase = "chunks"
  BY <1>2 DEF FileChunks
<1>3. ASSUME FileImport PROVE fired'.phase = "import"
  BY <1>3 DEF FileImport
<1>4. (FileChunks => At("file chunks")) /\ (FileImport => At("file import"))
  BY DEF FileChunks, FileImport
<1> QED
  BY <1>1, <1>2, <1>3, <1>4, WhoWrites

\* The receipts fit the source, the manifest and the bucket.
LEMMA ReceiptsFitStep ==
  ASSUME MediaInv, MediaNext
  PROVE  ReceiptsFit'
<1>0. ASSUME NEW step, Onto(step) PROVE stage'.step = step
  BY <1>0 DEF Onto
<1>1. verdict' = "media" => media'.source # "drive" /\ media'.blob # "absent"
  <2>1. CASE Probe
    <3>1. verdict' = "media" => Readable \/ verdict = "media"
      BY <2>1 DEF Probe
    <3> QED
      BY <3>1, MediaStays DEF Readable, MediaInv, MediaTyped, ReceiptsFit
  <2>2. CASE UNCHANGED verdict
    BY <2>2, MediaStays DEF MediaInv, MediaTyped, ReceiptsFit
  <2> QED
    BY <2>1, <2>2, WhoWrites
<1>2. fired'.phase \in CASE media'.source = "capture" -> {"none", "chunks", "completed"}
                         [] media'.source = "drive"   -> {"none", "import", "chunks", "completed"}
                         [] OTHER                     -> {"legacy", "chunks", "completed"}
  <2>1. \/ fired'.phase \in {fired.phase, "chunks", "completed"}
        \/ fired'.phase = "import" /\ media.source = "drive"
    <3>1. CASE FileChunks
      BY <3>1 DEF FileChunks
    <3>2. CASE FileImport
      BY <3>2 DEF FileImport, At, MediaInv, StageFits
    <3>3. CASE CompleteReceipt
      BY <3>3 DEF CompleteReceipt, MediaInv, MediaTyped, TypedRecords
    <3> QED
      BY <3>1, <3>2, <3>3, WhoWrites
  <2>2. media'.source = media.source
    BY MediaStays DEF MediaInv, MediaTyped
  <2> QED
    BY <2>1, <2>2 DEF MediaInv, ReceiptsFit
<1>3. fired'.phase = "completed" /\ media'.form # "none" => manifest' # <<>>
  <2>1. media'.form = media.form /\ (manifest # <<>> => manifest' # <<>>)
    BY MediaStays, ManifestLasts DEF MediaInv, MediaTyped
  <2>2. fired'.phase = "completed" => fired.phase = "completed" \/ At("complete")
    BY FiredFrom
  <2> QED
    BY <2>1, <2>2 DEF At, MediaInv, ReceiptsFit, StageFits
<1>4. "receipt" \in acquired' =>
        "provenance" \in acquired' /\ fired'.phase = "completed" /\ media'.source = "drive"
  <2>1. media'.source = media.source
    BY MediaStays DEF MediaInv, MediaTyped
  <2>2. "receipt" \in acquired' => "receipt" \in acquired \/ At("receipt")
    BY WhoWrites DEF FileProvenance, FileReceipt
  <2>3. "receipt" \in acquired' =>
          "provenance" \in acquired /\ fired.phase = "completed" /\ media.source = "drive"
    BY <2>2 DEF At, MediaInv, ReceiptsFit, StageFits
  <2> QED
    BY <2>1, <2>3, ReceiptsLast
<1>5. media'.source = "drive" /\ fired'.phase \in {"chunks", "completed"} => InBucket("original")'
  <2>1. media'.source = media.source
    BY MediaStays DEF MediaInv, MediaTyped
  <2>2. fired'.phase \in {"chunks", "completed"} =>
          fired.phase \in {"chunks", "completed"} \/ At("file chunks") \/ At("complete")
    BY FiredFrom
  <2> QED
    BY <2>1, <2>2, WhatGoes DEF At, MediaInv, ReceiptsFit, Assembling
<1>6. media'.source = "drive" /\ stage'.step \in Assembling \cup {"complete"} => InBucket("original")'
  <2> SUFFICES ASSUME media.source = "drive", stage'.step \in Assembling \cup {"complete"}
               PROVE  InBucket("original")
    BY MediaStays, WhatGoes DEF MediaInv, MediaTyped
  <2>1. CASE stage.step \in Assembling \cup {"complete"}
    BY <2>1 DEF MediaInv, ReceiptsFit
  <2>2. CASE PollImport
    <3>1. fired.phase = "chunks" \/ InBucket("original") \/ Onto("normalize")
      BY <2>2 DEF PollImport
    <3>2. ~Onto("normalize")
      BY <1>0 DEF Assembling
    <3> QED
      BY <3>1, <3>2 DEF MediaInv, ReceiptsFit
  <2>3. CASE Form \/ Poll
    BY <2>3 DEF Form, Poll, At, MediaInv, StageFits, ReceiptsFit
  <2>4. stage'.step \in Idle => FALSE
    BY DEF Idle, Assembling
  <2>5. ASSUME TransloaditStep PROVE stage.step \in Assembling \cup {"complete"}
    BY <2>5 DEF TransloaditStep, FireChunks, FileChunks, ListChunks, CompleteReceipt, At, Assembling
  <2>6. ASSUME DriveStep PROVE PollImport
    <3>1. PollImport \/ Onto("normalize") \/ Onto("import") \/ Onto("provenance")
          \/ Onto("poll import") \/ Onto("receipt") \/ stage'.step = "file import"
      <4>1. CASE Import
        BY <4>1 DEF Import, Create, Hold
      <4>2. CASE ~Import
        BY <2>6, <4>2 DEF DriveStep, LookAtDrive, FileImport, FileProvenance, FileReceipt
      <4> QED
        BY <4>1, <4>2
    <3> QED
      BY <1>0, <3>1 DEF Assembling
  <2>7. ASSUME NormalizeStep, ~Form, ~Poll PROVE UNCHANGED stage
    <3>1. Onto("transcribe") \/ Onto("form") \/ Onto("ensure") \/ UNCHANGED stage
      BY <2>7 DEF NormalizeStep, Probe, ProbeUnread, Recall, PointAtOriginal, Transcode, Ensure
    <3> QED
      BY <1>0, <3>1 DEF Assembling
  <2>8. ASSUME TranscribeStep PROVE FALSE
    <3>1. stage'.step \in Idle
      BY <2>8 DEF TranscribeStep, Transcribe, Submit, Record, Collect, Onto, Hold, Idle
    <3> QED
      BY <2>4, <3>1
  <2>9. ASSUME Upsets PROVE UNCHANGED stage
    <3>1. UNCHANGED stage \/ Onto(Onwards) \/ Onto("look")
      BY <2>9 DEF Upsets, MediaCallFails, Unanswered, MediaProcessDies
    <3>2. "look" \in Idle
      BY DEF Idle
    <3> QED
      BY <1>0, <2>4, <3>1, <3>2, OnwardsIdle
  <2>10. UNCHANGED stage => stage.step \in Assembling \cup {"complete"}
    OBVIOUS
  <2> QED
    BY <2>1, <2>2, <2>3, <2>5, <2>6, <2>7, <2>8, <2>9, <2>10, WhoWrites DEF PassOn
<1> QED
  BY <1>1, <1>2, <1>3, <1>4, <1>5, <1>6 DEF ReceiptsFit

-----------------------------------------------------------------------------
(* By what a step of the pass is reached. *)

Reached(step) ==
  CASE step = "list chunks" -> (Poll \/ PollImport) /\ Polled = "completed" /\ fired.phase = "chunks"
    [] step = "file chunks" -> FireChunks /\ stage'.job = Len(assembled) + 1
    [] step = "fire chunks" ->
         \/ ListChunks /\ fired.previous + 1 < Attempts
         \/ PollImport /\ fired.phase # "chunks"
         \/ Poll /\ fired.phase = "legacy"
         \/ Form /\ fired.phase = "none" /\ media.route # "ffmpeg"
    [] step = "poll"      -> Form /\ media.route # "ffmpeg"
    [] step = "transcode" -> Form /\ media.route = "ffmpeg" /\ manifest = <<>>
    [] step = "complete"  -> ListChunks \/ PollImport
    [] step = "submit" ->
         \/ Transcribe /\ Discovered /\ Len(bought) < Len(manifest)
         \/ Record /\ Len(bought) + 1 < Len(manifest)
    [] step = "record"  -> Submit /\ InBucket(Wanted) /\ stage'.job = Len(accepted) + 1
    [] step = "collect" -> Transcribe /\ Discovered /\ ~(Len(bought) < Len(manifest))
    [] OTHER -> TRUE

\* How each step of the pass is reached.
LEMMA StageReached ==
  ASSUME MediaInv, MediaNext
  PROVE  UNCHANGED stage \/ Reached(stage'.step)
<1>0. ASSUME NEW step, Onto(step) PROVE stage'.step = step
  BY <1>0 DEF Onto
<1>1. ASSUME stage'.step \in {"look", "normalize", "transcribe", "ensure", "provenance", "receipt",
                            "import", "file import", "poll import", "form", "point"}
      PROVE  Reached(stage'.step)
  BY <1>1 DEF Reached
<1>2. Onward \in {"look", "normalize", "transcribe"} /\ Onwards \in {"look", "normalize", "transcribe"}
  BY DEF Onward, Onwards
<1>3. CASE TransloaditStep
  <2>1. CASE FireChunks
    <3>1. stage'.step = "file chunks" /\ stage'.job = Len(assembled) + 1
      BY <2>1 DEF FireChunks, Create, Hold
    <3> QED
      BY <2>1, <3>1 DEF Reached
  <2>2. CASE FileChunks
    BY <1>0, <1>1, <1>2, <2>2 DEF FileChunks
  <2>3. CASE ListChunks
    <3>1. \/ Onto(Onward) \/ Onto("complete")
          \/ Onto("fire chunks") /\ ~(fired.previous + 1 >= Attempts)
      BY <2>3 DEF ListChunks
    <3>2. fired.previous \in Nat /\ Attempts \in Nat
      BY MediaAssumption DEF MediaInv, MediaTyped, TypedRecords
    <3>3. ~(fired.previous + 1 >= Attempts) => fired.previous + 1 < Attempts
      BY <3>2
    <3>4. \/ stage'.step \in {"look", "normalize", "transcribe"} \/ stage'.step = "complete"
          \/ stage'.step = "fire chunks" /\ fired.previous + 1 < Attempts
      BY <1>0, <1>2, <3>1, <3>3
    <3> QED
      BY <1>1, <2>3, <3>4 DEF Reached
  <2>4. CASE CompleteReceipt
    <3>1. Onto("provenance") \/ Onto("transcribe")
      BY <2>4 DEF CompleteReceipt
    <3> QED
      BY <1>0, <1>1, <3>1
  <2> QED
    BY <1>3, <2>1, <2>2, <2>3, <2>4 DEF TransloaditStep
<1>4. CASE DriveStep
  <2>1. CASE PollImport
    <3>1. \/ Onto("normalize") \/ Onto("complete")
          \/ Onto("list chunks") /\ Polled = "completed" /\ fired.phase = "chunks"
          \/ Onto("fire chunks") /\ fired.phase # "chunks"
      BY <2>1 DEF PollImport
    <3>2. \/ stage'.step = "normalize" \/ stage'.step = "complete"
          \/ stage'.step = "list chunks" /\ Polled = "completed" /\ fired.phase = "chunks"
          \/ stage'.step = "fire chunks" /\ fired.phase # "chunks"
      BY <1>0, <3>1
    <3> QED
      BY <2>1, <3>2 DEF Reached
  <2>2. CASE Import
    <3>1. stage'.step = "file import"
      BY <2>2 DEF Import, Create, Hold
    <3> QED
      BY <1>1, <3>1
  <2>3. CASE LookAtDrive \/ FileImport \/ FileProvenance \/ FileReceipt
    <3>1. Onto("normalize") \/ Onto("import") \/ Onto("provenance") \/ Onto("poll import")
          \/ Onto("receipt")
      BY <2>3 DEF LookAtDrive, FileImport, FileProvenance, FileReceipt
    <3> QED
      BY <1>0, <1>1, <3>1
  <2> QED
    BY <1>4, <2>1, <2>2, <2>3 DEF DriveStep
<1>5. CASE NormalizeStep
  <2>1. CASE Form
    <3>1. \/ Onto("ensure") \/ Onto("transcribe") \/ Onto("point")
          \/ Onto("transcode") /\ media.route = "ffmpeg" /\ manifest = <<>>
          \/ Onto("poll") /\ media.route # "ffmpeg"
          \/ Onto("fire chunks") /\ media.route # "ffmpeg" /\ fired.phase = "none"
      BY <2>1 DEF Form
    <3>2. \/ stage'.step \in {"ensure", "transcribe", "point"}
          \/ stage'.step = "transcode" /\ media.route = "ffmpeg" /\ manifest = <<>>
          \/ stage'.step = "poll" /\ media.route # "ffmpeg"
          \/ stage'.step = "fire chunks" /\ media.route # "ffmpeg" /\ fired.phase = "none"
      BY <1>0, <3>1
    <3> QED
      BY <2>1, <3>2 DEF Reached
  <2>2. CASE Poll
    <3>1. \/ Onto("transcribe")
          \/ Onto("list chunks") /\ Polled = "completed" /\ fired.phase = "chunks"
          \/ Onto("fire chunks") /\ fired.phase = "legacy"
      BY <2>2 DEF Poll
    <3>2. \/ stage'.step = "transcribe"
          \/ stage'.step = "list chunks" /\ Polled = "completed" /\ fired.phase = "chunks"
          \/ stage'.step = "fire chunks" /\ fired.phase = "legacy"
      BY <1>0, <3>1
    <3> QED
      BY <2>2, <3>2 DEF Reached
  <2>3. CASE Probe \/ ProbeUnread \/ Recall \/ PointAtOriginal \/ Transcode \/ Ensure
    <3>1. UNCHANGED stage \/ Onto("form") \/ Onto("transcribe") \/ Onto("ensure")
      BY <2>3 DEF Probe, ProbeUnread, Recall, PointAtOriginal, Transcode, Ensure
    <3> QED
      BY <1>0, <1>1, <3>1
  <2> QED
    BY <1>5, <2>1, <2>2, <2>3 DEF NormalizeStep
<1>6. CASE TranscribeStep
  <2>1. CASE Transcribe
    <3>1. \/ Onto("look")
          \/ Onto("submit") /\ Discovered /\ Len(bought) < Len(manifest)
          \/ Onto("collect") /\ Discovered /\ ~(Len(bought) < Len(manifest))
      BY <2>1 DEF Transcribe
    <3>2. \/ stage'.step = "look"
          \/ stage'.step = "submit" /\ Discovered /\ Len(bought) < Len(manifest)
          \/ stage'.step = "collect" /\ Discovered /\ ~(Len(bought) < Len(manifest))
      BY <1>0, <3>1
    <3> QED
      BY <2>1, <3>2 DEF Reached
  <2>2. CASE Submit
    <3>1. Onto("look") \/ (Hold("record", Len(accepted) + 1) /\ InBucket(Wanted))
      BY <2>2 DEF Submit
    <3>2. CASE Onto("look")
      BY <1>0, <1>1, <3>2
    <3>3. CASE Hold("record", Len(accepted) + 1) /\ InBucket(Wanted)
      <4>1. stage'.step = "record" /\ stage'.job = Len(accepted) + 1
        BY <3>3 DEF Hold
      <4> QED
        BY <2>2, <3>3, <4>1 DEF Reached
    <3> QED
      BY <3>1, <3>2, <3>3
  <2>3. CASE Record
    <3>1. Onto("look") \/ (Onto("submit") /\ Len(bought) + 1 < Len(manifest))
      BY <2>3 DEF Record
    <3>2. stage'.step = "look" \/ (stage'.step = "submit" /\ Len(bought) + 1 < Len(manifest))
      BY <1>0, <3>1
    <3> QED
      BY <2>3, <3>2 DEF Reached
  <2>4. CASE Collect
    BY <1>0, <1>1, <2>4 DEF Collect
  <2> QED
    BY <1>6, <2>1, <2>2, <2>3, <2>4 DEF TranscribeStep
<1>7. CASE Upsets
  <2>1. UNCHANGED stage \/ Onto(Onwards) \/ Onto("look")
    BY <1>7 DEF Upsets, MediaCallFails, Unanswered, MediaProcessDies
  <2> QED
    BY <1>0, <1>1, <1>2, <2>1
<1> QED
  BY <1>3, <1>4, <1>5, <1>6, <1>7, WhoWrites DEF PassOn

-----------------------------------------------------------------------------
(* Assemblies. *)

\* A chunk assembly is asked for from one step alone.
LEMMA NewChunkJob ==
  ASSUME MediaInv, MediaNext, NEW j \in DOMAIN assembled' \ DOMAIN assembled,
         assembled'[j].for = "chunks"
  PROVE  At("fire chunks") /\ (FireChunks \/ Unanswered)
<1>1. (FireChunks => At("fire chunks"))
      /\ (Unanswered /\ assembled' # assembled => At("import") \/ At("fire chunks"))
  BY DEF FireChunks, Unanswered, At
<1>2. j = Len(assembled) + 1
  BY AssembledChanges DEF MediaInv, MediaTyped
<1>3. assembled' # assembled
  OBVIOUS
<1>4. FireChunks \/ Import \/ Unanswered
  <2>1. ASSUME NEW k \in DOMAIN assembled, AssemblyEnds(k) PROVE FALSE
    <3>1. \E end \in {"completed", "failed"} : assembled' = [assembled EXCEPT ![k].end = end]
      BY <2>1 DEF AssemblyEnds
    <3>2. DOMAIN assembled' = DOMAIN assembled
      BY <3>1
    <3> QED
      BY <3>2
  <2> QED
    BY <2>1, <1>3, WhoWrites
<1>5. CASE Import
  <2>1. assembled' = Append(assembled, [for |-> "original", end |-> "running"])
    BY <1>5 DEF Import, Create
  <2>2. assembled \in Seq(Assembly) /\ [for |-> "original", end |-> "running"] \in Assembly
    BY DEF MediaInv, MediaTyped, TypedVendors, Assembly
  <2>3. j = Len(assembled) + 1
    BY <1>2
  <2>4. assembled'[j] = [for |-> "original", end |-> "running"]
    BY <2>1, <2>2, <2>3, OneMore
  <2>5. assembled'[j].for = "original"
    BY <2>4
  <2> QED
    BY <2>5
<1>6. CASE Unanswered /\ At("import")
  <2>1. assembled' = assembled \/
        assembled' = Append(assembled, [end |-> "running", for |-> "original"])
    BY <1>6 DEF Unanswered
  <2>2. assembled \in Seq(Assembly) /\ [end |-> "running", for |-> "original"] \in Assembly
    BY DEF MediaInv, MediaTyped, TypedVendors, Assembly
  <2>3. j = Len(assembled) + 1
    BY <1>2
  <2>4. assembled'[j] = [end |-> "running", for |-> "original"]
    BY <1>3, <2>1, <2>2, <2>3, OneMore
  <2>5. assembled'[j].for = "original"
    BY <2>4
  <2> QED
    BY <2>5
<1>7. assembled' # assembled
  BY <1>3
<1> QED
  BY <1>4, <1>5, <1>6, <1>7, <1>1

\* The assemblies fit what makes the chunks.
LEMMA AssembliesFitStep ==
  ASSUME MediaInv, MediaNext
  PROVE  AssembliesFit'
<1>1. /\ DOMAIN assembled \subseteq DOMAIN assembled'
      /\ \A j \in DOMAIN assembled :
           /\ assembled'[j].for = assembled[j].for
           /\ assembled[j].end # "running" => assembled'[j].end = assembled[j].end
      /\ \A j \in DOMAIN assembled' \ DOMAIN assembled :
           /\ j = Len(assembled) + 1 /\ assembled'[j].end = "running"
           /\ assembled'[j].for = "original" => Import \/ (Unanswered /\ At("import"))
  BY AssembledChanges DEF MediaInv, MediaTyped
<1>2. media'.source = media.source /\ ByFfmpeg' = ByFfmpeg /\ Target' = Target
  BY MediaStays DEF MediaInv, MediaTyped
<1>3. ChunksMade => ChunksMade'
  BY <1>1 DEF ChunksMade
<1>5. ASSUME NEW j \in DOMAIN assembled' \ DOMAIN assembled, assembled'[j].for = "chunks"
      PROVE  At("fire chunks")
  BY <1>5, NewChunkJob
<1>6. ByFfmpeg' =>
        /\ \A j \in DOMAIN assembled' : assembled'[j].for # "chunks"
        /\ stage'.step \notin Assembling \cup {"poll", "complete"}
        /\ fired'.phase \in {"none", "legacy"}
  <2> SUFFICES ASSUME ByFfmpeg
               PROVE  /\ \A j \in DOMAIN assembled' : assembled'[j].for # "chunks"
                      /\ stage'.step \notin Assembling \cup {"poll", "complete"}
                      /\ fired'.phase \in {"none", "legacy"}
    BY <1>2
  <2>1. /\ \A j \in DOMAIN assembled : assembled[j].for # "chunks"
        /\ stage.step \notin Assembling \cup {"poll", "complete"}
        /\ fired.phase \in {"none", "legacy"}
        /\ media.source # "drive" /\ media.route = "ffmpeg"
    BY DEF MediaInv, AssembliesFit, ByFfmpeg
  <2>2. \A j \in DOMAIN assembled' : assembled'[j].for # "chunks"
    BY <1>1, <1>5, <2>1 DEF At, Assembling
  <2>3. ASSUME stage'.step \in Assembling \cup {"poll", "complete"} PROVE FALSE
    <3>1. Reached(stage'.step)
      BY <2>1, <2>3, StageReached
    <3>2. ~PollImport
      BY <2>1 DEF PollImport, At, MediaInv, StageFits
    <3>3. ~Poll /\ ~ListChunks /\ ~FireChunks
      BY <2>1 DEF Poll, ListChunks, FireChunks, At, Assembling
    <3> QED
      BY <2>1, <2>3, <3>1, <3>2, <3>3 DEF Reached, Assembling
  <2>4. fired'.phase \in {"none", "legacy"}
    <3>1. ~At("file chunks") /\ ~At("complete") /\ ~At("file import")
      BY <2>1 DEF At, Assembling, MediaInv, StageFits
    <3> QED
      BY <2>1, <3>1, FiredFrom
  <2> QED
    BY <2>2, <2>3, <2>4
<1>7. stage'.step = "transcode" => ByFfmpeg' /\ manifest' = <<>>
  <2> SUFFICES ASSUME stage'.step = "transcode" PROVE ByFfmpeg /\ manifest' = <<>>
    BY <1>2
  <2>1. CASE UNCHANGED stage
    <3>1. ByFfmpeg /\ manifest = <<>>
      BY <2>1 DEF MediaInv, AssembliesFit
    <3>2. ~ListChunks /\ ~PointAtOriginal
      BY <2>1 DEF ListChunks, PointAtOriginal, At
    <3>3. ASSUME Onto("ensure") PROVE FALSE
      BY <3>3 DEF Onto
    <3> QED
      BY <3>1, <3>2, <3>3, ManifestLasts
  <2>2. CASE Form /\ media.route = "ffmpeg" /\ manifest = <<>>
    <3>1. ByFfmpeg
      BY <2>2 DEF Form, At, MediaInv, StageFits, ReceiptsFit, ByFfmpeg
    <3>2. manifest' = manifest
      BY <2>2 DEF Form, artifacts
    <3> QED
      BY <2>2, <3>1, <3>2
  <2> QED
    BY <2>1, <2>2, StageReached DEF Reached
<1>8. ~ByFfmpeg' /\ manifest' = Spans => ChunksMade'
  <2> SUFFICES ASSUME ~ByFfmpeg, manifest' = Spans PROVE ChunksMade
    BY <1>2, <1>3
  <2>1. CASE manifest' = manifest
    BY <2>1 DEF MediaInv, AssembliesFit
  <2>2. CASE ListChunks
    BY <2>2 DEF ListChunks, At, MediaInv, AssembliesFit
  <2>3. CASE Transcode
    BY <2>3 DEF Transcode, At, MediaInv, AssembliesFit
  <2>4. Len(Spans) = 2 /\ Len(<<"original">>) = 1
    BY DEF Spans
  <2>5. manifest' # <<"original">>
    <3> HIDE DEF Spans
    <3> QED
      BY <2>4
  <2> QED
    BY <2>1, <2>2, <2>3, <2>5, ManifestLasts
<1>9. stage'.step = "list chunks" => ChunksMade'
  <2> SUFFICES ASSUME stage'.step = "list chunks" PROVE ChunksMade
    BY <1>3
  <2>1. CASE UNCHANGED stage
    BY <2>1 DEF MediaInv, AssembliesFit
  <2>2. CASE Polled = "completed" /\ fired.phase = "chunks"
    BY <2>2 DEF Polled, MediaInv, AssembliesFit, ChunksMade
  <2> QED
    BY <2>1, <2>2, StageReached DEF Reached
<1>10. fired'.phase = "chunks" =>
         fired'.job \in DOMAIN assembled' /\ assembled'[fired'.job].for = "chunks"
  <2>1. CASE UNCHANGED fired
    BY <1>1, <2>1 DEF MediaInv, AssembliesFit
  <2>2. CASE FileChunks
    <3>1. fired'.job = stage.job
      BY <2>2 DEF FileChunks
    <3> QED
      BY <1>1, <2>2, <3>1 DEF FileChunks, At, MediaInv, AssembliesFit
  <2>3. ASSUME FileImport \/ CompleteReceipt, ~FileChunks PROVE fired'.phase # "chunks"
    <3>1. ASSUME FileImport PROVE fired'.phase = "import"
      BY <3>1 DEF FileImport
    <3>2. ASSUME CompleteReceipt PROVE fired'.phase = "completed"
      BY <3>2 DEF CompleteReceipt, MediaInv, MediaTyped, TypedRecords
    <3> QED
      BY <2>3, <3>1, <3>2
  <2> QED
    BY <2>1, <2>2, <2>3, WhoWrites
<1>11. stage'.step = "file chunks" =>
         stage'.job \in DOMAIN assembled' /\ assembled'[stage'.job].for = "chunks"
  <2>1. CASE UNCHANGED stage
    BY <1>1, <2>1 DEF MediaInv, AssembliesFit
  <2>2. CASE FireChunks /\ stage'.job = Len(assembled) + 1
    <3>1. assembled' = Append(assembled, [for |-> "chunks", end |-> "running"])
      BY <2>2 DEF FireChunks, Create
    <3>2. assembled \in Seq(Assembly) /\ [for |-> "chunks", end |-> "running"] \in Assembly
      BY DEF MediaInv, MediaTyped, TypedVendors, Assembly
    <3>3. /\ Len(assembled) + 1 \in DOMAIN assembled'
          /\ assembled'[Len(assembled) + 1] = [for |-> "chunks", end |-> "running"]
      BY <3>1, <3>2, OneMore
    <3>4. assembled'[Len(assembled) + 1].for = "chunks"
      BY <3>3
    <3> QED
      BY <2>2, <3>3, <3>4
  <2> QED
    BY <2>1, <2>2, StageReached DEF Reached
<1>12. \A j \in DOMAIN assembled' :
         assembled'[j].for = "original" => media'.source = "drive" \/ assembled'[j].end = "completed"
  <2>1. Import \/ At("import") => media.source = "drive"
    BY DEF Import, At, MediaInv, StageFits
  <2>2. \A j \in DOMAIN assembled :
          assembled[j].for = "original" => media.source = "drive" \/ assembled[j].end = "completed"
    BY DEF MediaInv, AssembliesFit
  <2> QED
    BY <1>1, <1>2, <2>1, <2>2
<1> QED
  BY <1>6, <1>7, <1>8, <1>9, <1>10, <1>11, <1>12 DEF AssembliesFit

-----------------------------------------------------------------------------
(* Jobs and what they cost. *)

Transcribing == {"submit", "record", "collect"}

\* Where the pass stays at a step of these, nothing it relies on changes.
LEMMA StaysPut ==
  ASSUME MediaInv, MediaNext, UNCHANGED stage, stage.step \in Transcribing
  PROVE  /\ bought' = bought /\ transcript' = transcript /\ manifest' = manifest
         /\ "transcribe" \notin impossible'
<1>0. ASSUME NEW step, Onto(step) PROVE stage'.step = step
  BY <1>0 DEF Onto
<1>1. bought' = bought
  <2>1. ASSUME Record PROVE FALSE
    <3>1. At("record") /\ (Onto("submit") \/ Onto("look"))
      BY <2>1 DEF Record
    <3> QED
      BY <1>0, <3>1 DEF At
  <2> QED
    BY <2>1, WhoWrites
<1>2. transcript' = transcript
  <2>1. ASSUME Transcribe PROVE FALSE
    BY <2>1 DEF Transcribe, At, Transcribing
  <2>2. ASSUME Collect PROVE FALSE
    <3>1. At("collect") /\ Onto("look")
      BY <2>2 DEF Collect
    <3> QED
      BY <1>0, <3>1 DEF At
  <2> QED
    BY <2>1, <2>2, WhoWrites
<1>3. manifest # <<>> /\ "transcribe" \notin impossible
  BY DEF MediaInv, JobsFit, Transcribing
<1>4. "transcribe" \notin impossible'
  <2>1. ASSUME Submit, impossible' # impossible PROVE FALSE
    <3>1. At("submit") /\ Onto("look")
      BY <2>1 DEF Submit
    <3> QED
      BY <1>0, <3>1 DEF At
  <2>2. ASSUME Collect PROVE FALSE
    <3>1. At("collect") /\ Onto("look")
      BY <2>2 DEF Collect
    <3> QED
      BY <1>0, <3>1 DEF At
  <2>3. Ensure => FALSE
    BY DEF Ensure, At, Transcribing
  <2>4. Restore => impossible' = {}
    BY DEF Restore
  <2> QED
    BY <1>3, <2>1, <2>2, <2>3, <2>4, WhoWrites
<1> QED
  BY <1>1, <1>2, <1>3, <1>4, ManifestLasts

\* What is on record is of the manifest, and is not moved.
LEMMA JobsLast ==
  ASSUME MediaInv, MediaNext
  PROVE  /\ Len(bought) \in Nat /\ Len(manifest) \in Nat /\ Len(bought) <= Len(manifest)
         /\ DOMAIN bought = 1..Len(bought) /\ DOMAIN manifest = 1..Len(manifest)
         /\ DOMAIN bought \subseteq DOMAIN manifest
         /\ \A i \in DOMAIN bought :
              /\ i \in DOMAIN bought' /\ bought'[i] = bought[i] /\ manifest'[i] = manifest[i]
              /\ bought[i] \in DOMAIN accepted' /\ accepted'[bought[i]].chunk = manifest[i]
              /\ accepted[bought[i]].end # "running" =>
                   accepted'[bought[i]].end = accepted[bought[i]].end
         /\ bought' # bought =>
              /\ Record /\ bought' = Append(bought, stage.job)
              /\ Len(bought') = Len(bought) + 1
              /\ DOMAIN bought' = DOMAIN bought \cup {Len(bought) + 1}
              /\ bought'[Len(bought) + 1] = stage.job
<1>1. Len(bought) \in Nat /\ DOMAIN bought = 1..Len(bought) /\ Len(bought) <= Len(manifest)
  BY DEF MediaInv, MediaTyped, TypedRecords, JobsFit
<1>2. Len(manifest) \in Nat /\ DOMAIN manifest = 1..Len(manifest)
  <2>1. TypedRecords
    BY DEF MediaInv, MediaTyped
  <2> QED
    BY <2>1, ManifestObjects, Zenon
<1>3. DOMAIN bought \subseteq DOMAIN manifest
  BY <1>1, <1>2
<1>4. ASSUME NEW i \in DOMAIN bought PROVE manifest'[i] = manifest[i]
  <2>1. manifest # <<>>
    <3>1. i \in DOMAIN manifest
      BY <1>3
    <3>2. manifest = <<>> => DOMAIN manifest = {}
      OBVIOUS
    <3> QED
      BY <3>1, <3>2
  <2> QED
    BY <2>1, ManifestLasts
<1>5. ASSUME NEW i \in DOMAIN bought
      PROVE  /\ bought[i] \in DOMAIN accepted' /\ accepted'[bought[i]].chunk = manifest[i]
             /\ accepted[bought[i]].end # "running" =>
                  accepted'[bought[i]].end = accepted[bought[i]].end
  <2>1. bought[i] \in DOMAIN accepted /\ accepted[bought[i]].chunk = manifest[i]
    BY DEF MediaInv, JobsFit
  <2> QED
    BY <2>1, AcceptedChanges DEF MediaInv, MediaTyped
<1>6. bought' # bought => Record /\ bought' = Append(bought, stage.job)
  BY WhoWrites DEF Record
<1>7. bought' = Append(bought, stage.job) =>
        /\ Len(bought') = Len(bought) + 1
        /\ DOMAIN bought' = DOMAIN bought \cup {Len(bought) + 1}
        /\ bought'[Len(bought) + 1] = stage.job
        /\ \A i \in DOMAIN bought : i \in DOMAIN bought' /\ bought'[i] = bought[i]
  <2>1. bought \in Seq(Nat) /\ stage.job \in Nat
    BY DEF MediaInv, MediaTyped, TypedRecords, TypedStage
  <2> QED
    BY <2>1, OneMore
<1> QED
  BY <1>1, <1>2, <1>3, <1>4, <1>5, <1>6, <1>7

\* The jobs on record are of the chunks of the manifest, in their order.
LEMMA JobsFitStep ==
  ASSUME MediaInv, MediaNext
  PROVE  JobsFit'
<1>1. manifest # <<>> => manifest' = manifest
  BY ManifestLasts
<1>2. Len(bought') <= Len(manifest') /\ Len(bought') \in Nat /\ Len(manifest') \in Nat
  <2>1. CASE bought' # bought
    <3>1. Len(bought) < Len(manifest) /\ manifest # <<>>
      BY <2>1, JobsLast DEF Record, At, MediaInv, JobsFit
    <3> QED
      BY <1>1, <2>1, <3>1, JobsLast
  <2>2. CASE bought' = bought /\ manifest # <<>>
    BY <1>1, <2>2, JobsLast
  <2>3. CASE bought' = bought /\ manifest = <<>>
    <3>1. Len(bought) = 0
      BY <2>3, JobsLast
    <3>2. Len(manifest') \in Nat
      <4>1. Len(Target) \in 1..2
        BY ManifestObjects DEF MediaInv, MediaTyped
      <4>2. manifest' = <<>> \/ manifest' = Target
        BY ManifestLasts
      <4>3. Len(Target) \in Nat
        BY <4>1
      <4> QED
        BY <4>2, <4>3
    <3> QED
      BY <2>3, <3>1, <3>2
  <2> QED
    BY <2>1, <2>2, <2>3
<1>3. \A i \in DOMAIN bought' :
        bought'[i] \in DOMAIN accepted' /\ accepted'[bought'[i]].chunk = manifest'[i]
  <2>1. CASE bought' = bought
    BY <2>1, JobsLast
  <2>2. CASE bought' # bought
    <3>1. /\ stage.job \in DOMAIN accepted /\ accepted[stage.job].chunk = manifest[Len(bought) + 1]
          /\ manifest # <<>>
      BY <2>2, JobsLast DEF Record, At, MediaInv, JobsFit
    <3>2. accepted' = accepted
      BY <2>2, JobsLast DEF Record
    <3> QED
      BY <1>1, <2>2, <3>1, <3>2, JobsLast
  <2> QED
    BY <2>1, <2>2
<1>4. stage'.step \in Transcribing =>
        transcript'.status # "completed" /\ "transcribe" \notin impossible' /\ manifest' # <<>>
  <2> SUFFICES ASSUME stage'.step \in Transcribing
               PROVE  transcript'.status # "completed" /\ "transcribe" \notin impossible'
                      /\ manifest' # <<>>
    OBVIOUS
  <2>1. CASE UNCHANGED stage
    BY <2>1, StaysPut DEF MediaInv, JobsFit, Transcribing
  <2>2. CASE Transcribe /\ Discovered
    <3>1. transcript' = NoTranscript
      BY <2>2 DEF Transcribe
    <3>2. transcript'.status = "none"
      BY <3>1 DEF NoTranscript
    <3> QED
      BY <2>2, <3>2 DEF Transcribe, Discovered
  <2>3. CASE Record
    BY <2>3 DEF Record, At, MediaInv, JobsFit
  <2>4. CASE Submit /\ InBucket(Wanted)
    BY <2>4 DEF Submit, At, MediaInv, JobsFit
  <2> QED
    BY <2>1, <2>2, <2>3, <2>4, StageReached DEF Reached, Transcribing
<1>5. stage'.step \in {"submit", "record"} => Len(bought') < Len(manifest')
  <2> SUFFICES ASSUME stage'.step \in {"submit", "record"} PROVE Len(bought') < Len(manifest')
    OBVIOUS
  <2>1. CASE UNCHANGED stage
    BY <2>1, StaysPut DEF MediaInv, JobsFit, Transcribing
  <2>2. CASE Transcribe /\ Len(bought) < Len(manifest)
    BY <2>2 DEF Transcribe
  <2>3. CASE Record /\ Len(bought) + 1 < Len(manifest)
    <3>1. manifest' = manifest /\ bought' = Append(bought, stage.job)
      BY <2>3 DEF Record
    <3>2. Len(bought') = Len(bought) + 1
      BY <3>1 DEF MediaInv, MediaTyped, TypedRecords, TypedStage
    <3> QED
      BY <2>3, <3>1, <3>2
  <2>4. CASE Submit
    BY <2>4 DEF Submit, At, MediaInv, JobsFit
  <2> QED
    BY <2>1, <2>2, <2>3, <2>4, StageReached DEF Reached
<1>6. stage'.step = "collect" => Len(bought') = Len(manifest')
  <2> SUFFICES ASSUME stage'.step = "collect" PROVE Len(bought') = Len(manifest')
    OBVIOUS
  <2>1. CASE UNCHANGED stage
    BY <2>1, StaysPut DEF MediaInv, JobsFit, Transcribing
  <2>2. CASE Transcribe /\ ~(Len(bought) < Len(manifest))
    <3>1. bought' = bought /\ manifest' = manifest
      BY <2>2 DEF Transcribe
    <3>2. Len(bought) \in Nat /\ Len(manifest) \in Nat /\ Len(bought) <= Len(manifest)
      BY JobsLast
    <3> QED
      BY <2>2, <3>1, <3>2
  <2> QED
    BY <2>1, <2>2, StageReached DEF Reached
<1>7. stage'.step = "record" =>
        stage'.job \in DOMAIN accepted' /\ accepted'[stage'.job].chunk = manifest'[Len(bought') + 1]
  <2> SUFFICES ASSUME stage'.step = "record"
               PROVE  /\ stage'.job \in DOMAIN accepted'
                      /\ accepted'[stage'.job].chunk = manifest'[Len(bought') + 1]
    OBVIOUS
  <2>1. CASE UNCHANGED stage
    <3>1. bought' = bought /\ manifest' = manifest
      BY <2>1, StaysPut DEF Transcribing
    <3>2. stage.job \in DOMAIN accepted /\ accepted[stage.job].chunk = manifest[Len(bought) + 1]
      BY <2>1 DEF MediaInv, JobsFit
    <3>3. stage.job \in DOMAIN accepted' /\ accepted'[stage.job].chunk = accepted[stage.job].chunk
      BY <3>2, AcceptedChanges DEF MediaInv, MediaTyped
    <3> QED
      BY <2>1, <3>1, <3>2, <3>3
  <2>2. CASE Submit /\ InBucket(Wanted) /\ stage'.job = Len(accepted) + 1
    <3>1. /\ accepted' = Append(accepted, [chunk |-> Wanted, end |-> "running"])
          /\ bought' = bought /\ manifest' = manifest /\ At("submit")
      BY <2>2 DEF Submit
    <3>2. Wanted \in Object
      <4>1. Len(bought) < Len(manifest)
        BY <3>1 DEF At, MediaInv, JobsFit
      <4>2. Len(bought) + 1 \in DOMAIN manifest
        BY <4>1, JobsLast
      <4> QED
        BY <4>2, ManifestObjects DEF Wanted, MediaInv, MediaTyped
    <3>3. accepted \in Seq(Transcription) /\ [chunk |-> Wanted, end |-> "running"] \in Transcription
      BY <3>2 DEF MediaInv, MediaTyped, TypedVendors, Transcription
    <3>4. /\ Len(accepted) + 1 \in DOMAIN accepted'
          /\ accepted'[Len(accepted) + 1] = [chunk |-> Wanted, end |-> "running"]
      BY <3>1, <3>3, OneMore
    <3>5. accepted'[Len(accepted) + 1].chunk = Wanted
      BY <3>4
    <3> QED
      BY <2>2, <3>1, <3>4, <3>5 DEF Wanted
  <2> QED
    BY <2>1, <2>2, StageReached DEF Reached
<1>8. transcript'.status = "completed" \/ "transcribe" \in impossible' => manifest' # <<>>
  <2>1. ASSUME Transcribe PROVE transcript'.status # "completed" \/ transcript' = transcript
    BY <2>1 DEF Transcribe, NoTranscript
  <2>2. ASSUME Collect \/ Submit PROVE manifest # <<>>
    BY <2>2 DEF Collect, Submit, At, MediaInv, JobsFit
  <2>3. ASSUME Ensure PROVE "transcribe" \in impossible' => "transcribe" \in impossible
    BY <2>3 DEF Ensure
  <2>4. ASSUME Restore PROVE impossible' = {}
    BY <2>4 DEF Restore
  <2> QED
    BY <1>1, <2>1, <2>2, <2>3, <2>4, WhoWrites DEF MediaInv, JobsFit
<1> QED
  BY <1>2, <1>3, <1>4, <1>5, <1>6, <1>7, <1>8 DEF JobsFit, Transcribing

\* Of what was asked for, what is of this kind: one more at most.
LEMMA CountGrows ==
  ASSUME NEW A, NEW B, IsFiniteSet(A), NEW n, B \subseteq A \cup {n}
  PROVE  /\ Cardinality(A) \in Nat /\ Cardinality(B) \in Nat
         /\ Cardinality(B) <= Cardinality(A) + 1
         /\ n \notin B => Cardinality(B) <= Cardinality(A)
<1>1. IsFiniteSet(A \cup {n}) /\ Cardinality(A) \in Nat
      /\ Cardinality(A \cup {n}) <= Cardinality(A) + 1 /\ Cardinality(A \cup {n}) \in Nat
  BY FS_AddElement, FS_CardinalityType
<1>2. IsFiniteSet(B) /\ Cardinality(B) <= Cardinality(A \cup {n}) /\ Cardinality(B) \in Nat
  BY <1>1, FS_Subset, FS_CardinalityType
<1>3. n \notin B => Cardinality(B) <= Cardinality(A)
  <2>1. n \notin B => B \subseteq A
    OBVIOUS
  <2> QED
    BY <2>1, FS_Subset
<1> QED
  BY <1>1, <1>2, <1>3

\* A step adds one job to a chunk's account at most.
LEMMA JobsCounted ==
  ASSUME MediaInv, MediaNext, NEW c \in Object
  PROVE  /\ Cardinality(JobsOf(c)) \in Nat /\ Cardinality(JobsOf(c)') \in Nat
         /\ Cardinality(JobsOf(c)') <= Cardinality(JobsOf(c)) + 1
         /\ \/ Cardinality(JobsOf(c)') <= Cardinality(JobsOf(c))
            \/ /\ c = Wanted /\ At("submit") /\ accepted' # accepted /\ (Submit \/ Unanswered)
               /\ Len(accepted) + 1 \in DOMAIN accepted'
               /\ accepted'[Len(accepted) + 1].chunk = c
<1>1. /\ DOMAIN accepted \subseteq DOMAIN accepted'
      /\ \A j \in DOMAIN accepted : accepted'[j].chunk = accepted[j].chunk
      /\ \A j \in DOMAIN accepted' \ DOMAIN accepted :
           /\ j = Len(accepted) + 1
           /\ accepted'[j] = [chunk |-> Wanted, end |-> "running"]
           /\ At("submit") /\ (Submit \/ Unanswered)
  BY AcceptedChanges DEF MediaInv, MediaTyped
<1>2. IsFiniteSet(JobsOf(c))
  <2>1. DOMAIN accepted = 1..Len(accepted) /\ Len(accepted) \in Nat
    BY DEF MediaInv, MediaTyped, TypedVendors
  <2>2. IsFiniteSet(DOMAIN accepted)
    BY <2>1, FS_Interval
  <2>3. JobsOf(c) \subseteq DOMAIN accepted
    BY DEF JobsOf
  <2> QED
    BY <2>2, <2>3, FS_Subset
<1>3. JobsOf(c)' \subseteq JobsOf(c) \cup {Len(accepted) + 1}
  BY <1>1 DEF JobsOf
<1>4. CASE Len(accepted) + 1 \in JobsOf(c)' \ JobsOf(c)
  <2>1. /\ Len(accepted) + 1 \in DOMAIN accepted'
        /\ accepted'[Len(accepted) + 1].chunk = c
    BY <1>4 DEF JobsOf
  <2>2. Len(accepted) + 1 \notin DOMAIN accepted
    BY <1>1, <1>4, <2>1 DEF JobsOf
  <2>3. accepted'[Len(accepted) + 1] = [chunk |-> Wanted, end |-> "running"]
        /\ At("submit") /\ (Submit \/ Unanswered) /\ accepted' # accepted
    BY <1>1, <2>1, <2>2
  <2>4. c = Wanted
    BY <2>1, <2>3
  <2> QED
    BY <1>2, <1>3, <2>1, <2>3, <2>4, CountGrows
<1>5. CASE Len(accepted) + 1 \notin JobsOf(c)' \ JobsOf(c)
  <2>1. JobsOf(c)' \subseteq JobsOf(c)
    BY <1>3, <1>5
  <2>2. Cardinality(JobsOf(c)') <= Cardinality(JobsOf(c))
    BY <1>2, <2>1, FS_Subset
  <2> QED
    BY <1>2, <1>3, <2>2, CountGrows
<1> QED
  BY <1>4, <1>5

\* A chunk's jobs stay within its account.
LEMMA JobsPaid ==
  ASSUME MediaInv, MediaNext, NEW c \in Object
  PROVE  Cardinality(JobsOf(c)') <= Spent(c)'
<1>0. ASSUME NEW step, Onto(step) PROVE stage'.step = step
  BY <1>0 DEF Onto
<1>1. harm.unfiled \in Nat /\ harm'.unfiled \in Nat /\ harm'.unfiled >= harm.unfiled
  BY UnfiledGrows DEF MediaInv, MediaTyped, TypedWorld, Bounds
<1>2. IsBought(c) => IsBought(c)'
  BY JobsLast DEF IsBought
<1>3. Cardinality(JobsOf(c)) <= Spent(c)
  BY DEF MediaInv, SpendFits
<1>4. CASE c = Wanted /\ At("submit") /\ accepted' # accepted /\ Submit
           /\ accepted'[Len(accepted) + 1].chunk = c
  <2>1. Hold("record", Len(accepted) + 1)
    BY <1>4 DEF Submit
  <2>2. InHandFor(c)' /\ ~InHandFor(c)
    BY <1>4, <2>1 DEF Hold, InHandFor, At
  <2> QED
    BY <1>1, <1>2, <1>3, <2>2, JobsCounted DEF Spent
<1>5. CASE At("submit") /\ Unanswered
  <2>1. harm'.unfiled = harm.unfiled + 1 /\ ~InHandFor(c)
    BY <1>5, UnfiledGrows DEF InHandFor, At, MediaInv, MediaTyped
  <2> QED
    BY <1>1, <1>2, <1>3, <2>1, JobsCounted DEF Spent
<1>6. CASE Cardinality(JobsOf(c)') <= Cardinality(JobsOf(c))
  <2>1. CASE ~InHandFor(c)
    BY <1>1, <1>2, <1>3, <1>6, <2>1, JobsCounted DEF Spent
  <2>2. CASE InHandFor(c) /\ UNCHANGED stage
    <3>1. stage.job \in DOMAIN accepted /\ accepted[stage.job].chunk = c /\ stage.step = "record"
      BY <2>2 DEF InHandFor, MediaInv, JobsFit
    <3>2. accepted'[stage.job].chunk = c
      BY <3>1, AcceptedChanges DEF MediaInv, MediaTyped
    <3>3. InHandFor(c)'
      BY <2>2, <3>1, <3>2 DEF InHandFor
    <3> QED
      BY <1>1, <1>2, <1>3, <1>6, <3>3, JobsCounted DEF Spent
  <2>3. CASE InHandFor(c) /\ PassOn
    <3>1. Record
      BY <2>3 DEF InHandFor, PassOn, TransloaditStep, FireChunks, FileChunks, ListChunks,
            CompleteReceipt, DriveStep, LookAtDrive, Import, FileImport, PollImport, FileProvenance,
            FileReceipt, NormalizeStep, Probe, ProbeUnread, Recall, Form, PointAtOriginal, Poll,
            Transcode, Ensure, TranscribeStep, Transcribe, Submit, Collect, At
    <3>2. /\ accepted[stage.job].chunk = c /\ accepted[stage.job].chunk = manifest[Len(bought) + 1]
          /\ Len(bought) < Len(manifest)
      BY <2>3 DEF InHandFor, MediaInv, JobsFit
    <3>3. ~IsBought(c)
      <4>1. Len(bought) + 1 \in DOMAIN manifest /\ manifest[Len(bought) + 1] = c
        BY <3>2, JobsLast
      <4>2. \A i \in DOMAIN bought : i \in DOMAIN manifest /\ i # Len(bought) + 1
        BY JobsLast
      <4>3. \A i, k \in DOMAIN manifest : manifest[i] = manifest[k] => i = k
        BY ManifestObjects DEF MediaInv, MediaTyped
      <4> QED
        BY <4>1, <4>2, <4>3 DEF IsBought
    <3>4. IsBought(c)'
      <4>1. bought' = Append(bought, stage.job) /\ manifest' = manifest
        BY <3>1 DEF Record
      <4>2. bought \in Seq(Nat) /\ stage.job \in Nat
        BY DEF MediaInv, MediaTyped, TypedRecords, TypedStage
      <4>3. Len(bought) + 1 \in DOMAIN bought'
        BY <4>1, <4>2, OneMore
      <4> QED
        BY <3>2, <4>1, <4>3 DEF IsBought
    <3> QED
      BY <1>1, <1>3, <1>6, <3>3, <3>4, JobsCounted DEF Spent
  <2>4. CASE InHandFor(c) /\ Upsets
    <3>1. ~Unanswered
      BY <2>4 DEF InHandFor, Unanswered, At
    <3>2. InHand = 1
      BY <2>4 DEF InHandFor, InHand
    <3>3. harm'.unfiled = harm.unfiled + 1
      BY <2>4, <3>1, <3>2, UnfiledGrows DEF Upsets, MediaInv, MediaTyped
    <3> QED
      BY <1>1, <1>2, <1>3, <1>6, <3>3, JobsCounted DEF Spent
  <2> QED
    BY <2>1, <2>2, <2>3, <2>4, WhoWrites
<1> QED
  BY <1>4, <1>5, <1>6, JobsCounted

\* What a step does to the Transloadit receipt.
LEMMA FiredSteps ==
  ASSUME MediaInv, MediaNext
  PROVE  \/ fired' = fired
         \/ /\ FileChunks /\ fired'.phase = "chunks"
            /\ fired'.previous = IF fired.phase = "none" THEN 0 ELSE fired.previous + 1
         \/ FileImport /\ fired'.phase = "import" /\ fired'.previous = 0
         \/ CompleteReceipt /\ fired'.phase = "completed" /\ fired'.previous = fired.previous
<1>1. ASSUME FileChunks
      PROVE  /\ fired'.phase = "chunks"
             /\ fired'.previous = IF fired.phase = "none" THEN 0 ELSE fired.previous + 1
  BY <1>1 DEF FileChunks
<1>2. ASSUME FileImport PROVE fired'.phase = "import" /\ fired'.previous = 0
  BY <1>2 DEF FileImport
<1>3. ASSUME CompleteReceipt PROVE fired'.phase = "completed" /\ fired'.previous = fired.previous
  <2>1. fired \in [phase : Phase, job : Nat, previous : Nat]
    BY DEF MediaInv, MediaTyped, TypedRecords
  <2> QED
    BY <1>3, <2>1 DEF CompleteReceipt
<1> QED
  BY <1>1, <1>2, <1>3, WhoWrites

\* The chunk assemblies the receipt speaks for: one more with each it files.
LEMMA FiredCounted ==
  ASSUME MediaInv, MediaNext
  PROVE  /\ FiredChunks \in Nat /\ FiredChunks' \in Nat /\ FiredChunks <= FiredChunks'
         /\ FileChunks => FiredChunks' = FiredChunks + 1
         /\ FiredChunks' <= Attempts
         /\ fired' = fired => FiredChunks' = FiredChunks
<1>1. /\ fired.previous \in Nat /\ media'.source = media.source /\ Attempts \in Nat /\ Attempts >= 1
      /\ media.source \in {"capture", "drive", "legacy"}
  BY MediaStays, MediaAssumption DEF MediaInv, MediaTyped, TypedRecords, TypedWorld
<1>2. FiredChunks <= Attempts /\ (fired.phase = "none" => fired.previous = 0)
  BY DEF MediaInv, SpendFits
<1>3. CASE fired' = fired
  <2>1. ASSUME FileChunks PROVE FALSE
    <3>1. stage.step = "file chunks" /\ fired'.job = stage.job
          /\ fired'.previous = IF fired.phase = "none" THEN 0 ELSE fired.previous + 1
      BY <2>1 DEF FileChunks, At
    <3>2. fired'.phase = "chunks"
      BY <2>1 DEF FileChunks
    <3>3. fired.phase = "chunks" /\ fired'.previous = fired.previous
      BY <1>3, <3>2
    <3>4. fired.previous = fired.previous + 1
      BY <3>1, <3>3
    <3> QED
      BY <1>1, <3>4
  <2> QED
    BY <1>1, <1>2, <1>3, <2>1 DEF FiredChunks
<1>4. CASE FileChunks /\ fired'.phase = "chunks"
           /\ fired'.previous = IF fired.phase = "none" THEN 0 ELSE fired.previous + 1
  <2>1. FiredChunks < Attempts /\ (media.source = "drive" => fired.phase # "none")
    BY <1>4 DEF FileChunks, At, MediaInv, SpendFits, StageFits, Assembling
  <2>2. media.source = "legacy" => fired.phase # "none"
    BY DEF MediaInv, ReceiptsFit
  <2>3. FiredChunks' = FiredChunks + 1 /\ FiredChunks \in Nat
    BY <1>1, <1>4, <2>1, <2>2 DEF FiredChunks
  <2>4. fired' # fired
    BY <1>1, <1>4, <2>3 DEF FiredChunks
  <2> QED
    BY <1>1, <2>1, <2>3, <2>4
<1>5. CASE FileImport /\ fired'.phase = "import" /\ fired'.previous = 0
  <2>1. fired.phase = "none" /\ media.source = "drive"
    BY <1>5 DEF FileImport, At, MediaInv, StageFits
  <2>2. FiredChunks = 0 /\ FiredChunks' = 0
    BY <1>1, <1>5, <2>1 DEF FiredChunks
  <2>3. ~FileChunks
    BY <1>5 DEF FileChunks, FileImport, At
  <2> QED
    BY <1>1, <2>2, <2>3
<1>6. CASE CompleteReceipt /\ fired'.phase = "completed" /\ fired'.previous = fired.previous
  <2>1. ~FileChunks
    BY <1>6 DEF FileChunks, CompleteReceipt, At
  <2>2. CASE fired.phase = "none"
    <3>1. FiredChunks = 0 /\ FiredChunks' \in {0, 1}
      BY <1>1, <1>2, <1>6, <2>2 DEF FiredChunks
    <3>2. fired' # fired
      BY <1>6, <2>2
    <3> QED
      BY <1>1, <2>1, <3>1, <3>2
  <2>3. CASE fired.phase # "none"
    <3>1. FiredChunks' = FiredChunks /\ FiredChunks \in Nat
      BY <1>1, <1>6, <2>3 DEF FiredChunks
    <3> QED
      BY <1>2, <2>1, <3>1
  <2> QED
    BY <2>2, <2>3
<1> QED
  BY <1>3, <1>4, <1>5, <1>6, FiredSteps

\* A step adds one assembly of chunks at most.
LEMMA ChunkJobsCounted ==
  ASSUME MediaInv, MediaNext
  PROVE  /\ Cardinality(ChunkJobs) \in Nat /\ Cardinality(ChunkJobs') \in Nat
         /\ Cardinality(ChunkJobs') <= Cardinality(ChunkJobs) + 1
         /\ \/ Cardinality(ChunkJobs') <= Cardinality(ChunkJobs)
            \/ At("fire chunks") /\ (FireChunks \/ Unanswered)
<1>1. /\ DOMAIN assembled \subseteq DOMAIN assembled'
      /\ \A j \in DOMAIN assembled : assembled'[j].for = assembled[j].for
      /\ \A j \in DOMAIN assembled' \ DOMAIN assembled : j = Len(assembled) + 1
  BY AssembledChanges DEF MediaInv, MediaTyped
<1>2. IsFiniteSet(ChunkJobs)
  <2>1. DOMAIN assembled = 1..Len(assembled) /\ Len(assembled) \in Nat
    BY DEF MediaInv, MediaTyped, TypedVendors
  <2>2. IsFiniteSet(DOMAIN assembled)
    BY <2>1, FS_Interval
  <2>3. ChunkJobs \subseteq DOMAIN assembled
    BY DEF ChunkJobs
  <2> QED
    BY <2>2, <2>3, FS_Subset
<1>3. ChunkJobs' \subseteq ChunkJobs \cup {Len(assembled) + 1}
  BY <1>1 DEF ChunkJobs
<1>4. CASE ChunkJobs' \subseteq ChunkJobs
  <2>1. Cardinality(ChunkJobs') <= Cardinality(ChunkJobs)
    BY <1>2, <1>4, FS_Subset
  <2> QED
    BY <1>2, <1>3, <2>1, CountGrows
<1>5. CASE ~(ChunkJobs' \subseteq ChunkJobs)
  <2>1. PICK j \in DOMAIN assembled' \ DOMAIN assembled : assembled'[j].for = "chunks"
    BY <1>1, <1>5 DEF ChunkJobs
  <2>2. At("fire chunks") /\ (FireChunks \/ Unanswered)
    BY <2>1, NewChunkJob
  <2> QED
    BY <1>2, <1>3, <2>2, CountGrows
<1> QED
  BY <1>4, <1>5

\* The sums of the account of assemblies, step by step.
LEMMA Balance ==
  ASSUME NEW k \in Nat, NEW k1 \in Nat, NEW f \in Nat, NEW f1 \in Nat,
         NEW u \in Nat, NEW u1 \in Nat, NEW d \in {0, 1}, NEW d1 \in {0, 1},
         k <= f + d + u, f <= f1, u1 >= u,
         \/ k1 <= k /\ (d = 0 \/ d1 = 1 \/ f1 = f + 1 \/ u1 = u + 1)
         \/ k1 <= k + 1 /\ d = 0 /\ (d1 = 1 \/ u1 = u + 1)
  PROVE  k1 <= f1 + d1 + u1
OBVIOUS

\* An attempt that may still be made is below the limit.
LEMMA Below ==
  ASSUME NEW p \in Nat, NEW a \in Nat, 0 < a, p + 1 < a, NEW f \in {0, p, p + 1}
  PROVE  f < a
OBVIOUS

\* The account of assemblies, summed up.
LEMMA Total ==
  ASSUME NEW k \in Nat, NEW f \in Nat, NEW u \in Nat, NEW a \in Nat, NEW d \in {0, 1},
         k <= f + d + u, f <= a, d = 1 => f < a
  PROVE  k <= a + u
OBVIOUS

\* Both accounts balance after every step.
LEMMA SpendFitsStep ==
  ASSUME MediaInv, MediaNext
  PROVE  SpendFits'
<1>0. ASSUME NEW step, Onto(step) PROVE stage'.step = step
  BY <1>0 DEF Onto
<1>1. \A c \in Object : Cardinality(JobsOf(c)') <= Spent(c)'
  BY JobsPaid
<1>2. fired'.phase \in {"none", "import", "legacy"} => fired'.previous = 0
  BY FiredSteps DEF MediaInv, SpendFits
<1>3. /\ harm.unfiled \in Nat /\ harm'.unfiled \in Nat /\ harm'.unfiled >= harm.unfiled
  BY UnfiledGrows DEF MediaInv, MediaTyped, TypedWorld, Bounds
<1>7. Attempts \in Nat /\ 0 < Attempts
  BY MediaAssumption
<1>4. stage'.step \in {"fire chunks", "file chunks"} => FiredChunks' < Attempts
  <2> SUFFICES ASSUME stage'.step \in {"fire chunks", "file chunks"} PROVE FiredChunks' < Attempts
    OBVIOUS
  <2>0. fired.previous \in Nat /\ media.source \in {"capture", "drive", "legacy"}
    BY DEF MediaInv, MediaTyped, TypedRecords, TypedWorld
  <2>1. Attempts \in Nat /\ 0 < Attempts
    BY <1>7
  <2>2. fired.phase \in {"none", "import", "legacy"} => fired.previous = 0
    BY DEF MediaInv, SpendFits
  <2>3. fired' = fired
    <3>1. ASSUME FileChunks PROVE FALSE
      <4>1. Onto(Onward) /\ Onward \in {"normalize", "transcribe"}
        BY <3>1 DEF FileChunks, Onward
      <4> QED
        BY <1>0, <4>1
    <3>2. ASSUME FileImport PROVE FALSE
      <4>1. Onto("normalize")
        BY <3>2 DEF FileImport
      <4> QED
        BY <1>0, <4>1
    <3>3. ASSUME CompleteReceipt PROVE FALSE
      <4>1. Onto("provenance") \/ Onto("transcribe")
        BY <3>3 DEF CompleteReceipt
      <4> QED
        BY <1>0, <4>1
    <3> QED
      BY <3>1, <3>2, <3>3, WhoWrites
  <2>4. FiredChunks' = FiredChunks /\ FiredChunks \in Nat
    BY <2>3, FiredCounted
  <2>5. CASE stage.step \in {"fire chunks", "file chunks"}
    BY <2>4, <2>5 DEF MediaInv, SpendFits
  <2>6. CASE FireChunks
    BY <2>4, <2>6 DEF FireChunks, At, MediaInv, SpendFits
  <2>7. CASE ListChunks /\ fired.previous + 1 < Attempts
    <3>1. FiredChunks \in {0, fired.previous, fired.previous + 1}
      BY DEF FiredChunks
    <3>2. FiredChunks < Attempts
      BY <1>7, <2>0, <2>7, <3>1, Below
    <3> QED
      BY <2>4, <3>2
  <2>8. CASE PollImport /\ fired.phase # "chunks"
    <3>1. fired.phase = "import" /\ media.source = "drive"
      BY <2>8 DEF PollImport, At, MediaInv, StageFits
    <3>2. FiredChunks = 0
      BY <2>2, <3>1 DEF FiredChunks
    <3> QED
      BY <2>1, <2>4, <3>2
  <2>9. CASE Poll /\ fired.phase = "legacy"
    <3>1. media.source # "capture"
      BY <2>9 DEF MediaInv, ReceiptsFit
    <3>2. FiredChunks = 0
      BY <2>2, <2>9, <3>1 DEF FiredChunks
    <3> QED
      BY <2>1, <2>4, <3>2
  <2>10. CASE Form /\ fired.phase = "none"
    <3>1. FiredChunks = 0
      BY <2>10 DEF FiredChunks
    <3> QED
      BY <2>1, <2>4, <3>1
  <2>11. UNCHANGED stage => stage.step \in {"fire chunks", "file chunks"}
    OBVIOUS
  <2> QED
    BY <2>5, <2>6, <2>7, <2>8, <2>9, <2>10, <2>11, StageReached DEF Reached
<1>5. Cardinality(ChunkJobs)' <= FiredChunks' + Filing' + harm'.unfiled
  <2>1. Cardinality(ChunkJobs) <= FiredChunks + Filing + harm.unfiled
    BY DEF MediaInv, SpendFits
  <2>2. /\ Cardinality(ChunkJobs) \in Nat /\ Cardinality(ChunkJobs') \in Nat
        /\ FiredChunks \in Nat /\ FiredChunks' \in Nat /\ FiredChunks <= FiredChunks'
    BY ChunkJobsCounted, FiredCounted
  <2>3. Filing \in {0, 1} /\ Filing' \in {0, 1}
    BY DEF Filing
  <2>4. \/ /\ Cardinality(ChunkJobs') <= Cardinality(ChunkJobs)
           /\ Filing = 0 \/ Filing' = 1 \/ FiredChunks' = FiredChunks + 1
              \/ harm'.unfiled = harm.unfiled + 1
        \/ /\ Cardinality(ChunkJobs') <= Cardinality(ChunkJobs) + 1
           /\ Filing = 0 /\ (Filing' = 1 \/ harm'.unfiled = harm.unfiled + 1)
    <3>1. CASE At("fire chunks") /\ FireChunks
      <4>1. stage'.step = "file chunks" /\ stage.step # "file chunks"
        BY <3>1 DEF FireChunks, Create, Hold, At
      <4>2. Filing = 0 /\ Filing' = 1
        BY <4>1 DEF Filing
      <4> QED
        BY <4>2, ChunkJobsCounted
    <3>2. CASE At("fire chunks") /\ Unanswered
      <4>1. harm'.unfiled = harm.unfiled + 1 /\ stage.step # "file chunks"
        BY <3>2, UnfiledGrows DEF At, MediaInv, MediaTyped
      <4>2. Filing = 0
        BY <4>1 DEF Filing
      <4> QED
        BY <4>1, <4>2, ChunkJobsCounted
    <3>3. CASE Cardinality(ChunkJobs') <= Cardinality(ChunkJobs)
      <4>1. CASE stage.step # "file chunks"
        BY <3>3, <4>1 DEF Filing
      <4>2. CASE stage.step = "file chunks" /\ UNCHANGED stage
        <5>1. Filing' = 1
          BY <4>2 DEF Filing
        <5> QED
          BY <3>3, <5>1
      <4>3. CASE stage.step = "file chunks" /\ PassOn
        <5>1. FileChunks
          BY <4>3 DEF PassOn, TransloaditStep, FireChunks, ListChunks,
              CompleteReceipt, DriveStep, LookAtDrive, Import, FileImport, PollImport, FileProvenance,
              FileReceipt, NormalizeStep, Probe, ProbeUnread, Recall, Form, PointAtOriginal, Poll,
              Transcode, Ensure, TranscribeStep, Transcribe, Submit, Record, Collect, At
        <5>2. FiredChunks' = FiredChunks + 1
          BY <5>1, FiredCounted
        <5> QED
          BY <3>3, <5>2
      <4>4. CASE stage.step = "file chunks" /\ Upsets
        <5>1. ~Unanswered
          BY <4>4 DEF Unanswered, At
        <5>2. InHand = 1
          BY <4>4 DEF InHand
        <5>3. harm'.unfiled = harm.unfiled + 1
          BY <4>4, <5>1, <5>2, UnfiledGrows DEF Upsets, MediaInv, MediaTyped
        <5> QED
          BY <3>3, <5>3
      <4> QED
        BY <4>1, <4>2, <4>3, <4>4, WhoWrites
    <3> QED
      BY <3>1, <3>2, <3>3, ChunkJobsCounted
  <2> QED
    BY <1>3, <2>1, <2>2, <2>3, <2>4, Balance
<1>6. FiredChunks' <= Attempts
  BY FiredCounted
<1> QED
  BY <1>1, <1>2, <1>4, <1>5, <1>6 DEF SpendFits

-----------------------------------------------------------------------------
(* A transcript is whole. *)

\* What a sequence holds.
LEMMA Items ==
  ASSUME NEW S, NEW s \in Seq(S)
  PROVE  \A k \in DOMAIN s : s[k] \in S
OBVIOUS

\* The spans of the recording.
LEMMA TwoSpans == Span = {"chunk 0", "chunk 1"}
<1>1. DOMAIN Spans = {1, 2} /\ Spans[1] = "chunk 0" /\ Spans[2] = "chunk 1"
  BY DEF Spans
<1> HIDE DEF Spans
<1> QED
  BY <1>1 DEF Span

\* The types of the vendors' entries, one by one.
LEMMA ItsTypes ==
  ASSUME TypedVendors
  PROVE  /\ \A j \in DOMAIN assembled :
              /\ assembled[j] \in Assembly
              /\ assembled[j].for \in {"original", "chunks"}
              /\ [assembled EXCEPT ![j].end = "completed"][j].end = "completed"
         /\ \A j \in DOMAIN accepted :
              accepted[j].end \in {"running", "completed", "silent", "failed"}
<1>0. assembled \in Seq(Assembly) /\ accepted \in Seq(Transcription)
  BY DEF TypedVendors, Assembly, Transcription
<1>1. \A j \in DOMAIN assembled : assembled[j] \in Assembly
  BY <1>0, Items
<1>2. \A j \in DOMAIN accepted : accepted[j] \in Transcription
  BY <1>0, Items
<1>3. ASSUME NEW j \in DOMAIN assembled
      PROVE  [assembled EXCEPT ![j].end = "completed"][j].end = "completed"
  BY <1>1 DEF TypedVendors, Assembly
<1> QED
  BY <1>1, <1>2, <1>3 DEF Assembly, Transcription

\* A chunk that is gone stays gone while the capture is settled, but for a
\* second assembly.
LEMMA StillMissing ==
  ASSUME MediaInv, MediaNext, "transcribe" \in impossible, "transcribe" \in impossible',
         NEW i \in DOMAIN manifest, NEW o \in Object, o = manifest[i], Missing(o)
  PROVE  Missing(o)' \/ CameBack(o)'
<1>1. /\ TypedWorld /\ TypedVendors /\ TypedRecords
      /\ kept[o] = {} /\ \E s \in Store : <<o, s>> \in lost
      /\ manifest # <<>> /\ o # "stray"
  <2>1. manifest # <<>>
    BY DEF MediaInv, JobsFit
  <2>2. o # "stray"
    <3>1. manifest = Spans \/ manifest = <<"original">>
      BY <2>1 DEF MediaInv, MediaTyped, TypedRecords, Target
    <3> QED
      BY <3>1, ManifestObjects DEF MediaInv, MediaTyped
  <2> QED
    BY <2>1, <2>2 DEF MediaInv, MediaTyped, Missing
<1>2. (\E s \in Store : <<o, s>> \in lost)'
  BY <1>1, StoresChange DEF MediaInv
<1>3. CASE UNCHANGED kept
  BY <1>1, <1>2, <1>3 DEF Missing
<1>4. ASSUME Transcode PROVE FALSE
  BY <1>1, <1>4 DEF Transcode, At, MediaInv, AssembliesFit
<1>5. ASSUME Ensure, kept' # kept PROVE Missing(o)'
  <2>1. PICK x \in Object : Put(x, "bucket") /\ "local" \in kept[x]
    <3>1. PICK k \in DOMAIN manifest : Put(manifest[k], "bucket") /\ "local" \in kept[manifest[k]]
      BY <1>1, <1>5, EnsurePuts
    <3> QED
      BY <1>1, <3>1, ManifestObjects
  <2>2. x # o
    BY <1>1, <2>1
  <2>3. kept'[o] = kept[o]
    BY <1>1, <2>1, <2>2, PutStays DEF Store
  <2> QED
    BY <1>1, <1>2, <2>3 DEF Missing
<1>6. ASSUME Archived PROVE Missing(o)'
  <2>1. o # "original" /\ Put("original", "bucket")
    BY <1>1, <1>6 DEF Archived
  <2>2. kept'[o] = kept[o]
    BY <1>1, <2>1, PutStays DEF Store, Object
  <2> QED
    BY <1>1, <1>2, <2>2 DEF Missing
<1>7. ASSUME BlobLands PROVE Missing(o)'
  <2>1. media.blob = "absent" /\ Put("original", "local")
    BY <1>7 DEF BlobLands
  <2>2. manifest = Spans
    BY <1>1, <2>1 DEF MediaInv, AllBacked, TypedRecords, Target
  <2>3. o # "original"
    BY <1>1, <2>2, ManifestObjects
  <2>4. kept'[o] = kept[o]
    BY <1>1, <2>1, <2>3, PutStays DEF Store, Object
  <2> QED
    BY <1>1, <1>2, <2>4 DEF Missing
<1>8. ASSUME ChunkGoes PROVE Missing(o)'
  <2>1. kept'[o] = {}
    <3>1. PICK k \in DOMAIN manifest, s \in Store :
            kept' = [kept EXCEPT ![manifest[k]] = @ \ {s}]
      BY <1>1, <1>8, ManifestObjects DEF ChunkGoes, TypedWorld
    <3>2. kept'[o] \subseteq kept[o]
      BY <1>1, <3>1 DEF TypedWorld
    <3> QED
      BY <1>1, <3>2
  <2> QED
    BY <1>2, <2>1 DEF Missing
<1>9. ASSUME Restore PROVE FALSE
  BY <1>9 DEF Restore
<1>10. ASSUME NEW j \in DOMAIN assembled, AssemblyEnds(j)
       PROVE  Missing(o)' \/ CameBack(o)'
  <2>1. assembled[j].end = "running"
    BY <1>10 DEF AssemblyEnds
  <2>2. CASE kept'[o] = {}
    BY <1>2, <2>2 DEF Missing
  <2>3. CASE kept'[o] # {}
    <3>1. assembled[j].for = "chunks"
      <4> SUFFICES ASSUME assembled[j].for # "chunks" PROVE FALSE
        OBVIOUS
      <4>1. assembled[j].for = "original"
        BY <1>1, ItsTypes
      <4>2. kept'[o] = kept[o] \/ o = "original"
        BY <4>1, <1>10, <1>1 DEF AssemblyEnds, TypedWorld
      <4>3. media.source = "drive"
        BY <2>1, <4>1 DEF MediaInv, AssembliesFit
      <4>4. manifest = Spans
        BY <1>1, <4>3 DEF TypedRecords, Target
      <4>5. o # "original"
        BY <1>1, <4>4, ManifestObjects
      <4> QED
        BY <1>1, <2>3, <4>2, <4>5
    <3>2. ~ByFfmpeg
      BY <3>1 DEF MediaInv, AssembliesFit
    <3>3. assembled' = [assembled EXCEPT ![j].end = "completed"]
          /\ (kept'[o] # kept[o] => o \in Span)
      <4>1. o \notin {"stray"}
        BY <1>1
      <4>2. CASE UNCHANGED kept
        BY <1>1, <2>3, <4>2
      <4>3. CASE assembled' = [assembled EXCEPT ![j].end = "completed"]
        <5>1. CASE kept' = [x \in Object |->
                     IF x \in IF assembled[j].for = "chunks" THEN Span ELSE {"original"}
                     THEN kept[x] \cup {"bucket"} ELSE kept[x]]
          BY <3>1, <4>3, <5>1
        <5>2. CASE Put("chunk 0", "bucket") \/ Put("stray", "bucket")
          <6>1. "bucket" \in Store /\ "chunk 0" \in Object /\ "stray" \in Object /\ "chunk 0" \in Span
            BY TwoSpans DEF Store, Object
          <6>2. kept'[o] = kept[o] \/ o = "chunk 0" \/ o = "stray"
            BY <1>1, <5>2, <6>1, PutStays
          <6> QED
            BY <4>1, <4>3, <6>1, <6>2
        <5> QED
          BY <1>10, <4>2, <4>3, <5>1, <5>2 DEF AssemblyEnds
      <4> QED
        BY <1>10, <4>2, <4>3 DEF AssemblyEnds
    <3>4. o \in Span
      BY <1>1, <2>3, <3>3
    <3>5. manifest = Spans
      <4>1. manifest # <<"original">>
        <5>1. o # "original"
          BY <3>4, TwoSpans
        <5> QED
          BY <1>1, <5>1, ManifestObjects
      <4> QED
        BY <1>1, <4>1 DEF TypedRecords, Target
    <3>6. PICK k \in DOMAIN assembled : assembled[k].for = "chunks" /\ assembled[k].end = "completed"
      BY <3>2, <3>5 DEF MediaInv, AssembliesFit, ChunksMade
    <3>7. /\ k # j /\ j \in DOMAIN assembled' /\ k \in DOMAIN assembled'
          /\ assembled'[k].for = "chunks" /\ assembled'[k].end = "completed"
          /\ assembled'[j].for = "chunks"
      BY <1>1, <2>1, <3>1, <3>6, AssembledChanges
    <3>8. assembled'[j].end = "completed"
      BY <1>1, <3>3, ItsTypes
    <3> QED
      BY <1>2, <3>7, <3>8 DEF CameBack
  <2> QED
    BY <2>2, <2>3
<1> QED
  BY <1>3, <1>4, <1>5, <1>6, <1>7, <1>8, <1>9, <1>10, WhoWrites

\* A chunk that came back did.
LEMMA StillBack ==
  ASSUME MediaInv, MediaNext, NEW o \in Object, CameBack(o)
  PROVE  CameBack(o)'
<1>1. (\E s \in Store : <<o, s>> \in lost)'
  BY StoresChange DEF CameBack, MediaInv, MediaTyped
<1>2. PICK j, k \in DOMAIN assembled :
        /\ j # k
        /\ \A n \in {j, k} : assembled[n].for = "chunks" /\ assembled[n].end = "completed"
  BY DEF CameBack
<1>3. /\ j \in DOMAIN assembled' /\ k \in DOMAIN assembled'
      /\ \A n \in {j, k} : assembled'[n].for = "chunks" /\ assembled'[n].end = "completed"
  BY <1>2, AssembledChanges DEF MediaInv, MediaTyped
<1> QED
  BY <1>1, <1>2, <1>3 DEF CameBack

\* What a settled capture is settled by.
Settled ==
  \/ \E i \in DOMAIN manifest : Missing(manifest[i]) \/ CameBack(manifest[i])
  \/ /\ Len(bought) = Len(manifest)
     /\ \A i \in DOMAIN bought : accepted[bought[i]].end \in {"failed", "silent"}

Whole ==
  /\ Len(bought) = Len(manifest)
  /\ \A i \in DOMAIN bought :
       /\ accepted[bought[i]].end # "running"
       /\ accepted[bought[i]].chunk = manifest[i]
       /\ manifest[i] \in transcript.chunks <=> accepted[bought[i]].end = "completed"

\* A settled capture stays settled for its reason.
LEMMA SettledStays ==
  ASSUME MediaInv, MediaNext, "transcribe" \in impossible', Settled \/ "transcribe" \notin impossible
  PROVE  Settled'
<1>1. CASE "transcribe" \in impossible
  <2>1. manifest' = manifest /\ bought' = bought
    <3>1. manifest # <<>> /\ ~Record
      BY <1>1 DEF MediaInv, JobsFit, Record, At
    <3> QED
      BY <3>1, ManifestLasts, JobsLast
  <2>2. CASE \E i \in DOMAIN manifest : Missing(manifest[i]) \/ CameBack(manifest[i])
    <3>1. PICK i \in DOMAIN manifest : Missing(manifest[i]) \/ CameBack(manifest[i])
      BY <2>2
    <3>2. manifest[i] \in Object
      BY ManifestObjects DEF MediaInv, MediaTyped
    <3>3. PICK o \in Object : o = manifest[i]
      BY <3>2
    <3>4. Missing(o)' \/ CameBack(o)'
      BY <1>1, <3>1, <3>3, StillMissing, StillBack
    <3>5. i \in DOMAIN manifest' /\ o = manifest'[i]
      BY <2>1, <3>3
    <3> QED
      BY <3>4, <3>5 DEF Settled
  <2>3. CASE /\ Len(bought) = Len(manifest)
             /\ \A i \in DOMAIN bought : accepted[bought[i]].end \in {"failed", "silent"}
    BY <2>1, <2>3, JobsLast DEF Settled
  <2> QED
    BY <1>1, <2>2, <2>3 DEF Settled
<1>2. CASE "transcribe" \notin impossible
  <2>1. Submit \/ Collect
    BY <1>2, WhoWrites DEF Ensure, Restore
  <2>2. CASE Submit
    <3>1. kept[Wanted] \cap {"bucket", "local"} = {} /\ UNCHANGED <<kept, manifest, bought, lost>>
      BY <1>2, <2>2 DEF Submit, InBucket, world
    <3>2. /\ stage.step = "submit" /\ Len(bought) + 1 \in DOMAIN manifest
          /\ Wanted = manifest[Len(bought) + 1]
      BY <2>2, JobsLast DEF Submit, At, MediaInv, JobsFit, Wanted
    <3>3. Wanted \in Object
      BY <3>2, ManifestObjects DEF MediaInv, MediaTyped
    <3>4. kept[Wanted] = {}
      BY <3>1, <3>3 DEF MediaInv, MediaTyped, TypedWorld, Store
    <3>5. \E s \in Store : <<Wanted, s>> \in lost
      BY <3>2, <3>4 DEF MediaInv, AllBacked, Backed
    <3>6. Missing(manifest[Len(bought) + 1])
      BY <3>2, <3>4, <3>5 DEF Missing
    <3>7. (\E i \in DOMAIN manifest : Missing(manifest[i]))'
      BY <3>1, <3>2, <3>6 DEF Missing
    <3> QED
      BY <3>7 DEF Settled
  <2>3. CASE Collect
    <3>1. /\ Ended("running") = {} /\ Ended("completed") = {}
          /\ UNCHANGED <<manifest, bought, accepted>> /\ stage.step = "collect"
      BY <1>2, <2>3 DEF Collect, At
    <3>2. Len(bought) = Len(manifest)
      BY <3>1 DEF MediaInv, JobsFit
    <3>3. \A i \in DOMAIN bought : bought[i] \in DOMAIN accepted
      BY DEF MediaInv, JobsFit
    <3>4. \A i \in DOMAIN bought : accepted[bought[i]].end \in {"failed", "silent"}
      BY <3>1, <3>3, ItsTypes DEF Ended, MediaInv, MediaTyped
    <3> QED
      BY <3>1, <3>2, <3>4 DEF Settled
  <2> QED
    BY <2>1, <2>2, <2>3
<1> QED
  BY <1>1, <1>2

\* A finished transcript stays whole.
LEMMA WholeStays ==
  ASSUME MediaInv, MediaNext, transcript'.status = "completed",
         Whole \/ transcript.status # "completed"
  PROVE  Whole'
<1>1. CASE transcript' = transcript
  <2>1. manifest' = manifest /\ bought' = bought
    <3>1. manifest # <<>> /\ ~Record
      BY <1>1 DEF MediaInv, JobsFit, Record, At
    <3> QED
      BY <3>1, ManifestLasts, JobsLast
  <2> QED
    BY <1>1, <2>1, JobsLast DEF Whole
<1>2. CASE transcript' # transcript
  <2>1. Collect
    BY <1>2, WhoWrites DEF Transcribe, NoTranscript
  <2>2. /\ Ended("running") = {} /\ stage.step = "collect"
        /\ UNCHANGED <<manifest, bought, accepted>>
        /\ transcript'.chunks = {manifest[i] : i \in Ended("completed")}
    BY <1>2, <2>1 DEF Collect, At
  <2>3. /\ Len(bought) = Len(manifest)
        /\ \A i \in DOMAIN bought : accepted[bought[i]].chunk = manifest[i]
    BY <2>2 DEF MediaInv, JobsFit
  <2>4. \A i \in DOMAIN bought : accepted[bought[i]].end # "running"
    BY <2>2 DEF Ended
  <2>5. ASSUME NEW i \in DOMAIN bought
        PROVE  manifest[i] \in transcript'.chunks <=> accepted[bought[i]].end = "completed"
    BY <2>2, <2>5, ManifestObjects, JobsLast DEF Ended, MediaInv, MediaTyped
  <2> QED
    BY <2>2, <2>3, <2>4, <2>5 DEF Whole
<1> QED
  BY <1>1, <1>2

\* Both halves of TranscriptIsWhole.
LEMMA TranscriptIsWholeStep ==
  ASSUME MediaInv, MediaNext
  PROVE  TranscriptIsWhole'
BY SettledStays, WholeStays DEF MediaInv, TranscriptIsWhole, Settled, Whole

-----------------------------------------------------------------------------
(* The theorems. *)

\* Every scene starts in the invariant.
LEMMA MediaInvAtStart ==
  ASSUME NEW s \in MediaScenes, MediaStart(s)
  PROVE  MediaInv
<1>1. /\ lost = {} /\ verdict = "unasked" /\ manifest = <<>> /\ impossible = {}
      /\ accepted = <<>> /\ bought = <<>> /\ acquired = {}
      /\ transcript.status \in {"none", "error"} /\ transcript.chunks = {}
      /\ transcript \in [status : {"none", "error", "completed"}, chunks : SUBSET Object]
      /\ stage.step = "look" /\ stage \in [step : Step, job : Nat]
  BY DEF MediaStart, NoTranscript, Step
<1>2. TypedWorld
  <2>1. media = s.media /\ harm = s.harm
    BY DEF MediaStart
  <2>2. kept \in [Object -> SUBSET Store]
    BY DEF MediaStart, Store
  <2> QED
    BY <1>1, <2>1, <2>2, MediaScenesAssumption DEF TypedWorld
<1>3. /\ assembled \in Seq(Assembly)
      /\ \A j \in DOMAIN assembled : assembled[j].for = "original" /\ assembled[j].end = "completed"
  <2>1. CASE assembled = <<>>
    BY <2>1
  <2>2. CASE assembled = <<[for |-> "original", end |-> "completed"]>>
    BY <2>2 DEF Assembly
  <2> QED
    BY <2>1, <2>2 DEF MediaStart
<1>4. /\ fired.phase = IF media.source = "legacy" THEN "legacy" ELSE "none"
      /\ fired.previous = 0 /\ fired \in [phase : Phase, job : Nat, previous : Nat]
  BY DEF MediaStart, NoReceipt, Phase
<1>5. MediaTyped
  <2>1. TypedVendors
    BY <1>1, <1>3 DEF TypedVendors, Assembly, Transcription
  <2>2. TypedRecords
    BY <1>1, <1>4 DEF TypedRecords
  <2> QED
    BY <1>1, <1>2, <2>1, <2>2 DEF MediaTyped, TypedStage
<1>6. StageFits
  BY <1>1 DEF StageFits, Assembling
<1>7. ReceiptsFit
  <2>1. media.source \in {"capture", "drive", "legacy"}
    BY <1>2 DEF TypedWorld
  <2> QED
    BY <1>1, <1>4, <2>1 DEF ReceiptsFit, Assembling
<1>8. AllBacked
  <2>1. media.source # "drive" /\ media.blob # "absent" => Backed("original")
    <3>1. media = s.media /\ media.blob \in {"disk", "url", "absent"}
      BY <1>2 DEF MediaStart, TypedWorld
    <3>2. media.blob # "absent" => kept["original"] # {}
      BY <3>1 DEF MediaStart, Object
    <3> QED
      BY <3>2 DEF Backed
  <2> QED
    BY <1>1, <2>1 DEF AllBacked
<1>9. AssembliesFit
  <2>1. fired.phase \in {"none", "legacy"}
    BY <1>4
  <2>2. manifest # Spans
    BY <1>1 DEF Spans
  <2> QED
    BY <1>1, <1>3, <2>1, <2>2 DEF AssembliesFit, Assembling
<1>10. JobsFit
  BY <1>1 DEF JobsFit
<1>11. SpendFits
  <2>1. harm.unfiled \in Nat /\ Attempts \in Nat
    BY <1>2, MediaAssumption DEF TypedWorld
  <2>2. ChunkJobs = {} /\ \A c \in Object : JobsOf(c) = {}
    BY <1>1, <1>3 DEF ChunkJobs, JobsOf
  <2>3. Cardinality({}) = 0
    BY FS_EmptySet
  <2>4. FiredChunks = 0 /\ Filing = 0
    BY <1>1, <1>2, <1>4 DEF FiredChunks, Filing, TypedWorld
  <2>5. \A c \in Object : ~IsBought(c) /\ ~InHandFor(c)
    BY <1>1 DEF IsBought, InHandFor
  <2>6. \A c \in Object : Cardinality(JobsOf(c)) <= Spent(c)
    BY <2>1, <2>2, <2>3, <2>5 DEF Spent
  <2>7. Cardinality(ChunkJobs) <= FiredChunks + Filing + harm.unfiled
    BY <2>1, <2>2, <2>3, <2>4
  <2>8. FiredChunks <= Attempts
    BY <2>1, <2>4
  <2>9. stage.step \notin {"fire chunks", "file chunks"} /\ fired.previous = 0
    BY <1>1, <1>4
  <2> QED
    BY <2>6, <2>7, <2>8, <2>9 DEF SpendFits
<1>12. TranscriptIsWhole
  BY <1>1 DEF TranscriptIsWhole
<1> QED
  BY <1>5, <1>6, <1>7, <1>8, <1>9, <1>10, <1>11, <1>12 DEF MediaInv

\* Every step keeps the invariant.
LEMMA MediaInvStep ==
  ASSUME MediaInv, [MediaNext]_mediaVars
  PROVE  MediaInv'
<1>1. CASE MediaNext
  <2>1. TypedWorld /\ TypedRecords /\ MediaTyped /\ StageFits /\ JobsFit
    BY DEF MediaInv, MediaTyped
  <2>2. MediaTyped'
    BY <1>1, <2>1, TypedWorldStep, TypedVendorsStep, TypedRecordsStep, TypedStageStep
       DEF MediaTyped
  <2> QED
    BY <1>1, <2>2, StageFitsStep, ReceiptsFitStep, AllBackedStep, AssembliesFitStep,
       JobsFitStep, SpendFitsStep, TranscriptIsWholeStep DEF MediaInv
<1>2. CASE UNCHANGED mediaVars
  <2> USE <1>2 DEF mediaVars
  <2>1. Target' = Target /\ ByFfmpeg' = ByFfmpeg /\ ChunksMade' = ChunksMade
    BY DEF Target, ByFfmpeg, ChunksMade
  <2>2. MediaTyped'
    BY <2>1 DEF MediaInv, MediaTyped, TypedWorld, TypedVendors, TypedRecords, TypedStage
  <2>3. StageFits'
    BY <2>1 DEF MediaInv, StageFits
  <2>4. ReceiptsFit'
    BY DEF MediaInv, ReceiptsFit, InBucket
  <2>5. AllBacked'
    BY <2>1 DEF MediaInv, AllBacked, Backed
  <2>6. AssembliesFit'
    BY <2>1 DEF MediaInv, AssembliesFit
  <2>7. JobsFit'
    BY DEF MediaInv, JobsFit
  <2>8. /\ \A c \in Object : JobsOf(c)' = JobsOf(c) /\ Spent(c)' = Spent(c)
        /\ ChunkJobs' = ChunkJobs /\ FiredChunks' = FiredChunks /\ Filing' = Filing
    BY DEF JobsOf, Spent, IsBought, InHandFor, ChunkJobs, FiredChunks, Filing
  <2>9. SpendFits'
    BY <2>8 DEF MediaInv, SpendFits
  <2>10. TranscriptIsWhole'
    <3>1. Settled' = Settled /\ Whole' = Whole
      BY DEF Settled, Whole, Missing, CameBack
    <3>2. /\ transcript.status = "completed" => Whole
          /\ "transcribe" \in impossible => Settled
      BY DEF MediaInv, TranscriptIsWhole, Settled, Whole
    <3>3. /\ transcript'.status = "completed" => Whole'
          /\ "transcribe" \in impossible' => Settled'
      BY <3>1, <3>2
    <3> QED
      BY <3>3 DEF TranscriptIsWhole, Settled, Whole
  <2> QED
    BY <2>2, <2>3, <2>4, <2>5, <2>6, <2>7, <2>9, <2>10 DEF MediaInv
<1> QED
  BY <1>1, <1>2

\* Backed chunks are what MediaIsBacked asks for.
LEMMA InvGivesBacked ==
  ASSUME MediaInv
  PROVE  MediaIsBacked
<1>1. \A i \in DOMAIN manifest : kept[manifest[i]] # {} \/ Missing(manifest[i])
  BY DEF MediaInv, AllBacked, Backed, Missing
<1> QED
  BY <1>1 DEF MediaIsBacked, MediaInv, ReceiptsFit

\* A job is never on record and in hand for one chunk, so both accounts stay
\* within the limits.
LEMMA InvGivesSpend ==
  ASSUME MediaInv
  PROVE  ServerSpend
<1>1. /\ harm.unfiled \in Nat /\ Attempts \in Nat
  BY MediaAssumption DEF MediaInv, MediaTyped, TypedWorld
<1>2. ASSUME NEW c \in Object
      PROVE  Cardinality(JobsOf(c)) <= 1 + harm.unfiled
  <2>1. Cardinality(JobsOf(c)) \in Nat /\ Cardinality(JobsOf(c)) <= Spent(c)
    <3>1. DOMAIN accepted = 1..Len(accepted) /\ Len(accepted) \in Nat
      BY DEF MediaInv, MediaTyped, TypedVendors
    <3>2. IsFiniteSet(DOMAIN accepted)
      BY <3>1, FS_Interval
    <3>3. JobsOf(c) \subseteq DOMAIN accepted
      BY DEF JobsOf
    <3>4. Cardinality(JobsOf(c)) \in Nat
      BY <3>2, <3>3, FS_Subset, FS_CardinalityType
    <3> QED
      BY <3>4 DEF MediaInv, SpendFits
  <2>2. ~(IsBought(c) /\ InHandFor(c))
    <3> SUFFICES ASSUME IsBought(c), InHandFor(c) PROVE FALSE
      OBVIOUS
    <3>1. PICK i \in DOMAIN bought : manifest[i] = c
      BY DEF IsBought
    <3>2. manifest[Len(bought) + 1] = c /\ Len(bought) < Len(manifest)
      BY DEF InHandFor, MediaInv, JobsFit
    <3>3. /\ DOMAIN bought = 1..Len(bought) /\ DOMAIN manifest = 1..Len(manifest)
          /\ Len(bought) \in Nat /\ Len(manifest) \in Nat
      <4>1. bought \in Seq(Nat) /\ TypedRecords
        BY DEF MediaInv, MediaTyped, TypedRecords
      <4>2. DOMAIN bought = 1..Len(bought) /\ Len(bought) \in Nat
        BY <4>1
      <4>3. DOMAIN manifest = 1..Len(manifest) /\ Len(manifest) \in Nat
        BY <4>1, ManifestObjects
      <4> QED
        BY <4>2, <4>3
    <3>4. i \in DOMAIN manifest /\ Len(bought) + 1 \in DOMAIN manifest /\ i # Len(bought) + 1
      BY <3>1, <3>2, <3>3
    <3> QED
      BY <3>1, <3>2, <3>4, ManifestObjects DEF MediaInv, MediaTyped
  <2> QED
    BY <1>1, <2>1, <2>2 DEF Spent
<1>3. Cardinality(ChunkJobs) <= Attempts + harm.unfiled
  <2>1. Cardinality(ChunkJobs) \in Nat
    <3>1. DOMAIN assembled = 1..Len(assembled) /\ Len(assembled) \in Nat
      BY DEF MediaInv, MediaTyped, TypedVendors
    <3>2. IsFiniteSet(DOMAIN assembled)
      BY <3>1, FS_Interval
    <3>3. ChunkJobs \subseteq DOMAIN assembled
      BY DEF ChunkJobs
    <3> QED
      BY <3>2, <3>3, FS_Subset, FS_CardinalityType
  <2>2. FiredChunks \in Nat
    BY DEF FiredChunks, MediaInv, MediaTyped, TypedRecords
  <2>3. /\ Cardinality(ChunkJobs) <= FiredChunks + Filing + harm.unfiled
        /\ FiredChunks <= Attempts
        /\ Filing = 1 => FiredChunks < Attempts
        /\ Filing \in {0, 1}
    <3>1. Filing \in {0, 1} /\ (Filing = 1 => stage.step = "file chunks")
      <4>1. CASE stage.step = "file chunks"
        BY <4>1 DEF Filing
      <4>2. CASE stage.step # "file chunks"
        <5>1. Filing = 0
          BY <4>2 DEF Filing
        <5> QED
          BY <5>1
      <4> QED
        BY <4>1, <4>2
    <3> QED
      BY <3>1 DEF MediaInv, SpendFits
  <2> QED
    BY <1>1, <2>1, <2>2, <2>3, Total
<1> QED
  BY <1>2, <1>3 DEF ServerSpend, JobsOf, ChunkJobs

LEMMA MediaKeeps == MediaSpec => []MediaInv
<1>1. (\E s \in MediaScenes : MediaStart(s)) => MediaInv
  BY MediaInvAtStart
<1>2. MediaInv /\ [MediaNext]_mediaVars => MediaInv'
  BY MediaInvStep
<1> QED
  BY <1>1, <1>2, PTL DEF MediaSpec

\* Whatever fails, dies, is refused or lost, and in whatever order the vendors
\* end what they accepted: the manifest's chunks were stored, a completed
\* receipt has its manifest and a Drive file's receipt its provenance; a
\* transcript is of every chunk that was transcribed and a settled capture has
\* its reason; and each chunk is bought, and the recording assembled, within
\* the bounds of Media.ts and TransloaditNormalize.ts.
THEOREM MediaStands == MediaSpec => []MediaIsSound
<1>1. MediaInv => MediaIsSound
  BY InvGivesBacked, InvGivesSpend DEF MediaIsSound, MediaInv
<1> QED
  BY <1>1, MediaKeeps, PTL
=============================================================================
