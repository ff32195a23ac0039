---------------------------- MODULE MediaVerdict ----------------------------
(***************************************************************************)
(* What a recording is, as media-normalize learns it                       *)
(* (cloudflare/src/normalize.ts): the verdict in the ffprobe record        *)
(* medina-dev stored, else one derived from the container's own bytes and  *)
(* kept in the notebook.  The verdict decides what NormalizeStage calls    *)
(* the capture's kind: its own bytes, chunks to pay for, or nothing.       *)
(*                                                                         *)
(* A blob is what its container walks can see: MP4 boxes in boxes, RIFF    *)
(* chunks, FLAC's counters, Ogg's last granule, and the `stream' an MPEG   *)
(* frame sync is looked for in.  One container's walk is one step; any     *)
(* read of it may fail.  Time is in hours, a stream item is an hour, and a *)
(* FLAC sample count is in hours too, over words of Word.                  *)
(***************************************************************************)
EXTENDS Integers, Sequences, FiniteSets

CONSTANTS
  Blob,        \* name -> the blob, and the recording its writer made it of
  Word,        \* 2^32, in hours of FLAC samples
  WindowSize,  \* 4096: how far a frame sync is looked for
  BoxLimit,    \* 64: boxes or chunks walked on one level
  MaxChunks,   \* 200: segments one assembly may be asked for
  ReadFaults   \* bound: reads and saves that fail

ASSUME VerdictAssumption ==
  /\ WindowSize \in Nat \ {0} /\ BoxLimit \in Nat \ {0} /\ MaxChunks \in Nat \ {0}
  /\ Word \in Nat \ {0} /\ Word % 2 = 0
  /\ ReadFaults \in Nat

VARIABLES
  mediaBlob,   \* which blob the capture has
  probed,      \* its ffprobe.json, or NoProbe
  verdicts,    \* the notebook's verdict, or Unread
  reading,     \* the pass at work on it
  told,        \* the last verdict resolved, and whether the report says it differs
  readFaults   \* failures left

verdictVars == <<mediaBlob, probed, verdicts, reading, told, readFaults>>

-----------------------------------------------------------------------------
(* Verdicts, and what they decide. *)

Unknown == -1
SixteenK == 16
DirectMax == 1    \* DIRECT_CHUNK_MAX_SECONDS
ChunkSpan == 4    \* CHUNK_SECONDS

AudioVerdict(codec, channels, rate, duration) ==
  [media |-> "yes", codec |-> codec, channels |-> channels, rate |-> rate,
   duration |-> duration]

NotMedia == [AudioVerdict("none", Unknown, Unknown, Unknown) EXCEPT !.media = "no"]
Unread == [NotMedia EXCEPT !.media = "unread"]

DirectChunk(v) ==
  /\ v.media = "yes"
  /\ v.codec \in {"opus", "aac"}
  /\ v.channels = 1 /\ v.rate = SixteenK
  /\ v.duration # Unknown /\ v.duration <= DirectMax

CeilSpans(d) == (d + ChunkSpan - 1) \div ChunkSpan

\* 0 where segmentsFor throws.
Segments(d) == IF d <= 0 \/ CeilSpans(d) > MaxChunks THEN 0 ELSE CeilSpans(d)

\* The kind NormalizeStage takes the capture for, and its chunks.
PlanOf(v) ==
  CASE v.media = "unread"     -> [kind |-> "opaque", chunks |-> 0]
    [] v.media = "no"         -> [kind |-> "image", chunks |-> 0]
    [] DirectChunk(v)         -> [kind |-> "direct", chunks |-> 1]
    [] v.duration = Unknown   -> [kind |-> "untimed", chunks |-> 0]
    [] Segments(v.duration) = 0 -> [kind |-> "unsized", chunks |-> 0]
    [] OTHER                  -> [kind |-> "long", chunks |-> Segments(v.duration)]

\* verdictsAgree, for two verdicts that were read.
Agree(v, w) ==
  /\ v.media = w.media
  /\ \/ v.media = "no"
     \/ DirectChunk(v) /\ DirectChunk(w)
     \/ /\ ~DirectChunk(v) /\ ~DirectChunk(w)
        /\ IF Unknown \in {v.duration, w.duration} THEN v.duration = w.duration
           ELSE CeilSpans(v.duration) = CeilSpans(w.duration)

\* verdictFromStoredProbe: an older record does not say whether it is media.
NoProbe == [says |-> "nothing", audio |-> Unread]

VerdictOf(record) ==
  IF record = NoProbe THEN Unread
  ELSE [record.audio EXCEPT
          !.media = IF \/ record.says = "yes"
                       \/ record.says = "absent" /\ record.audio.codec # "none"
                    THEN "yes" ELSE "no",
          !.rate = IF @ = 0 THEN Unknown ELSE @,
          !.duration = IF @ > 0 THEN @ ELSE Unknown]

-----------------------------------------------------------------------------
(* MP4: boxes in boxes. *)

Box(type, body) == [type |-> type, size |-> "fits", body |-> body]
NoBox == Box("none", << >>)

\* listBoxes gets to a box past at most BoxLimit - 1 others, none of them
\* malformed or running to the end.
Walked(boxes, i) ==
  /\ i <= BoxLimit
  /\ \A j \in 1 .. i : boxes[j].size # "broken"
  /\ \A j \in 1 .. i - 1 : boxes[j].size # "rest"

Boxes(body) == SubSeq(body, 1, Cardinality({i \in DOMAIN body : Walked(body, i)}))

OfType(body, type) == SelectSeq(Boxes(body), LAMBDA x : x.type = type)

\* findChild: the first of its type.
Child(box, type) ==
  LET found == OfType(box.body, type) IN IF found = << >> THEN NoBox ELSE Head(found)

Handles(track, handler) ==
  LET hdlr == Child(Child(track, "mdia"), "hdlr")
  IN hdlr # NoBox /\ hdlr.body = <<handler>>

\* A track's sample table, where every level of it is there.
SampleEntry(track) ==
  LET stsd == Child(Child(Child(Child(track, "mdia"), "minf"), "stbl"), "stsd")
  IN IF stsd.body = << >> THEN << >> ELSE Head(stsd.body)

HasEntry(track) == SampleEntry(track) # << >>

\* parseStsd.
EntryVerdict(entry, duration) ==
  CASE entry[1] = "mp4a" -> AudioVerdict("aac", entry[2], entry[3], duration)
    [] entry[1] = "Opus" -> AudioVerdict("opus", entry[2], entry[3], duration)
    [] OTHER             -> AudioVerdict(entry[1], Unknown, Unknown, duration)

\* The movie header's duration, 0 in a fragmented file.
MovieDuration(moov) ==
  LET mvhd == Child(moov, "mvhd") IN IF mvhd.body = << >> THEN Unknown ELSE Head(mvhd.body)

\* deriveMp4Verdict: the first sound track with a sample entry.
Mp4Verdict(b) ==
  LET moov == Child(Box("file", b.boxes), "moov")
      sounds == SelectSeq(OfType(moov.body, "trak"), LAMBDA x : Handles(x, "soun"))
      entered == SelectSeq(sounds, HasEntry)
  IN IF b.magic # "ftyp" THEN Unread
     ELSE IF sounds = << >> THEN NotMedia
     ELSE IF entered = << >> THEN AudioVerdict("none", Unknown, Unknown, MovieDuration(moov))
     ELSE EntryVerdict(SampleEntry(Head(entered)), MovieDuration(moov))

-----------------------------------------------------------------------------
(* RIFF, FLAC, MPEG and Ogg. *)

LastOf(chunks, id) ==
  LET walked == SelectSeq(SubSeq(chunks, 1, IF Len(chunks) < BoxLimit THEN Len(chunks) ELSE BoxLimit),
                          LAMBDA x : x.id = id)
  IN IF walked = << >> THEN << >> ELSE <<walked[Len(walked)]>>

\* deriveWavVerdict: the last format and the last data chunk walked, wherever
\* they lie; the data's size is read and never its bytes.
WavVerdict(b) ==
  LET fmt == LastOf(b.chunks, "fmt ")
      data == LastOf(b.chunks, "data")
  IN IF b.magic # "RIFF" THEN Unread
     ELSE IF fmt = << >> THEN NotMedia
     ELSE AudioVerdict(fmt[1].codec, fmt[1].channels, fmt[1].rate,
                IF data = << >> THEN Unknown ELSE data[1].hours)

\* A word shifted into place with << is a signed one.
Signed(word) == IF word >= Word \div 2 THEN word - Word ELSE word

\* deriveFlacVerdict: 36 bits of samples, the high four times 2^32.
FlacVerdict(b) ==
  LET samples == (b.samples \div Word) * Word + Signed(b.samples % Word)
  IN IF b.magic # "fLaC" THEN Unread
     ELSE AudioVerdict("flac", b.channels, b.rate, IF samples > 0 THEN samples ELSE Unknown)

\* The window past the ID3 tag.
SyncWindow(b) ==
  LET last == IF b.tag + WindowSize < Len(b.stream) THEN b.tag + WindowSize ELSE Len(b.stream)
  IN SubSeq(b.stream, b.tag + 1, last)

\* deriveMp3Verdict: whatever looks like a frame's sync is one; its Xing tag
\* counts the frames, or else its bit rate stands for all.
Mp3Verdict(b) ==
  LET frames == SelectSeq(SyncWindow(b), LAMBDA x : x.sync)
      frame == Head(frames)
  IN IF frames = << >> \/ frame.rate = Unknown THEN Unread
     ELSE AudioVerdict("mp3", frame.channels, frame.rate,
                IF frame.xing # Unknown THEN frame.xing
                ELSE (Len(b.stream) - b.tag) \div frame.pace)

\* deriveOggOpusVerdict: the last page's granule less the pre-skip.
OggVerdict(b) ==
  IF b.magic # "OggS" \/ ~b.opus THEN Unread
  ELSE AudioVerdict("opus", b.channels, 48,
             IF b.granule - b.preskip > 0 THEN b.granule - b.preskip ELSE Unknown)

-----------------------------------------------------------------------------
(* One pass over the capture. *)

Order == <<"mp4", "wav", "flac", "mp3", "ogg">>

WalkOf(b, container) ==
  CASE container = "mp4"  -> Mp4Verdict(b)
    [] container = "wav"  -> WavVerdict(b)
    [] container = "flac" -> FlacVerdict(b)
    [] container = "mp3"  -> Mp3Verdict(b)
    [] container = "ogg"  -> OggVerdict(b)

NotReading == [at |-> "rest", next |-> 0, stored |-> Unread, cached |-> Unread, derived |-> Unread]

It == Blob[mediaBlob]
Keep(vs) == reading.at \in vs
Fault == readFaults > 0 /\ readFaults' = readFaults - 1

\* The notebook's verdicts, then gatherState; a text name is not media, unread.
OpenBlob ==
  /\ Keep({"rest"})
  /\ reading' = [NotReading EXCEPT !.at = IF It.text THEN "resolve" ELSE "walk", !.next = 1,
                               !.stored = VerdictOf(probed), !.cached = verdicts,
                               !.derived = IF It.text THEN NotMedia ELSE Unread]
  /\ UNCHANGED <<mediaBlob, probed, verdicts, told, readFaults>>

\* The containers in order, until one is recognised.
Walk ==
  /\ Keep({"walk"})
  /\ LET v == WalkOf(It, Order[reading.next])
         over == v # Unread \/ reading.next = Len(Order)
     IN reading' = [reading EXCEPT !.derived = v,
                      !.at = IF over THEN "resolve" ELSE "walk",
                      !.next = IF over THEN @ ELSE @ + 1]
  /\ UNCHANGED <<mediaBlob, probed, verdicts, told, readFaults>>

\* A read fails, or the pass dies: the first leaves no derivation.
ReadFails ==
  /\ Keep({"walk"})
  /\ Fault
  /\ reading' \in {NotReading, [reading EXCEPT !.at = "resolve", !.derived = Unread]}
  /\ UNCHANGED <<mediaBlob, probed, verdicts, told>>

\* Seeded fault: the notebook before the stored probe.
ResolvedCacheFirst(r) ==
  IF r.cached # Unread THEN r.cached
  ELSE IF r.stored # Unread THEN r.stored ELSE r.derived

\* resolveVerdict: the stored probe, the notebook, the derivation.
Resolved(r) ==
  IF r.stored # Unread THEN r.stored
  ELSE IF r.cached # Unread THEN r.cached ELSE r.derived

Differs(r) ==
  r.stored # Unread /\ r.derived # Unread /\ ~Agree(r.stored, r.derived)

\* The verdict, the report, and the notebook where nobody ever probed; a save
\* that fails is passed over.
Resolve ==
  /\ Keep({"resolve"})
  /\ told' = [verdict |-> Resolved(reading), differs |-> Differs(reading),
              resolved |-> TRUE, probed |-> reading.stored # Unread]
  /\ \/ /\ verdicts' = IF {reading.stored, reading.cached} = {Unread}
                       THEN reading.derived ELSE verdicts
        /\ UNCHANGED readFaults
     \/ verdicts' = verdicts /\ Fault
  /\ reading' = NotReading
  /\ UNCHANGED <<mediaBlob, probed>>

\* medina-dev's probe: what the recording is.
ProbeStored ==
  /\ probed = NoProbe
  /\ \E says \in {IF It.truth.media = "yes" THEN "yes" ELSE "no", "absent"} :
       probed' = [says |-> says, audio |-> It.truth]
  /\ UNCHANGED <<mediaBlob, verdicts, reading, told, readFaults>>

VerdictStart(name) ==
  /\ mediaBlob = name
  /\ probed = NoProbe
  /\ verdicts = Unread
  /\ reading = NotReading
  /\ told = [verdict |-> Unread, differs |-> FALSE, resolved |-> FALSE, probed |-> FALSE]
  /\ readFaults = ReadFaults

VerdictNext == OpenBlob \/ Walk \/ ReadFails \/ Resolve \/ ProbeStored

-----------------------------------------------------------------------------
(* Properties. *)

VerdictTypeOK ==
  /\ mediaBlob \in DOMAIN Blob
  /\ reading.at \in {"rest", "walk", "resolve"}
  /\ reading.next \in 0 .. Len(Order)
  /\ readFaults \in Nat

\* What the walks take for something else, and ffprobe does not.
Misread(b) ==
  \/ b.magic = "other" /\ b.truth.codec # "mp3" /\ Mp3Verdict(b) # Unread  \* a chance frame sync
  \/ b.magic = "OggS" /\ Mp3Verdict(b) # Unread                    \* the same, as MP3 comes first
  \/ b.magic = "fLaC" /\ b.samples % Word >= Word \div 2           \* the sign of a 32-bit word
  \/ b.why \in {"fragmented",    \* no duration in the movie header
                "opus in mp4",   \* the encoder's rate for Opus's 48 kHz
                "crowded",       \* more boxes than are walked
                "open-ended",    \* a data chunk whose size was never filled in
                "variable"}      \* a varying bit rate and no count of frames

\* No container the walks know, or no frame sync where one is looked for.
Foreign(b) == b.why = "foreign"

\* A verdict plans what the recording asks for, in whatever order its
\* container lays things out and whichever reads fail on the way, but for the
\* blobs Misread lists; the report says the walk and the probe differ for
\* those alone; and there is always a verdict on a blob the walks know, but
\* after a failure.  Once a probe is stored, even the misread are planned right.
VerdictIsRight ==
  /\ \A v \in {told.verdict, verdicts} :
       v = Unread \/ Misread(It) \/ PlanOf(v) = PlanOf(It.truth)
  /\ told.differs => Misread(It)
  /\ told.probed => PlanOf(told.verdict) = PlanOf(It.truth)
  /\ told.resolved /\ told.verdict = Unread => Foreign(It) \/ readFaults < ReadFaults
=============================================================================
