------------------------------ MODULE MCStages ------------------------------
(***************************************************************************)
(* Instances for TLC of the stages beside capture and transcription: the   *)
(* Worker's media-normalize and its verdicts, archive sweep, stars and     *)
(* journal snapshot, and the days the server derives.  They share no state *)
(* but the bucket's immutable captures, so a behaviour runs one of them,   *)
(* the others inert; each has its scenes, the smallest in which one hazard *)
(* can happen.                                                             *)
(***************************************************************************)
EXTENDS NormalizeStage, ArchiveSweep, StarRetention, JournalSnapshot,
        DayDerivation, MediaVerdict

CONSTANT Stages  \* those that may run: "normalize", "archive", "stars", "journal", "days", "verdict"

VARIABLE stage  \* the one this behaviour runs

vars == <<stage, normVars, archVars, starVars, snapVars, dayVars, verdictVars>>

-----------------------------------------------------------------------------
(* Media-normalize: the kinds of two captures, the passes, the faults. *)

NormScene(a, b, ps, d, f, s) ==
  [kind |-> [c \in {"a", "b"} |-> IF c = "a" THEN a ELSE b], passes |-> ps,
   trouble |-> [deaths |-> d, fails |-> f, spoils |-> s, cuts |-> 1]]

MCShelf == <<"a", "b">>

MCNormScenes ==
  {NormScene("image", "long", {1}, 1, 0, 1),
   NormScene("long", "direct", {1}, 0, 1, 2),
   NormScene("image", "long", {1}, 0, 0, 3),
   NormScene("legacy", "long", {1}, 0, 0, 1),
   NormScene("healable", "bare", {1, 2}, 1, 0, 0),
   NormScene("image", "long", {1, 2}, 0, 0, 0),
   NormScene("opaque", "untimed", {1, 2}, 1, 1, 0),
   NormScene("unsized", "long", {1}, 0, 0, 1),
   NormScene("long", "unsized-legacy", {1}, 1, 0, 0)}

NormInert == NormScene("image", "image", {}, 0, 0, 0)

-----------------------------------------------------------------------------
(* The verdicts: what each writer makes of a recording. *)

Plain ==
  [text |-> FALSE, magic |-> "other", boxes |-> << >>, chunks |-> << >>, samples |-> 0,
   channels |-> 0, rate |-> 0, tag |-> 0, stream |-> << >>, opus |-> FALSE,
   granule |-> 0, preskip |-> 0, truth |-> NotMedia, why |-> "plain"]

Track(handler, entry) ==
  Box("trak", <<Box("tkhd", << >>),
    Box("mdia", <<Box("hdlr", <<handler>>),
                  Box("minf", <<Box("stbl", <<Box("stsd", <<entry>>)>>)>>)>>)>>)
HollowTrack == Box("trak", <<Box("mdia", <<Box("hdlr", <<"soun">>)>>)>>)
Movie(hours, tracks) == Box("moov", <<Box("mvhd", <<hours>>)>> \o tracks)
Ftyp == Box("ftyp", << >>)
Mdat == Box("mdat", << >>)

Mp4Of(boxes, truth, why) ==
  [Plain EXCEPT !.magic = "ftyp", !.boxes = <<Ftyp>> \o boxes, !.truth = truth, !.why = why]

Aac(c, r) == <<"mp4a", c, r>>
Free(n) == [i \in 1 .. n |-> Box("free", << >>)]

Mp4Written(by, c, r, h) ==
  LET sound == Track("soun", Aac(c, r))
      video == Track("vide", <<"avc1", 0, 0>>)
      truth == AudioVerdict("aac", c, r, h)
  IN CASE by = "phone"      -> Mp4Of(<<Mdat, Movie(h, <<sound>>)>>, truth, "plain")
       [] by = "faststart"  -> Mp4Of(<<Movie(h, <<sound>>), [Mdat EXCEPT !.size = "rest"]>>, truth, "plain")
       [] by = "camera"     -> Mp4Of(<<Mdat, Movie(h, <<video, HollowTrack, sound>>)>>, truth, "plain")
       [] by = "dubbed"     -> Mp4Of(<<Movie(h, <<sound, Track("soun", Aac(3 - c, 48))>>), Mdat>>, truth, "plain")
       [] by = "silent"     -> Mp4Of(<<Mdat, Movie(h, <<video>>)>>, NotMedia, "plain")
       [] by = "fragmented" -> Mp4Of(<<Movie(0, <<sound>>), Mdat>>, truth, "fragmented")
       [] by = "crowded"    -> Mp4Of(Free(BoxLimit) \o <<Movie(h, <<sound>>)>>, truth, "crowded")
       [] by = "opus"       -> Mp4Of(<<Mdat, Movie(h, <<Track("soun", <<"Opus", c, r>>)>>)>>,
                                     AudioVerdict("opus", c, 48, h), IF r = 48 THEN "plain" ELSE "opus in mp4")

Fmt(c, r) == [id |-> "fmt ", codec |-> "pcm", channels |-> c, rate |-> r, hours |-> 0]
Data(h) == [Fmt(0, 0) EXCEPT !.id = "data", !.hours = h]
Other(h) == [Data(h) EXCEPT !.id = "LIST"]

Frame(c, r, xing, pace) ==
  [sync |-> TRUE, channels |-> c, rate |-> r, xing |-> xing, pace |-> pace]
Noise == [Frame(0, 0, Unknown, 1) EXCEPT !.sync = FALSE]
Frames(frame, h) == <<frame>> \o [i \in 1 .. h - 1 |-> Noise]
Mp3Of(stream, tag, truth, why) ==
  [Plain EXCEPT !.stream = stream, !.tag = tag, !.truth = truth, !.why = why]
OggOf(c, h, first) ==
  [Plain EXCEPT !.magic = "OggS", !.opus = TRUE, !.channels = c, !.granule = h + 1,
                !.preskip = 1, !.stream = <<first, Noise>>, !.truth = AudioVerdict("opus", c, 48, h)]

Written(by, c, r, h) ==
  CASE by = "wav"      -> [Plain EXCEPT !.magic = "RIFF", !.truth = AudioVerdict("pcm", c, r, h),
                             !.chunks = <<Other(h + 4), Fmt(c, r), Data(h), Other(h + 4)>>]
    [] by = "piped"    -> [Plain EXCEPT !.magic = "RIFF", !.truth = AudioVerdict("pcm", c, r, h),
                             !.chunks = <<Fmt(c, r), Data(99)>>, !.why = "open-ended"]
    [] by = "flac"     -> [Plain EXCEPT !.magic = "fLaC", !.truth = AudioVerdict("flac", c, r, h),
                             !.samples = h, !.channels = c, !.rate = r]
    [] by = "cbr"      -> Mp3Of(Frames(Frame(c, r, Unknown, 1), h), 0, AudioVerdict("mp3", c, r, h), "plain")
    [] by = "tagged"   -> Mp3Of(<<Frame(1, 48, 9, 1), Noise>> \o Frames(Frame(c, r, h, 2), 2), 2,
                                AudioVerdict("mp3", c, r, h), "plain")
    [] by = "vbr"      -> Mp3Of(Frames(Frame(c, r, Unknown, 2), h), 0, AudioVerdict("mp3", c, r, h), "variable")
    [] by = "late"     -> Mp3Of(<<Noise, Noise>> \o Frames(Frame(c, r, h, 1), h), 0,
                                AudioVerdict("mp3", c, r, h), "foreign")
    [] by = "ogg"      -> OggOf(c, h, Noise)
    [] by = "odd ogg"  -> OggOf(c, h, Frame(2, 48, Unknown, 1))
    [] by = "vorbis"   -> [OggOf(c, h, Noise) EXCEPT !.opus = FALSE, !.why = "foreign",
                             !.truth.codec = "vorbis"]
    [] by = "photo"    -> [Plain EXCEPT !.stream = <<Noise, Noise, Noise>>, !.why = "foreign"]
    [] by = "odd photo"-> [Plain EXCEPT !.stream = <<Noise, Frame(2, 48, Unknown, 1), Noise>>]
    [] by = "notes"    -> [Plain EXCEPT !.text = TRUE, !.stream = <<Frame(2, 48, 3, 1)>>]
    [] by = "reserved" -> [Plain EXCEPT !.stream = <<Frame(2, Unknown, Unknown, 1)>>, !.why = "foreign"]

Mp4Writers == {"phone", "faststart", "camera", "dubbed", "silent", "fragmented", "crowded", "opus"}
OtherWriters == {"wav", "piped", "flac", "cbr", "tagged", "vbr", "late", "ogg", "odd ogg",
                 "vorbis", "photo", "odd photo", "notes", "reserved"}

\* Mono at 16 and 48 kHz and stereo; an hour, the chunk span and a little more,
\* what a signed word still holds, and more chunks than one assembly may make.
BlobName ==
  {n \in (Mp4Writers \cup OtherWriters) \X {1, 2} \X {16, 48} \X {1, 4, 5, 10, 13} :
     n[2] = 1 \/ n[3] = 16}

MCBlob ==
  [n \in BlobName |-> IF n[1] \in Mp4Writers THEN Mp4Written(n[1], n[2], n[3], n[4])
                      ELSE Written(n[1], n[2], n[3], n[4])]

VerdictInert == <<"notes", 1, 16, 1>>

-----------------------------------------------------------------------------
(* The archive sweep: sizes per file, receipts, passes. *)

Sizes(blob, provenance, part) ==
  [f \in File |-> CASE f = "blob" -> blob [] f = "provenance" -> provenance
                    [] OTHER -> part]

ReceiptFor(sizes) == [state |-> "ok", sizes |-> sizes]
CorruptReceipt == [state |-> "corrupt", sizes |-> Nothing]
Pair(x, y) == [c \in {"a", "b"} |-> IF c = "a" THEN x ELSE y]

Stores(bucket, disk) == [s \in {"bucket", "disk"} |-> IF s = "bucket" THEN bucket ELSE disk]
Same(x) == Pair(x, x)
Empty == Same(Nothing)
Unkept == Same(NoReceipt)

ArchScene(al, t, rc, ps, g, v, d, f) ==
  [aligned |-> al, tree |-> t, receipts |-> rc, passes |-> ps,
   left |-> [grows |-> g, vanishes |-> v, deaths |-> d, fails |-> f]]

MCCatalog == <<"a", "b">>

MCArchScenes ==
  {ArchScene(TRUE, Stores(Pair(Sizes(1, 1, 0), Sizes(1, 1, 0)), Empty),
     Stores(Pair(NoReceipt, ReceiptFor(Sizes(1, 1, 0))), Unkept), {1}, 1, 0, 1, 1),
   ArchScene(TRUE, Stores(Pair(Sizes(1, 1, 0), Sizes(1, 1, 1)), Empty),
     Stores(Pair(CorruptReceipt, NoReceipt), Unkept), {1, 2}, 0, 1, 1, 0),
   ArchScene(TRUE, Stores(Pair(Sizes(1, 1, 1), Nothing), Empty),
     Stores(Pair(CorruptReceipt, NoReceipt), Unkept), {1, 3}, 1, 1, 0, 0),
   ArchScene(FALSE, Stores(Empty, Pair(Sizes(1, 1, 1), Sizes(0, 1, 0))),
     Stores(Unkept, Pair(CorruptReceipt, NoReceipt)), {3}, 1, 1, 1, 1),
   ArchScene(FALSE, Stores(Pair(Nothing, Sizes(0, 1, 0)), Pair(Nothing, Sizes(0, 1, 0))),
     Stores(Unkept, Pair(NoReceipt, ReceiptFor(Sizes(0, 1, 0)))), {1, 3}, 1, 0, 0, 0),
   ArchScene(FALSE, Stores(Empty, Pair(Nothing, Sizes(1, 1, 0))),
     Stores(Unkept, Unkept), {1, 3}, 1, 0, 0, 0)}

\* The Worker alone over one bucket, and two sightings while it works.
MCRace ==
  {ArchScene(TRUE, Stores(Pair(Nothing, Sizes(0, 1, 0)), Empty),
     Stores(Unkept, Unkept), {1}, 2, 0, 0, 0)}

ArchInert ==
  ArchScene(TRUE, Stores(Empty, Empty), Stores(Unkept, Unkept), {}, 0, 0, 0, 0)

-----------------------------------------------------------------------------
(* Stars: what is said, by whom, and who sweeps. *)

MCUtterance ==
  [u \in {"v1", "v2", "v3"} |->
     CASE u = "v1" -> [at |-> 0, form |-> "star", readable |-> TRUE]
       [] u = "v2" -> [at |-> 1, form |-> "speech", readable |-> FALSE]
       [] OTHER    -> [at |-> 1, form |-> "star the last", readable |-> TRUE]]

StarScene(from, actors, said, au, up, re, st, dr) ==
  [from |-> from, actors |-> actors, spoken |-> said,
   left |-> [authored |-> au, updates |-> up, removals |-> re, stops |-> st, drops |-> dr]]

MCStarScenes ==
  {StarScene(0, {"worker", "server"}, {"v1"}, 0, 1, 0, 0, 0),
   StarScene(0, {"worker", "operator"}, {"v3"}, 0, 0, 0, 1, 1),
   StarScene(0, {"worker", "server"}, {"v2", "v3"}, 0, 0, 0, 0, 0),
   StarScene(0, {"worker"}, {"v1"}, 1, 0, 1, 1, 0),
   StarScene(0, {"worker"}, {"v1"}, 0, 1, 0, 1, 1),
   StarScene(0, {"worker"}, {"v1", "v3"}, 0, 1, 0, 0, 1)}

StarInert == StarScene(MaxHour, {}, {}, 0, 0, 0, 0, 0)

-----------------------------------------------------------------------------
(* The journal's snapshot: three day indexes there, an older one and a     *)
(* journal to come.                                                        *)

MCUploaded == <<3, 1, 2>>
MCGeneration == {<<1, 1>>}

-----------------------------------------------------------------------------
(* The days the server derives: two, two recordings of the first (one that *)
(* may be corrected to the second) and a live provisional of the other.    *)

MCRecording ==
  [a |-> [day |-> "d1", moved |-> "d2", sealed |-> "a"],
   b |-> [day |-> "d1", moved |-> "d1", sealed |-> "b"],
   l |-> [day |-> "d1", moved |-> "d1", sealed |-> "b"]]

MCPosition == [p |-> "d1", q |-> "d2"]

DayScene(a, l, inbox, eager, changes, from, fails, crashes) ==
  [texts |-> [a |-> a, b |-> {}, l |-> l], inbox |-> inbox, window |-> from,
   left |-> [eager |-> eager, changes |-> {Change(x[1], x[2]) : x \in changes},
             fails |-> fails, crashes |-> crashes]]

MCDayScenes ==
  {DayScene({"local"}, {}, {}, {"d1", "d2"}, {<<"canonical", "a">>, <<"correct", "a">>}, 1, 0, 0),
   DayScene({"local"}, {}, {}, {"d1"}, {<<"note", "d1">>}, 0, 0, 1),
   DayScene({}, {"live"}, {}, {"d1"}, {<<"local", "b">>, <<"retire", "l">>}, 1, 0, 0),
   DayScene({}, {"live"}, {}, {"d1"}, {<<"local", "a">>, <<"correct", "a">>}, 1, 0, 0),
   DayScene({}, {}, {"p"}, {"d2"}, {<<"position", "q">>, <<"note", "d2">>}, 1, 1, 0),
   DayScene({}, {}, {"p"}, {"d2"}, {<<"position", "q">>}, 1, 0, 1),
   DayScene({"local"}, {}, {"p"}, {"d1"}, {<<"places", "places">>}, 1, 0, 1),
   DayScene({"local"}, {}, {}, {"d1"}, {<<"note", "d1">>}, 0, 1, 0)}

\* One recording, nothing that changes, and one failed call of the model.
MCStuck == {DayScene({"local"}, {}, {}, {"d1"}, {}, 0, 1, 0)}

DayInert == DayScene({}, {}, {}, {}, {}, LastWindow, 0, 0)

-----------------------------------------------------------------------------
Scenes(name, scenes, inert) == IF stage = name THEN scenes ELSE {inert}

Init ==
  /\ stage \in Stages
  /\ \E s \in Scenes("normalize", NormScenes, NormInert) : NormStart(s)
  /\ \E s \in Scenes("archive", ArchScenes, ArchInert) : ArchStart(s)
  /\ \E s \in Scenes("stars", StarScenes, StarInert) : StarStart(s)
  /\ SnapInit
  /\ \E s \in Scenes("days", DayScenes, DayInert) : DayStart(s)
  /\ \E n \in Scenes("verdict", BlobName, VerdictInert) : VerdictStart(n)
  /\ stage # "journal" => snapshot # NoSnapshot

Next ==
  /\ UNCHANGED stage
  /\ \/ stage = "normalize" /\ NormNext /\ UNCHANGED <<archVars, starVars, snapVars, dayVars, verdictVars>>
     \/ stage = "archive" /\ ArchNext /\ UNCHANGED <<normVars, starVars, snapVars, dayVars, verdictVars>>
     \/ stage = "stars" /\ StarNext /\ UNCHANGED <<normVars, archVars, snapVars, dayVars, verdictVars>>
     \/ stage = "journal" /\ SnapNext /\ UNCHANGED <<normVars, archVars, starVars, dayVars, verdictVars>>
     \/ stage = "days" /\ DayNext /\ UNCHANGED <<normVars, archVars, starVars, snapVars, verdictVars>>
     \/ stage = "verdict" /\ VerdictNext /\ UNCHANGED <<normVars, archVars, starVars, snapVars, dayVars>>

\* The fairness of each stage; the journal's and the days' only where they run,
\* as a builder at rest could always refresh and the loop always pass.
Fairness ==
  /\ NormFairness /\ ArchFairness /\ StarFairness
  /\ \A b \in Builder : WF_snapVars(stage = "journal" /\ (BuildStep(b) \/ Refresh(b)))
  /\ WF_dayVars(stage = "days" /\ PassStep)
  /\ WF_dayVars(stage = "days" /\ \E id \in DOMAIN flow : FlowStep(id))
  /\ WF_dayVars(stage = "days" /\ Hour)

Spec == Init /\ [][Next]_vars /\ Fairness

\* The types of the six stages.
StagesTypeOK ==
  NormTypeOK /\ ArchTypeOK /\ StarTypeOK /\ SnapTypeOK /\ DayTypeOK /\ VerdictTypeOK

\* Every recording comes to be normalized and every capture archived, across
\* deaths, failed calls and overlapping passes (normalize.ts, archive.ts).
CapturesAreFollowedUp == EveryRecordingNormalized /\ ArchiveCatchesUp

\* What is derived of the days comes to be that of the last evidence: journals,
\* stays and search (Journal.ts), and the snapshot served (journal.ts).
DaysFollow == SnapshotCatchesUp /\ DaysConverge
=============================================================================
