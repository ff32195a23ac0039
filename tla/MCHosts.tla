------------------------------ MODULE MCHosts -------------------------------
(***************************************************************************)
(* Instances for TLC of the two hosts beside the Worker.  The phone: its   *)
(* spool with uploads, its capture service, and the policy it fetches from *)
(* the server.  The server: what it takes in, the media stages, its        *)
(* artifact store.  These share no state but the bucket's objects, so a    *)
(* behaviour runs one of them, the others inert; each has its scenes, the  *)
(* smallest in which one hazard can happen.                                *)
(***************************************************************************)
EXTENDS AndroidSpool, CaptureService, CapturePolicy,
        ServerIngest, ServerMedia, ServerStore

CONSTANT Parts  \* those that may run: "spool", "service", "policy", "ingest", "media", "store"

VARIABLE part  \* the one this behaviour runs

vars == <<part, spoolVars, serviceVars, policyVars, ingestVars, mediaVars, storeVars>>

\* A scene grants what it names, and of everything else nothing.
Budget(kinds, granted) ==
  [b \in kinds |-> IF b \in DOMAIN granted THEN granted[b] ELSE 0]

-----------------------------------------------------------------------------
(* The spool: each scene adds to the recording of a segment one or two of  *)
(* the things that may happen beside it, with the actors these meet: a     *)
(* death and a lost answer with both works and the app reopened, a live    *)
(* text against the foreground work, another against recover, and so on.   *)

Beside == {"segments", "texts", "takes", "events", "deaths", "faults",
           "replaces", "foreground", "reopened"}

\* The scene with one of each of these.
SpoolScene(bounds) == [b \in Beside |-> IF b \in bounds \cup {"segments"} THEN 1 ELSE 0]

SpoolInert == [b \in Beside |-> 0]

MCSpoolScenes ==
  {SpoolInert,
   SpoolScene({"deaths", "foreground", "reopened"}),
   SpoolScene({"faults", "foreground", "reopened"}),
   SpoolScene({"replaces", "foreground", "reopened"}),
   SpoolScene({"texts", "foreground"}),
   SpoolScene({"texts", "reopened"}),
   SpoolScene({"events", "foreground"}),
   SpoolScene({"events", "faults"}),
   SpoolScene({"takes", "foreground"}),
   SpoolScene({"takes", "reopened"}),
   [SpoolScene({"texts", "faults"}) EXCEPT !.texts = 2],
   [SpoolScene({"faults"}) EXCEPT !.segments = 2, !.faults = 2],
   [SpoolScene({"foreground"}) EXCEPT !.segments = 2]}

-----------------------------------------------------------------------------
(* The capture service: a stop between two early rolls, a reload beside an *)
(* early roll, two reloads while the classifier changes its mind.          *)

ServiceScene(granted) == Budget({"starts", "stops", "kicks", "reloads", "readings"}, granted)

MCServiceScenes ==
  {ServiceScene([starts |-> 1, stops |-> 1, kicks |-> 2]),
   ServiceScene([starts |-> 1, kicks |-> 1, reloads |-> 1]),
   ServiceScene([starts |-> 1, reloads |-> 2, readings |-> 2])}

ServiceInert == ServiceScene(<<>>)

-----------------------------------------------------------------------------
(* The capture policy: who answers, the document there is, whether a       *)
(* script publishes, the state of the second token.                        *)

Due == {"writes", "issues", "revokes", "touches", "mirrorFails", "fails", "deaths",
        "screen", "upload", "urls", "starts"}

PolicyScene(from, published, by, second, granted) ==
  [host |-> from, document |-> published, script |-> by,
   tokens |-> [t \in PolicyToken |-> IF t = "first" THEN "live" ELSE second],
   dues |-> Budget(Due, granted)]

MCPolicyScenes ==
  {PolicyScene("server", 0, "none", "unknown", [writes |-> 1, fails |-> 1, screen |-> 1]),
   PolicyScene("server", 1, "none", "unknown",
     [writes |-> 1, touches |-> 1, revokes |-> 1, deaths |-> 1]),
   PolicyScene("server", 1, "start", "unknown", [writes |-> 2, screen |-> 1, starts |-> 1]),
   PolicyScene("server", 1, "none", "unknown",
     [writes |-> 1, upload |-> 1, starts |-> 1, fails |-> 1]),
   PolicyScene("server", 1, "none", "live",
     [urls |-> 1, revokes |-> 1, screen |-> 1, touches |-> 1]),
   PolicyScene("edge", 1, "none", "unknown",
     [issues |-> 1, mirrorFails |-> 1, urls |-> 1, revokes |-> 1, fails |-> 1]),
   PolicyScene("edge", 0, "start", "unknown", [writes |-> 1, screen |-> 1])}

PolicyInert == PolicyScene("server", 0, "none", "unknown", <<>>)

-----------------------------------------------------------------------------
(* What the server takes in: two recordings of the same bytes, a live and  *)
(* a final text of one of them, three positions, and what is not for it.   *)

Uploaded(as, of, bytes) == [kind |-> as, segment |-> of, bytes |-> bytes]

MCUpload ==
  [a1 |-> Uploaded("audio", "s1", "x"), a2 |-> Uploaded("audio", "s2", "y"),
   a3 |-> Uploaded("audio", "s3", "x"), d1 |-> Uploaded("audio", "s5", "x"),
   old |-> Uploaded("adopted", "s4", "z"),
   l1 |-> Uploaded("live", "s1", "x"), f1 |-> Uploaded("final", "s1", "x"),
   p1 |-> Uploaded("fix", "s1", "x"), p2 |-> Uploaded("fix", "s1", "x"),
   bad |-> Uploaded("invalid", "s1", "x"), note |-> Uploaded("other", "s1", "x")]

IngestScene(keys, twice, drive, bodies, fails, crashes) ==
  [coming |-> [k \in keys |-> IF k \in twice THEN 2 ELSE 1],
   folder |-> drive, posts |-> bodies,
   loops |-> IF drive = {} THEN {"capture"} ELSE {"capture", "main"},
   mishaps |-> [fails |-> fails, crashes |-> crashes]]

MCIngestScenes ==
  {IngestScene({"a1", "l1", "f1"}, {}, {}, {}, 0, 1),
   IngestScene({"a1", "l1"}, {"l1"}, {}, {}, 1, 0),
   IngestScene({"a1", "a3"}, {}, {"d1"}, {}, 0, 0),
   IngestScene({"a1", "a2", "old"}, {}, {}, {}, 0, 0),
   IngestScene({"a2"}, {}, {}, {}, 1, 1),
   IngestScene({"p1", "p2", "bad"}, {}, {}, {}, 0, 0),
   IngestScene({"p1", "note"}, {}, {}, {}, 0, 1),
   IngestScene({"p1"}, {}, {}, {"x"}, 1, 0)}

\* Three recordings and one object of another kind.
MCStrand == {IngestScene({"a1", "a2", "a3", "note"}, {}, {}, {}, 0, 0)}

IngestInert == [IngestScene({}, {}, {}, {}, 0, 0) EXCEPT !.loops = {}]

-----------------------------------------------------------------------------
(* The media stages: what the recording is, where it lies, where it comes  *)
(* from, who brings it into chunks, and what goes wrong.                   *)

MediaScene(form, blob, source, route, granted) ==
  [media |-> [form |-> form, blob |-> blob, source |-> source, route |-> route],
   harm |-> Budget({"deaths", "fails", "spoils", "refusals", "losses", "restores", "unfiled"}, granted)]

MCMediaScenes ==
  {MediaScene("direct", "disk", "capture", "ffmpeg", [deaths |-> 1, fails |-> 1, refusals |-> 1]),
   MediaScene("direct", "url", "capture", "transloadit", [fails |-> 1]),
   MediaScene("long", "disk", "capture", "ffmpeg", [deaths |-> 1, losses |-> 2, restores |-> 1]),
   MediaScene("long", "disk", "capture", "ffmpeg", [fails |-> 1, refusals |-> 2]),
   MediaScene("long", "absent", "capture", "transloadit", [deaths |-> 1, fails |-> 1]),
   MediaScene("long", "disk", "capture", "transloadit", [deaths |-> 1, spoils |-> 3]),
   MediaScene("long", "disk", "legacy", "transloadit", [refusals |-> 1]),
   MediaScene("long", "absent", "drive", "transloadit",
     [deaths |-> 1, spoils |-> 1, refusals |-> 1]),
   MediaScene("none", "absent", "drive", "transloadit", [deaths |-> 1, fails |-> 1]),
   MediaScene("none", "disk", "capture", "transloadit", [fails |-> 1])}

MediaInert == MediaScene("none", "absent", "capture", "ffmpeg", <<>>)

-----------------------------------------------------------------------------
(* The artifact store: two writers of one key, and a migration beside one. *)

MCVersion == [small |-> 1, first |-> 1, grown |-> 2, big |-> 2, other |-> 2]

Writes(k, v, to) == [op |-> "put", key |-> k, version |-> v, where |-> to]
Deletes(k, from) == [op |-> "delete", key |-> k, version |-> "none", where |-> from]
Tree(a, b) == [k \in {"a", "b"} |-> IF k = "a" THEN a ELSE b]
Bare == Tree({}, {})

StoreScene(files0, ops, migration, fails, deaths) ==
  [disk |-> files0, ops |-> ops, move |-> migration,
   upset |-> [fails |-> fails, deaths |-> deaths]]

MCStoreScenes ==
  {StoreScene(Bare, [x |-> <<Writes("a", "big", "local"), Deletes("a", "local")>>,
                     y |-> <<Writes("a", "other", "local")>>], "idle", 1, 1),
   StoreScene(Bare, [x |-> <<Writes("a", "big", "bucket"), Writes("b", "small", "bucket")>>,
                     y |-> <<Writes("a", "other", "bucket")>>], "idle", 1, 1),
   StoreScene(Bare, [x |-> <<Writes("a", "big", "bucket"), Deletes("a", "bucket"),
                             Deletes("a", "bucket"), Writes("a", "small", "bucket")>>],
     "idle", 1, 1),
   StoreScene(Tree(Whole("first"), Whole("big")), [x |-> <<Writes("a", "grown", "local")>>],
     "start", 1, 1),
   StoreScene(Tree(Whole("first"), Whole("big")), [x |-> <<Deletes("b", "local")>>],
     "start", 1, 0)}

StoreInert == StoreScene(Bare, <<>>, "idle", 0, 0)

-----------------------------------------------------------------------------
OfPart(name, scenes, inert) == IF part = name THEN scenes ELSE {inert}

Init ==
  /\ part \in Parts
  /\ SpoolInit /\ (part # "spool" => left = SpoolInert)
  /\ \E s \in OfPart("service", ServiceScenes, ServiceInert) : ServiceStart(s)
  /\ \E s \in OfPart("policy", PolicyScenes, PolicyInert) : PolicyStart(s)
  /\ \E s \in OfPart("ingest", IngestScenes, IngestInert) : IngestStart(s)
  /\ \E s \in OfPart("media", MediaScenes, MediaInert) : MediaStart(s)
  /\ part # "media" => transcript = NoTranscript
  /\ \E s \in OfPart("store", StoreScenes, StoreInert) : StoreStart(s)

Next ==
  /\ UNCHANGED part
  /\ \/ /\ part = "spool" /\ SpoolNext
        /\ UNCHANGED <<serviceVars, policyVars, ingestVars, mediaVars, storeVars>>
     \/ /\ part = "service" /\ ServiceNext
        /\ UNCHANGED <<spoolVars, policyVars, ingestVars, mediaVars, storeVars>>
     \/ /\ part = "policy" /\ PolicyNext
        /\ UNCHANGED <<spoolVars, serviceVars, ingestVars, mediaVars, storeVars>>
     \/ /\ part = "ingest" /\ IngestNext
        /\ UNCHANGED <<spoolVars, serviceVars, policyVars, mediaVars, storeVars>>
     \/ /\ part = "media" /\ MediaNext
        /\ UNCHANGED <<spoolVars, serviceVars, policyVars, ingestVars, storeVars>>
     \/ /\ part = "store" /\ StoreNext
        /\ UNCHANGED <<spoolVars, serviceVars, policyVars, ingestVars, mediaVars>>

\* The fairness of each part, where it runs: an inert phone could always look
\* for something to upload or ask for its policy.
Fairness ==
  /\ WF_spoolVars(part = "spool" /\ (SealRename \/ SealEnqueue))
  /\ \A w \in Work : WF_spoolVars(part = "spool" /\ (PassStep(w) \/ Answer(w)))
  /\ WF_spoolVars(part = "spool" /\ Trigger("background"))
  /\ WF_spoolVars(part = "spool" /\ Recovering)
  /\ \A r \in Refresher : WF_policyVars(part = "policy" /\ FetchStep(r))
  /\ \A c \in Caller : WF_policyVars(part = "policy" /\ GateStep(c))
  /\ WF_policyVars(part = "policy" /\ KeepPolicy)
  /\ WF_policyVars(part = "policy" /\ ReloadPolicy)
  /\ WF_policyVars(part = "policy" /\ AskPolicy("worker"))
  /\ IngestFairness
  /\ WF_mediaVars(part = "media" /\ PassOn)
  /\ WF_mediaVars(part = "media" /\ \E j \in DOMAIN assembled : AssemblyEnds(j))
  /\ WF_mediaVars(part = "media" /\ \E j \in DOMAIN accepted : TranscriptionEnds(j))
  /\ WF_mediaVars(part = "media" /\ Archived)

HostsSpec == Init /\ [][Next]_vars /\ Fairness

\* The types of the six parts.
HostsTypeOK ==
  SpoolTypeOK /\ ServiceTypeOK /\ PolicyTypeOK /\ IngestTypeOK /\ MediaTypeOK /\ StoreTypeOK

\* What the phone has to do gets done: recordings leave it and then their
\* files (UploadWorker.kt), and it comes to the policy that is published
\* (SettingsStore.kt).
PhoneFinishes == UploadsFinish /\ PhoneFollows

\* What reaches the server gets through it: uploads are taken in (Discover.ts)
\* and recordings transcribed, or given up on record (Media.ts).
ServerFinishes == UploadsTakenIn /\ MediaArrives
=============================================================================
