----------------------------- MODULE StarRetention -----------------------------
(***************************************************************************)
(* Stars: the detector files what was commanded by voice and sweeps what   *)
(* has outlived its retention (cloudflare/src/stars.ts), beside the sweep  *)
(* of the server's stars resource and the authoring service                *)
(* (lib/lifelog/Stars.ts).                                                 *)
(*                                                                         *)
(* A detector pass takes its `now`, reads the transcripts of two days,     *)
(* then the records, plans, and performs the plan call by call; the first  *)
(* failure ends it.  The other actors work on the same records meanwhile.  *)
(*                                                                         *)
(* Abstractions.  Time is counted in default retentions (one hour), the    *)
(* two days are Window of them, and an utterance is the form of its        *)
(* words; one read anew in other words, or under another capture, is       *)
(* another utterance.  A record's text is its interval, name, note and     *)
(* visibility: as filed, or edited.  A receipt keeps whose it is, its      *)
(* retention and its reason: the hash in its key names one content.        *)
(***************************************************************************)
EXTENDS Integers, FiniteSets, Sequences

CONSTANTS
  Utterance,   \* utterances: id -> [at, form, readable]
  Authored,    \* the ids stars are authored under by hand
  StarScenes,  \* what may happen (see StarInit)
  MaxHour      \* bound: the clock stops here

\* An utterance is said at some hour; a star authored by hand has a random id,
\* a command's hashes its words (Stars.ts, stars.ts).
ASSUME StarAssumption ==
  /\ MaxHour \in Nat
  /\ \A u \in DOMAIN Utterance : Utterance[u].at \in Nat
  /\ Authored \cap DOMAIN Utterance = {}
  /\ \A s \in StarScenes : s.from \in 0 .. MaxHour /\ s.spoken \subseteq DOMAIN Utterance

VARIABLES
  hour,      \* the clock
  spoken,    \* the utterances of this behaviour
  indexed,   \* utterances whose transcript the day index names and the store has
  records,   \* star/<id>.json: id -> record
  forgotten, \* provenance/star/<hash>.json
  filed,     \* every id that was ever on record (history)
  patched,   \* ids whose record updateStar was the last to write (history)
  scan,      \* the passes and sweeps under way
  author,    \* updateStar, between its read and its write
  starLeft   \* the bounds

starVars ==
  <<hour, spoken, indexed, records, forgotten, filed, patched, scan, author, starLeft>>

-----------------------------------------------------------------------------
(* The grammar of a command. *)

DefaultRetention == 1
Window == 2

\* A command begins with "star", after at most one filler, in one's own
\* voice; "star" further on, or another speaker's, is speech.
CommandForms == {"star", "filler star", "star the last"}
SpeechForms  == {"speech", "other speaker", "two fillers star"}

IsCommand(u) == Utterance[u].form \in CommandForms

\* A named span ends where the utterance does; any other command takes the
\* default window.
SpanOf(u) == IF Utterance[u].form = "star the last" THEN "named" ELSE "default"

Record(by, created, retention, span) ==
  [by |-> by, created |-> created, retention |-> retention, span |-> span,
   text |-> "filed"]

\* Seeded fault: created when it is filed, not when it was said.
VoiceRecordNow(u) == Record("voice", hour, DefaultRetention, SpanOf(u))

VoiceRecord(u) == Record("voice", Utterance[u].at, DefaultRetention, SpanOf(u))

Expired(created, retention, now) == created + retention <= now

ExpiredRecord(r, now) == Expired(r.created, r.retention, now)

Receipt(id, r, reason) == [id |-> id, retention |-> r.retention, reason |-> reason]

PutRecord(id, r) ==
  /\ records' = [x \in DOMAIN records \cup {id} |-> IF x = id THEN r ELSE records[x]]
  /\ filed' = filed \cup {id}

DropRecord(id) ==
  /\ records' = [x \in DOMAIN records \ {id} |-> records[x]]
  /\ UNCHANGED filed

Leave(k) == starLeft[k] > 0 /\ starLeft' = [starLeft EXCEPT ![k] = @ - 1]

-----------------------------------------------------------------------------
(* A pass of the detector, or a sweep of the server's stars resource. *)

Away ==
  [at |-> "away", now |-> 0, files |-> {}, sweeps |-> << >>, past |-> {}]

ScanPoint == {"away", "list", "perform", "remove"}

At(p, l) == scan[p].at = l
Become(p, r) == scan' = [scan EXCEPT ![p] = r]

OnlyScan ==
  UNCHANGED <<hour, spoken, indexed, records, forgotten, filed, patched, author, starLeft>>

InWindow == {u \in indexed : hour - Utterance[u].at < Window}

\* Forgotten on schedule, before the pass began (history).
Past == {r.id : r \in {x \in forgotten :
           x.reason = "expired" /\ x.retention = DefaultRetention}}

\* gatherStars up to the transcripts: one that does not decode fails the pass.
Gather(p) ==
  /\ At(p, "away")
  /\ p # "server"
  /\ \A u \in InWindow : Utterance[u].readable
  /\ Become(p, [Away EXCEPT !.at = "list", !.now = hour, !.past = Past,
                            !.files = {u \in InWindow : IsCommand(u)}])
  /\ OnlyScan

\* planStars: a command whose default retention ran out is never filed ...
PlanFilings(files, now) ==
  {u \in files : ~Expired(Utterance[u].at, DefaultRetention, now)}

\* Seeded fault: only what the detector filed is swept.
PlanSweepsVoice(now) ==
  LET due == {id \in DOMAIN records : records[id].by = "voice" /\ ExpiredRecord(records[id], now)}
  IN {s \in [1 .. Cardinality(due) -> due] : \A i, j \in DOMAIN s : i < j => s[i] # s[j]}

\* ... and every record that has expired is swept, oldest first.
PlanSweeps(now) ==
  LET due == {id \in DOMAIN records : ExpiredRecord(records[id], now)}
  IN {s \in [1 .. Cardinality(due) -> due] :
        \A i, j \in DOMAIN s : i < j =>
          s[i] # s[j] /\ records[s[i]].created <= records[s[j]].created}

ListStars(p) ==
  /\ At(p, "list")
  /\ \E order \in PlanSweeps(scan[p].now) :
       Become(p, [scan[p] EXCEPT !.at = "perform",
         !.files = PlanFilings(scan[p].files, scan[p].now),
         !.sweeps = [i \in DOMAIN order |-> [id |-> order[i], of |-> records[order[i]]]]])
  /\ OnlyScan

\* The server reads the records and then the index, which may fail; the
\* sweep goes on without it.
ServerBasis(p) ==
  /\ At(p, "away")
  /\ p = "server"
  /\ \E order \in PlanSweeps(hour) :
       Become(p, [Away EXCEPT !.at = "perform", !.now = hour,
         !.sweeps = [i \in DOMAIN order |-> [id |-> order[i], of |-> records[order[i]]]]])
  /\ OnlyScan

\* Filing overwrites whatever is there, an edit with it.
FileStar(p) ==
  /\ At(p, "perform")
  /\ \E u \in scan[p].files :
       /\ PutRecord(u, VoiceRecord(u))
       /\ patched' = patched \ {u}
       /\ Become(p, [scan[p] EXCEPT !.files = @ \ {u}])
  /\ UNCHANGED <<hour, spoken, indexed, forgotten, author, starLeft>>

\* Seeded fault: the record goes first, its receipt after.
SweepReceiptLast(p) ==
  /\ At(p, "perform")
  /\ scan[p].files = {} /\ scan[p].sweeps # << >>
  /\ LET s == Head(scan[p].sweeps)
     IN IF s.id \in DOMAIN records
        THEN DropRecord(s.id) /\ UNCHANGED <<scan, forgotten>>
        ELSE /\ forgotten' = forgotten \cup {Receipt(s.id, s.of, "expired")}
             /\ Become(p, [scan[p] EXCEPT !.at = "remove"])
             /\ UNCHANGED <<records, filed>>
  /\ UNCHANGED <<hour, spoken, indexed, patched, author, starLeft>>

\* The receipt of a sweep, then the removal; each of what was planned.
SweepReceipt(p) ==
  /\ At(p, "perform")
  /\ scan[p].files = {}
  /\ scan[p].sweeps # << >>
  /\ LET s == Head(scan[p].sweeps)
     IN forgotten' = forgotten \cup {Receipt(s.id, s.of, "expired")}
  /\ Become(p, [scan[p] EXCEPT !.at = "remove"])
  /\ UNCHANGED <<hour, spoken, indexed, records, filed, patched, author, starLeft>>

SweepRemove(p) ==
  /\ At(p, "remove")
  /\ DropRecord(Head(scan[p].sweeps).id)
  /\ Become(p, [scan[p] EXCEPT !.at = "perform", !.sweeps = Tail(@)])
  /\ UNCHANGED <<hour, spoken, indexed, forgotten, patched, author, starLeft>>

Planned(p) == scan[p].files # {} \/ scan[p].sweeps # << >>

EndScan(p) ==
  /\ At(p, "perform")
  /\ ~Planned(p)
  /\ Become(p, Away)
  /\ OnlyScan

\* A call fails and the rest of the plan is left, or the isolate ends.
ScanStops(p) ==
  /\ ~At(p, "away")
  /\ Leave("stops")
  /\ Become(p, Away)
  /\ UNCHANGED <<hour, spoken, indexed, records, forgotten, filed, patched, author>>

ScanStep(p) ==
  \/ Gather(p) \/ ListStars(p) \/ ServerBasis(p) \/ FileStar(p)
  \/ SweepReceipt(p) \/ SweepRemove(p) \/ EndScan(p)

-----------------------------------------------------------------------------
(* The shadow audit: the plan of this moment against the records. *)

Commands == {u \in InWindow : IsCommand(u)}
Unborn   == Commands \ PlanFilings(Commands, hour)
Overdue  == {id \in DOMAIN records : ExpiredRecord(records[id], hour)}

\* What the report names, by kind; age only tells its "pending" apart.
AuditStars ==
  LET on(kind, ids) == {[kind |-> kind, id |-> id] : id \in ids}
      live == Commands \ Unborn
  IN on("missing-record", live \ DOMAIN records)
     \cup on("record-differs",
             {u \in live \cap DOMAIN records : records[u] # VoiceRecord(u)})
     \cup on("revived-record", Unborn \cap DOMAIN records)
     \cup on("server-only", {id \in DOMAIN records \ (Commands \cup Overdue) :
                               records[id].by = "voice"})
     \cup on("sweep-missed", Overdue)

-----------------------------------------------------------------------------
(* The authoring service. *)

\* setStar: a star of no retention leaves only its receipt.
SetStar ==
  /\ Leave("authored")
  /\ \E id \in Authored \ filed : \E retention \in {0, 1, 2} :
       LET r == Record("api", hour, retention, "named")
       IN IF retention > 0
          THEN PutRecord(id, r) /\ UNCHANGED forgotten
          ELSE /\ forgotten' = forgotten \cup {Receipt(id, r, "zero-retention")}
               /\ UNCHANGED <<records, filed>>
  /\ UNCHANGED <<hour, spoken, indexed, patched, scan, author>>

\* updateStar reads the record and writes it back with its patch: of the
\* retention, or of the interval, the name, the note or the visibility.
UpdateRead ==
  /\ author.at = "away"
  /\ Leave("updates")
  /\ \E id \in DOMAIN records : \E retention \in {0, 1, 2}, text \in {"filed", "edited"} :
       author' = [at |-> "write", id |-> id,
                  record |-> [records[id] EXCEPT !.retention = retention, !.text = text]]
  /\ UNCHANGED <<hour, spoken, indexed, records, forgotten, filed, patched, scan>>

NoUpdate == [at |-> "away", id |-> "none", record |-> Record("api", 0, 0, "named")]

UpdateWrite ==
  /\ author.at = "write"
  /\ PutRecord(author.id, author.record)
  /\ patched' = patched \cup {author.id}
  /\ author' = NoUpdate
  /\ UNCHANGED <<hour, spoken, indexed, forgotten, scan, starLeft>>

\* removeStar: the receipt, and the removal; it is cut short between them.
RemoveStar ==
  /\ Leave("removals")
  /\ \E id \in DOMAIN records :
       /\ forgotten' = forgotten \cup {Receipt(id, records[id], "removed")}
       /\ \/ DropRecord(id)
          \/ UNCHANGED <<records, filed>>
  /\ UNCHANGED <<hour, spoken, indexed, patched, scan, author>>

-----------------------------------------------------------------------------
(* The world: time, and transcripts that reach the day index and leave it. *)

Tick ==
  /\ hour < MaxHour
  /\ hour' = hour + 1
  /\ UNCHANGED <<spoken, indexed, records, forgotten, filed, patched, scan, author, starLeft>>

IndexGrows ==
  /\ \E u \in spoken \ indexed :
       Utterance[u].at <= hour /\ indexed' = indexed \cup {u}
  /\ UNCHANGED <<hour, spoken, records, forgotten, filed, patched, scan, author, starLeft>>

\* A live provisional leaves the index for the capture it became, a first look
\* for the canonical transcript; and gatherStars skips a transcript that the
\* index names and the store has not.
IndexDrops ==
  /\ Leave("drops")
  /\ \E u \in indexed : indexed' = indexed \ {u}
  /\ UNCHANGED <<hour, spoken, records, forgotten, filed, patched, scan, author>>

StarStart(s) ==
  /\ hour = s.from
  /\ indexed = {} /\ records = << >> /\ forgotten = {} /\ filed = {}
  /\ patched = {}
  /\ author = NoUpdate
  /\ spoken = s.spoken
  /\ starLeft = s.left
  /\ scan = [p \in s.actors |-> Away]

StarInit == \E s \in StarScenes : StarStart(s)

StarNext ==
  \/ \E p \in DOMAIN scan : ScanStep(p) \/ ScanStops(p)
  \/ SetStar \/ UpdateRead \/ UpdateWrite \/ RemoveStar
  \/ Tick \/ IndexGrows \/ IndexDrops

\* The cron fires every minute, a pass goes on, an update ends, and time
\* passes.
StarFairness ==
  /\ \A p \in {"worker", "operator", "server"} : WF_starVars(p \in DOMAIN scan /\ ScanStep(p))
  /\ WF_starVars(UpdateWrite)
  /\ WF_starVars(Tick)

StarSpec == StarInit /\ [][StarNext]_starVars /\ StarFairness

-----------------------------------------------------------------------------
(* Properties. *)

\* A record is of a voice command or authored, and what a pass still has to
\* do agrees with its point.
StarTypeOK ==
  /\ hour \in 0 .. MaxHour
  /\ DOMAIN records \subseteq filed
  /\ \A id \in DOMAIN records :
       IF id \in Authored THEN records[id].by = "api"
       ELSE IsCommand(id) /\ records[id].by = "voice"
                          /\ records[id].created = Utterance[id].at
  /\ \A p \in DOMAIN scan :
       /\ scan[p].at \in ScanPoint
       /\ At(p, "remove") => scan[p].files = {} /\ scan[p].sweeps # << >>
       /\ At(p, "away") => scan[p] = Away

\* "Forgetting leaves a receipt": whatever was on record and no longer is
\* has a receipt, wherever a sweep, a removal or an update was cut short.
ForgettingLeavesReceipt ==
  \A id \in filed \ DOMAIN records : \E r \in forgotten : r.id = id

\* "A re-scan can never revive a star whose life has already run out": a
\* pass does not plan to file what was forgotten on schedule before it began,
\* with the passes of several actors overlapping.  (A removed star, or one
\* whose retention was cut, it does file again.)
NoRevival ==
  \A p \in DOMAIN scan :
    scan[p].at \in {"perform", "remove"} => scan[p].files \cap scan[p].past = {}

\* The shadow derives the same records from the same transcripts.  Whatever
\* passes, sweeps and authors did in between, it names a star as differing or
\* revived only where updateStar was the last to write it or its sweep is due,
\* as not in the plan only where its transcript left the index (or updateStar
\* kept it on), and as missing only where no pass has filed it yet or its
\* receipt is there.
AuditIsExplained ==
  \A m \in AuditStars :
    CASE m.kind = "missing-record" -> m.id \in filed => \E r \in forgotten : r.id = m.id
      [] m.kind = "server-only"    -> m.id \notin indexed \/ m.id \in patched
      [] OTHER                     -> m.id \in Overdue \/ m.id \in patched

\* A forgotten star stays so, and on record, and the audit bears it out.
RetentionIsSafe == ForgettingLeavesReceipt /\ NoRevival /\ AuditIsExplained

\* Every star ends: whoever filed, updated or revived it, once its time is
\* over it is forgotten, though a transcript that does not decode holds the
\* detector up as long as it is in the window.
RetentionEnforced ==
  \A id \in DOMAIN Utterance \cup Authored :
    (id \in DOMAIN records /\ ExpiredRecord(records[id], hour))
      ~> (id \notin DOMAIN records \/ ~ExpiredRecord(records[id], hour))
=============================================================================
