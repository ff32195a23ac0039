--------------------------- MODULE LifelogProofs ----------------------------
(***************************************************************************)
(* What is derived from the captures: the day journals, the snapshot the   *)
(* readers are given of them, and the stars; for every set of recordings,  *)
(* positions, days, journals, builders, utterances, passes and sweeps.     *)
(*                                                                         *)
(* The days: texts, notes and places only go forward, so what an index     *)
(* once showed is either still so or never comes back, and an execution    *)
(* whose key is current again has been reading the evidence there still    *)
(* is.                                                                     *)
(*                                                                         *)
(* The snapshot: journals and day indexes only accumulate, so a listing a  *)
(* builder stamped either still is the bucket's, and then everything       *)
(* gathered since is what that listing selects, or it never will be again. *)
(*                                                                         *)
(* The stars: a record is the command's own but for its retention, what a  *)
(* pass or a sweep knows was so when it was read, and what was forgotten   *)
(* on schedule had run out by then.                                        *)
(***************************************************************************)
EXTENDS DayDerivation, JournalSnapshot, StarRetention, FiniteSetTheorems, SequenceTheorems,
        TLAPS

-----------------------------------------------------------------------------
(* The days. *)

TextKind == {"live", "local", "canonical"}
Shown == [of : Capture, text : TextKind, fixed : BOOLEAN]
Basis == [points : SUBSET DOMAIN Position, stays : SUBSET DOMAIN Position, places : Nat]

\* Seen in an index: what it shows has landed.
Landed(e) ==
  /\ e.fixed => evidence.fixed[e.of]
  /\ Change(e.text, e.of) \notin dayLeft.changes

\* A day's entries as some index had them.
EntriesFit(entries) ==
  /\ entries \subseteq Shown
  /\ \A e \in entries : Landed(e)
  /\ \A e, g \in entries : e.of = g.of => e = g

BasisFits(m, d) ==
  /\ m \in Basis
  /\ m.points \subseteq PointsOn(d, track.points)
  /\ m.stays \subseteq PointsOn(d, track.stays)
  /\ m.places <= evidence.places
  /\ m # NoMovement => m.points # {}

KeyFits(k) ==
  /\ k.day \in Day
  /\ EntriesFit(k.entries)
  /\ BasisFits(k.move, k.day)
  /\ k.note \in Nat /\ k.note <= evidence.notes[k.day]

Still(k) == k.entries \cap DayIndex[k.day]

\* What was told of them.
Gathered(texts, k) == TextsOf(Still(k)) \subseteq texts /\ texts \subseteq TextsOf(k.entries)

ToldFits(told, k) ==
  /\ TextsOf(Still(k)) \subseteq told
  /\ \A t \in told, e \in Still(k) : t[1] = e.of => t[2] = e.text

TimelineFits(timeline, k) ==
  k.move # NoMovement /\ k.move = MovementBasis(k.day) => timeline # NoMovement

NoteFits(note, k) == k.note = evidence.notes[k.day] => note = k.note

EvidenceFits ==
  /\ evidence \in [texts : [Capture -> SUBSET TextKind], fixed : [Capture -> BOOLEAN],
                   notes : [Day -> Nat], places : Nat]
  /\ DOMAIN dayLeft = {"eager", "changes", "fails", "crashes"}
  /\ \A c \in Capture : \A t \in evidence.texts[c] : Change(t, c) \notin dayLeft.changes

TrackFits ==
  /\ track \in [inbox : SUBSET DOMAIN Position, points : SUBSET DOMAIN Position,
                stays : SUBSET DOMAIN Position, stamp : SUBSET DOMAIN Position,
                posted : SUBSET DOMAIN Position]
  /\ track.stays \subseteq track.points
  /\ track.posted = track.inbox \cup track.points

PassFits ==
  /\ DOMAIN pass = {"at", "batch", "basis", "moves", "waits", "key"}
  /\ pass.basis \subseteq DOMAIN Position
  /\ pass.at = "merge" => pass.batch \subseteq track.inbox
  /\ pass.at = "consume" => pass.batch \subseteq track.points
  /\ \A d \in Day : EntriesFit(pass.key.index[d])
  /\ \A d \in DOMAIN pass.moves : pass.moves[d].points # {}

MemoFits == \A id \in memo.value : KeyFits(id) /\ id.kind = "journal"

NotesFit(k, texts) == k.day \in Day /\ EntriesFit(k.entries) /\ Gathered(texts, k)

JournalFits(k, j) ==
  /\ KeyFits(k)
  /\ ToldFits(j.told, k)
  /\ TimelineFits(j.timeline, k)
  /\ NoteFits(j.note, k)

ShelfFits ==
  /\ DOMAIN shelf = {"notes", "movement", "journals", "search", "searched"}
  /\ \A k \in DOMAIN shelf.notes : NotesFit(k, shelf.notes[k])
  /\ \A k \in DOMAIN shelf.movement : shelf.movement[k].points # {}
  /\ \A k \in DOMAIN shelf.journals : JournalFits(k, shelf.journals[k])

FlowSteps == {"start", "model", "notes", "await", "movement", "compose", "note", "report",
              "done", "failed"}

\* An execution of this id in this state.
FlowFits(id, f) ==
  /\ KeyFits(id)
  /\ DOMAIN f = DOMAIN NewFlow
  /\ f.at \in FlowSteps
  /\ id.kind \in {"notes", "journal"}
  /\ id.kind = "notes" => f.at \in {"start", "model", "done", "failed"}
  /\ f.at \notin {"start", "done", "failed"} => Gathered(f.inputs, id)
  /\ f.at = "await" => \A n \in f.awaits :
       n.kind = "notes" /\ n.day = id.day /\ Still(id) \subseteq n.entries
  /\ "notes" \notin f.recorded => f.told = {}
  /\ "note" \notin f.recorded => f.note = 0
  /\ "notes" \in f.recorded \/ f.at \in {"movement", "compose", "note", "report"}
       => ToldFits(f.told, id)
  /\ f.at = "compose" => f.gathered.points # {}
  /\ "movement" \in f.recorded \/ f.at \in {"note", "report"} => TimelineFits(f.timeline, id)
  /\ "note" \in f.recorded \/ f.at = "report" => NoteFits(f.note, id)

\* What it waits for is there, and so are the notes it has written.
Rests(id) ==
  /\ flow[id].awaits \subseteq DOMAIN flow
  /\ id.kind = "notes" /\ flow[id].at = "done"
       => NotesKey(id.day, id.entries) \in DOMAIN shelf.notes

FlowsFit == \A id \in DOMAIN flow : FlowFits(id, flow[id]) /\ Rests(id)

DayInv == EvidenceFits /\ TrackFits /\ PassFits /\ MemoFits /\ ShelfFits /\ FlowsFit


-----------------------------------------------------------------------------
(* Entries, and how the evidence goes on. *)

\* Evidence only lands, and what is selected of a capture is what just landed,
\* what there was, or nothing.
Later ==
  /\ EvidenceFits /\ EvidenceFits' /\ TrackFits /\ TrackFits'
  /\ dayLeft'.changes \subseteq dayLeft.changes
  /\ \A c \in Capture :
       /\ evidence.fixed[c] => evidence'.fixed[c]
       /\ \/ SelectedText(c)' \in {SelectedText(c), "none"}
          \/ Change(SelectedText(c)', c) \in dayLeft.changes
  /\ \A d \in Day : evidence.notes[d] <= evidence'.notes[d]
  /\ evidence.places <= evidence'.places
  /\ track.points \subseteq track'.points
  /\ track.stays \subseteq track'.stays

\* An entry of a day's index is that of its capture (DayIndex.ts 106-142).
LEMMA IndexEntry ==
  ASSUME EvidenceFits, NEW d \in Day, NEW e \in DayIndex[d]
  PROVE  /\ e.of \in Capture /\ e = Entry(e.of) /\ e \in Shown
         /\ HasText(e.of) /\ DayOf(e.of) = d
         /\ e.text \in evidence.texts[e.of]
BY DEF EvidenceFits, DayIndex, Entry, HasText, SelectedText, Shown, TextKind

LEMMA EntryIndexed ==
  ASSUME NEW c \in Capture, HasText(c), NEW d \in Day, DayOf(c) = d
  PROVE  Entry(c) \in DayIndex[d]
BY DEF DayIndex

\* The index of a day is one that fits.
LEMMA IndexFits ==
  ASSUME EvidenceFits, NEW d \in Day
  PROVE  EntriesFit(DayIndex[d])
<1>1. \A e \in DayIndex[d] :
        /\ e \in Shown /\ e = Entry(e.of) /\ e.of \in Capture
        /\ e.text \in evidence.texts[e.of]
  BY IndexEntry
<1>2. \A e \in DayIndex[d] : Landed(e)
  BY <1>1 DEF Landed, Entry, EvidenceFits
<1> QED BY <1>1, <1>2 DEF EntriesFit

\* An entry that has left its day does not come back.
LEMMA StillShrinks ==
  ASSUME Later, NEW d \in Day, NEW e, Landed(e), e \in Shown, e \in (DayIndex[d])'
  PROVE  e \in DayIndex[d]
<1>1. EvidenceFits /\ EvidenceFits'
  BY DEF Later
<1>2. /\ e.of \in Capture /\ e = Entry(e.of)' /\ HasText(e.of)' /\ DayOf(e.of)' = d
  BY <1>1 DEF EvidenceFits, DayIndex, Entry, HasText, SelectedText, Shown, TextKind
<1> DEFINE c == e.of
<1>3. e.text = SelectedText(c)' /\ e.fixed = evidence'.fixed[c]
  BY <1>2 DEF Entry
<1>4. SelectedText(c) = e.text
  BY <1>2, <1>3 DEF Later, Landed, HasText
<1>5. evidence.fixed[c] = e.fixed
  BY <1>1, <1>2, <1>3 DEF Later, Landed, EvidenceFits
<1>6. e = Entry(c) /\ HasText(c) /\ DayOf(c) = d
  BY <1>2, <1>3, <1>4, <1>5 DEF Entry, HasText, DayOf
<1> QED BY <1>2, <1>6, EntryIndexed

LEMMA LaterEntries ==
  ASSUME Later, NEW entries, EntriesFit(entries)
  PROVE  EntriesFit(entries)'
<1>1. \A e \in entries : Landed(e)'
  BY DEF Later, EntriesFit, Landed, Shown
<1> QED BY <1>1 DEF EntriesFit

LEMMA LaterStill ==
  ASSUME Later, NEW k, k.day \in Day, EntriesFit(k.entries)
  PROVE  Still(k)' \subseteq Still(k)
<1> SUFFICES ASSUME NEW e \in Still(k)'
             PROVE  e \in Still(k)
  OBVIOUS
<1>1. e \in k.entries /\ e \in (DayIndex[k.day])' /\ Landed(e) /\ e \in Shown
  BY DEF Still, EntriesFit
<1> QED BY <1>1, StillShrinks DEF Still

\* A basis that was taken stays within the one there is; once it is another,
\* it stays another.
LEMMA LaterBasis ==
  ASSUME Later, NEW d \in Day, NEW m, BasisFits(m, d)
  PROVE  BasisFits(m, d)' /\ (m = MovementBasis(d)' => m = MovementBasis(d))
<1>1. /\ evidence.places \in Nat /\ evidence'.places \in Nat /\ m.places \in Nat
      /\ evidence.places <= evidence'.places /\ m.places <= evidence.places
  BY DEF Later, EvidenceFits, BasisFits, Basis
<1>2. /\ PointsOn(d, track.points) \subseteq PointsOn(d, track'.points)
      /\ PointsOn(d, track.stays) \subseteq PointsOn(d, track'.stays)
  BY DEF Later, PointsOn
<1>3. BasisFits(m, d)'
  BY <1>1, <1>2 DEF BasisFits
<1>4. ASSUME m = MovementBasis(d)' PROVE m = MovementBasis(d)
  <2>1. /\ m.points = PointsOn(d, track'.points) /\ m.stays = PointsOn(d, track'.stays)
        /\ m.places = evidence'.places
    BY <1>4 DEF MovementBasis
  <2>2. /\ m.points \subseteq PointsOn(d, track.points)
        /\ m.stays \subseteq PointsOn(d, track.stays)
    BY DEF BasisFits
  <2>3. /\ m.points = PointsOn(d, track.points) /\ m.stays = PointsOn(d, track.stays)
        /\ m.places = evidence.places
    BY <1>1, <1>2, <2>1, <2>2
  <2> QED BY <1>4, <2>1, <2>3 DEF MovementBasis
<1> QED BY <1>3, <1>4

LEMMA LaterKey ==
  ASSUME Later, NEW k, KeyFits(k)
  PROVE  KeyFits(k)'
<1>1. k.day \in Day /\ EntriesFit(k.entries)' /\ BasisFits(k.move, k.day)'
  BY LaterEntries, LaterBasis DEF KeyFits
<1>2. /\ k.note \in Nat /\ evidence.notes[k.day] \in Nat /\ evidence'.notes[k.day] \in Nat
      /\ k.note <= evidence.notes[k.day] /\ evidence.notes[k.day] <= evidence'.notes[k.day]
  BY DEF KeyFits, Later, EvidenceFits
<1> QED BY <1>1, <1>2 DEF KeyFits

LEMMA LaterGathered ==
  ASSUME Later, NEW k, k.day \in Day, EntriesFit(k.entries), NEW texts, Gathered(texts, k)
  PROVE  Gathered(texts, k)'
<1>1. Still(k)' \subseteq Still(k)
  BY LaterStill
<1> QED BY <1>1 DEF Gathered, TextsOf

LEMMA LaterTold ==
  ASSUME Later, NEW k, KeyFits(k), NEW told, ToldFits(told, k)
  PROVE  ToldFits(told, k)'
<1>1. Still(k)' \subseteq Still(k)
  BY LaterStill DEF KeyFits
<1> QED BY <1>1 DEF ToldFits, TextsOf

LEMMA LaterTimeline ==
  ASSUME Later, NEW k, KeyFits(k), NEW timeline, TimelineFits(timeline, k)
  PROVE  TimelineFits(timeline, k)'
<1>1. k.move = MovementBasis(k.day)' => k.move = MovementBasis(k.day)
  BY LaterBasis DEF KeyFits
<1> QED BY <1>1 DEF TimelineFits

LEMMA LaterNote ==
  ASSUME Later, NEW k, KeyFits(k), NEW note, NoteFits(note, k)
  PROVE  NoteFits(note, k)'
<1>1. /\ k.note \in Nat /\ evidence.notes[k.day] \in Nat /\ evidence'.notes[k.day] \in Nat
      /\ k.note <= evidence.notes[k.day] /\ evidence.notes[k.day] <= evidence'.notes[k.day]
  BY DEF KeyFits, Later, EvidenceFits
<1> QED BY <1>1 DEF NoteFits

LEMMA LaterNotes ==
  ASSUME Later, NEW k, NEW texts, NotesFit(k, texts)
  PROVE  NotesFit(k, texts)'
BY LaterEntries, LaterGathered DEF NotesFit

LEMMA LaterJournal ==
  ASSUME Later, NEW k, NEW j, JournalFits(k, j)
  PROVE  JournalFits(k, j)'
BY LaterKey, LaterTold, LaterTimeline, LaterNote DEF JournalFits

LEMMA LaterFlow ==
  ASSUME Later, NEW id, NEW f, FlowFits(id, f)
  PROVE  FlowFits(id, f)'
<1>1. KeyFits(id) /\ KeyFits(id)' /\ id.day \in Day /\ EntriesFit(id.entries)
  BY LaterKey DEF FlowFits, KeyFits
<1>2. Still(id)' \subseteq Still(id)
  BY <1>1, LaterStill
<1>3. Gathered(f.inputs, id) => Gathered(f.inputs, id)'
  BY <1>1, LaterGathered
<1>4. ToldFits(f.told, id) => ToldFits(f.told, id)'
  BY <1>1, LaterTold
<1>5. TimelineFits(f.timeline, id) => TimelineFits(f.timeline, id)'
  BY <1>1, LaterTimeline
<1>6. NoteFits(f.note, id) => NoteFits(f.note, id)'
  BY <1>1, LaterNote
<1> QED BY <1>1, <1>2, <1>3, <1>4, <1>5, <1>6 DEF FlowFits


-----------------------------------------------------------------------------
(* What is there stays fit as the evidence goes on.                        *)

LEMMA SameIsLater ==
  ASSUME EvidenceFits, TrackFits, UNCHANGED <<evidence, track>>,
         dayLeft'.changes = dayLeft.changes, DOMAIN dayLeft' = DOMAIN dayLeft
  PROVE  Later
<1>1. EvidenceFits' /\ TrackFits'
  BY DEF EvidenceFits, TrackFits
<1>2. \A c \in Capture : SelectedText(c)' = SelectedText(c)
  BY DEF SelectedText
<1>3. /\ \A d \in Day : evidence.notes[d] \in Nat /\ evidence.notes[d] <= evidence.notes[d]
      /\ evidence.places \in Nat /\ evidence.places <= evidence.places
  BY DEF EvidenceFits
<1> QED BY <1>1, <1>2, <1>3 DEF Later

LEMMA KeptShelf ==
  ASSUME Later, ShelfFits, UNCHANGED shelf
  PROVE  ShelfFits'
<1>1. \A k \in DOMAIN shelf.notes : NotesFit(k, shelf.notes[k])'
  BY LaterNotes DEF ShelfFits
<1>2. \A k \in DOMAIN shelf.journals : JournalFits(k, shelf.journals[k])'
  BY LaterJournal DEF ShelfFits
<1> QED BY <1>1, <1>2 DEF ShelfFits

LEMMA KeptFlows ==
  ASSUME Later, FlowsFit, UNCHANGED flow, DOMAIN shelf.notes \subseteq DOMAIN shelf'.notes
  PROVE  FlowsFit'
<1>1. \A id \in DOMAIN flow : FlowFits(id, flow[id])'
  BY LaterFlow DEF FlowsFit
<1>2. \A id \in DOMAIN flow : Rests(id)'
  BY DEF FlowsFit, Rests
<1> QED BY <1>1, <1>2 DEF FlowsFit

LEMMA KeptMemo ==
  ASSUME Later, MemoFits, UNCHANGED memo
  PROVE  MemoFits'
BY LaterKey DEF MemoFits

LEMMA KeptKey ==
  ASSUME Later, PassFits, pass'.key = pass.key
  PROVE  \A d \in Day : EntriesFit(pass.key.index[d])'
BY LaterEntries DEF PassFits

LEMMA KeptPass ==
  ASSUME Later, PassFits, UNCHANGED pass,
         track.inbox \subseteq track'.inbox, track.points \subseteq track'.points
  PROVE  PassFits'
<1>1. \A d \in Day : EntriesFit(pass.key.index[d])'
  BY KeptKey
<1> QED BY <1>1 DEF PassFits

-----------------------------------------------------------------------------
(* The world. *)

LEMMA DueTakes ==
  ASSUME NEW kind, NEW of, Due(kind, of), EvidenceFits
  PROVE  /\ Change(kind, of) \in dayLeft.changes
         /\ dayLeft'.changes = dayLeft.changes \ {Change(kind, of)}
         /\ DOMAIN dayLeft' = DOMAIN dayLeft
BY DEF Due, EvidenceFits

LEMMA TextLandsLater ==
  ASSUME EvidenceFits, TrackFits, NEW c \in Capture, TextLands(c)
  PROVE  Later
<1>1. PICK from \in TextKind : /\ Due(from, c)
                               /\ evidence' = [evidence EXCEPT !.texts[c] = @ \cup {from}]
  BY DEF TextLands, TextKind
<1>2. /\ Change(from, c) \in dayLeft.changes
      /\ dayLeft'.changes = dayLeft.changes \ {Change(from, c)}
      /\ DOMAIN dayLeft' = DOMAIN dayLeft
  BY <1>1, DueTakes
<1>3. track' = track
  BY DEF TextLands
<1>4. /\ evidence'.texts = [evidence.texts EXCEPT ![c] = @ \cup {from}]
      /\ evidence'.fixed = evidence.fixed /\ evidence'.notes = evidence.notes
      /\ evidence'.places = evidence.places
      /\ evidence' \in [texts : [Capture -> SUBSET TextKind], fixed : [Capture -> BOOLEAN],
                        notes : [Day -> Nat], places : Nat]
  BY <1>1 DEF EvidenceFits
<1>5. EvidenceFits'
  <2>1. \A x \in Capture : \A t \in evidence'.texts[x] :
          t \in evidence.texts[x] \/ (x = c /\ t = from)
    BY <1>4 DEF EvidenceFits
  <2>2. \A x \in Capture : \A t \in evidence'.texts[x] : Change(t, x) \notin dayLeft'.changes
    BY <1>2, <2>1 DEF EvidenceFits
  <2> QED BY <1>2, <1>4, <2>2 DEF EvidenceFits
<1>6. \A x \in Capture : \/ SelectedText(x)' = SelectedText(x)
                         \/ x = c /\ SelectedText(x)' = from
  BY <1>4 DEF EvidenceFits, SelectedText, TextKind
<1>7. /\ \A d \in Day : evidence.notes[d] \in Nat /\ evidence.notes[d] <= evidence'.notes[d]
      /\ evidence.places \in Nat /\ evidence.places <= evidence'.places
  BY <1>4 DEF EvidenceFits
<1>8. TrackFits'
  BY <1>3 DEF TrackFits
<1> QED BY <1>2, <1>3, <1>4, <1>5, <1>6, <1>7, <1>8 DEF Later

LEMMA RetireLater ==
  ASSUME EvidenceFits, TrackFits, NEW c \in Capture, Retire(c)
  PROVE  Later
<1>2. /\ dayLeft'.changes \subseteq dayLeft.changes
      /\ DOMAIN dayLeft' = DOMAIN dayLeft
  BY DueTakes DEF Retire
<1>3. track' = track
  BY DEF Retire
<1>4. /\ evidence'.texts = [evidence.texts EXCEPT ![c] = {}]
      /\ evidence'.fixed = evidence.fixed /\ evidence'.notes = evidence.notes
      /\ evidence'.places = evidence.places
      /\ evidence' \in [texts : [Capture -> SUBSET TextKind], fixed : [Capture -> BOOLEAN],
                        notes : [Day -> Nat], places : Nat]
  BY DEF Retire, EvidenceFits
<1>5. EvidenceFits'
  <2>1. \A x \in Capture : evidence'.texts[x] \subseteq evidence.texts[x]
    BY <1>4 DEF EvidenceFits
  <2> QED BY <1>2, <1>4, <2>1 DEF EvidenceFits
<1>6. \A x \in Capture : SelectedText(x)' = SelectedText(x) \/ SelectedText(x)' = "none"
  BY <1>4 DEF EvidenceFits, SelectedText
<1>7. /\ \A d \in Day : evidence.notes[d] \in Nat /\ evidence.notes[d] <= evidence'.notes[d]
      /\ evidence.places \in Nat /\ evidence.places <= evidence'.places
  BY <1>4 DEF EvidenceFits
<1>8. TrackFits'
  BY <1>3 DEF TrackFits
<1> QED BY <1>2, <1>3, <1>4, <1>5, <1>6, <1>7, <1>8 DEF Later

LEMMA OthersLater ==
  ASSUME EvidenceFits, TrackFits,
         \/ \E c \in Capture : Correct(c)
         \/ \E d \in Day : NoteLands(d)
         \/ ReplacePlaces
  PROVE  Later
<1>2. /\ dayLeft'.changes \subseteq dayLeft.changes
      /\ DOMAIN dayLeft' = DOMAIN dayLeft
  BY DueTakes DEF Correct, NoteLands, ReplacePlaces
<1>3. track' = track
  BY DEF Correct, NoteLands, ReplacePlaces
<1>4. /\ evidence'.texts = evidence.texts
      /\ \A c \in Capture : evidence.fixed[c] => evidence'.fixed[c]
      /\ \A d \in Day : evidence.notes[d] <= evidence'.notes[d]
      /\ evidence.places <= evidence'.places
      /\ evidence' \in [texts : [Capture -> SUBSET TextKind], fixed : [Capture -> BOOLEAN],
                        notes : [Day -> Nat], places : Nat]
  <2>1. CASE \E c \in Capture : Correct(c)
    <3>1. PICK c \in Capture : evidence' = [evidence EXCEPT !.fixed[c] = TRUE]
      BY <2>1 DEF Correct
    <3>2. /\ evidence'.fixed = [evidence.fixed EXCEPT ![c] = TRUE]
          /\ evidence'.texts = evidence.texts /\ evidence'.notes = evidence.notes
          /\ evidence'.places = evidence.places
          /\ evidence' \in [texts : [Capture -> SUBSET TextKind], fixed : [Capture -> BOOLEAN],
                            notes : [Day -> Nat], places : Nat]
      BY <3>1 DEF EvidenceFits
    <3>3. /\ \A d \in Day : evidence.notes[d] <= evidence'.notes[d]
          /\ evidence.places <= evidence'.places
      BY <3>2 DEF EvidenceFits
    <3> QED BY <3>2, <3>3 DEF EvidenceFits
  <2>2. CASE \E d \in Day : NoteLands(d)
    BY <2>2 DEF NoteLands, EvidenceFits
  <2>3. CASE ReplacePlaces
    BY <2>3 DEF ReplacePlaces, EvidenceFits
  <2> QED BY <2>1, <2>2, <2>3
<1>5. EvidenceFits'
  BY <1>2, <1>4 DEF EvidenceFits
<1>6. \A x \in Capture : SelectedText(x)' = SelectedText(x)
  BY <1>4 DEF SelectedText
<1>8. TrackFits'
  BY <1>3 DEF TrackFits
<1> QED BY <1>2, <1>3, <1>4, <1>5, <1>6, <1>8 DEF Later

LEMMA PostLater ==
  ASSUME EvidenceFits, TrackFits, NEW p \in DOMAIN Position, PostPosition(p)
  PROVE  Later /\ track.inbox \subseteq track'.inbox
<1>2. /\ dayLeft'.changes \subseteq dayLeft.changes
      /\ DOMAIN dayLeft' = DOMAIN dayLeft
  BY DueTakes DEF PostPosition
<1>3. evidence' = evidence
  BY DEF PostPosition
<1>4. /\ track'.inbox = track.inbox \cup {p} /\ track'.posted = track.posted \cup {p}
      /\ track'.points = track.points /\ track'.stays = track.stays
      /\ TrackFits'
  BY DEF PostPosition, TrackFits
<1>5. EvidenceFits'
  BY <1>2, <1>3 DEF EvidenceFits
<1>6. \A x \in Capture : SelectedText(x)' = SelectedText(x)
  BY <1>3 DEF SelectedText
<1>7. /\ \A d \in Day : evidence.notes[d] \in Nat /\ evidence.notes[d] <= evidence'.notes[d]
      /\ evidence.places \in Nat /\ evidence.places <= evidence'.places
  BY <1>3 DEF EvidenceFits
<1> QED BY <1>2, <1>3, <1>4, <1>5, <1>6, <1>7 DEF Later

LEMMA WorldFits ==
  ASSUME DayInv, World
  PROVE  DayInv'
<1> USE DEF DayInv
<1>1. UNCHANGED <<shelf, flow, pass, memo>>
  BY DEF World
<1>2. Later /\ track.inbox \subseteq track'.inbox /\ track.points \subseteq track'.points
  <2>1. CASE \E c \in Capture : TextLands(c)
    BY <2>1, TextLandsLater DEF TextLands
  <2>2. CASE \E c \in Capture : Retire(c)
    BY <2>2, RetireLater DEF Retire
  <2>3. CASE \/ \E c \in Capture : Correct(c)
             \/ \E d \in Day : NoteLands(d)
             \/ ReplacePlaces
    BY <2>3, OthersLater DEF Correct, NoteLands, ReplacePlaces
  <2>4. CASE \E p \in DOMAIN Position : PostPosition(p)
    BY <2>4, PostLater DEF Later
  <2> QED BY <2>1, <2>2, <2>3, <2>4 DEF World
<1>3. ShelfFits' /\ FlowsFit' /\ MemoFits' /\ PassFits'
  BY <1>1, <1>2, KeptShelf, KeptFlows, KeptMemo, KeptPass
<1> QED BY <1>2, <1>3 DEF Later

LEMMA HourFits ==
  ASSUME DayInv, Hour \/ UNCHANGED dayVars
  PROVE  DayInv'
<1> USE DEF DayInv
<1>1. UNCHANGED <<evidence, track, shelf, flow, pass, memo, dayLeft>>
  BY DEF Hour, dayVars
<1>2. Later
  BY <1>1, SameIsLater
<1>3. ShelfFits' /\ FlowsFit' /\ MemoFits' /\ PassFits'
  BY <1>1, <1>2, KeptShelf, KeptFlows, KeptMemo, KeptPass
<1> QED BY <1>2, <1>3 DEF Later

-----------------------------------------------------------------------------
(* The stages of a pass.                                                   *)

LEMMA NothingFits ==
  /\ EntriesFit({})
  /\ EvidenceFits => \A d \in Day : KeyFits([day |-> d, entries |-> {}, move |-> NoMovement, note |-> 0])
<1>1. EntriesFit({})
  BY DEF EntriesFit
<1>2. ASSUME EvidenceFits, NEW d \in Day PROVE BasisFits(NoMovement, d)
  BY <1>2 DEF EvidenceFits, BasisFits, Basis, NoMovement
<1>3. ASSUME EvidenceFits, NEW d \in Day PROVE 0 <= evidence.notes[d]
  BY <1>3 DEF EvidenceFits
<1> QED BY <1>1, <1>2, <1>3 DEF KeyFits

LEMMA IdleFits ==
  ASSUME pass' = Idle
  PROVE  PassFits'
<1>1. /\ DOMAIN pass' = {"at", "batch", "basis", "moves", "waits", "key"}
      /\ pass'.at = "idle" /\ pass'.moves = NoFile /\ pass'.key = NoKey
      /\ pass'.basis = {}
  BY DEF Idle
<1>2. \A d \in Day : pass'.key.index[d] = {}
  BY <1>1 DEF NoKey
<1>3. \A d \in Day : EntriesFit(pass.key.index[d])'
  BY <1>2 DEF EntriesFit
<1> QED BY <1>1, <1>3 DEF PassFits, NoFile

\* What a stage does to the positions: nothing is lost on the way
\* (Gps.ts: the inbox files are removed once their days are replaced).
LEMMA StageTracks ==
  ASSUME TrackFits, PassFits, ListInbox \/ Merge \/ Consume \/ FindStays \/ StampStays
  PROVE  /\ TrackFits'
         /\ track.points \subseteq track'.points /\ track.stays \subseteq track'.stays
         /\ dayLeft'.changes = dayLeft.changes /\ DOMAIN dayLeft' = DOMAIN dayLeft
         /\ DOMAIN pass' = DOMAIN pass
         /\ pass'.key = pass.key /\ pass'.moves = pass.moves
         /\ pass'.basis \subseteq DOMAIN Position
         /\ pass'.at = "merge" => pass'.batch \subseteq track'.inbox
         /\ pass'.at = "consume" => pass'.batch \subseteq track'.points
<1> USE DEF TrackFits, PassFits
<1>1. CASE ListInbox
  BY <1>1 DEF ListInbox
<1>2. CASE Merge
  <2>1. CASE StageFails("stays") /\ UNCHANGED track
    BY <2>1 DEF StageFails, OneFailure, Then
  <2>2. CASE /\ pass.at = "merge"
             /\ \E d \in Day : LET points == track.points \cup PointsOn(d, pass.batch) IN
                  /\ track' = [track EXCEPT !.points = points]
                  /\ Then(IF pass.batch \subseteq points THEN "consume" ELSE "merge")
                  /\ UNCHANGED dayLeft
    <3>1. PICK d \in Day :
            /\ track' = [track EXCEPT !.points = track.points \cup PointsOn(d, pass.batch)]
            /\ pass' = [pass EXCEPT !.at =
                 IF pass.batch \subseteq track.points \cup PointsOn(d, pass.batch)
                 THEN "consume" ELSE "merge"]
            /\ UNCHANGED dayLeft
      BY <2>2 DEF Then
    <3>2. PointsOn(d, pass.batch) \subseteq track.inbox
      BY <2>2 DEF PointsOn
    <3>3. TrackFits' /\ track'.points = track.points \cup PointsOn(d, pass.batch)
          /\ track'.inbox = track.inbox /\ track'.stays = track.stays
      BY <3>1, <3>2
    <3> QED BY <2>2, <3>1, <3>3
  <2> QED BY <1>2, <2>1, <2>2 DEF Merge
<1>3. CASE Consume
  BY <1>3 DEF Consume, Then
<1>4. CASE FindStays
  <2>1. CASE track.stamp = track.points /\ Then("search") /\ UNCHANGED <<track, dayLeft>>
    BY <2>1 DEF Then
  <2>2. CASE /\ track' = [track EXCEPT !.stays = track.points]
             /\ pass' = [pass EXCEPT !.at = "stamp", !.basis = track.points]
             /\ UNCHANGED dayLeft
    BY <2>2
  <2>3. CASE StageFails("search") /\ UNCHANGED track
    BY <2>3 DEF StageFails, OneFailure, Then
  <2> QED BY <1>4, <2>1, <2>2, <2>3 DEF FindStays
<1>5. CASE StampStays
  BY <1>5 DEF StampStays, Then
<1> QED BY <1>1, <1>2, <1>3, <1>4, <1>5

LEMMA StageFits ==
  ASSUME DayInv, StageStep, UNCHANGED evidence
  PROVE  DayInv'
<1> USE DEF DayInv
<1>1. /\ UNCHANGED <<shelf, flow, memo>>
      /\ ListInbox \/ Merge \/ Consume \/ FindStays \/ StampStays
  BY DEF StageStep
<1>2. /\ TrackFits'
      /\ track.points \subseteq track'.points /\ track.stays \subseteq track'.stays
      /\ dayLeft'.changes = dayLeft.changes /\ DOMAIN dayLeft' = DOMAIN dayLeft
      /\ DOMAIN pass' = DOMAIN pass
      /\ pass'.key = pass.key /\ pass'.moves = pass.moves
      /\ pass'.basis \subseteq DOMAIN Position
      /\ pass'.at = "merge" => pass'.batch \subseteq track'.inbox
      /\ pass'.at = "consume" => pass'.batch \subseteq track'.points
  BY <1>1, StageTracks
<1>3. EvidenceFits'
  BY <1>2 DEF EvidenceFits
<1>4. \A c \in Capture : SelectedText(c)' = SelectedText(c)
  BY DEF SelectedText
<1>5. /\ \A d \in Day : evidence.notes[d] \in Nat /\ evidence.notes[d] <= evidence.notes[d]
      /\ evidence.places \in Nat /\ evidence.places <= evidence.places
  BY DEF EvidenceFits
<1>6. Later
  BY <1>2, <1>3, <1>4, <1>5 DEF Later
<1>7. \A d \in Day : EntriesFit(pass.key.index[d])'
  BY <1>2, <1>6, KeptKey
<1>8. PassFits'
  BY <1>2, <1>7 DEF PassFits
<1>9. ShelfFits' /\ FlowsFit' /\ MemoFits'
  BY <1>1, <1>6, KeptShelf, KeptFlows, KeptMemo
<1> QED BY <1>2, <1>3, <1>8, <1>9


-----------------------------------------------------------------------------
(* The resources of a pass.                                                *)

LEMMA BasisOfDay ==
  ASSUME EvidenceFits, TrackFits, NEW d \in MovementDays
  PROVE  d \in Day /\ BasisFits(MovementBasis(d), d) /\ MovementBasis(d).points # {}
<1>1. d \in Day
  BY DEF MovementDays, Day, TrackFits
<1>2. PICK p \in track.points : Position[p] = d
  BY DEF MovementDays
<1>3. MovementBasis(d) = [points |-> PointsOn(d, track.points),
                          stays |-> PointsOn(d, track.stays), places |-> evidence.places]
  BY DEF MovementBasis
<1>4. p \in PointsOn(d, track.points)
  BY <1>2 DEF PointsOn
<1>5. MovementBasis(d) \in Basis
  <2>1. PointsOn(d, track.points) \subseteq DOMAIN Position
    BY DEF PointsOn, TrackFits
  <2>2. PointsOn(d, track.stays) \subseteq DOMAIN Position
    BY DEF PointsOn, TrackFits
  <2>3. evidence.places \in Nat
    BY DEF EvidenceFits
  <2> QED BY <1>3, <2>1, <2>2, <2>3 DEF Basis
<1>6. evidence.places <= evidence.places
  BY DEF EvidenceFits
<1> QED BY <1>1, <1>3, <1>4, <1>5, <1>6 DEF BasisFits

\* The key of a day's journal fits, whichever index it is made of
\* (Journal.ts 306-343).
LEMMA JournalKeyFits ==
  ASSUME EvidenceFits, TrackFits, NEW d \in Day, NEW index, EntriesFit(index[d])
  PROVE  KeyFits(JournalKey(d, index))
<1> DEFINE k == JournalKey(d, index)
<1>1. /\ k.day = d /\ k.entries = index[d] /\ k.note = evidence.notes[d]
      /\ k.move = IF d \in MovementDays THEN MovementBasis(d) ELSE NoMovement
  BY DEF JournalKey
<1>2. BasisFits(k.move, d)
  <2>1. CASE d \in MovementDays
    BY <1>1, <2>1, BasisOfDay
  <2>2. CASE d \notin MovementDays
    BY <1>1, <2>2, NothingFits DEF KeyFits
  <2> QED BY <2>1, <2>2
<1>3. evidence.notes[d] \in Nat /\ evidence.notes[d] <= evidence.notes[d]
  BY DEF EvidenceFits
<1> HIDE DEF k
<1>4. KeyFits(k)
  BY <1>1, <1>2, <1>3 DEF KeyFits
<1> QED BY <1>4 DEF k

LEMMA NewFlowFits ==
  ASSUME NEW id, KeyFits(id), id.kind \in {"notes", "journal"}
  PROVE  FlowFits(id, NewFlow)
BY DEF FlowFits, NewFlow, FlowSteps

LEMMA NotesFlowFits ==
  ASSUME EvidenceFits, NEW d \in Day, NEW entries, EntriesFit(entries), NEW w
  PROVE  KeyFits(NotesFlow(d, entries, w)) /\ NotesFlow(d, entries, w).kind = "notes"
<1>1. KeyFits([day |-> d, entries |-> {}, move |-> NoMovement, note |-> 0])
  BY NothingFits
<1> QED BY <1>1 DEF KeyFits, NotesFlow

\* An execution that is asked for joins those there are, or is a new one.
LEMMA ExecutingFits ==
  ASSUME Later, FlowsFit, NEW ids,
         \A id \in ids : KeyFits(id) /\ id.kind \in {"notes", "journal"},
         flow' = Executing(flow, ids), DOMAIN shelf.notes \subseteq DOMAIN shelf'.notes
  PROVE  FlowsFit'
<1>1. /\ DOMAIN flow' = DOMAIN flow \cup ids
      /\ \A id \in DOMAIN flow : flow'[id] = flow[id]
      /\ \A id \in ids \ DOMAIN flow : flow'[id] = NewFlow
  BY DEF Executing
<1>2. ASSUME NEW id \in DOMAIN flow
      PROVE  FlowFits(id, flow[id])' /\ Rests(id)'
  <2>1. FlowFits(id, flow[id]) /\ Rests(id)
    BY DEF FlowsFit
  <2>2. PICK f : f = flow[id]
    OBVIOUS
  <2>3. FlowFits(id, f)'
    BY <2>1, <2>2, LaterFlow
  <2>4. f = flow'[id]
    BY <1>1, <2>2
  <2>5. FlowFits(id, flow[id])'
    BY <2>3, <2>4
  <2> QED BY <1>1, <2>1, <2>5 DEF Rests
<1>3. ASSUME NEW id \in ids \ DOMAIN flow
      PROVE  FlowFits(id, flow[id])' /\ Rests(id)'
  <2>1. PICK f : f = NewFlow
    OBVIOUS
  <2>2. FlowFits(id, f)'
    BY <2>1, NewFlowFits, LaterFlow
  <2>3. f = flow'[id] /\ f.awaits = {} /\ f.at = "start"
    BY <1>1, <2>1 DEF NewFlow
  <2>4. FlowFits(id, flow[id])'
    BY <2>2, <2>3
  <2> QED BY <2>3, <2>4 DEF Rests
<1> QED BY <1>1, <1>2, <1>3 DEF FlowsFit


LEMMA KeptParts ==
  ASSUME Later, ShelfFits, DOMAIN shelf' = DOMAIN shelf, shelf'.notes = shelf.notes,
         shelf'.movement = shelf.movement, shelf'.journals = shelf.journals
  PROVE  ShelfFits'
<1>1. \A k \in DOMAIN shelf.notes : NotesFit(k, shelf.notes[k])'
  BY LaterNotes DEF ShelfFits
<1>2. \A k \in DOMAIN shelf.journals : JournalFits(k, shelf.journals[k])'
  BY LaterJournal DEF ShelfFits
<1> QED BY <1>1, <1>2 DEF ShelfFits

\* The pass goes on with another key or other movements, or with what it had.
LEMMA GoesOn ==
  ASSUME Later, PassFits, UNCHANGED track, DOMAIN pass' = DOMAIN pass,
         pass'.basis = pass.basis, pass'.at \notin {"merge", "consume"},
         \A d \in Day : pass'.key.index[d] = pass.key.index[d] \/ pass'.key.index[d] = DayIndex[d],
         \A d \in DOMAIN pass'.moves : pass'.moves[d].points # {}
  PROVE  PassFits'
<1>1. ASSUME NEW d \in Day PROVE EntriesFit(pass.key.index[d])'
  <2>1. PICK entries : entries = pass'.key.index[d]
    OBVIOUS
  <2>2. EvidenceFits
    BY DEF Later
  <2>3. EntriesFit(entries)
    BY <2>1, <2>2, IndexFits DEF PassFits
  <2>4. EntriesFit(entries)'
    BY <2>3, LaterEntries
  <2> QED BY <2>1, <2>4
<1> QED BY <1>1 DEF PassFits

LEMMA SearchAndMovementFit ==
  ASSUME DayInv, PublishSearch \/ GatherMovement \/ ComposeMovement,
         UNCHANGED <<evidence, track, dayLeft>>
  PROVE  DayInv'
<1> USE DEF DayInv
<1>1. Later /\ EvidenceFits' /\ TrackFits'
  BY SameIsLater DEF Later
<1>2. UNCHANGED <<flow, memo>>
  BY DEF PublishSearch, GatherMovement, ComposeMovement
<1>3. DOMAIN pass = {"at", "batch", "basis", "moves", "waits", "key"}
  BY DEF PassFits
<1>4. CASE PublishSearch
  <2>1. pass' = [pass EXCEPT !.at = "movement"]
    BY <1>4 DEF PublishSearch, Then
  <2>2. \/ UNCHANGED shelf
        \/ shelf' = [shelf EXCEPT !.search = DayIndex, !.searched = @ \cup {DayIndex}]
    BY <1>4 DEF PublishSearch
  <2>3. ShelfFits'
    BY <1>1, <2>2, KeptParts DEF ShelfFits
  <2>4. PassFits'
    BY <1>1, <1>3, <2>1, GoesOn DEF PassFits
  <2>5. FlowsFit' /\ MemoFits'
    BY <1>1, <1>2, <2>2, KeptFlows, KeptMemo DEF ShelfFits
  <2> QED BY <1>1, <2>3, <2>4, <2>5
<1>5. CASE GatherMovement
  <2>1. /\ pass'.at = "compose" /\ pass'.basis = pass.basis /\ pass'.key = pass.key
        /\ DOMAIN pass' = DOMAIN pass
        /\ \A d \in DOMAIN pass'.moves : d \in MovementDays /\ pass'.moves[d] = MovementBasis(d)
    BY <1>3, <1>5 DEF GatherMovement
  <2>2. \A d \in DOMAIN pass'.moves : pass'.moves[d].points # {}
    BY <2>1, BasisOfDay
  <2>3. PassFits'
    BY <1>1, <2>1, <2>2, GoesOn
  <2>4. UNCHANGED shelf
    BY <1>5 DEF GatherMovement
  <2> QED BY <1>1, <1>2, <2>3, <2>4, KeptShelf, KeptFlows, KeptMemo
<1>6. CASE ComposeMovement
  <2>1. /\ DOMAIN shelf' = DOMAIN shelf /\ shelf'.notes = shelf.notes
        /\ shelf'.journals = shelf.journals
    BY <1>6 DEF ComposeMovement, ShelfFits
  <2>2. pass' = [pass EXCEPT !.at = "notes", !.moves = NoFile]
    BY <1>6 DEF ComposeMovement
  <2>3. \A k \in DOMAIN shelf'.movement : shelf'.movement[k].points # {}
    <3> DEFINE made == {<<d, MovementBasis(d)>> : d \in DOMAIN pass.moves}
    <3>1. shelf'.movement = [k \in DOMAIN shelf.movement \cup made |->
             IF k \in made THEN pass.moves[k[1]] ELSE shelf.movement[k]]
      BY <1>6 DEF ComposeMovement, ShelfFits
    <3>2. \A k \in made : k[1] \in DOMAIN pass.moves
      OBVIOUS
    <3> HIDE DEF made
    <3> QED BY <3>1, <3>2 DEF ShelfFits, PassFits
  <2>4. ShelfFits'
    <3>1. \A k \in DOMAIN shelf.notes : NotesFit(k, shelf.notes[k])'
      BY <1>1, <2>1, LaterNotes DEF ShelfFits
    <3>2. \A k \in DOMAIN shelf.journals : JournalFits(k, shelf.journals[k])'
      BY <1>1, <2>1, LaterJournal DEF ShelfFits
    <3> QED BY <2>1, <2>3, <3>1, <3>2 DEF ShelfFits
  <2>5. DOMAIN NoFile = {}
    BY DEF NoFile
  <2>6. PassFits'
    BY <1>1, <1>3, <2>2, <2>5, GoesOn
  <2> QED BY <1>1, <1>2, <2>1, <2>4, <2>6, KeptFlows, KeptMemo
<1> QED BY <1>4, <1>5, <1>6

LEMMA WritersFit ==
  ASSUME DayInv, WriteNotes \/ WriteJournals, UNCHANGED <<evidence, track, dayLeft>>
  PROVE  DayInv'
<1> USE DEF DayInv
<1>1. Later /\ EvidenceFits' /\ TrackFits'
  BY SameIsLater DEF Later
<1>2. UNCHANGED <<shelf, memo>>
  BY DEF WriteNotes, WriteJournals
<1>3. DOMAIN pass = {"at", "batch", "basis", "moves", "waits", "key"}
  BY DEF PassFits
<1>4. PassFits'
  <2>1. CASE WriteNotes
    BY <1>1, <1>3, <2>1, GoesOn DEF WriteNotes, PassFits
  <2>2. CASE WriteJournals
    BY <1>1, <1>3, <2>2, GoesOn DEF WriteJournals, PassFits
  <2> QED BY <2>1, <2>2
<1>5. FlowsFit'
  <2>1. CASE WriteNotes
    <3> DEFINE days == {x \in Day \cap EagerDays : DayIndex[x] # {}
                          /\ NotesKey(x, DayIndex[x]) \notin DOMAIN shelf.notes}
               wanted == {NotesFlow(d, DayIndex[d], window) : d \in days}
    <3>1. flow' = Executing(flow, wanted)
      BY <2>1 DEF WriteNotes
    <3>2. \A id \in wanted : KeyFits(id) /\ id.kind = "notes"
      BY IndexFits, NotesFlowFits
    <3> HIDE DEF wanted
    <3> QED BY <1>1, <1>2, <3>1, <3>2, ExecutingFits
  <2>2. CASE WriteJournals
    <3> DEFINE wanted == {id \in memo.value : KeyOf(id) \notin DOMAIN shelf.journals}
    <3>1. flow' = Executing(flow, wanted)
      BY <2>2 DEF WriteJournals
    <3>2. \A id \in wanted : KeyFits(id) /\ id.kind = "journal"
      BY DEF MemoFits
    <3> HIDE DEF wanted
    <3> QED BY <1>1, <1>2, <3>1, <3>2, ExecutingFits
  <2> QED BY <2>1, <2>2
<1> QED BY <1>1, <1>2, <1>4, <1>5, KeptShelf, KeptMemo

LEMMA MemoryFits ==
  ASSUME DayInv, AwaitNotes \/ AskMemo \/ Enumerate \/ Report,
         UNCHANGED <<evidence, track, dayLeft>>
  PROVE  DayInv'
<1> USE DEF DayInv
<1>1. Later /\ EvidenceFits' /\ TrackFits'
  BY SameIsLater DEF Later
<1>2. UNCHANGED <<shelf, flow>>
  BY DEF AwaitNotes, AskMemo, Enumerate, Report
<1>3. DOMAIN pass = {"at", "batch", "basis", "moves", "waits", "key"}
  BY DEF PassFits
<1>4. PassFits'
  <2>1. CASE AwaitNotes
    BY <1>1, <1>3, <2>1, GoesOn DEF AwaitNotes, PassFits
  <2>2. CASE AskMemo
    <3>1. CASE Then("write")
      BY <1>1, <1>3, <3>1, GoesOn DEF PassFits, Then
    <3>2. CASE pass' = [pass EXCEPT !.at = "enumerate", !.key = MemoKey]
      <4>1. MemoKey.index = DayIndex
        BY DEF MemoKey
      <4>2. pass'.key.index = DayIndex
        BY <1>3, <3>2, <4>1
      <4> QED BY <1>1, <1>3, <3>2, <4>2, GoesOn DEF PassFits
    <3> QED BY <2>2, <3>1, <3>2 DEF AskMemo
  <2>3. CASE Enumerate
    BY <1>1, <1>3, <2>3, GoesOn DEF Enumerate, PassFits, Then
  <2>4. CASE Report
    BY <2>4, IdleFits DEF Report
  <2> QED BY <2>1, <2>2, <2>3, <2>4
<1>5. MemoFits'
  <2>1. CASE UNCHANGED memo
    BY <1>1, <2>1, KeptMemo
  <2>2. CASE Enumerate
    <3>1. ASSUME NEW id \in memo'.value PROVE KeyFits(id)' /\ id.kind = "journal"
      <4>1. PICK d \in Day : id = JournalFlow(JournalKey(d, pass.key.index), window)
        BY <2>2 DEF Enumerate
      <4>2. KeyFits(JournalKey(d, pass.key.index))
        BY JournalKeyFits DEF PassFits
      <4>3. KeyFits(id) /\ id.kind = "journal"
        BY <4>1, <4>2 DEF KeyFits, JournalFlow
      <4> QED BY <1>1, <4>3, LaterKey
    <3> QED BY <3>1 DEF MemoFits
  <2> QED BY <2>1, <2>2 DEF AwaitNotes, AskMemo, Enumerate, Report
<1> QED BY <1>1, <1>2, <1>4, <1>5, KeptShelf, KeptFlows

LEMMA PassStepFits ==
  ASSUME DayInv, PassStep
  PROVE  DayInv'
<1>1. UNCHANGED evidence /\ (StageStep \/ Resources)
  BY DEF PassStep
<1>2. CASE StageStep
  BY <1>1, <1>2, StageFits
<1>3. CASE Resources
  BY <1>1, <1>3, SearchAndMovementFit, WritersFit, MemoryFits DEF Resources
<1> QED BY <1>1, <1>2, <1>3


-----------------------------------------------------------------------------
(* The executions.                                                         *)

LEMMA Advances ==
  ASSUME FlowsFit, NEW id \in DOMAIN flow, NEW at, Advance(id, at)
  PROVE  /\ DOMAIN flow' = DOMAIN flow /\ DOMAIN flow'[id] = DOMAIN flow[id]
         /\ \A i \in DOMAIN flow \ {id} : flow'[i] = flow[i]
         /\ flow'[id].at = at /\ flow'[id].inputs = flow[id].inputs
         /\ flow'[id].awaits = flow[id].awaits /\ flow'[id].gathered = flow[id].gathered
         /\ flow'[id].recorded = flow[id].recorded /\ flow'[id].told = flow[id].told
         /\ flow'[id].timeline = flow[id].timeline /\ flow'[id].note = flow[id].note
<1>1. DOMAIN flow[id] = {"at", "inputs", "awaits", "gathered", "recorded", "told",
                         "timeline", "note"}
  BY DEF FlowsFit, FlowFits, NewFlow
<1> QED BY <1>1 DEF Advance

LEMMA RemembersTold ==
  ASSUME FlowsFit, NEW id \in DOMAIN flow, NEW content,
         Remember(id, "notes", "told", content, "movement")
  PROVE  /\ DOMAIN flow' = DOMAIN flow /\ DOMAIN flow'[id] = DOMAIN flow[id]
         /\ \A i \in DOMAIN flow \ {id} : flow'[i] = flow[i]
         /\ flow'[id].at = "movement" /\ flow'[id].told = content
         /\ flow'[id].awaits = flow[id].awaits /\ flow'[id].inputs = flow[id].inputs
         /\ flow'[id].recorded = flow[id].recorded \cup {"notes"}
         /\ flow'[id].timeline = flow[id].timeline /\ flow'[id].note = flow[id].note
<1>1. DOMAIN flow[id] = {"at", "inputs", "awaits", "gathered", "recorded", "told",
                         "timeline", "note"}
  BY DEF FlowsFit, FlowFits, NewFlow
<1> QED BY <1>1 DEF Remember

LEMMA RemembersTimeline ==
  ASSUME FlowsFit, NEW id \in DOMAIN flow, NEW content,
         Remember(id, "movement", "timeline", content, "note")
  PROVE  /\ DOMAIN flow' = DOMAIN flow /\ DOMAIN flow'[id] = DOMAIN flow[id]
         /\ \A i \in DOMAIN flow \ {id} : flow'[i] = flow[i]
         /\ flow'[id].at = "note" /\ flow'[id].timeline = content
         /\ flow'[id].awaits = flow[id].awaits /\ flow'[id].inputs = flow[id].inputs
         /\ flow'[id].recorded = flow[id].recorded \cup {"movement"}
         /\ flow'[id].told = flow[id].told /\ flow'[id].note = flow[id].note
<1>1. DOMAIN flow[id] = {"at", "inputs", "awaits", "gathered", "recorded", "told",
                         "timeline", "note"}
  BY DEF FlowsFit, FlowFits, NewFlow
<1> QED BY <1>1 DEF Remember

LEMMA RemembersNote ==
  ASSUME FlowsFit, NEW id \in DOMAIN flow, NEW content,
         Remember(id, "note", "note", content, "report")
  PROVE  /\ DOMAIN flow' = DOMAIN flow /\ DOMAIN flow'[id] = DOMAIN flow[id]
         /\ \A i \in DOMAIN flow \ {id} : flow'[i] = flow[i]
         /\ flow'[id].at = "report" /\ flow'[id].note = content
         /\ flow'[id].awaits = flow[id].awaits /\ flow'[id].inputs = flow[id].inputs
         /\ flow'[id].recorded = flow[id].recorded \cup {"note"}
         /\ flow'[id].told = flow[id].told /\ flow'[id].timeline = flow[id].timeline
<1>1. DOMAIN flow[id] = {"at", "inputs", "awaits", "gathered", "recorded", "told",
                         "timeline", "note"}
  BY DEF FlowsFit, FlowFits, NewFlow
<1> QED BY <1>1 DEF Remember

\* One execution goes on, and another may have been asked for.
LEMMA FlowMoves ==
  ASSUME Later, FlowsFit, NEW id \in DOMAIN flow, NEW ids, NEW g, FlowFits(id, g),
         \A i \in ids : KeyFits(i) /\ i.kind \in {"notes", "journal"},
         DOMAIN flow' = DOMAIN flow \cup ids, flow'[id] = g,
         \A i \in DOMAIN flow \ {id} : flow'[i] = flow[i],
         \A i \in ids \ DOMAIN flow : flow'[i] = NewFlow,
         g.awaits \subseteq flow[id].awaits \cup ids,
         DOMAIN shelf.notes \subseteq DOMAIN shelf'.notes,
         id.kind = "notes" /\ g.at = "done" =>
           NotesKey(id.day, id.entries) \in DOMAIN shelf'.notes
  PROVE  FlowsFit'
<1>1. ASSUME NEW i \in DOMAIN flow \ {id}
      PROVE  FlowFits(i, flow[i])' /\ Rests(i)'
  <2>1. FlowFits(i, flow[i]) /\ Rests(i)
    BY DEF FlowsFit
  <2>2. PICK f : f = flow[i]
    OBVIOUS
  <2>3. FlowFits(i, f)'
    BY <2>1, <2>2, LaterFlow
  <2>4. f = flow'[i]
    BY <2>2
  <2>5. FlowFits(i, flow[i])'
    BY <2>3, <2>4
  <2> QED BY <2>1, <2>5 DEF Rests
<1>2. ASSUME NEW i \in ids \ DOMAIN flow
      PROVE  FlowFits(i, flow[i])' /\ Rests(i)'
  <2>1. PICK f : f = NewFlow
    OBVIOUS
  <2>2. FlowFits(i, f)'
    BY <2>1, NewFlowFits, LaterFlow
  <2>3. f = flow'[i] /\ f.awaits = {} /\ f.at = "start"
    BY <2>1 DEF NewFlow
  <2>4. FlowFits(i, flow[i])'
    BY <2>2, <2>3
  <2> QED BY <2>3, <2>4 DEF Rests
<1>3. FlowFits(id, flow[id])' /\ Rests(id)'
  <2>1. FlowFits(id, g)'
    BY LaterFlow
  <2>2. FlowFits(id, flow[id])'
    BY <2>1
  <2>3. flow[id].awaits \subseteq DOMAIN flow
    BY DEF FlowsFit, Rests
  <2> QED BY <2>2, <2>3 DEF Rests
<1> QED BY <1>1, <1>2, <1>3 DEF FlowsFit

LEMMA OneFlowMoves ==
  ASSUME Later, FlowsFit, NEW id \in DOMAIN flow, FlowFits(id, flow'[id]),
         DOMAIN flow' = DOMAIN flow,
         \A i \in DOMAIN flow \ {id} : flow'[i] = flow[i],
         flow'[id].awaits = flow[id].awaits,
         DOMAIN shelf.notes \subseteq DOMAIN shelf'.notes,
         id.kind = "notes" /\ flow'[id].at = "done" =>
           NotesKey(id.day, id.entries) \in DOMAIN shelf'.notes
  PROVE  FlowsFit'
<1>1. PICK g, ids : g = flow'[id] /\ ids = {}
  OBVIOUS
<1>2. /\ FlowFits(id, g) /\ flow'[id] = g /\ DOMAIN flow' = DOMAIN flow \cup ids
      /\ \A i \in ids : KeyFits(i) /\ i.kind \in {"notes", "journal"}
      /\ \A i \in ids \ DOMAIN flow : flow'[i] = NewFlow
      /\ g.awaits \subseteq flow[id].awaits \cup ids
      /\ id.kind = "notes" /\ g.at = "done" =>
           NotesKey(id.day, id.entries) \in DOMAIN shelf'.notes
  BY <1>1
<1> QED BY <1>2, FlowMoves

LEMMA FlowReadFits ==
  ASSUME EvidenceFits, FlowsFit, NEW id \in DOMAIN flow, FlowRead(id)
  PROVE  /\ FlowFits(id, flow'[id]) /\ DOMAIN flow' = DOMAIN flow
         /\ \A i \in DOMAIN flow \ {id} : flow'[i] = flow[i]
         /\ flow'[id].awaits = flow[id].awaits
         /\ flow'[id].at \in {"model", "notes"}
<1>1. FlowFits(id, flow[id])
  BY DEF FlowsFit
<1>2. DOMAIN flow[id] = {"at", "inputs", "awaits", "gathered", "recorded", "told",
                         "timeline", "note"}
  BY <1>1 DEF FlowFits, NewFlow
<1>3. /\ DOMAIN flow' = DOMAIN flow /\ DOMAIN flow'[id] = DOMAIN flow[id]
      /\ \A i \in DOMAIN flow \ {id} : flow'[i] = flow[i]
      /\ flow'[id].inputs = StillThere(id.day, id.entries)
      /\ flow'[id].at = IF id.kind = "notes" THEN "model" ELSE "notes"
      /\ flow'[id].awaits = flow[id].awaits /\ flow'[id].gathered = flow[id].gathered
      /\ flow'[id].recorded = flow[id].recorded /\ flow'[id].told = flow[id].told
      /\ flow'[id].timeline = flow[id].timeline /\ flow'[id].note = flow[id].note
  BY <1>2 DEF FlowRead
<1>4. Gathered(flow'[id].inputs, id)
  BY <1>3 DEF Gathered, StillThere, Still, TextsOf
<1> QED BY <1>1, <1>3, <1>4 DEF FlowFits, FlowSteps


LEMMA NotesModelFits ==
  ASSUME Later, ShelfFits, FlowsFit, NEW id \in DOMAIN flow, NotesModel(id)
  PROVE  ShelfFits' /\ FlowsFit'
<1>1. FlowFits(id, flow[id]) /\ KeyFits(id)
  BY DEF FlowsFit, FlowFits
<1>2. CASE Advance(id, "failed") /\ UNCHANGED shelf
  <2>1. FlowFits(id, flow'[id])
    BY <1>1, <1>2, Advances DEF FlowFits, FlowSteps
  <2> QED BY <1>2, <2>1, Advances, OneFlowMoves, KeptShelf
<1>3. CASE /\ shelf' = [shelf EXCEPT
                !.notes = With(@, NotesKey(id.day, id.entries), flow[id].inputs)]
           /\ Advance(id, "done")
  <2> DEFINE key == NotesKey(id.day, id.entries)
  <2>1. FlowFits(id, flow'[id])
    BY <1>1, <1>3, Advances DEF FlowFits, FlowSteps
  <2>2. /\ DOMAIN shelf' = DOMAIN shelf /\ shelf'.movement = shelf.movement
        /\ shelf'.journals = shelf.journals
        /\ shelf'.notes = With(shelf.notes, key, flow[id].inputs)
    BY <1>3 DEF ShelfFits
  <2>3. /\ DOMAIN shelf'.notes = DOMAIN shelf.notes \cup {key}
        /\ \A k \in DOMAIN shelf'.notes :
             shelf'.notes[k] = IF k = key THEN flow[id].inputs ELSE shelf.notes[k]
    BY <2>2 DEF With
  <2>4. key.day = id.day /\ key.entries = id.entries
    BY DEF NotesKey
  <2> HIDE DEF key
  <2>5. NotesFit(key, flow[id].inputs)
    <3>1. Gathered(flow[id].inputs, id)
      BY <1>1 DEF FlowFits, NotesModel
    <3> QED BY <1>1, <2>4, <3>1 DEF NotesFit, Gathered, Still, KeyFits
  <2>6. \A k \in DOMAIN shelf'.notes : NotesFit(k, shelf'.notes[k])
    BY <2>3, <2>5 DEF ShelfFits
  <2>7. \A k \in DOMAIN shelf.journals : JournalFits(k, shelf.journals[k])'
    BY <2>2, LaterJournal DEF ShelfFits
  <2>8. ASSUME NEW k \in DOMAIN shelf'.notes PROVE NotesFit(k, shelf.notes[k])'
    <3>1. PICK texts : texts = shelf'.notes[k]
      OBVIOUS
    <3>2. NotesFit(k, texts)'
      BY <2>6, <3>1, LaterNotes
    <3> QED BY <3>1, <3>2
  <2>9. ShelfFits'
    BY <2>2, <2>7, <2>8 DEF ShelfFits
  <2> QED BY <1>3, <2>1, <2>3, <2>9, Advances, OneFlowMoves DEF key
<1> QED BY <1>2, <1>3 DEF NotesModel

\* What the journal is told of the notes of the day as it is
\* (Journal.ts 286-305, 586-606): nothing of an entry that is still what its
\* key names is left out, nothing of such an entry is told otherwise.
LEMMA ToldOfIndex ==
  ASSUME EvidenceFits, NEW id, id.day \in Day, NEW told, Gathered(told, NotesKey(id.day, DayIndex[id.day]))
  PROVE  ToldFits(told, id)
<1>1. Gathered(told, NotesKey(id.day, DayIndex[id.day])) => 
        TextsOf(DayIndex[id.day]) \subseteq told /\ told \subseteq TextsOf(DayIndex[id.day])
  BY DEF Gathered, NotesKey, Still
<1>2. Still(id) \subseteq DayIndex[id.day]
  BY DEF Still
<1>3. EntriesFit(DayIndex[id.day])
  BY IndexFits
<1> QED BY <1>1, <1>2, <1>3 DEF ToldFits, TextsOf, EntriesFit

LEMMA ToldOfNothing ==
  ASSUME NEW id, Still(id) = {}
  PROVE  ToldFits({}, id)
BY DEF ToldFits, TextsOf

LEMMA ToldOfOlder ==
  ASSUME NEW id, NEW entries, EntriesFit(entries), Still(id) \subseteq entries,
         NEW told, Gathered(told, NotesKey(id.day, entries))
  PROVE  ToldFits(told, id)
<1>1. /\ TextsOf(entries \cap DayIndex[id.day]) \subseteq told
      /\ told \subseteq TextsOf(entries)
  BY DEF Gathered, NotesKey, Still
<1>2. Still(id) \subseteq entries \cap DayIndex[id.day]
  BY DEF Still
<1> QED BY <1>1, <1>2 DEF ToldFits, TextsOf, EntriesFit

LEMMA JournalNotesFits ==
  ASSUME Later, ShelfFits, FlowsFit, NEW id \in DOMAIN flow, JournalNotes(id)
  PROVE  FlowsFit'
<1> DEFINE d == id.day  key == NotesKey(d, DayIndex[d])  notes == NotesFlow(d, DayIndex[d], window)
<1>1. FlowFits(id, flow[id]) /\ KeyFits(id) /\ d \in Day /\ EvidenceFits /\ id.kind = "journal"
      /\ flow[id].at = "notes" /\ UNCHANGED shelf /\ Gathered(flow[id].inputs, id)
  BY DEF FlowsFit, FlowFits, KeyFits, Later, JournalNotes
<1>2. CASE /\ flow[id].inputs = {} \/ "notes" \in flow[id].recorded
           /\ Advance(id, "movement")
  <2>1. ToldFits(flow[id].told, id)
    <3>1. CASE "notes" \in flow[id].recorded
      BY <1>1, <3>1 DEF FlowFits
    <3>2. CASE "notes" \notin flow[id].recorded
      <4>1. flow[id].told = {} /\ flow[id].inputs = {}
        BY <1>1, <1>2, <3>2 DEF FlowFits
      <4>2. Still(id) = {}
        BY <1>1, <4>1 DEF Gathered, TextsOf
      <4> QED BY <4>1, <4>2, ToldOfNothing
    <3> QED BY <3>1, <3>2
  <2>2. FlowFits(id, flow'[id])
    BY <1>1, <1>2, <2>1, Advances DEF FlowFits, FlowSteps
  <2> QED BY <1>1, <1>2, <2>2, Advances, OneFlowMoves
<1>3. ASSUME NEW told, ToldFits(told, id), Remember(id, "notes", "told", told, "movement")
      PROVE  FlowsFit'
  <2>1. /\ DOMAIN flow' = DOMAIN flow /\ DOMAIN flow'[id] = DOMAIN flow[id]
        /\ \A i \in DOMAIN flow \ {id} : flow'[i] = flow[i]
        /\ flow'[id].at = "movement" /\ flow'[id].told = told
        /\ flow'[id].awaits = flow[id].awaits
        /\ flow'[id].recorded = flow[id].recorded \cup {"notes"}
        /\ flow'[id].timeline = flow[id].timeline /\ flow'[id].note = flow[id].note
        /\ flow'[id].inputs = flow[id].inputs
    BY <1>3, RemembersTold
  <2>2. FlowFits(id, flow'[id])
    BY <1>1, <1>3, <2>1 DEF FlowFits, FlowSteps
  <2> QED BY <1>1, <2>1, <2>2, OneFlowMoves
<1>4. CASE DayIndex[d] = {} /\ Remember(id, "notes", "told", {}, "movement")
  <2>1. ToldFits({}, id)
    BY <1>4, ToldOfNothing DEF Still
  <2> QED BY <1>3, <1>4, <2>1
<1>5. CASE key \in DOMAIN shelf.notes /\ Remember(id, "notes", "told", shelf.notes[key], "movement")
  <2>1. Gathered(shelf.notes[key], key)
    BY <1>5 DEF ShelfFits, NotesFit
  <2>2. ToldFits(shelf.notes[key], id)
    BY <1>1, <2>1, ToldOfIndex
  <2> QED BY <1>3, <1>5, <2>2
<1>6. CASE flow' = [Executing(flow, {notes}) EXCEPT ![id].at = "await", ![id].awaits = {notes}]
  <2>1. KeyFits(notes) /\ notes.kind = "notes"
    BY <1>1, IndexFits, NotesFlowFits
  <2>2. notes.day = d /\ notes.entries = DayIndex[d]
    BY DEF NotesFlow
  <2> HIDE DEF notes
  <2>3. /\ DOMAIN flow' = DOMAIN flow \cup {notes}
        /\ \A i \in DOMAIN flow \ {id} : flow'[i] = flow[i]
        /\ \A i \in {notes} \ DOMAIN flow : flow'[i] = NewFlow
        /\ flow'[id] = [flow[id] EXCEPT !.at = "await", !.awaits = {notes}]
    BY <1>6 DEF Executing
  <2>4. PICK g, ids : g = flow'[id] /\ ids = {notes}
    OBVIOUS
  <2>5. DOMAIN flow[id] = {"at", "inputs", "awaits", "gathered", "recorded", "told",
                           "timeline", "note"}
    BY <1>1 DEF FlowFits, NewFlow
  <2>6. /\ DOMAIN g = DOMAIN flow[id] /\ g.at = "await" /\ g.awaits = {notes}
        /\ g.inputs = flow[id].inputs /\ g.gathered = flow[id].gathered
        /\ g.recorded = flow[id].recorded /\ g.told = flow[id].told
        /\ g.timeline = flow[id].timeline /\ g.note = flow[id].note
    BY <2>3, <2>4, <2>5
  <2>7. Still(id) \subseteq notes.entries
    BY <2>2 DEF Still
  <2>8. FlowFits(id, g)
    BY <1>1, <2>1, <2>2, <2>6, <2>7 DEF FlowFits, FlowSteps
  <2>9. \A i \in ids : KeyFits(i) /\ i.kind \in {"notes", "journal"}
    BY <2>1, <2>4
  <2>10. /\ DOMAIN flow' = DOMAIN flow \cup ids /\ flow'[id] = g
         /\ \A i \in ids \ DOMAIN flow : flow'[i] = NewFlow
         /\ g.awaits \subseteq flow[id].awaits \cup ids /\ g.at # "done"
    BY <2>3, <2>4, <2>6
  <2> QED BY <1>1, <2>3, <2>8, <2>9, <2>10, FlowMoves
<1> QED BY <1>2, <1>4, <1>5, <1>6 DEF JournalNotes


LEMMA JournalAwaitFits ==
  ASSUME Later, ShelfFits, FlowsFit, NEW id \in DOMAIN flow, JournalAwait(id)
  PROVE  FlowsFit'
<1>1. /\ FlowFits(id, flow[id]) /\ Rests(id) /\ flow[id].at = "await"
      /\ UNCHANGED shelf /\ id.kind = "journal"
  BY DEF FlowsFit, FlowFits, JournalAwait
<1>2. CASE Advance(id, "failed")
  <2>1. FlowFits(id, flow'[id])
    BY <1>1, <1>2, Advances DEF FlowFits, FlowSteps
  <2> QED BY <1>1, <1>2, <2>1, Advances, OneFlowMoves
<1>3. ASSUME NEW n \in flow[id].awaits, flow[n].at = "done",
             Remember(id, "notes", "told", shelf.notes[NotesKey(n.day, n.entries)], "movement")
      PROVE  FlowsFit'
  <2> DEFINE key == NotesKey(n.day, n.entries)
  <2>1. n \in DOMAIN flow /\ n.kind = "notes" /\ n.day = id.day /\ Still(id) \subseteq n.entries
    BY <1>1 DEF FlowFits, Rests
  <2>2. key \in DOMAIN shelf.notes /\ EntriesFit(n.entries)
    BY <1>3, <2>1 DEF FlowsFit, Rests, FlowFits, KeyFits
  <2>3. PICK told : told = shelf.notes[key]
    OBVIOUS
  <2>4. Gathered(told, NotesKey(id.day, n.entries))
    BY <2>1, <2>2, <2>3 DEF ShelfFits, NotesFit
  <2>5. ToldFits(told, id)
    BY <2>1, <2>2, <2>4, ToldOfOlder
  <2>6. /\ DOMAIN flow' = DOMAIN flow /\ DOMAIN flow'[id] = DOMAIN flow[id]
        /\ \A i \in DOMAIN flow \ {id} : flow'[i] = flow[i]
        /\ flow'[id].at = "movement" /\ flow'[id].told = told
        /\ flow'[id].awaits = flow[id].awaits
        /\ flow'[id].recorded = flow[id].recorded \cup {"notes"}
        /\ flow'[id].timeline = flow[id].timeline /\ flow'[id].note = flow[id].note
        /\ flow'[id].inputs = flow[id].inputs
    BY <1>3, <2>3, RemembersTold
  <2>7. FlowFits(id, flow'[id])
    BY <1>1, <2>5, <2>6 DEF FlowFits, FlowSteps
  <2> QED BY <1>1, <2>6, <2>7, OneFlowMoves
<1> QED BY <1>2, <1>3 DEF JournalAwait

LEMMA JournalMovementFits ==
  ASSUME Later, ShelfFits, FlowsFit, NEW id \in DOMAIN flow, JournalMovement(id)
  PROVE  FlowsFit'
<1> DEFINE basis == MovementBasis(id.day)
<1>1. /\ FlowFits(id, flow[id]) /\ KeyFits(id) /\ flow[id].at = "movement"
      /\ UNCHANGED shelf /\ id.kind = "journal"
  BY DEF FlowsFit, FlowFits, JournalMovement
<1>2. CASE (id.move = NoMovement \/ "movement" \in flow[id].recorded) /\ Advance(id, "note")
  <2>1. TimelineFits(flow[id].timeline, id)
    BY <1>1, <1>2 DEF FlowFits, TimelineFits
  <2>2. FlowFits(id, flow'[id])
    BY <1>1, <1>2, <2>1, Advances DEF FlowFits, FlowSteps
  <2> QED BY <1>1, <1>2, <2>2, Advances, OneFlowMoves
<1>3. CASE /\ <<id.day, basis>> \in DOMAIN shelf.movement
           /\ Remember(id, "movement", "timeline", Timeline(id, basis), "note")
  <2>1. PICK timeline : timeline = Timeline(id, basis)
    OBVIOUS
  <2>2. TimelineFits(timeline, id)
    <3>1. shelf.movement[<<id.day, basis>>].points # {} /\ NoMovement.points = {}
      BY <1>3 DEF ShelfFits, NoMovement
    <3> QED BY <2>1, <3>1 DEF TimelineFits, Timeline
  <2>3. /\ DOMAIN flow' = DOMAIN flow /\ DOMAIN flow'[id] = DOMAIN flow[id]
        /\ \A i \in DOMAIN flow \ {id} : flow'[i] = flow[i]
        /\ flow'[id].at = "note" /\ flow'[id].timeline = timeline
        /\ flow'[id].awaits = flow[id].awaits
        /\ flow'[id].recorded = flow[id].recorded \cup {"movement"}
        /\ flow'[id].told = flow[id].told /\ flow'[id].note = flow[id].note
        /\ flow'[id].inputs = flow[id].inputs
    BY <1>3, <2>1, RemembersTimeline
  <2>4. FlowFits(id, flow'[id])
    BY <1>1, <2>2, <2>3 DEF FlowFits, FlowSteps
  <2> QED BY <1>1, <2>3, <2>4, OneFlowMoves
<1>4. CASE /\ id.move # NoMovement
           /\ flow' = [flow EXCEPT ![id].gathered = basis, ![id].at = "compose"]
  <2>1. PICK g : g = basis
    OBVIOUS
  <2>2. g.points # {}
    <3>1. id.move.points # {} /\ id.move.points \subseteq PointsOn(id.day, track.points)
      BY <1>1, <1>4 DEF KeyFits, BasisFits
    <3>2. g.points = PointsOn(id.day, track.points)
      BY <2>1 DEF MovementBasis
    <3> QED BY <3>1, <3>2
  <2>3. DOMAIN flow[id] = {"at", "inputs", "awaits", "gathered", "recorded", "told",
                           "timeline", "note"}
    BY <1>1 DEF FlowFits, NewFlow
  <2>4. flow' = [flow EXCEPT ![id].gathered = g, ![id].at = "compose"]
    BY <1>4, <2>1
  <2> HIDE DEF basis
  <2>5. /\ DOMAIN flow' = DOMAIN flow /\ DOMAIN flow'[id] = DOMAIN flow[id]
        /\ \A i \in DOMAIN flow \ {id} : flow'[i] = flow[i]
        /\ flow'[id].at = "compose" /\ flow'[id].gathered = g
        /\ flow'[id].awaits = flow[id].awaits /\ flow'[id].inputs = flow[id].inputs
        /\ flow'[id].recorded = flow[id].recorded /\ flow'[id].told = flow[id].told
        /\ flow'[id].timeline = flow[id].timeline /\ flow'[id].note = flow[id].note
    BY <2>3, <2>4
  <2>6. FlowFits(id, flow'[id])
    BY <1>1, <2>2, <2>5 DEF FlowFits, FlowSteps
  <2> QED BY <1>1, <2>5, <2>6, OneFlowMoves
<1> QED BY <1>2, <1>3, <1>4 DEF JournalMovement

LEMMA JournalComposeFits ==
  ASSUME Later, ShelfFits, FlowsFit, NEW id \in DOMAIN flow, JournalCompose(id)
  PROVE  ShelfFits' /\ FlowsFit'
<1> DEFINE basis == MovementBasis(id.day)  asked == flow[id].gathered
<1>1. /\ FlowFits(id, flow[id]) /\ KeyFits(id) /\ flow[id].at = "compose"
      /\ id.kind = "journal" /\ asked.points # {}
      /\ shelf' = [shelf EXCEPT !.movement = With(@, <<id.day, basis>>, asked)]
  BY DEF FlowsFit, FlowFits, JournalCompose
<1>2. /\ DOMAIN shelf' = DOMAIN shelf /\ shelf'.notes = shelf.notes
      /\ shelf'.journals = shelf.journals
      /\ shelf'.movement = With(shelf.movement, <<id.day, basis>>, asked)
  BY <1>1 DEF ShelfFits
<1>3. \A k \in DOMAIN shelf'.movement : shelf'.movement[k].points # {}
  BY <1>1, <1>2 DEF With, ShelfFits
<1>4. ShelfFits'
  <2>1. \A k \in DOMAIN shelf.notes : NotesFit(k, shelf.notes[k])'
    BY <1>2, LaterNotes DEF ShelfFits
  <2>2. \A k \in DOMAIN shelf.journals : JournalFits(k, shelf.journals[k])'
    BY <1>2, LaterJournal DEF ShelfFits
  <2> QED BY <1>2, <1>3, <2>1, <2>2 DEF ShelfFits
<1>5. CASE Advance(id, "failed")
  <2>1. FlowFits(id, flow'[id])
    BY <1>1, <1>5, Advances DEF FlowFits, FlowSteps
  <2> QED BY <1>1, <1>2, <1>4, <1>5, <2>1, Advances, OneFlowMoves
<1>6. ASSUME NEW timeline, timeline = (IF basis = id.move THEN asked ELSE NoMovement),
             Remember(id, "movement", "timeline", timeline, "note")
      PROVE  FlowsFit'
  <2>1. NoMovement.points = {}
    BY DEF NoMovement
  <2>2. TimelineFits(timeline, id)
    BY <1>1, <1>6, <2>1 DEF TimelineFits
  <2>3. /\ DOMAIN flow' = DOMAIN flow /\ DOMAIN flow'[id] = DOMAIN flow[id]
        /\ \A i \in DOMAIN flow \ {id} : flow'[i] = flow[i]
        /\ flow'[id].at = "note" /\ flow'[id].timeline = timeline
        /\ flow'[id].awaits = flow[id].awaits
        /\ flow'[id].recorded = flow[id].recorded \cup {"movement"}
        /\ flow'[id].told = flow[id].told /\ flow'[id].note = flow[id].note
        /\ flow'[id].inputs = flow[id].inputs
    BY <1>6, RemembersTimeline
  <2>4. FlowFits(id, flow'[id])
    BY <1>1, <2>2, <2>3 DEF FlowFits, FlowSteps
  <2> QED BY <1>1, <1>2, <2>3, <2>4, OneFlowMoves
<1> QED BY <1>4, <1>5, <1>6 DEF JournalCompose

LEMMA JournalNoteFits ==
  ASSUME Later, ShelfFits, FlowsFit, NEW id \in DOMAIN flow, JournalNote(id)
  PROVE  FlowsFit'
<1>1. /\ FlowFits(id, flow[id]) /\ KeyFits(id) /\ flow[id].at = "note"
      /\ UNCHANGED shelf /\ id.kind = "journal"
  BY DEF FlowsFit, FlowFits, JournalNote
<1>2. CASE (id.note = 0 \/ "note" \in flow[id].recorded) /\ Advance(id, "report")
  <2>1. NoteFits(flow[id].note, id)
    BY <1>1, <1>2 DEF FlowFits, NoteFits
  <2>2. FlowFits(id, flow'[id])
    BY <1>1, <1>2, <2>1, Advances DEF FlowFits, FlowSteps
  <2> QED BY <1>1, <1>2, <2>2, Advances, OneFlowMoves
<1>3. ASSUME NEW note, note = (IF evidence.notes[id.day] = id.note THEN id.note ELSE 0),
             Remember(id, "note", "note", note, "report")
      PROVE  FlowsFit'
  <2>2. NoteFits(note, id)
    BY <1>3 DEF NoteFits
  <2>3. /\ DOMAIN flow' = DOMAIN flow /\ DOMAIN flow'[id] = DOMAIN flow[id]
        /\ \A i \in DOMAIN flow \ {id} : flow'[i] = flow[i]
        /\ flow'[id].at = "report" /\ flow'[id].note = note
        /\ flow'[id].awaits = flow[id].awaits
        /\ flow'[id].recorded = flow[id].recorded \cup {"note"}
        /\ flow'[id].told = flow[id].told /\ flow'[id].timeline = flow[id].timeline
        /\ flow'[id].inputs = flow[id].inputs
    BY <1>3, RemembersNote
  <2>4. FlowFits(id, flow'[id])
    BY <1>1, <2>2, <2>3 DEF FlowFits, FlowSteps
  <2> QED BY <1>1, <2>3, <2>4, OneFlowMoves
<1> QED BY <1>2, <1>3 DEF JournalNote


LEMMA JournalReportFits ==
  ASSUME Later, ShelfFits, FlowsFit, NEW id \in DOMAIN flow, JournalReport(id)
  PROVE  ShelfFits' /\ FlowsFit'
<1> DEFINE f == flow[id]
<1>1. FlowFits(id, f) /\ KeyFits(id) /\ f.at = "report" /\ id.kind = "journal"
  BY DEF FlowsFit, FlowFits, JournalReport
<1>2. CASE Advance(id, "failed") /\ UNCHANGED shelf
  <2>1. FlowFits(id, flow'[id])
    BY <1>1, <1>2, Advances DEF FlowFits, FlowSteps
  <2> QED BY <1>1, <1>2, <2>1, Advances, OneFlowMoves, KeptShelf
<1>3. ASSUME NEW j, j = [told |-> f.told, timeline |-> f.timeline, note |-> f.note],
             shelf' = [shelf EXCEPT !.journals = With(@, KeyOf(id), j)], Advance(id, "done")
      PROVE  ShelfFits' /\ FlowsFit'
  <2> DEFINE key == KeyOf(id)
  <2>1. FlowFits(id, flow'[id])
    BY <1>1, <1>3, Advances DEF FlowFits, FlowSteps
  <2>2. /\ DOMAIN shelf' = DOMAIN shelf /\ shelf'.movement = shelf.movement
        /\ shelf'.notes = shelf.notes /\ shelf'.journals = With(shelf.journals, key, j)
    BY <1>3 DEF ShelfFits
  <2>3. /\ DOMAIN shelf'.journals = DOMAIN shelf.journals \cup {key}
        /\ \A k \in DOMAIN shelf'.journals :
             shelf'.journals[k] = IF k = key THEN j ELSE shelf.journals[k]
    BY <2>2 DEF With
  <2>4. /\ key.day = id.day /\ key.entries = id.entries /\ key.move = id.move
        /\ key.note = id.note
    BY DEF KeyOf
  <2> HIDE DEF key
  <2>5. JournalFits(key, j)
    <3>1. KeyFits(key)
      BY <1>1, <2>4 DEF KeyFits
    <3>2. ToldFits(j.told, id) /\ TimelineFits(j.timeline, id) /\ NoteFits(j.note, id)
      BY <1>1, <1>3 DEF FlowFits
    <3>3. ToldFits(j.told, key)
      BY <2>4, <3>2 DEF ToldFits, Still
    <3>4. TimelineFits(j.timeline, key) /\ NoteFits(j.note, key)
      BY <2>4, <3>2 DEF TimelineFits, NoteFits
    <3> QED BY <3>1, <3>3, <3>4 DEF JournalFits
  <2>6. \A k \in DOMAIN shelf'.journals : JournalFits(k, shelf'.journals[k])
    BY <2>3, <2>5 DEF ShelfFits
  <2>7. \A k \in DOMAIN shelf.notes : NotesFit(k, shelf.notes[k])'
    BY <2>2, LaterNotes DEF ShelfFits
  <2>8. ASSUME NEW k \in DOMAIN shelf'.journals PROVE JournalFits(k, shelf.journals[k])'
    <3>1. PICK x : x = shelf'.journals[k]
      OBVIOUS
    <3>2. JournalFits(k, x)'
      BY <2>6, <3>1, LaterJournal
    <3> QED BY <3>1, <3>2
  <2>9. ShelfFits'
    BY <2>2, <2>7, <2>8 DEF ShelfFits
  <2> QED BY <1>1, <1>3, <2>1, <2>2, <2>9, Advances, OneFlowMoves
<1> QED BY <1>2, <1>3 DEF JournalReport

LEMMA FlowStepFits ==
  ASSUME DayInv, NEW id \in DOMAIN flow, FlowStep(id)
  PROVE  DayInv'
<1> USE DEF DayInv
<1>1. UNCHANGED <<evidence, track, pass, memo>>
  BY DEF FlowStep
<1>2. dayLeft'.changes = dayLeft.changes /\ DOMAIN dayLeft' = DOMAIN dayLeft
  <2>1. UNCHANGED dayLeft \/ OneFailure
    BY DEF FlowStep, FlowRead, NotesModel, JournalNotes, JournalAwait, JournalMovement,
           JournalCompose, JournalNote, JournalReport
  <2> QED BY <2>1 DEF OneFailure, EvidenceFits
<1>3. Later /\ EvidenceFits' /\ TrackFits'
  BY <1>1, <1>2, SameIsLater DEF Later
<1>4. PassFits' /\ MemoFits'
  BY <1>1, <1>3, KeptPass, KeptMemo
<1>5. CASE FlowRead(id)
  <2>1. FlowsFit'
    BY <1>3, <1>5, FlowReadFits, OneFlowMoves DEF FlowRead
  <2> QED BY <1>3, <1>4, <1>5, <2>1, KeptShelf DEF FlowRead
<1>6. CASE NotesModel(id)
  BY <1>3, <1>4, <1>6, NotesModelFits
<1>7. CASE JournalNotes(id)
  <2>1. UNCHANGED shelf
    BY <1>7 DEF JournalNotes
  <2> QED BY <1>3, <1>4, <1>7, <2>1, JournalNotesFits, KeptShelf
<1>8. CASE JournalAwait(id)
  <2>1. UNCHANGED shelf
    BY <1>8 DEF JournalAwait
  <2> QED BY <1>3, <1>4, <1>8, <2>1, JournalAwaitFits, KeptShelf
<1>9. CASE JournalMovement(id)
  <2>1. UNCHANGED shelf
    BY <1>9 DEF JournalMovement
  <2> QED BY <1>3, <1>4, <1>9, <2>1, JournalMovementFits, KeptShelf
<1>10. CASE JournalCompose(id)
  BY <1>3, <1>4, <1>10, JournalComposeFits
<1>11. CASE JournalNote(id)
  <2>1. UNCHANGED shelf
    BY <1>11 DEF JournalNote
  <2> QED BY <1>3, <1>4, <1>11, <2>1, JournalNoteFits, KeptShelf
<1>12. CASE JournalReport(id)
  BY <1>3, <1>4, <1>12, JournalReportFits
<1> QED BY <1>5, <1>6, <1>7, <1>8, <1>9, <1>10, <1>11, <1>12 DEF FlowStep

\* After a crash an execution starts again, with what it has recorded.
LEMMA RestartFits ==
  ASSUME DayInv, ServerRestarts
  PROVE  DayInv'
<1> USE DEF DayInv
<1>1. UNCHANGED <<evidence, track, shelf>> /\ pass' = Idle /\ memo' = NoMemo
  BY DEF ServerRestarts
<1>2. dayLeft'.changes = dayLeft.changes /\ DOMAIN dayLeft' = DOMAIN dayLeft
  BY DEF ServerRestarts, EvidenceFits
<1>3. Later /\ EvidenceFits' /\ TrackFits'
  BY <1>1, <1>2, SameIsLater DEF Later
<1>4. PassFits' /\ MemoFits'
  BY <1>1, IdleFits DEF MemoFits, NoMemo
<1>5. ASSUME NEW id \in DOMAIN flow
      PROVE  FlowFits(id, flow[id])' /\ Rests(id)'
  <2>1. FlowFits(id, flow[id]) /\ Rests(id)
    BY DEF FlowsFit
  <2>2. PICK g : g = flow'[id]
    OBVIOUS
  <2>3. CASE Ended(flow, id)
    <3>1. g = flow[id]
      BY <2>2, <2>3 DEF ServerRestarts
    <3>2. FlowFits(id, g)'
      BY <2>1, <3>1, <1>3, LaterFlow
    <3>3. FlowFits(id, flow[id])'
      BY <2>2, <3>2
    <3> QED BY <1>1, <2>1, <2>2, <3>1, <3>3 DEF Rests, ServerRestarts
  <2>4. CASE ~Ended(flow, id)
    <3>1. g = [flow[id] EXCEPT !.at = "start", !.inputs = {}, !.awaits = {},
                               !.gathered = NoMovement]
      BY <2>2, <2>4 DEF ServerRestarts
    <3>2. DOMAIN flow[id] = {"at", "inputs", "awaits", "gathered", "recorded", "told",
                             "timeline", "note"}
      BY <2>1 DEF FlowFits, NewFlow
    <3>3. /\ DOMAIN g = DOMAIN flow[id] /\ g.at = "start" /\ g.awaits = {}
          /\ g.recorded = flow[id].recorded /\ g.told = flow[id].told
          /\ g.timeline = flow[id].timeline /\ g.note = flow[id].note
      BY <3>1, <3>2
    <3>4. flow[id].at \in FlowSteps
      BY <2>1 DEF FlowFits
    <3>5. FlowFits(id, g)
      <4> HIDE DEF DayInv
      <4>1. "start" \in FlowSteps /\ g.at \notin {"await", "compose"}
        BY <3>3 DEF FlowSteps
      <4> QED BY <2>1, <3>3, <4>1 DEF FlowFits
    <3>6. FlowFits(id, g)'
      BY <3>5, <1>3, LaterFlow
    <3>7. FlowFits(id, flow[id])'
      BY <2>2, <3>6
    <3> QED BY <2>2, <3>3, <3>7 DEF Rests
  <2> QED BY <2>3, <2>4
<1>6. FlowsFit'
  BY <1>5 DEF FlowsFit, ServerRestarts
<1> QED BY <1>1, <1>3, <1>4, <1>6, KeptShelf

LEMMA DayStarts ==
  DayInit => DayInv
<1> SUFFICES ASSUME NEW s \in DayScenes, DayStart(s) PROVE DayInv
  BY DEF DayInit
<1>1. /\ evidence.texts = s.texts /\ evidence.fixed = [c \in Capture |-> FALSE]
      /\ evidence.notes = [d \in Day |-> 0] /\ evidence.places = 0
      /\ DOMAIN evidence = {"texts", "fixed", "notes", "places"}
      /\ evidence = [texts |-> s.texts, fixed |-> [c \in Capture |-> FALSE],
                     notes |-> [d \in Day |-> 0], places |-> 0]
      /\ dayLeft = s.left
  BY DEF DayStart
<1>2. s.texts \in [Capture -> SUBSET TextKind] /\ s.inbox \subseteq DOMAIN Position
      /\ DOMAIN s.left = {"eager", "changes", "fails", "crashes"}
      /\ \A c \in Capture : \A t \in s.texts[c] : Change(t, c) \notin s.left.changes
  BY DayScenesAssumption DEF TextKind
<1>3. EvidenceFits
  BY <1>1, <1>2 DEF EvidenceFits
<1>4. TrackFits
  BY <1>2 DEF DayStart, TrackFits
<1>5. PassFits
  <2>1. pass = Idle /\ DOMAIN pass = {"at", "batch", "basis", "moves", "waits", "key"}
    BY DEF DayStart, Idle
  <2>2. pass.at = "idle" /\ pass.moves = NoFile /\ pass.basis = {} /\ pass.key = NoKey
    BY <2>1 DEF Idle
  <2>3. \A d \in Day : pass.key.index[d] = {}
    BY <2>2 DEF NoKey
  <2> QED BY <2>1, <2>2, <2>3, NothingFits DEF PassFits, NoFile
<1>6. MemoFits
  BY DEF DayStart, NoMemo, MemoFits
<1>7. ShelfFits
  BY DEF DayStart, ShelfFits, NoFile
<1>8. FlowsFit
  BY DEF DayStart, FlowsFit, NoFile
<1> QED BY <1>3, <1>4, <1>5, <1>6, <1>7, <1>8 DEF DayInv

LEMMA DayInvIsSound ==
  DayInv => DaysAreSound
<1> SUFFICES ASSUME DayInv PROVE DaysAreSound
  OBVIOUS
<1> USE DEF DayInv
<1>1. NoPositionLost
  BY DEF NoPositionLost, TrackFits
<1>2. ASSUME NEW d \in Day, Now(d) \in DOMAIN shelf.journals
      PROVE  LET j == shelf.journals[Now(d)] IN
               /\ TextsOf(DayIndex[d]) \subseteq j.told
               /\ \A t \in j.told, e \in DayIndex[d] : t[1] = e.of => t[2] = e.text
               /\ j.note = evidence.notes[d]
               /\ Now(d).move # NoMovement => j.timeline # NoMovement
  <2> DEFINE k == Now(d)  j == shelf.journals[Now(d)]
  <2>1. /\ k.day = d /\ k.entries = DayIndex[d] /\ k.note = evidence.notes[d]
        /\ k.move = IF d \in MovementDays THEN MovementBasis(d) ELSE NoMovement
    BY DEF Now, JournalKey
  <2>2. ToldFits(j.told, k) /\ TimelineFits(j.timeline, k) /\ NoteFits(j.note, k)
    BY <1>2 DEF ShelfFits, JournalFits
  <2> HIDE DEF k, j
  <2>3. Still(k) = DayIndex[d]
    BY <2>1 DEF Still
  <2>4. /\ TextsOf(DayIndex[d]) \subseteq j.told
        /\ \A t \in j.told, e \in DayIndex[d] : t[1] = e.of => t[2] = e.text
    BY <2>2, <2>3 DEF ToldFits
  <2>5. j.note = evidence.notes[d]
    BY <2>1, <2>2 DEF NoteFits
  <2>6. k.move # NoMovement => j.timeline # NoMovement
    BY <2>1, <2>2 DEF TimelineFits
  <2> QED BY <2>4, <2>5, <2>6 DEF k, j
<1> QED BY <1>1, <1>2 DEF DaysAreSound, CurrentJournalTells

\* However evidence, sweeps, executions, failed calls and crashes interleave: no
\* position is lost between the inbox and the day that shows it, and a current
\* journal tells of every transcript its key names, by the text selected, of
\* the day's note and of its movement (lib/lifelog/Journal, PositionDay).
THEOREM DaysStand == DaySpec => []DaysAreSound
<1>1. DayInit => DayInv
  BY DayStarts
<1>2. DayInv /\ [DayNext]_dayVars => DayInv'
  BY PassStepFits, WorldFits, HourFits, RestartFits, FlowStepFits DEF DayNext
<1>3. DayInv => DaysAreSound
  BY DayInvIsSound
<1> QED BY <1>1, <1>2, <1>3, PTL DEF DaySpec

-----------------------------------------------------------------------------
(* The snapshot. *)

\* A stamp of the past: it is the bucket's, or it will never be again.
Behind(gens, list) ==
  /\ gens \subseteq journals
  /\ list \in Seq(Nat)
  /\ list = indexes \/ Len(list) < Len(indexes)

JournalsTold(gens, js) == gens = journals => js = Winners(journals)
IndexTold(list, best) == list = indexes => best = BestIndex(indexes)

IsBuilder(r) ==
  /\ r = [f \in DOMAIN r |-> r[f]]
  /\ DOMAIN r = {"at", "kind", "seen", "gens", "list", "journals", "index"}

\* What a rebuild holds at each of its points.
RebuildHonest(r) ==
  r.kind = "refresh" =>
    /\ r.at = "stampIndexes" => r.gens \subseteq journals
    /\ r.at \in {"compare", "gatherJournals", "gatherIndex", "write"} => Behind(r.gens, r.list)
    /\ r.at \in {"gatherIndex", "write"} => JournalsTold(r.gens, r.journals)
    /\ r.at = "write" => IndexTold(r.list, r.index)

SnapshotHonest ==
  snapshot.by = "refresh" =>
    /\ Behind(snapshot.stamp[1], snapshot.stamp[2])
    /\ JournalsTold(snapshot.stamp[1], snapshot.journals)
    /\ IndexTold(snapshot.stamp[2], snapshot.index)

\* The inductive invariant.
HonestInv ==
  /\ indexes \in Seq(Nat)
  /\ builder = [b \in Builder |-> builder[b]]
  /\ \A b \in Builder : IsBuilder(builder[b]) /\ RebuildHonest(builder[b])
  /\ SnapshotHonest

\* Initially nobody builds, and a snapshot there is of the bucket as it is.
LEMMA HonestFirst == SnapInit => HonestInv
  <1> SUFFICES ASSUME SnapInit PROVE HonestInv
    OBVIOUS
  <1>1. indexes \in Seq(Nat)
    BY SnapshotAssumption DEF SnapInit
  <1>2. \A b \in Builder : IsBuilder(builder[b]) /\ RebuildHonest(builder[b])
    BY DEF SnapInit, IsBuilder, IdleBuilder, RebuildHonest
  <1>3. Winners({}) = {}
    BY DEF Winners, Days
  <1>4. ASSUME snapshot = NoSnapshot PROVE SnapshotHonest
    BY <1>4 DEF NoSnapshot, SnapshotHonest
  <1>5. ASSUME snapshot # NoSnapshot PROVE SnapshotHonest
    <2>1. /\ snapshot.stamp = <<{}, Uploaded>> /\ snapshot.journals = {}
          /\ snapshot.index = BestIndex(Uploaded)
          /\ journals = {} /\ indexes = Uploaded
      BY <1>5 DEF SnapInit, Fingerprint
    <2> QED
      BY <1>1, <1>3, <2>1 DEF SnapshotHonest, Behind, JournalsTold, IndexTold
  <1> QED
    BY <1>1, <1>2, <1>4, <1>5 DEF HonestInv, SnapInit

\* An upload keeps every stamp of the past in the past: what was the bucket's
\* listing is not any more, and what was not is not either.
LEMMA UploadsKeepBehind ==
  ASSUME indexes \in Seq(Nat), NEW gens, NEW list, Behind(gens, list),
         NEW js, NEW best, JournalsTold(gens, js), IndexTold(list, best),
         PublishJournal \/ PublishIndex
  PROVE  Behind(gens, list)' /\ JournalsTold(gens, js)' /\ IndexTold(list, best)'
  <1>1. CASE PublishJournal
    <2> PICK g \in Generation \ journals : journals' = journals \cup {g} /\ indexes' = indexes
      BY <1>1 DEF PublishJournal
    <2> QED
      BY DEF Behind, JournalsTold, IndexTold
  <1>2. CASE PublishIndex
    <2> PICK b \in Built : indexes' = Append(indexes, b) /\ journals' = journals
      BY <1>2 DEF PublishIndex
    <2>1. Len(indexes') = Len(indexes) + 1 /\ Len(indexes) \in Nat /\ Len(list) \in Nat
      BY SnapshotAssumption DEF Behind
    <2> QED
      BY <2>1 DEF Behind, JournalsTold, IndexTold
  <1> QED
    BY <1>1, <1>2

\* The same where only a part of the stamp is taken yet.
LEMMA UploadsKeepRebuilds ==
  ASSUME indexes \in Seq(Nat), NEW r, RebuildHonest(r), PublishJournal \/ PublishIndex
  PROVE  RebuildHonest(r)'
  <1> SUFFICES ASSUME r.kind = "refresh" PROVE RebuildHonest(r)'
    BY DEF RebuildHonest
  <1>1. r.at = "stampIndexes" => r.gens \subseteq journals'
    BY DEF RebuildHonest, PublishJournal, PublishIndex
  <1>2. ASSUME Behind(r.gens, r.list) PROVE Behind(r.gens, r.list)'
    <2> DEFINE js == Winners(journals)
               best == BestIndex(indexes)
    <2>1. JournalsTold(r.gens, js) /\ IndexTold(r.list, best)
      BY DEF JournalsTold, IndexTold
    <2> HIDE DEF js, best
    <2> QED
      BY <1>2, <2>1, UploadsKeepBehind
  <1>3. ASSUME Behind(r.gens, r.list), JournalsTold(r.gens, r.journals)
        PROVE  JournalsTold(r.gens, r.journals)'
    <2> DEFINE best == BestIndex(indexes)
    <2>1. IndexTold(r.list, best)
      BY DEF IndexTold
    <2> HIDE DEF best
    <2> QED
      BY <1>3, <2>1, UploadsKeepBehind
  <1>4. ASSUME Behind(r.gens, r.list), JournalsTold(r.gens, r.journals),
               IndexTold(r.list, r.index)
        PROVE  IndexTold(r.list, r.index)'
    BY <1>4, UploadsKeepBehind
  <1> QED
    BY <1>1, <1>2, <1>3, <1>4 DEF RebuildHonest

\* A step of a builder that moves neither the inputs nor the snapshot leaves
\* the rest as it was.
LEMMA BuilderMoves ==
  ASSUME HonestInv, NEW b \in Builder, NEW r, SetBuilder(b, r),
         IsBuilder(r), RebuildHonest(r), UNCHANGED snapshot, InputsStay
  PROVE  HonestInv'
  <1>1. builder' = [x \in Builder |-> builder'[x]] /\ builder'[b] = r
        /\ \A x \in Builder : x # b => builder'[x] = builder[x]
    BY DEF HonestInv, SetBuilder
  <1>2. \A x \in Builder : IsBuilder(builder'[x]) /\ RebuildHonest(builder'[x])
    BY <1>1 DEF HonestInv
  <1>3. \A x \in Builder : RebuildHonest(builder[x])'
    BY <1>2 DEF InputsStay, RebuildHonest, Behind, JournalsTold, IndexTold
  <1>4. SnapshotHonest'
    BY DEF HonestInv, InputsStay, SnapshotHonest, Behind, JournalsTold, IndexTold
  <1>5. \A x \in Builder : IsBuilder(builder[x])'
    BY <1>2 DEF IsBuilder
  <1> QED
    BY <1>1, <1>3, <1>4, <1>5 DEF HonestInv, InputsStay

\* A builder's own steps keep the invariant.
LEMMA BuildersStayHonest ==
  ASSUME HonestInv, NEW b \in Builder,
         BuildStep(b) \/ Refresh(b) \/ Load(b) \/ Forced(b)
  PROVE  HonestInv'
  <1> USE DEF IsBuilder
  <1>0. IsBuilder(builder[b]) /\ RebuildHonest(builder[b]) /\ indexes \in Seq(Nat)
    BY DEF HonestInv
  <1>1. CASE StampJournals(b)
    <2> DEFINE r == [builder[b] EXCEPT !.at = "stampIndexes", !.gens = journals]
    <2>1. IsBuilder(r) /\ RebuildHonest(r)
      BY <1>0 DEF RebuildHonest
    <2> HIDE DEF r
    <2> QED
      BY <1>1, <2>1, BuilderMoves DEF StampJournals, r
  <1>2. CASE StampIndexes(b)
    <2> DEFINE r == [builder[b] EXCEPT !.list = indexes,
                       !.at = IF builder[b].kind = "refresh" THEN "compare" ELSE "write"]
    <2>1. builder[b].at = "stampIndexes"
      BY <1>2 DEF StampIndexes, BuilderAt
    <2>2. IsBuilder(r) /\ RebuildHonest(r)
      BY <1>0, <2>1 DEF RebuildHonest, Behind
    <2> HIDE DEF r
    <2> QED
      BY <1>2, <2>2, BuilderMoves DEF StampIndexes, r
  <1>3. ASSUME BuilderAt(b, "compare"), StartGather(b), UNCHANGED snapshot, InputsStay
        PROVE  HonestInv'
    <2> DEFINE r == [builder[b] EXCEPT !.at = "gatherJournals", !.seen = << >>]
    <2>1. IsBuilder(r) /\ RebuildHonest(r)
      BY <1>0, <1>3 DEF RebuildHonest, BuilderAt
    <2> HIDE DEF r
    <2> QED
      BY <1>3, <2>1, BuilderMoves DEF StartGather, r
  <1>4. ASSUME SetBuilder(b, IdleBuilder), UNCHANGED snapshot, InputsStay
        PROVE  HonestInv'
    <2>1. IsBuilder(IdleBuilder) /\ RebuildHonest(IdleBuilder)
      BY DEF IdleBuilder, RebuildHonest
    <2> QED
      BY <1>4, <2>1, BuilderMoves
  <1>5. CASE Compare(b) \/ Forced(b)
    BY <1>3, <1>4, <1>5 DEF Compare, Forced
  <1>6. CASE GatherJournals(b)
    <2> DEFINE r == [builder[b] EXCEPT !.at = "gatherIndex", !.journals = Winners(journals)]
    <2>1. IsBuilder(r) /\ RebuildHonest(r)
      BY <1>0, <1>6 DEF RebuildHonest, GatherJournals, BuilderAt, JournalsTold
    <2> HIDE DEF r
    <2> QED
      BY <1>6, <2>1, BuilderMoves DEF GatherJournals, r
  <1>7. CASE GatherIndex(b)
    <2> DEFINE r == [builder[b] EXCEPT !.index = BestIndex(indexes),
                                       !.at = AfterGather(builder[b].kind)]
    <2>1. IsBuilder(r) /\ RebuildHonest(r)
      BY <1>0, <1>7 DEF RebuildHonest, GatherIndex, BuilderAt, AfterGather, IndexTold
    <2> HIDE DEF r
    <2> QED
      BY <1>7, <2>1, BuilderMoves DEF GatherIndex, r
  <1>8. CASE Refresh(b)
    <2> DEFINE r == [IdleBuilder EXCEPT !.at = "stampJournals", !.kind = "refresh",
                                        !.seen = snapshot.stamp]
    <2>1. IsBuilder(r) /\ RebuildHonest(r)
      BY DEF IdleBuilder, RebuildHonest
    <2> HIDE DEF r
    <2> QED
      BY <1>8, <2>1, BuilderMoves DEF Refresh, r
  <1>9. CASE Load(b)
    <2> DEFINE r == [IdleBuilder EXCEPT !.at = "gatherJournals"]
    <2>1. IsBuilder(r) /\ RebuildHonest(r)
      BY DEF IdleBuilder, RebuildHonest
    <2> HIDE DEF r
    <2> QED
      BY <1>9, <2>1, BuilderMoves DEF Load, r
  <1>10. CASE WriteSnapshot(b)
    <2>1. SnapshotHonest'
      BY <1>0, <1>10 DEF WriteSnapshot, BuilderAt, InputsStay, Stamp, Fingerprint,
             SnapshotHonest, RebuildHonest, Behind, JournalsTold, IndexTold
    <2>2. /\ builder' = [x \in Builder |-> builder'[x]]
          /\ \A x \in Builder : builder'[x] \in {builder[x], IdleBuilder}
      BY <1>10 DEF WriteSnapshot, SetBuilder, HonestInv
    <2>3. IsBuilder(IdleBuilder) /\ RebuildHonest(IdleBuilder)
      BY DEF IdleBuilder, RebuildHonest
    <2>4. \A x \in Builder : IsBuilder(builder'[x]) /\ RebuildHonest(builder'[x])
      BY <2>2, <2>3 DEF HonestInv
    <2>5. \A x \in Builder : IsBuilder(builder[x])' /\ RebuildHonest(builder[x])'
      BY <1>10, <2>4 DEF WriteSnapshot, InputsStay, RebuildHonest, Behind,
                         JournalsTold, IndexTold
    <2> QED
      BY <1>0, <1>10, <2>1, <2>2, <2>5 DEF HonestInv, WriteSnapshot, InputsStay
  <1> QED
    BY <1>1, <1>2, <1>5, <1>6, <1>7, <1>8, <1>9, <1>10 DEF BuildStep

\* Every step keeps the invariant: what is uploaded while a builder runs, and
\* the death of one, included.
LEMMA HonestNext == HonestInv /\ [SnapNext]_snapVars => HonestInv'
  <1> SUFFICES ASSUME HonestInv, [SnapNext]_snapVars PROVE HonestInv'
    OBVIOUS
  <1>1. CASE PublishJournal \/ PublishIndex
    <2>1. UNCHANGED <<snapshot, builder>>
      BY <1>1 DEF PublishJournal, PublishIndex
    <2>2. indexes' \in Seq(Nat)
      <3>1. indexes \in Seq(Nat) /\ \A b \in Built : b \in Nat
        BY SnapshotAssumption DEF HonestInv
      <3>2. CASE PublishJournal
        BY <3>1, <3>2 DEF PublishJournal
      <3>3. CASE PublishIndex
        <4> PICK b \in Built : indexes' = Append(indexes, b)
          BY <3>3 DEF PublishIndex
        <4> QED
          BY <3>1
      <3> QED
        BY <1>1, <3>2, <3>3
    <2>3. \A b \in Builder : RebuildHonest(builder[b])'
      <3> SUFFICES ASSUME NEW b \in Builder PROVE RebuildHonest(builder[b])'
        OBVIOUS
      <3> DEFINE r == builder[b]
      <3>1. RebuildHonest(r) /\ indexes \in Seq(Nat)
        BY DEF HonestInv
      <3> HIDE DEF r
      <3>2. \A q : RebuildHonest(q) => RebuildHonest(q)'
        BY <1>1, <3>1, UploadsKeepRebuilds
      <3> QED
        BY <2>1, <3>1, <3>2 DEF r, RebuildHonest, Behind, JournalsTold, IndexTold
    <2>4. SnapshotHonest'
      <3> SUFFICES ASSUME snapshot.by = "refresh" PROVE SnapshotHonest'
        BY <2>1 DEF SnapshotHonest
      <3> QED
        BY <1>1, <2>1, UploadsKeepBehind DEF HonestInv, SnapshotHonest
    <2> QED
      BY <2>1, <2>2, <2>3, <2>4 DEF HonestInv, IsBuilder
  <1>2. ASSUME NEW b \in Builder, BuildStep(b) \/ Refresh(b) \/ Load(b) \/ Forced(b)
        PROVE  HonestInv'
    BY <1>2, BuildersStayHonest
  <1>3. ASSUME NEW b \in Builder, Break(b) PROVE HonestInv'
    <2>1. IsBuilder(IdleBuilder) /\ RebuildHonest(IdleBuilder)
      BY DEF IdleBuilder, RebuildHonest, IsBuilder
    <2>2. /\ builder' = [x \in Builder |-> builder'[x]]
          /\ \A x \in Builder : builder'[x] \in {builder[x], IdleBuilder}
      BY <1>3 DEF Break, SetBuilder, HonestInv
    <2>3. \A x \in Builder : IsBuilder(builder'[x]) /\ RebuildHonest(builder'[x])
      BY <2>1, <2>2 DEF HonestInv
    <2>4. \A x \in Builder : IsBuilder(builder[x])' /\ RebuildHonest(builder[x])'
      BY <1>3, <2>3 DEF Break, RebuildHonest, Behind, JournalsTold, IndexTold
    <2>5. SnapshotHonest'
      BY <1>3 DEF Break, HonestInv, SnapshotHonest, Behind, JournalsTold, IndexTold
    <2> QED
      BY <1>3, <2>2, <2>4, <2>5 DEF HonestInv, Break
  <1>4. CASE UNCHANGED snapVars
    BY <1>4 DEF snapVars, HonestInv, IsBuilder, RebuildHonest, SnapshotHonest,
                Behind, JournalsTold, IndexTold
  <1> QED
    BY <1>1, <1>2, <1>3, <1>4 DEF SnapNext

\* The snapshot the cron leaves alone is the one it would build, whatever
\* builders overlap, die or are overtaken by uploads (journal.ts,
\* refreshReadModelSnapshot: the fingerprint before the gather).
THEOREM StampsAreHonest == SnapSpec => []StampIsHonest
  <1>1. HonestInv => StampIsHonest
    BY DEF HonestInv, SnapshotHonest, StampIsHonest, Fingerprint, SnapCurrent,
           JournalsTold, IndexTold
  <1> QED
    BY <1>1, HonestFirst, HonestNext, PTL DEF SnapSpec

-----------------------------------------------------------------------------
(* The stars. *)

Ids == DOMAIN Utterance \cup Authored

RecordOf ==
  [by : {"voice", "api"}, created : Int, retention : Nat, span : {"named", "default"},
   text : {"filed", "edited"}]

\* A record is the command's own but for its retention and text, or the API's.
Genuine(id, r) ==
  /\ id \in Ids /\ r \in RecordOf
  /\ id \in Authored => r.by = "api"
  /\ id \notin Authored =>
       IsCommand(id) /\ r.by = "voice" /\ r.created = Utterance[id].at

\* It is the one the detector files, unless updateStar was the last to write it.
AsFiled(id, r, ptd) == id \in Authored \cup ptd \/ r = VoiceRecord(id)

Sweep == [id : Ids, of : RecordOf]

ScanOf ==
  [at : ScanPoint, now : Nat, files : SUBSET DOMAIN Utterance,
   sweeps : Seq(Sweep), past : SUBSET Ids]

ReceiptOf == [id : Ids, retention : Nat, reason : {"expired", "zero-retention", "removed"}]

\* What was forgotten on schedule had run out by then.
RanOut(id, then) == id \in DOMAIN Utterance => Utterance[id].at + DefaultRetention <= then

SweepDue(sweep, now) == Genuine(sweep.id, sweep.of) /\ ExpiredRecord(sweep.of, now)

\* A pass knows of the receipts and the clock only what is so.
Fit(c, h, fgt) ==
  /\ c \in ScanOf
  /\ c.now <= h
  /\ \A u \in c.files : IsCommand(u)
  /\ \A id \in c.past : RanOut(id, c.now)
  /\ c.at \in {"perform", "remove"} =>
       \A u \in c.files : ~Expired(Utterance[u].at, DefaultRetention, c.now)
  /\ \A i \in 1 .. Len(c.sweeps) : SweepDue(c.sweeps[i], c.now)
  /\ c.at = "remove" =>
       c.files = {} /\ c.sweeps # << >> /\ \E r \in fgt : r.id = Head(c.sweeps).id
  /\ c.at = "away" => c = Away

RecordsFit ==
  /\ IsFiniteSet(DOMAIN records)
  /\ DOMAIN records \subseteq filed
  /\ \A id \in DOMAIN records : Genuine(id, records[id]) /\ AsFiled(id, records[id], patched)

AuthorFits == author.at = "write" => Genuine(author.id, author.record)

ReceiptsFit ==
  /\ forgotten \subseteq ReceiptOf
  /\ \A r \in forgotten :
       r.reason = "expired" /\ r.retention = DefaultRetention => RanOut(r.id, hour)

ScansFit == \A p \in DOMAIN scan : Fit(scan[p], hour, forgotten)

StarInv ==
  /\ hour \in 0 .. MaxHour
  /\ indexed \subseteq spoken /\ spoken \subseteq DOMAIN Utterance
  /\ RecordsFit
  /\ AuthorFits
  /\ ReceiptsFit
  /\ ForgettingLeavesReceipt
  /\ ScansFit

-----------------------------------------------------------------------------
(* What a pass knows stays so. *)

LEMMA RanOutStays ==
  ASSUME NEW id, NEW h \in Nat, NEW k \in Nat, h <= k, RanOut(id, h)
  PROVE  RanOut(id, k)
  BY StarAssumption DEF RanOut, DefaultRetention

LEMMA FitStays ==
  ASSUME NEW c, NEW h \in Nat, NEW k \in Nat, NEW fgt, NEW ggt,
         h <= k, fgt \subseteq ggt, Fit(c, h, fgt)
  PROVE  Fit(c, k, ggt)
  <1>1. c.now \in Nat /\ c.now <= k
    BY DEF Fit, ScanOf
  <1> QED
    BY <1>1 DEF Fit

\* Nothing is forgotten and the clock never goes back.
Onward ==
  /\ hour \in Nat /\ hour' \in Nat /\ hour <= hour'
  /\ forgotten \subseteq forgotten'

LEMMA ScansStay ==
  ASSUME ScansFit, Onward, UNCHANGED scan
  PROVE  ScansFit'
  <1>1. ASSUME NEW p \in DOMAIN scan
        PROVE  Fit(scan[p], hour', forgotten')
    BY <1>1, FitStays DEF ScansFit, Onward
  <1> QED
    BY <1>1 DEF ScansFit

LEMMA ScanGoesOn ==
  ASSUME ScansFit, Onward, NEW p \in DOMAIN scan, NEW c, Become(p, c),
         Fit(c, hour', forgotten')
  PROVE  ScansFit'
  <1>1. ASSUME NEW q \in DOMAIN scan
        PROVE  Fit(scan[q], hour', forgotten')
    BY <1>1, FitStays DEF ScansFit, Onward
  <1>2. DOMAIN scan' = DOMAIN scan /\ \A q \in DOMAIN scan : scan'[q] = IF q = p THEN c ELSE scan[q]
    BY DEF Become
  <1> QED
    BY <1>1, <1>2 DEF ScansFit

LEMMA AwayFits ==
  ASSUME NEW h \in Nat, NEW fgt
  PROVE  Fit(Away, h, fgt)
  <1>1. << >> \in Seq(Sweep) /\ Len(<< >>) = 0
    BY EmptySeq
  <1>2. Away \in ScanOf
    BY <1>1 DEF Away, ScanOf, ScanPoint
  <1> QED
    BY <1>1, <1>2 DEF Fit, Away

-----------------------------------------------------------------------------
(* Records and receipts. *)

LEMMA PutKeeps ==
  ASSUME RecordsFit, ForgettingLeavesReceipt, NEW id, NEW r, PutRecord(id, r),
         Genuine(id, r), AsFiled(id, r, patched'), patched \subseteq patched' \cup {id},
         UNCHANGED forgotten
  PROVE  RecordsFit' /\ ForgettingLeavesReceipt'
  <1>1. IsFiniteSet(DOMAIN records \cup {id})
    BY FS_AddElement DEF RecordsFit
  <1>2. /\ DOMAIN records' = DOMAIN records \cup {id}
        /\ \A x \in DOMAIN records' : records'[x] = IF x = id THEN r ELSE records[x]
        /\ filed' = filed \cup {id}
    BY DEF PutRecord
  <1>3. RecordsFit'
    BY <1>1, <1>2 DEF RecordsFit, AsFiled
  <1>4. filed' \ DOMAIN records' \subseteq filed \ DOMAIN records
    BY <1>2
  <1> QED
    BY <1>3, <1>4 DEF ForgettingLeavesReceipt

LEMMA DropKeeps ==
  ASSUME RecordsFit, ForgettingLeavesReceipt, NEW id, DropRecord(id),
         UNCHANGED patched, forgotten \subseteq forgotten', \E r \in forgotten' : r.id = id
  PROVE  RecordsFit' /\ ForgettingLeavesReceipt'
  <1>1. IsFiniteSet(DOMAIN records \ {id})
    BY FS_RemoveElement DEF RecordsFit
  <1>2. /\ DOMAIN records' = DOMAIN records \ {id}
        /\ \A x \in DOMAIN records' : records'[x] = records[x]
        /\ filed' = filed
    BY DEF DropRecord
  <1>3. RecordsFit'
    BY <1>1, <1>2 DEF RecordsFit
  <1>4. filed' \ DOMAIN records' \subseteq (filed \ DOMAIN records) \cup {id}
    BY <1>2
  <1> QED
    BY <1>3, <1>4 DEF ForgettingLeavesReceipt

LEMMA ForgetKeeps ==
  ASSUME ReceiptsFit, NEW r \in ReceiptOf, forgotten' = forgotten \cup {r}, UNCHANGED hour,
         r.reason = "expired" => RanOut(r.id, hour) \/ r.retention # DefaultRetention
  PROVE  ReceiptsFit'
  BY DEF ReceiptsFit

\* The receipt a sweep writes is of a record that had run out.
LEMMA DueRanOut ==
  ASSUME NEW s, NEW now \in Nat, SweepDue(s, now), s.of.retention = DefaultRetention
  PROVE  RanOut(s.id, now)
  BY StarAssumption
  DEF SweepDue, Genuine, RecordOf, ExpiredRecord, Expired, RanOut, DefaultRetention, Ids

LEMMA OnlyScanKeeps ==
  ASSUME StarInv, OnlyScan, ScansFit'
  PROVE  StarInv'
  BY DEF StarInv, OnlyScan, RecordsFit, AuthorFits, ReceiptsFit, ForgettingLeavesReceipt

LEMMA InvOnward ==
  ASSUME StarInv
  PROVE  hour \in Nat /\ hour <= hour
  BY StarAssumption DEF StarInv

-----------------------------------------------------------------------------
(* Passes and sweeps. *)

LEMMA AwayTyped == Away \in ScanOf /\ Away.sweeps = << >>
  <1>1. << >> \in Seq(Sweep)
    BY EmptySeq
  <1> QED
    BY <1>1 DEF Away, ScanOf, ScanPoint

LEMMA GatherKeeps ==
  ASSUME StarInv, NEW p \in DOMAIN scan, Gather(p)
  PROVE  StarInv'
  <1> DEFINE commands == {u \in InWindow : IsCommand(u)}
             c == [Away EXCEPT !.at = "list", !.now = hour, !.past = Past, !.files = commands]
  <1>1. Become(p, c)
    BY DEF Gather
  <1>2. Len(<< >>) = 0
    OBVIOUS
  <1>3. InWindow \subseteq indexed /\ indexed \subseteq DOMAIN Utterance
    BY DEF InWindow, StarInv
  <1>4. \A id \in Past : id \in Ids /\ RanOut(id, hour)
    BY DEF Past, StarInv, ReceiptsFit, ReceiptOf
  <1>5. \A u \in commands : u \in indexed /\ IsCommand(u) /\ u \in DOMAIN Utterance
    BY <1>3
  <1> HIDE DEF commands
  <1>6. /\ c \in ScanOf
        /\ c.at = "list" /\ c.now = hour /\ c.past = Past /\ c.files = commands
        /\ c.sweeps = << >>
    <2>1. commands \in SUBSET DOMAIN Utterance /\ Past \in SUBSET Ids /\ hour \in Nat
      BY <1>4, <1>5, InvOnward
    <2> QED
      BY <2>1, AwayTyped DEF ScanOf, ScanPoint
  <1> HIDE DEF c
  <1>7. Fit(c, hour, forgotten)
    BY <1>2, <1>4, <1>5, <1>6, InvOnward DEF Fit
  <1>8. ScansFit'
    BY <1>1, <1>7, ScanGoesOn, InvOnward DEF Gather, OnlyScan, Onward, StarInv
  <1> QED
    BY <1>8, OnlyScanKeeps DEF Gather

\* A plan of sweeps is a sequence of records that are due.
LEMMA PlanIsDue ==
  ASSUME StarInv, NEW now \in Nat, NEW order \in PlanSweeps(now)
  PROVE  LET plan == [i \in DOMAIN order |-> [id |-> order[i], of |-> records[order[i]]]]
         IN /\ plan \in Seq(Sweep)
            /\ \A i \in 1 .. Len(plan) : SweepDue(plan[i], now)
  <1> DEFINE due == {id \in DOMAIN records : ExpiredRecord(records[id], now)}
             n == Cardinality(due)
             plan == [i \in DOMAIN order |-> [id |-> order[i], of |-> records[order[i]]]]
  <1>1. n \in Nat
    <2>1. due \subseteq DOMAIN records /\ IsFiniteSet(DOMAIN records)
      BY DEF StarInv, RecordsFit
    <2>2. IsFiniteSet(due)
      BY <2>1, FS_Subset
    <2> QED
      BY <2>2, FS_CardinalityType
  <1>2. order \in [1 .. n -> due]
    BY DEF PlanSweeps
  <1>3. \A id \in due : Genuine(id, records[id]) /\ ExpiredRecord(records[id], now)
    BY DEF StarInv, RecordsFit
  <1>4. \A i \in 1 .. n : plan[i] \in Sweep /\ SweepDue(plan[i], now)
    <2> TAKE i \in 1 .. n
    <2>1. order[i] \in due /\ plan[i] = [id |-> order[i], of |-> records[order[i]]]
      BY <1>2
    <2>2. Genuine(order[i], records[order[i]]) /\ ExpiredRecord(records[order[i]], now)
      BY <2>1, <1>3
    <2> HIDE DEF plan, due
    <2> QED
      BY <2>1, <2>2 DEF SweepDue, Sweep, Genuine
  <1>5. DOMAIN plan = 1 .. n
    BY <1>2
  <1>6. plan = [i \in 1 .. n |-> plan[i]]
    BY <1>5
  <1> HIDE DEF plan, n
  <1>7. plan \in [1 .. n -> Sweep]
    BY <1>4, <1>6
  <1>8. plan \in Seq(Sweep) /\ Len(plan) = n
    BY <1>7, <1>1
  <1> QED
    BY <1>8, <1>4 DEF plan

LEMMA ListKeeps ==
  ASSUME StarInv, NEW p \in DOMAIN scan, ListStars(p)
  PROVE  StarInv'
  <1> DEFINE s == scan[p]
             plan(order) == [i \in DOMAIN order |-> [id |-> order[i], of |-> records[order[i]]]]
             files == PlanFilings(s.files, s.now)
  <1>1. Fit(s, hour, forgotten) /\ s.at = "list"
    BY DEF StarInv, ScansFit, ListStars, At
  <1>2. s \in ScanOf /\ s.now \in Nat
    BY <1>1 DEF Fit, ScanOf
  <1>3. PICK order \in PlanSweeps(s.now) :
          Become(p, [s EXCEPT !.at = "perform", !.files = files, !.sweeps = plan(order)])
    BY DEF ListStars
  <1>4. plan(order) \in Seq(Sweep) /\ \A i \in 1 .. Len(plan(order)) : SweepDue(plan(order)[i], s.now)
    BY <1>2, PlanIsDue
  <1>5. \A u \in files : u \in s.files /\ ~Expired(Utterance[u].at, DefaultRetention, s.now)
    BY DEF PlanFilings
  <1>6. files \in SUBSET DOMAIN Utterance
    BY <1>2, <1>5 DEF ScanOf
  <1> DEFINE c == [s EXCEPT !.at = "perform", !.files = files, !.sweeps = plan(order)]
  <1> HIDE DEF files, plan, s
  <1>7. /\ c \in ScanOf
        /\ c.at = "perform" /\ c.now = s.now /\ c.past = s.past /\ c.files = files
        /\ c.sweeps = plan(order)
    BY <1>2, <1>4, <1>6 DEF ScanOf, ScanPoint
  <1> HIDE DEF c
  <1>8. Fit(c, hour, forgotten)
    BY <1>1, <1>4, <1>5, <1>7 DEF Fit
  <1>9. ScansFit'
    BY <1>3, <1>8, ScanGoesOn, InvOnward DEF ListStars, OnlyScan, Onward, StarInv, c, s
  <1> QED
    BY <1>9, OnlyScanKeeps DEF ListStars

LEMMA BasisKeeps ==
  ASSUME StarInv, NEW p \in DOMAIN scan, ServerBasis(p)
  PROVE  StarInv'
  <1> DEFINE plan(order) == [i \in DOMAIN order |-> [id |-> order[i], of |-> records[order[i]]]]
  <1>1. PICK order \in PlanSweeps(hour) :
          Become(p, [Away EXCEPT !.at = "perform", !.now = hour, !.sweeps = plan(order)])
    BY DEF ServerBasis
  <1>2. plan(order) \in Seq(Sweep) /\ \A i \in 1 .. Len(plan(order)) : SweepDue(plan(order)[i], hour)
    BY PlanIsDue, InvOnward
  <1> DEFINE c == [Away EXCEPT !.at = "perform", !.now = hour, !.sweeps = plan(order)]
  <1> HIDE DEF plan
  <1>3. Away.files = {} /\ Away.past = {}
    BY DEF Away
  <1>4. /\ c \in ScanOf
        /\ c.at = "perform" /\ c.now = hour /\ c.past = Away.past /\ c.files = Away.files
        /\ c.sweeps = plan(order)
    BY <1>2, AwayTyped, InvOnward DEF ScanOf, ScanPoint
  <1> HIDE DEF c
  <1>5. Fit(c, hour, forgotten)
    BY <1>2, <1>3, <1>4, InvOnward DEF Fit
  <1>6. ScansFit'
    BY <1>1, <1>5, ScanGoesOn, InvOnward DEF ServerBasis, OnlyScan, Onward, StarInv, c
  <1> QED
    BY <1>6, OnlyScanKeeps DEF ServerBasis

LEMMA AwayKeeps ==
  ASSUME StarInv, NEW p \in DOMAIN scan, Become(p, Away),
         UNCHANGED <<hour, spoken, indexed, records, forgotten, filed, patched, author>>
  PROVE  StarInv'
  <1>1. ScansFit'
    BY AwayFits, ScanGoesOn, InvOnward DEF Onward, StarInv
  <1> QED
    BY <1>1 DEF StarInv, RecordsFit, AuthorFits, ReceiptsFit, ForgettingLeavesReceipt

LEMMA FileKeeps ==
  ASSUME StarInv, NEW p \in DOMAIN scan, FileStar(p)
  PROVE  StarInv'
  <1> DEFINE s == scan[p]
  <1>1. Fit(s, hour, forgotten) /\ s.at = "perform"
    BY DEF StarInv, ScansFit, FileStar, At
  <1>2. PICK u \in s.files :
          /\ PutRecord(u, VoiceRecord(u)) /\ patched' = patched \ {u}
          /\ Become(p, [s EXCEPT !.files = @ \ {u}])
    BY DEF FileStar
  <1> DEFINE c == [s EXCEPT !.files = @ \ {u}]
  <1> HIDE DEF s
  <1>3. s \in ScanOf /\ IsCommand(u) /\ u \in DOMAIN Utterance
    BY <1>1, <1>2 DEF Fit, ScanOf
  <1>4. Genuine(u, VoiceRecord(u))
    <2>1. /\ VoiceRecord(u) \in RecordOf /\ VoiceRecord(u).by = "voice"
          /\ VoiceRecord(u).created = Utterance[u].at
      BY <1>3, StarAssumption DEF VoiceRecord, Record, RecordOf, DefaultRetention, SpanOf
    <2> QED
      BY <2>1, <1>3, StarAssumption DEF Genuine, Ids
  <1>5. RecordsFit' /\ ForgettingLeavesReceipt'
    BY <1>2, <1>3, <1>4, PutKeeps DEF StarInv, FileStar, AsFiled
  <1>6. /\ c \in ScanOf
        /\ c.at = s.at /\ c.now = s.now /\ c.past = s.past /\ c.files = s.files \ {u}
        /\ c.sweeps = s.sweeps
    BY <1>3 DEF ScanOf
  <1> HIDE DEF c
  <1>7. Fit(c, hour, forgotten)
    BY <1>1, <1>6 DEF Fit
  <1>8. ScansFit'
    BY <1>2, <1>7, ScanGoesOn, InvOnward DEF FileStar, Onward, StarInv, c
  <1> QED
    BY <1>5, <1>8 DEF FileStar, StarInv, AuthorFits, ReceiptsFit

LEMMA SweepReceiptKeeps ==
  ASSUME StarInv, NEW p \in DOMAIN scan, SweepReceipt(p)
  PROVE  StarInv'
  <1> DEFINE s == scan[p]
             first == Head(s.sweeps)
             r == Receipt(first.id, first.of, "expired")
             c == [s EXCEPT !.at = "remove"]
  <1>1. Fit(s, hour, forgotten) /\ s.at = "perform" /\ s.sweeps # << >> /\ s.files = {}
    BY DEF StarInv, ScansFit, SweepReceipt, At
  <1>2. forgotten' = forgotten \cup {r} /\ Become(p, c)
    BY DEF SweepReceipt
  <1> HIDE DEF s
  <1>3. s \in ScanOf /\ s.sweeps \in Seq(Sweep) /\ s.now \in Nat /\ s.now <= hour
    BY <1>1 DEF Fit, ScanOf
  <1>4. Len(s.sweeps) \in Nat \ {0} /\ first \in Sweep /\ first = s.sweeps[1]
    BY <1>1, <1>3, EmptySeq, HeadTailProperties
  <1> HIDE DEF first
  <1>5. SweepDue(first, s.now)
    BY <1>1, <1>4 DEF Fit
  <1>6. r \in ReceiptOf /\ r.id = first.id /\ r.retention = first.of.retention
    BY <1>4 DEF Receipt, ReceiptOf, Sweep, RecordOf
  <1>7. r.retention = DefaultRetention => RanOut(r.id, hour)
    BY <1>3, <1>5, <1>6, DueRanOut, RanOutStays, InvOnward
  <1> HIDE DEF r
  <1>8. ReceiptsFit'
    BY <1>2, <1>6, <1>7, ForgetKeeps DEF StarInv, SweepReceipt
  <1>9. c \in ScanOf /\ c.at = "remove" /\ c.now = s.now /\ c.past = s.past
        /\ c.files = s.files /\ c.sweeps = s.sweeps
    BY <1>3 DEF ScanOf, ScanPoint
  <1> HIDE DEF c
  <1>10. Fit(c, hour, forgotten')
    BY <1>1, <1>2, <1>6, <1>9 DEF Fit, first
  <1>11. ScansFit'
    BY <1>2, <1>10, ScanGoesOn, InvOnward DEF SweepReceipt, Onward, StarInv
  <1> QED
    BY <1>2, <1>8, <1>11
    DEF SweepReceipt, StarInv, RecordsFit, AuthorFits, ForgettingLeavesReceipt

LEMMA SweepRemoveKeeps ==
  ASSUME StarInv, NEW p \in DOMAIN scan, SweepRemove(p)
  PROVE  StarInv'
  <1> DEFINE s == scan[p]
             c == [s EXCEPT !.at = "perform", !.sweeps = Tail(@)]
  <1>1. Fit(s, hour, forgotten) /\ s.at = "remove"
    BY DEF StarInv, ScansFit, SweepRemove, At
  <1>2. DropRecord(Head(s.sweeps).id) /\ Become(p, c)
    BY DEF SweepRemove
  <1> HIDE DEF s
  <1>3. /\ s \in ScanOf /\ s.sweeps \in Seq(Sweep) /\ s.sweeps # << >>
        /\ \E r \in forgotten : r.id = Head(s.sweeps).id
    BY <1>1 DEF Fit, ScanOf
  <1>4. RecordsFit' /\ ForgettingLeavesReceipt'
    BY <1>2, <1>3, DropKeeps DEF StarInv, SweepRemove
  <1>5. /\ Tail(s.sweeps) \in Seq(Sweep) /\ Len(s.sweeps) \in Nat
        /\ Len(Tail(s.sweeps)) = Len(s.sweeps) - 1
        /\ \A i \in 1 .. Len(Tail(s.sweeps)) : Tail(s.sweeps)[i] = s.sweeps[i + 1]
    BY <1>3, HeadTailProperties, LenProperties
  <1>6. \A i \in 1 .. Len(Tail(s.sweeps)) : SweepDue(Tail(s.sweeps)[i], s.now)
    <2> TAKE i \in 1 .. Len(Tail(s.sweeps))
    <2>1. i + 1 \in 1 .. Len(s.sweeps)
      BY <1>5
    <2> QED
      BY <2>1, <1>1, <1>5 DEF Fit
  <1>7. c \in ScanOf /\ c.at = "perform" /\ c.now = s.now /\ c.past = s.past
        /\ c.files = s.files /\ c.sweeps = Tail(s.sweeps)
    BY <1>3, <1>5 DEF ScanOf, ScanPoint
  <1> HIDE DEF c
  <1>8. Fit(c, hour, forgotten)
    BY <1>1, <1>6, <1>7 DEF Fit
  <1>9. ScansFit'
    BY <1>2, <1>8, ScanGoesOn, InvOnward DEF SweepRemove, Onward, StarInv
  <1> QED
    BY <1>4, <1>9 DEF SweepRemove, StarInv, AuthorFits, ReceiptsFit

-----------------------------------------------------------------------------
(* The authoring service and the world. *)

LEMMA AuthoredGenuine ==
  ASSUME StarInv, NEW id \in Authored, NEW retention \in {0, 1, 2}
  PROVE  LET r == Record("api", hour, retention, "named")
         IN Genuine(id, r) /\ \A reason : Receipt(id, r, reason).id = id
  BY InvOnward DEF Genuine, Record, RecordOf, Ids, Receipt

LEMMA SetKeeps ==
  ASSUME StarInv, SetStar
  PROVE  StarInv'
  <1>1. PICK id \in Authored \ filed, retention \in {0, 1, 2} :
          LET r == Record("api", hour, retention, "named")
          IN IF retention > 0
             THEN PutRecord(id, r) /\ UNCHANGED forgotten
             ELSE /\ forgotten' = forgotten \cup {Receipt(id, r, "zero-retention")}
                  /\ UNCHANGED <<records, filed>>
    BY DEF SetStar
  <1> DEFINE r == Record("api", hour, retention, "named")
             receipt == Receipt(id, r, "zero-retention")
  <1>2. Genuine(id, r) /\ AsFiled(id, r, patched')
    BY AuthoredGenuine DEF AsFiled
  <1>3. UNCHANGED <<hour, spoken, indexed, patched, scan, author>>
    BY DEF SetStar
  <1>4. forgotten \subseteq forgotten'
    BY <1>1
  <1>5. ScansFit'
    BY <1>3, <1>4, ScansStay, InvOnward DEF Onward, StarInv
  <1>6. CASE retention > 0
    <2>1. PutRecord(id, r) /\ UNCHANGED forgotten
      BY <1>1, <1>6
    <2> HIDE DEF r
    <2>2. RecordsFit' /\ ForgettingLeavesReceipt'
      BY <1>2, <1>3, <2>1, PutKeeps DEF StarInv
    <2> QED
      BY <2>1, <2>2, <1>3, <1>5 DEF StarInv, AuthorFits, ReceiptsFit
  <1>7. CASE ~(retention > 0)
    <2>1. forgotten' = forgotten \cup {receipt} /\ UNCHANGED <<records, filed>>
      BY <1>1, <1>7
    <2>2. receipt \in ReceiptOf /\ receipt.reason # "expired"
      BY DEF Receipt, ReceiptOf, Ids, Record
    <2> HIDE DEF receipt
    <2>3. ReceiptsFit'
      BY <2>1, <2>2, <1>3, ForgetKeeps DEF StarInv
    <2> QED
      BY <2>1, <2>3, <1>3, <1>5 DEF StarInv, RecordsFit, AuthorFits, ForgettingLeavesReceipt
  <1> QED
    BY <1>6, <1>7

LEMMA UpdateReadKeeps ==
  ASSUME StarInv, UpdateRead
  PROVE  StarInv'
  <1>1. PICK id \in DOMAIN records, retention \in {0, 1, 2}, text \in {"filed", "edited"} :
          author' = [at |-> "write", id |-> id,
                     record |-> [records[id] EXCEPT !.retention = retention, !.text = text]]
    BY DEF UpdateRead
  <1> DEFINE r == records[id]
             u == [r EXCEPT !.retention = retention, !.text = text]
  <1>2. Genuine(id, r)
    BY DEF StarInv, RecordsFit
  <1> HIDE DEF r
  <1>3. u \in RecordOf /\ u.by = r.by /\ u.created = r.created
    <2>1. r \in RecordOf /\ retention \in Nat
      BY <1>2 DEF Genuine
    <2>2. u \in RecordOf
      BY <2>1 DEF RecordOf
    <2>3. DOMAIN r = {"by", "created", "retention", "span", "text"}
      BY <2>1 DEF RecordOf
    <2> QED
      BY <2>2, <2>3
  <1> HIDE DEF u
  <1>4. Genuine(id, u)
    BY <1>2, <1>3 DEF Genuine
  <1>5. AuthorFits'
    <2>1. author'.id = id /\ author'.record = u
      BY <1>1 DEF u, r
    <2> QED
      BY <2>1, <1>4 DEF AuthorFits
  <1>6. ScansFit'
    BY ScansStay, InvOnward DEF Onward, StarInv, UpdateRead
  <1> QED
    BY <1>5, <1>6 DEF UpdateRead, StarInv, RecordsFit, ReceiptsFit, ForgettingLeavesReceipt

LEMMA UpdateWriteKeeps ==
  ASSUME StarInv, UpdateWrite
  PROVE  StarInv'
  <1>1. Genuine(author.id, author.record)
    BY DEF StarInv, AuthorFits, UpdateWrite
  <1>2. patched' = patched \cup {author.id} /\ AsFiled(author.id, author.record, patched')
    BY DEF UpdateWrite, AsFiled
  <1>3. RecordsFit' /\ ForgettingLeavesReceipt'
    BY <1>1, <1>2, PutKeeps DEF StarInv, UpdateWrite
  <1>4. AuthorFits'
    BY DEF AuthorFits, UpdateWrite, NoUpdate
  <1>5. ScansFit'
    BY ScansStay, InvOnward DEF Onward, StarInv, UpdateWrite
  <1> QED
    BY <1>3, <1>4, <1>5 DEF UpdateWrite, StarInv, ReceiptsFit

LEMMA RemoveKeeps ==
  ASSUME StarInv, RemoveStar
  PROVE  StarInv'
  <1>1. PICK id \in DOMAIN records :
          /\ forgotten' = forgotten \cup {Receipt(id, records[id], "removed")}
          /\ DropRecord(id) \/ UNCHANGED <<records, filed>>
    BY DEF RemoveStar
  <1> DEFINE r == Receipt(id, records[id], "removed")
  <1>2. r \in ReceiptOf /\ r.id = id /\ r.reason # "expired"
    BY DEF Receipt, ReceiptOf, StarInv, RecordsFit, Genuine, RecordOf
  <1>3. forgotten' = forgotten \cup {r}
    BY <1>1
  <1> HIDE DEF r
  <1>4. ReceiptsFit'
    BY <1>2, <1>3, ForgetKeeps DEF StarInv, RemoveStar
  <1>5. ScansFit'
    BY <1>3, ScansStay, InvOnward DEF Onward, StarInv, RemoveStar
  <1>6. RecordsFit' /\ ForgettingLeavesReceipt'
    <2>1. CASE DropRecord(id)
      BY <2>1, <1>2, <1>3, DropKeeps DEF StarInv, RemoveStar
    <2>2. CASE UNCHANGED <<records, filed>>
      BY <2>2, <1>3 DEF StarInv, RemoveStar, RecordsFit, ForgettingLeavesReceipt
    <2> QED
      BY <1>1, <2>1, <2>2
  <1> QED
    BY <1>4, <1>5, <1>6 DEF RemoveStar, StarInv, AuthorFits

LEMMA WorldKeeps ==
  ASSUME StarInv, Tick \/ IndexGrows \/ IndexDrops
  PROVE  StarInv'
  <1>1. /\ UNCHANGED <<spoken, records, forgotten, filed, patched, scan, author>>
        /\ hour' \in 0 .. MaxHour /\ hour <= hour'
        /\ indexed' \subseteq spoken
    <2>1. CASE Tick
      BY <2>1, StarAssumption DEF Tick, StarInv
    <2>2. CASE IndexGrows
      BY <2>2, InvOnward DEF IndexGrows, StarInv
    <2>3. CASE IndexDrops
      BY <2>3, InvOnward DEF IndexDrops, StarInv
    <2> QED
      BY <2>1, <2>2, <2>3
  <1>2. Onward
    BY <1>1, InvOnward, StarAssumption DEF Onward
  <1>3. ScansFit'
    BY <1>1, <1>2, ScansStay DEF StarInv
  <1>4. ReceiptsFit'
    BY <1>1, <1>2, RanOutStays DEF Onward, ReceiptsFit, StarInv
  <1> QED
    BY <1>1, <1>3, <1>4 DEF StarInv, RecordsFit, AuthorFits, ForgettingLeavesReceipt

-----------------------------------------------------------------------------
(* The theorems. *)

LEMMA StarStarts == StarInit => StarInv
  <1> SUFFICES ASSUME NEW s \in StarScenes, StarStart(s)
               PROVE  StarInv
    BY DEF StarInit
  <1>1. hour \in 0 .. MaxHour /\ hour \in Nat /\ spoken \subseteq DOMAIN Utterance
    BY StarAssumption DEF StarStart
  <1>2. DOMAIN records = {}
    BY DEF StarStart
  <1>3. RecordsFit
    BY <1>2, FS_EmptySet DEF RecordsFit
  <1>4. ScansFit
    BY <1>1, AwayFits DEF StarStart, ScansFit
  <1>5. AuthorFits
    BY DEF AuthorFits, StarStart, NoUpdate
  <1> QED
    BY <1>1, <1>3, <1>4, <1>5 DEF StarStart, StarInv, ReceiptsFit, ForgettingLeavesReceipt

LEMMA StarGoesOn == StarInv /\ [StarNext]_starVars => StarInv'
  <1> SUFFICES ASSUME StarInv, [StarNext]_starVars
               PROVE  StarInv'
    OBVIOUS
  <1>1. ASSUME NEW p \in DOMAIN scan, ScanStep(p)
        PROVE  StarInv'
    <2>1. CASE Gather(p)
      BY <1>1, <2>1, GatherKeeps
    <2>2. CASE ListStars(p)
      BY <1>1, <2>2, ListKeeps
    <2>3. CASE ServerBasis(p)
      BY <1>1, <2>3, BasisKeeps
    <2>4. CASE FileStar(p)
      BY <1>1, <2>4, FileKeeps
    <2>5. CASE SweepReceipt(p)
      BY <1>1, <2>5, SweepReceiptKeeps
    <2>6. CASE SweepRemove(p)
      BY <1>1, <2>6, SweepRemoveKeeps
    <2>7. CASE EndScan(p)
      BY <1>1, <2>7, AwayKeeps DEF EndScan, OnlyScan
    <2> QED
      BY <1>1, <2>1, <2>2, <2>3, <2>4, <2>5, <2>6, <2>7 DEF ScanStep
  <1>2. ASSUME NEW p \in DOMAIN scan, ScanStops(p)
        PROVE  StarInv'
    BY <1>2, AwayKeeps DEF ScanStops
  <1>3. CASE UNCHANGED starVars
    BY <1>3 DEF starVars, StarInv, RecordsFit, AuthorFits, ReceiptsFit,
                ForgettingLeavesReceipt, ScansFit
  <1>4. CASE SetStar \/ UpdateRead \/ UpdateWrite \/ RemoveStar \/ Tick \/ IndexGrows \/ IndexDrops
    BY <1>4, SetKeeps, UpdateReadKeeps, UpdateWriteKeeps, RemoveKeeps, WorldKeeps
  <1> QED
    BY <1>1, <1>2, <1>3, <1>4 DEF StarNext

LEMMA StarInvariant == StarSpec => []StarInv
  BY StarStarts, StarGoesOn, PTL DEF StarSpec

\* A pass never plans to file what had been forgotten on schedule before it
\* began: it plans what has not run out by its clock, and that had.
LEMMA NothingRevived ==
  ASSUME StarInv
  PROVE  NoRevival
  <1> SUFFICES ASSUME NEW p \in DOMAIN scan, scan[p].at \in {"perform", "remove"},
                      NEW u \in scan[p].files, u \in scan[p].past
               PROVE  FALSE
    BY DEF NoRevival
  <1>1. Fit(scan[p], hour, forgotten)
    BY DEF StarInv, ScansFit
  <1>2. u \in DOMAIN Utterance /\ RanOut(u, scan[p].now)
        /\ ~Expired(Utterance[u].at, DefaultRetention, scan[p].now)
    BY <1>1 DEF Fit, ScanOf
  <1> QED
    BY <1>2 DEF RanOut, Expired

\* A command's record that no update wrote last is the one the audit plans, and
\* its time is the utterance's.
LEMMA UnpatchedIsRight ==
  ASSUME StarInv, NEW id \in DOMAIN records, id \notin Authored, id \notin patched
  PROVE  /\ records[id] = VoiceRecord(id)
         /\ id \in DOMAIN Utterance /\ IsCommand(id) /\ Utterance[id].at \in Nat
         /\ id \in Overdue <=> Expired(Utterance[id].at, DefaultRetention, hour)
  <1>1. Genuine(id, records[id]) /\ AsFiled(id, records[id], patched)
    BY DEF StarInv, RecordsFit
  <1>2. records[id] = VoiceRecord(id) /\ IsCommand(id) /\ id \in DOMAIN Utterance
    BY <1>1 DEF Genuine, AsFiled, Ids
  <1>3. records[id].created = Utterance[id].at /\ records[id].retention = DefaultRetention
    BY <1>2 DEF VoiceRecord, Record
  <1>4. Utterance[id].at \in Nat
    BY <1>2, StarAssumption
  <1> QED
    BY <1>2, <1>3, <1>4 DEF Overdue, ExpiredRecord

LEMMA AuditExplained ==
  ASSUME StarInv
  PROVE  AuditIsExplained
  <1> DEFINE live == Commands \ Unborn
  <1>0. /\ Commands \subseteq DOMAIN Utterance /\ Commands \subseteq indexed
        /\ \A u \in Commands : u \notin Authored
        /\ \A u \in Unborn : u \in Commands /\ Expired(Utterance[u].at, DefaultRetention, hour)
    BY StarAssumption DEF Commands, Unborn, InWindow, PlanFilings, StarInv
  <1>1. ASSUME NEW m, m.kind = "missing-record", m.id \in live \ DOMAIN records, m.id \in filed
        PROVE  \E r \in forgotten : r.id = m.id
    BY <1>1 DEF StarInv, ForgettingLeavesReceipt
  <1>2. ASSUME NEW u \in live \cap DOMAIN records, records[u] # VoiceRecord(u)
        PROVE  u \in patched
    BY <1>0, <1>2, UnpatchedIsRight
  <1>3. ASSUME NEW u \in Unborn \cap DOMAIN records
        PROVE  u \in Overdue \/ u \in patched
    BY <1>0, <1>3, UnpatchedIsRight
  <1>4. ASSUME NEW id \in DOMAIN records, id \notin Commands \cup Overdue, records[id].by = "voice"
        PROVE  id \notin indexed \/ id \in patched
    <2> SUFFICES ASSUME id \in indexed, id \notin patched
                 PROVE  FALSE
      OBVIOUS
    <2>1. id \notin Authored
      BY <1>4 DEF StarInv, RecordsFit, Genuine
    <2>2. IsCommand(id) /\ Utterance[id].at \in Nat
          /\ ~Expired(Utterance[id].at, DefaultRetention, hour)
      BY <1>4, <2>1, UnpatchedIsRight
    <2>3. hour - Utterance[id].at < Window
      BY <2>2, InvOnward DEF Expired, DefaultRetention, Window
    <2> QED
      BY <1>4, <2>2, <2>3 DEF Commands, InWindow
  <1> DEFINE on(kind, ids) == {[kind |-> kind, id |-> id] : id \in ids}
  <1>5. \A kind, ids : \A m \in on(kind, ids) : m.kind = kind /\ m.id \in ids
    OBVIOUS
  <1> SUFFICES ASSUME NEW m \in AuditStars
               PROVE  CASE m.kind = "missing-record" ->
                             m.id \in filed => \E r \in forgotten : r.id = m.id
                        [] m.kind = "server-only" -> m.id \notin indexed \/ m.id \in patched
                        [] OTHER -> m.id \in Overdue \/ m.id \in patched
    BY DEF AuditIsExplained
  <1>6. \/ m.kind = "missing-record" /\ m.id \in live \ DOMAIN records
        \/ m.kind = "record-differs" /\ m.id \in live \cap DOMAIN records
             /\ records[m.id] # VoiceRecord(m.id)
        \/ m.kind = "revived-record" /\ m.id \in Unborn \cap DOMAIN records
        \/ /\ m.kind = "server-only" /\ m.id \in DOMAIN records
           /\ m.id \notin Commands \cup Overdue /\ records[m.id].by = "voice"
        \/ m.kind = "sweep-missed" /\ m.id \in Overdue
    BY <1>5 DEF AuditStars
  <1> QED
    BY <1>1, <1>2, <1>3, <1>4, <1>6

\* A forgotten star stays so, and on record, and the audit bears it out,
\* however passes, sweeps and the authoring service overlap, fail or die,
\* whatever an update edits and whatever leaves the day index (stars.ts,
\* Stars.ts, DayIndex.ts).
THEOREM StarsAreRetained == StarSpec => []RetentionIsSafe
  <1>1. StarInv => RetentionIsSafe
    BY NothingRevived, AuditExplained DEF RetentionIsSafe, StarInv
  <1> QED
    BY <1>1, StarInvariant, PTL

\* The state of the stars keeps its types: a record is of a command or
\* authored, and what a pass still has to do agrees with its point.
THEOREM StarsAreTyped == StarSpec => []StarTypeOK
  <1>1. StarInv => StarTypeOK
    <2> SUFFICES ASSUME StarInv
                 PROVE  StarTypeOK
      OBVIOUS
    <2>1. ASSUME NEW id \in DOMAIN records
          PROVE  IF id \in Authored THEN records[id].by = "api"
                 ELSE IsCommand(id) /\ records[id].by = "voice"
                                    /\ records[id].created = Utterance[id].at
      BY <2>1 DEF StarInv, RecordsFit, Genuine, Record
    <2>2. ASSUME NEW p \in DOMAIN scan
          PROVE  /\ scan[p].at \in ScanPoint
                 /\ At(p, "remove") => scan[p].files = {} /\ scan[p].sweeps # << >>
                 /\ At(p, "away") => scan[p] = Away
      BY <2>2 DEF StarInv, ScansFit, Fit, ScanOf, At
    <2> QED
      BY <2>1, <2>2 DEF StarTypeOK, StarInv, RecordsFit
  <1> QED
    BY <1>1, StarInvariant, PTL
=============================================================================
