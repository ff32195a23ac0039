----------------------------- MODULE DayDerivation -----------------------------
(***************************************************************************)
(* What the server derives of a day: the pass of its ingest loop           *)
(* (lib/Pipeline.ts, example-lifelog/main.ts), which compacts positions    *)
(* (lib/lifelog/Gps.ts), finds stays (Stays.ts), and materializes what is  *)
(* missing of movement, search, notes and journals (Movement.ts,           *)
(* TranscriptSearch.ts, Journal.ts), and the durable workflows the notes   *)
(* and the journals are written by, which outlive a crash of the server.   *)
(*                                                                         *)
(* A resource's key holds what it is derived from, so a file that is there *)
(* is current.  Attributions and day indexes are functions of their keys   *)
(* and are computed where they are needed, never stored.                   *)
(*                                                                         *)
(* Abstractions.  A text is where it came from; a note is its version; a   *)
(* position is of one day; what a model writes is what it was told.  The   *)
(* movements of one enumeration are composed together, and so are the      *)
(* files of one listing read.  The eager window and the home zone stay as  *)
(* they are.                                                               *)
(***************************************************************************)
EXTENDS Integers, FiniteSets

CONSTANTS
  Recording,  \* captures: id -> [day, moved, sealed], see DayOf and Retire
  Position,   \* GPS positions: id -> its day
  DayScenes,  \* what may happen (see DayInit)
  LastWindow  \* bound: attempt windows are counted to here

VARIABLES
  evidence,  \* texts, corrections, notes and places, as they are now
  track,     \* GPS: inbox, points, stays, the stays' basis, all ever posted
  shelf,     \* what is materialized: key -> content
  flow,      \* the engine's executions: id -> state
  pass,      \* the ingest loop
  memo,      \* instancesMemo, in the server's memory
  window,    \* the attempt window: the hour
  dayLeft    \* the bounds: changes to come, failures and crashes left

dayVars == <<evidence, track, shelf, flow, pass, memo, window, dayLeft>>

Capture == DOMAIN Recording

Change(kind, of) == [kind |-> kind, of |-> of]

\* What a scene is read by; a text that is there does not land once more.
ASSUME DayScenesAssumption ==
  \A s \in DayScenes :
    /\ s.texts \in [Capture -> SUBSET {"live", "local", "canonical"}]
    /\ s.inbox \subseteq DOMAIN Position
    /\ DOMAIN s.left = {"eager", "changes", "fails", "crashes"}
    /\ \A c \in Capture : \A t \in s.texts[c] : Change(t, c) \notin s.left.changes

Day == {Recording[c].day : c \in Capture} \cup {Recording[c].moved : c \in Capture}
         \cup {Position[p] : p \in DOMAIN Position}

With(f, key, content) ==
  [k \in DOMAIN f \cup {key} |-> IF k = key THEN content ELSE f[k]]

NoFile == [k \in {} |-> {}]

-----------------------------------------------------------------------------
(* The day index. *)

\* A vendor transcript wins, the phone's first look fills the gap; a live
\* provisional is a capture of its own.
SelectedText(c) ==
  IF "canonical" \in evidence.texts[c] THEN "canonical"
  ELSE IF "local" \in evidence.texts[c] THEN "local"
  ELSE IF "live" \in evidence.texts[c] THEN "live" ELSE "none"

DayOf(c) == IF evidence.fixed[c] THEN Recording[c].moved ELSE Recording[c].day

HasText(c) == SelectedText(c) # "none"

Entry(c) == [of |-> c, text |-> SelectedText(c), fixed |-> evidence.fixed[c]]

DayIndex == [d \in Day |-> {Entry(c) : c \in {x \in Capture : HasText(x) /\ DayOf(x) = d}}]

TextsOf(entries) == {<<e.of, e.text>> : e \in entries}

\* What a workflow reads again of the texts its key names.
StillThere(day, entries) == TextsOf(DayIndex[day]) \cap TextsOf(entries)

-----------------------------------------------------------------------------
(* Keys. *)

PointsOn(d, points) == {p \in points : Position[p] = d}

NoMovement == [points |-> {}, stays |-> {}, places |-> 0]

MovementBasis(d) ==
  [points |-> PointsOn(d, track.points), stays |-> PointsOn(d, track.stays),
   places |-> evidence.places]

MovementDays == {Position[p] : p \in track.points}

NotesKey(day, entries) == [day |-> day, entries |-> entries]

JournalKey(day, index) ==
  [day |-> day, entries |-> index[day],
   move |-> IF day \in MovementDays THEN MovementBasis(day) ELSE NoMovement,
   note |-> evidence.notes[day]]

HasInputs(key) == key.entries # {} \/ key.move # NoMovement \/ key.note # 0

-----------------------------------------------------------------------------
(* Workflows: one execution per key and attempt window, whose recorded     *)
(* activities are not run again.                                           *)

NotesFlow(day, entries, w) ==
  [kind |-> "notes", day |-> day, entries |-> entries, move |-> NoMovement,
   note |-> 0, window |-> w]

JournalFlow(key, w) ==
  [kind |-> "journal", day |-> key.day, entries |-> key.entries,
   move |-> key.move, note |-> key.note, window |-> w]

KeyOf(id) ==
  [day |-> id.day, entries |-> id.entries, move |-> id.move, note |-> id.note]

NewFlow ==
  [at |-> "start", inputs |-> {}, awaits |-> {}, gathered |-> NoMovement,
   recorded |-> {}, told |-> {}, timeline |-> NoMovement, note |-> 0]

\* A known execution is joined or answers what it ended with.
Executing(f, ids) == [i \in DOMAIN f \cup ids |-> IF i \in DOMAIN f THEN f[i] ELSE NewFlow]

Ended(f, id) == f[id].at \in {"done", "failed"}

ModelFails == dayLeft.fails > 0 /\ window < LastWindow

OneFailure == dayLeft' = [dayLeft EXCEPT !.fails = @ - 1]

Advance(id, at) == flow' = [flow EXCEPT ![id].at = at]

Remember(id, activity, field, content, at) ==
  flow' = [flow EXCEPT ![id].recorded = @ \cup {activity}, ![id][field] = content,
                       ![id].at = at]

\* notesForDay's and the journal's transcripts, of the index as it is now.
FlowRead(id) ==
  /\ flow[id].at = "start"
  /\ flow' = [flow EXCEPT ![id].inputs = StillThere(id.day, id.entries),
                          ![id].at = IF id.kind = "notes" THEN "model" ELSE "notes"]
  /\ UNCHANGED <<shelf, dayLeft>>

NotesModel(id) ==
  /\ id.kind = "notes" /\ flow[id].at = "model"
  /\ \/ /\ shelf' = [shelf EXCEPT
              !.notes = With(@, NotesKey(id.day, id.entries), flow[id].inputs)]
        /\ Advance(id, "done")
        /\ UNCHANGED dayLeft
     \/ ModelFails /\ OneFailure /\ Advance(id, "failed") /\ UNCHANGED shelf

\* Seeded fault: the journal takes the notes that are there and asks for none.
NotesIfThere(id) ==
  /\ flow[id].at = "notes"
  /\ LET key == NotesKey(id.day, DayIndex[id.day]) IN
       Remember(id, "notes", "told",
              IF key \in DOMAIN shelf.notes THEN shelf.notes[key] ELSE {}, "movement")
  /\ UNCHANGED <<shelf, dayLeft>>

\* The notes of the day as it is indexed now: read, or written first by an
\* execution of their own.
JournalNotes(id) ==
  /\ flow[id].at = "notes"
  /\ LET entries == DayIndex[id.day]
         key == NotesKey(id.day, entries)
         notes == NotesFlow(id.day, entries, window)
     IN \/ /\ flow[id].inputs = {} \/ "notes" \in flow[id].recorded
           /\ Advance(id, "movement")
        \/ /\ flow[id].inputs # {} /\ "notes" \notin flow[id].recorded
           /\ CASE entries = {} -> Remember(id, "notes", "told", {}, "movement")
                [] entries # {} /\ key \in DOMAIN shelf.notes ->
                     Remember(id, "notes", "told", shelf.notes[key], "movement")
                [] OTHER ->
                     flow' = [Executing(flow, {notes}) EXCEPT
                                ![id].at = "await", ![id].awaits = {notes}]
  /\ UNCHANGED <<shelf, dayLeft>>

JournalAwait(id) ==
  /\ flow[id].at = "await"
  /\ \E n \in flow[id].awaits :
       \/ flow[n].at = "failed" /\ Advance(id, "failed")
       \/ /\ flow[n].at = "done"
          /\ Remember(id, "notes", "told", shelf.notes[NotesKey(n.day, n.entries)], "movement")
  /\ UNCHANGED <<shelf, dayLeft>>

\* A movement of another basis than the key's contributes no timeline.
Timeline(id, basis) ==
  IF basis = id.move THEN shelf.movement[<<id.day, basis>>] ELSE NoMovement

JournalMovement(id) ==
  /\ flow[id].at = "movement"
  /\ LET basis == MovementBasis(id.day) IN
       \/ /\ id.move = NoMovement \/ "movement" \in flow[id].recorded
          /\ Advance(id, "note")
       \/ /\ id.move # NoMovement /\ "movement" \notin flow[id].recorded
          /\ IF <<id.day, basis>> \in DOMAIN shelf.movement
             THEN Remember(id, "movement", "timeline", Timeline(id, basis), "note")
             ELSE flow' = [flow EXCEPT ![id].gathered = basis, ![id].at = "compose"]
  /\ UNCHANGED <<shelf, dayLeft>>

\* The basis is hashed again after the points, stays and places were read:
\* the file goes under the newer hash, and is then not where it was asked for.
JournalCompose(id) ==
  /\ flow[id].at = "compose"
  /\ LET basis == MovementBasis(id.day)
         asked == flow[id].gathered
     IN /\ shelf' = [shelf EXCEPT !.movement = With(@, <<id.day, basis>>, asked)]
        /\ IF basis = asked
           THEN Remember(id, "movement", "timeline",
                       IF basis = id.move THEN asked ELSE NoMovement, "note")
           ELSE Advance(id, "failed")
  /\ UNCHANGED dayLeft

JournalNote(id) ==
  /\ flow[id].at = "note"
  /\ \/ (id.note = 0 \/ "note" \in flow[id].recorded) /\ Advance(id, "report")
     \/ /\ id.note # 0 /\ "note" \notin flow[id].recorded
        /\ Remember(id, "note", "note",
                  IF evidence.notes[id.day] = id.note THEN id.note ELSE 0, "report")
  /\ UNCHANGED <<shelf, dayLeft>>

\* With no evidence left there is no call, and an empty journal.
JournalReport(id) ==
  LET f == flow[id] IN
  /\ f.at = "report"
  /\ \/ /\ shelf' = [shelf EXCEPT !.journals =
              With(@, KeyOf(id), [told |-> f.told, timeline |-> f.timeline, note |-> f.note])]
        /\ Advance(id, "done")
        /\ UNCHANGED dayLeft
     \/ /\ f.told # {} \/ f.timeline # NoMovement \/ f.note # 0
        /\ ModelFails /\ OneFailure /\ Advance(id, "failed") /\ UNCHANGED shelf

FlowStep(id) ==
  /\ \/ FlowRead(id) \/ NotesModel(id) \/ JournalNotes(id) \/ JournalAwait(id)
     \/ JournalMovement(id) \/ JournalCompose(id) \/ JournalNote(id)
     \/ JournalReport(id)
  /\ UNCHANGED <<evidence, track, pass, memo, window>>

-----------------------------------------------------------------------------
(* The pass: one at a time, stage by stage, resource by resource; a stage  *)
(* that fails is reported and the next one runs.                           *)

NoKey == [index |-> [d \in Day |-> {}], stamp |-> {}, notes |-> [d \in Day |-> 0]]

Idle == [at |-> "idle", batch |-> {}, basis |-> {}, moves |-> NoFile,
         waits |-> {}, key |-> NoKey]

Then(at) == pass' = [pass EXCEPT !.at = at]

StageFails(next) == dayLeft.fails > 0 /\ OneFailure /\ Then(next)

\* The inbox is listed once; what comes in later waits for the next pass.
ListInbox ==
  /\ pass.at = "idle"
  /\ pass' = [pass EXCEPT !.at = IF track.inbox = {} THEN "stays" ELSE "merge",
                          !.batch = track.inbox]
  /\ UNCHANGED <<track, dayLeft>>

\* Day by day, each partition replaced whole; done again, it changes nothing.
Merge ==
  /\ pass.at = "merge"
  /\ \/ \E d \in Day : LET points == track.points \cup PointsOn(d, pass.batch) IN
        /\ track' = [track EXCEPT !.points = points]
        /\ Then(IF pass.batch \subseteq points THEN "consume" ELSE "merge")
        /\ UNCHANGED dayLeft
     \/ StageFails("stays") /\ UNCHANGED track

\* Seeded fault: the inbox is emptied.
ConsumeAll ==
  /\ pass.at = "consume"
  /\ track' = [track EXCEPT !.inbox = {}]
  /\ Then("stays") /\ UNCHANGED dayLeft

Consume ==
  /\ pass.at = "consume"
  /\ track' = [track EXCEPT !.inbox = @ \ pass.batch]
  /\ Then("stays") /\ UNCHANGED dayLeft

\* The basis is taken first and stored last.
FindStays ==
  /\ pass.at = "stays"
  /\ \/ track.stamp = track.points /\ Then("search") /\ UNCHANGED <<track, dayLeft>>
     \/ /\ track.stamp # track.points
        /\ track' = [track EXCEPT !.stays = track.points]
        /\ pass' = [pass EXCEPT !.at = "stamp", !.basis = track.points]
        /\ UNCHANGED dayLeft
     \/ track.stamp # track.points /\ StageFails("search") /\ UNCHANGED track

StampStays ==
  /\ pass.at = "stamp"
  /\ track' = [track EXCEPT !.stamp = pass.basis]
  /\ Then("search") /\ UNCHANGED dayLeft

StageStep ==
  /\ ListInbox \/ Merge \/ Consume \/ FindStays \/ StampStays
  /\ UNCHANGED <<shelf, flow, memo>>

EagerDays == dayLeft.eager

PublishSearch ==
  /\ pass.at = "search"
  /\ IF DayIndex \in shelf.searched THEN UNCHANGED shelf
     ELSE shelf' = [shelf EXCEPT !.search = DayIndex, !.searched = @ \cup {DayIndex}]
  /\ Then("movement")
  /\ UNCHANGED <<flow, memo>>

GatherMovement ==
  /\ pass.at = "movement"
  /\ LET missing == {d \in MovementDays \cap EagerDays :
                       <<d, MovementBasis(d)>> \notin DOMAIN shelf.movement}
     IN pass' = [pass EXCEPT !.at = "compose", !.moves = [d \in missing |-> MovementBasis(d)]]
  /\ UNCHANGED <<shelf, flow, memo>>

ComposeMovement ==
  /\ pass.at = "compose"
  /\ LET made == {<<d, MovementBasis(d)>> : d \in DOMAIN pass.moves} IN
       shelf' = [shelf EXCEPT !.movement =
         [k \in DOMAIN @ \cup made |-> IF k \in made THEN pass.moves[k[1]] ELSE @[k]]]
  /\ pass' = [pass EXCEPT !.at = "notes", !.moves = NoFile]
  /\ UNCHANGED <<flow, memo>>

WriteNotes ==
  /\ pass.at = "notes"
  /\ LET index == DayIndex
         wanted == {NotesFlow(d, index[d], window) :
                      d \in {x \in Day \cap EagerDays : index[x] # {}
                               /\ NotesKey(x, index[x]) \notin DOMAIN shelf.notes}}
     IN /\ flow' = Executing(flow, wanted)
        /\ pass' = [pass EXCEPT !.at = "noted", !.waits = wanted]
  /\ UNCHANGED <<shelf, memo>>

AwaitNotes ==
  /\ pass.at = "noted"
  /\ \A id \in pass.waits : Ended(flow, id)
  /\ pass' = [pass EXCEPT !.at = "journals", !.waits = {}]
  /\ UNCHANGED <<shelf, flow, memo>>

\* Seeded fault: the notes are left out of the memo's key.
MemoKeyUnnoted == [index |-> DayIndex, stamp |-> track.stamp,
                   notes |-> [d \in Day |-> 0]]

MemoKey == [index |-> DayIndex, stamp |-> track.stamp, notes |-> evidence.notes]

NoMemo == [known |-> FALSE, key |-> NoKey, places |-> 0, value |-> {}]

\* The memo's key is read before what it stands for.
AskMemo ==
  /\ pass.at = "journals"
  /\ IF memo.known /\ memo.key = MemoKey
     THEN Then("write")
     ELSE pass' = [pass EXCEPT !.at = "enumerate", !.key = MemoKey]
  /\ UNCHANGED <<shelf, flow, memo>>

\* Eager days, and any other whose current journal is missing.
Enumerate ==
  /\ pass.at = "enumerate"
  /\ LET keys == {k \in {JournalKey(d, pass.key.index) : d \in Day} : HasInputs(k)}
         wanted == {k \in keys : k.day \in EagerDays \/ k \notin DOMAIN shelf.journals}
     IN memo' = [known |-> TRUE, key |-> pass.key, places |-> evidence.places,
                 value |-> {JournalFlow(k, window) : k \in wanted}]
  /\ Then("write")
  /\ UNCHANGED <<shelf, flow>>

WriteJournals ==
  /\ pass.at = "write"
  /\ LET wanted == {id \in memo.value : KeyOf(id) \notin DOMAIN shelf.journals} IN
       /\ flow' = Executing(flow, wanted)
       /\ pass' = [pass EXCEPT !.at = "written", !.waits = wanted]
  /\ UNCHANGED <<shelf, memo>>

Report ==
  /\ pass.at = "written"
  /\ \A id \in pass.waits : Ended(flow, id)
  /\ pass' = Idle
  /\ UNCHANGED <<shelf, flow, memo>>

Resources ==
  /\ \/ PublishSearch \/ GatherMovement \/ ComposeMovement \/ WriteNotes
     \/ AwaitNotes \/ AskMemo \/ Enumerate \/ WriteJournals \/ Report
  /\ UNCHANGED <<track, dayLeft>>

PassStep == (StageStep \/ Resources) /\ UNCHANGED <<evidence, window>>

-----------------------------------------------------------------------------
(* The world: evidence that lands or is replaced, each change at most once.*)

Due(kind, of) ==
  /\ Change(kind, of) \in dayLeft.changes
  /\ dayLeft' = [dayLeft EXCEPT !.changes = @ \ {Change(kind, of)}]

TextLands(c) ==
  /\ \E from \in {"live", "local", "canonical"} :
       /\ Due(from, c)
       /\ evidence' = [evidence EXCEPT !.texts[c] = @ \cup {from}]
  /\ UNCHANGED track

\* A live provisional goes when the recording that seals it has its text.
Retire(c) ==
  /\ Due("retire", c)
  /\ HasText(Recording[c].sealed)
  /\ evidence' = [evidence EXCEPT !.texts[c] = {}]
  /\ UNCHANGED track

Correct(c) ==
  /\ Due("correct", c)
  /\ evidence' = [evidence EXCEPT !.fixed[c] = TRUE]
  /\ UNCHANGED track

NoteLands(d) ==
  /\ Due("note", d)
  /\ evidence' = [evidence EXCEPT !.notes[d] = @ + 1]
  /\ UNCHANGED track

ReplacePlaces ==
  /\ Due("places", "places")
  /\ evidence' = [evidence EXCEPT !.places = @ + 1]
  /\ UNCHANGED track

PostPosition(p) ==
  /\ Due("position", p)
  /\ track' = [track EXCEPT !.inbox = @ \cup {p}, !.posted = @ \cup {p}]
  /\ UNCHANGED evidence

World ==
  /\ \/ \E c \in Capture : TextLands(c) \/ Retire(c) \/ Correct(c)
     \/ \E d \in Day : NoteLands(d)
     \/ \E p \in DOMAIN Position : PostPosition(p)
     \/ ReplacePlaces
  /\ UNCHANGED <<shelf, flow, pass, memo, window>>

Hour ==
  /\ window < LastWindow /\ window' = window + 1
  /\ UNCHANGED <<evidence, track, shelf, flow, pass, memo, dayLeft>>

\* The server restarts: its memory is gone, and an execution under way starts
\* again with the activities it has recorded.
ServerRestarts ==
  /\ dayLeft.crashes > 0
  /\ dayLeft' = [dayLeft EXCEPT !.crashes = @ - 1]
  /\ pass' = Idle /\ memo' = NoMemo
  /\ flow' = [i \in DOMAIN flow |->
                IF Ended(flow, i) THEN flow[i] ELSE
                [flow[i] EXCEPT !.at = "start", !.inputs = {}, !.awaits = {},
                                !.gathered = NoMovement]]
  /\ UNCHANGED <<evidence, track, shelf, window>>

-----------------------------------------------------------------------------
\* A scene: the texts and posted positions there are, the hour, and left: the
\* eager days, what may change, the failures and crashes it allows.
DayStart(s) ==
  /\ evidence = [texts |-> s.texts, fixed |-> [c \in Capture |-> FALSE],
                 notes |-> [d \in Day |-> 0], places |-> 0]
  /\ track = [inbox |-> s.inbox, points |-> {}, stays |-> {}, stamp |-> {},
              posted |-> s.inbox]
  /\ shelf = [notes |-> NoFile, movement |-> NoFile, journals |-> NoFile,
              search |-> [d \in Day |-> {}], searched |-> {}]
  /\ flow = NoFile
  /\ pass = Idle /\ memo = NoMemo /\ window = s.window
  /\ dayLeft = s.left

DayInit == \E s \in DayScenes : DayStart(s)

DayNext ==
  \/ PassStep \/ World \/ Hour \/ ServerRestarts
  \/ \E id \in DOMAIN flow : FlowStep(id)

\* The loop is scheduled again when a pass ends, the engine drives every
\* execution, the clock advances; a model call may fail until the last hour.
DayFairness ==
  /\ WF_dayVars(PassStep)
  /\ WF_dayVars(\E id \in DOMAIN flow : FlowStep(id))
  /\ WF_dayVars(Hour)

DaySpec == DayInit /\ [][DayNext]_dayVars /\ DayFairness

-----------------------------------------------------------------------------
(* Properties. *)

DayTypeOK ==
  /\ evidence.texts \in [Capture -> SUBSET {"live", "local", "canonical"}]
  /\ track.stays \subseteq track.points /\ track.points \subseteq track.posted
  /\ \A id \in DOMAIN flow :
       /\ id.day \in Day /\ id.window \in 0..LastWindow
       /\ flow[id].awaits \subseteq DOMAIN flow
  /\ pass.waits \subseteq DOMAIN flow

\* A position that was posted is in the inbox or in a partition, whatever
\* fails, and wherever the server dies, between listing, merging and deleting.
NoPositionLost == track.posted = track.inbox \cup track.points

Now(d) == JournalKey(d, DayIndex)

\* A journal that is current tells of every transcript its key names, of the
\* day's note as it is and of a movement: what is read again, under way, is
\* not what the key was made of, and an overtaken execution's journal must
\* never be the one a reader is given.  What it tells beyond its key is of
\* recordings that came to the day and left it again while it was written.
CurrentJournalTells ==
  \A d \in Day : Now(d) \in DOMAIN shelf.journals =>
    LET j == shelf.journals[Now(d)] IN
      /\ TextsOf(DayIndex[d]) \subseteq j.told
      /\ \A t \in j.told, e \in DayIndex[d] : t[1] = e.of => t[2] = e.text
      /\ j.note = evidence.notes[d]
      /\ Now(d).move # NoMovement => j.timeline # NoMovement

\* What the days keep is what they were given: positions wherever they were
\* moved, and a current journal that tells of its inputs.
DaysAreSound == NoPositionLost /\ CurrentJournalTells

\* The memo answers with an execution that has failed, of an hour gone by.
HeldFailure(d) ==
  \E id \in memo.value : KeyOf(id) = Now(d) /\ id \in DOMAIN flow /\ flow[id].at = "failed"

\* The memo does not know that the places were replaced.
PlacesUnseen == memo.places # evidence.places

\* Once evidence has stopped changing, every day that has any gets its journal,
\* the stays are those of the points and search is of the current index -
\* but for what the memo of the journal instances holds back.
DaysConverge ==
  <>[](/\ shelf.search = DayIndex
       /\ track.inbox = {} /\ track.stays = track.points
       /\ \A d \in Day : \/ ~HasInputs(Now(d)) \/ Now(d) \in DOMAIN shelf.journals
                         \/ HeldFailure(d) \/ PlacesUnseen)

\* The comment on workflowAttemptWindow (Journal.ts:191-196): a fresh execution
\* identity every hour, so that a transient failure can be retried by the
\* next pass.
FailuresAreRetried ==
  <>[](\A d \in Day : HasInputs(Now(d)) => Now(d) \in DOMAIN shelf.journals)
=============================================================================
