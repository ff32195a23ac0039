--------------------------- MODULE CaptureService ---------------------------
(***************************************************************************)
(* The phone's capture service: its intents (start, stop, reload of the    *)
(* policy), the recorder that rolls to a new segment at every clock        *)
(* boundary and early when the app comes to the foreground (AudioCapture), *)
(* location updates in two gears and the activity classifier that shifts   *)
(* them (LocationCapture, ActivityMonitor).                                *)
(*                                                                         *)
(* Coroutines of the service run on the main thread and give way where     *)
(* they suspend: at the transition mutex and while a segment is finished   *)
(* on disk.  An early roll runs on a thread of its own.                    *)
(*                                                                         *)
(* Abstractions.  Segments are numbered; what becomes of a queued one is   *)
(* AndroidSpool's.  Live transcription, notifications and permissions are  *)
(* left out.                                                               *)
(***************************************************************************)
EXTENDS Integers, Sequences, FiniteSets

CONSTANTS
  ServiceScenes,  \* what a behaviour may start with (see ServiceStart)
  MaxSegments     \* the bound on segments

ASSUME ServiceAssumption == MaxSegments \in Nat

VARIABLES
  segments,   \* segment -> recording | finishing | queued | partial
  current,    \* the recorder in hand: its segment, 0 for none
  seasoned,   \* the segments that are 30 s old
  mutex,      \* who holds the transition mutex
  timers,     \* the rollover jobs: segment -> waiting | due
  rollover,   \* the segment whose job is the one referred to, 0 for none
  task,       \* task -> [step, item]
  alive,      \* whether the service is
  desired,    \* the user's wish
  wants,      \* the policy: [audio, gps]
  location,   \* off | still | moving
  activities, \* the classifier's updates: off | asked | on
  moving,     \* its latest reading
  ration      \* the bounds

serviceVars == <<segments, current, seasoned, mutex, timers, rollover, task,
  alive, desired, wants, location, activities, moving, ration>>

-----------------------------------------------------------------------------
Task == {"roll", "early", "stop", "reload"}
Idle == [step |-> "idle", item |-> 0]

Use(b) == ration[b] > 0 /\ ration' = [ration EXCEPT ![b] = @ - 1]
Off(f, s) == [x \in DOMAIN f \ {s} |-> f[x]]

recorders == <<segments, current, seasoned, mutex, timers, rollover, task>>
senses == <<location, activities, moving>>
wish == <<alive, desired, wants>>

-----------------------------------------------------------------------------
(* AudioCapture.                                                           *)

\* startSegment after these: a new recorder with a rollover job (which a dead
\* scope does not run), or none when the disk is full or the microphone refuses.
NextSegment(was) ==
  \/ LET n == Len(was) + 1 IN
     /\ n <= MaxSegments
     /\ segments' = Append(was, "recording")
     /\ current' = n /\ rollover' = n
     /\ timers' = IF alive' THEN [x \in DOMAIN timers \cup {n} |->
                                   IF x = n THEN "waiting" ELSE timers[x]]
                  ELSE timers
  \/ /\ segments' = was /\ current' = 0
     /\ UNCHANGED <<timers, rollover>>

\* seal under the mutex: the recorder is let go of and its file finished on
\* another thread; with no recorder there is nothing to wait for.
Seal(t, over) ==
  /\ mutex = "free" /\ mutex' = t
  /\ task' = [task EXCEPT ![t] = [step |-> "finish", item |-> current]]
  /\ segments' = IF current = 0 THEN segments ELSE [segments EXCEPT ![current] = "finishing"]
  /\ current' = 0 /\ rollover' = 0
  /\ timers' = over

\* The boundary: the delay of a rollover job is over, and it takes the mutex.
BoundaryComes(n) ==
  /\ alive
  /\ timers[n] = "waiting" /\ n \in seasoned
  /\ timers' = [timers EXCEPT ![n] = "due"]
  /\ UNCHANGED <<segments, current, seasoned, mutex, rollover, task, wish, senses, ration>>

Roll(n) ==
  /\ timers[n] = "due"
  /\ Seal("roll", Off(timers, n))
  /\ UNCHANGED <<seasoned, wish, senses, ration>>

\* rollNow looks at the age before it waits for the mutex, and again with it.
EarlyDue == current # 0 /\ current \in seasoned

RollNow ==
  /\ task["early"].step = "idle" /\ EarlyDue
  /\ Use("kicks")
  /\ task' = [task EXCEPT !["early"].step = "lock"]
  /\ UNCHANGED <<segments, current, seasoned, mutex, timers, rollover, wish, senses>>

\* Without the second look.
RollUnlooked ==
  /\ task["early"].step = "lock"
  /\ Seal("early", Off(timers, rollover))
  /\ UNCHANGED <<seasoned, wish, senses, ration>>

RollLocked ==
  /\ task["early"].step = "lock" /\ mutex = "free"
  /\ IF EarlyDue THEN Seal("early", Off(timers, rollover))
     ELSE /\ task' = [task EXCEPT !["early"] = Idle]
          /\ UNCHANGED <<segments, current, mutex, timers, rollover>>
  /\ UNCHANGED <<seasoned, wish, senses, ration>>

\* AudioCapture.stop takes the mutex at once when it can, and else waits; its
\* rollover is cancelled.
StopRecorder(t) == Seal(t, Off(timers, rollover))

StopOrWait(t) ==
  \/ StopRecorder(t)
  \/ /\ mutex # "free"
     /\ task' = [task EXCEPT ![t].step = "lock"]
     /\ UNCHANGED <<segments, current, mutex, timers, rollover>>

StopAfterWait(t) ==
  /\ t \in {"stop", "reload"} /\ task[t].step = "lock"
  /\ StopRecorder(t)
  /\ UNCHANGED <<seasoned, wish, senses, ration>>

Season(n) ==
  /\ segments[n] = "recording" /\ n \notin seasoned
  /\ seasoned' = seasoned \cup {n}
  /\ UNCHANGED <<segments, current, mutex, timers, rollover, task, wish, senses, ration>>

-----------------------------------------------------------------------------
(* LocationCapture and ActivityMonitor.                                    *)

\* The gear follows the latest reading from the moment updates are asked for.
Gear(reading) == IF reading THEN "moving" ELSE "still"

\* An asked-for classifier answers later, and stop forgets it only once it has.
ActivitiesOn == IF activities = "off" THEN "asked" ELSE activities
ActivitiesOff == IF activities = "on" THEN "off" ELSE activities

Classified ==
  /\ activities = "asked" /\ activities' = "on"
  /\ UNCHANGED <<recorders, wish, location, moving, ration>>

Reading ==
  /\ activities = "on" /\ Use("readings")
  /\ moving' = ~moving
  /\ location' = IF location = "off" THEN "off" ELSE Gear(moving')
  /\ UNCHANGED <<recorders, wish, activities>>

-----------------------------------------------------------------------------
(* CaptureService: its intents, and the end of what they launch.           *)

\* A recorder in hand goes on; the mutex is not asked for.
StartCommand ==
  /\ ~desired /\ Use("starts")
  /\ alive' = TRUE /\ desired' = TRUE
  /\ IF wants.audio /\ current = 0 THEN NextSegment(segments)
     ELSE UNCHANGED <<segments, current, timers, rollover>>
  /\ location' = IF wants.gps /\ location = "off" THEN Gear(moving) ELSE location
  /\ activities' = IF wants.gps THEN ActivitiesOn ELSE activities
  /\ UNCHANGED <<seasoned, mutex, task, wants, moving>>

StopCommand ==
  /\ desired /\ task["stop"].step = "idle" /\ Use("stops")
  /\ desired' = FALSE
  /\ StopOrWait("stop")
  /\ location' = "off" /\ activities' = ActivitiesOff
  /\ UNCHANGED <<seasoned, alive, wants, moving>>

\* onDestroy: the scope is cancelled, and with it what waits.  seal catches the
\* cancellation of a file under way, so its task goes on; the recorder in hand
\* is left to itself.
Destroyed ==
  /\ alive' = FALSE /\ current' = 0 /\ rollover' = 0
  /\ timers' = [n \in {} |-> "due"]
  /\ task' = [t \in Task |-> IF t = "early" \/ task[t].step = "finish" THEN task[t] ELSE Idle]
  /\ location' = "off" /\ activities' = ActivitiesOff
  /\ UNCHANGED <<segments, mutex, seasoned, desired, wants, moving>>

\* The policy worker or the screen sends a reload while capture is desired.
PolicyChanges ==
  /\ desired /\ task["reload"].step = "idle" /\ Use("reloads")
  /\ wants' \in [audio : BOOLEAN, gps : BOOLEAN] \ {wants}
  /\ task' = [task EXCEPT !["reload"].step = "sent"]
  /\ UNCHANGED <<segments, current, seasoned, mutex, timers, rollover, alive, desired, senses>>

ReloadCommand ==
  /\ task["reload"].step = "sent"
  /\ IF desired
     THEN StopOrWait("reload") /\ UNCHANGED <<seasoned, wish, senses>>
     ELSE Destroyed
  /\ UNCHANGED ration

\* The file is synced, renamed and queued, or the partial is left.  A roll
\* goes on to the next segment before it lets go of the mutex, a reload
\* restarts what the policy wants, a stop goes on to end the service.
FinishSegment(t) ==
  /\ task[t].step = "finish"
  /\ UNCHANGED wish
  /\ \E how \in (IF alive THEN {"queued"} ELSE {}) \cup {"partial"} :
       LET n == task[t].item
           done == IF n = 0 THEN segments ELSE [segments EXCEPT ![n] = how]
       IN IF t \in {"roll", "early"} \/ (t = "reload" /\ wants.audio /\ current = 0)
          THEN NextSegment(done)
          ELSE segments' = done /\ UNCHANGED <<current, timers, rollover>>
  /\ task' = [task EXCEPT ![t] = IF t = "stop" /\ alive THEN [step |-> "end", item |-> 0]
                                 ELSE Idle]
  /\ mutex' = "free"
  /\ IF t = "reload"
     THEN /\ location' = IF wants.gps THEN Gear(moving) ELSE "off"
          /\ activities' = IF wants.gps THEN ActivitiesOn ELSE ActivitiesOff
     ELSE UNCHANGED <<location, activities>>
  /\ UNCHANGED <<seasoned, moving, ration>>

\* stopSelf, whatever has been started since.
EndService ==
  /\ task["stop"].step = "end"
  /\ Destroyed
  /\ UNCHANGED ration

-----------------------------------------------------------------------------
(* The behaviours. *)

ServiceStart(s) ==
  /\ segments = << >> /\ current = 0 /\ seasoned = {}
  /\ mutex = "free" /\ timers = [n \in {} |-> "due"] /\ rollover = 0
  /\ task = [t \in Task |-> Idle]
  /\ alive = FALSE /\ desired = FALSE
  /\ wants = [audio |-> TRUE, gps |-> TRUE]
  /\ location = "off" /\ activities = "off" /\ moving = FALSE
  /\ ration = s

ServiceInit == \E s \in ServiceScenes : ServiceStart(s)

ServiceNext ==
  \/ StartCommand \/ StopCommand \/ PolicyChanges \/ ReloadCommand \/ EndService
  \/ \E n \in DOMAIN segments : Season(n)
  \/ \E n \in DOMAIN timers : BoundaryComes(n) \/ Roll(n)
  \/ RollNow \/ RollLocked
  \/ \E t \in Task : StopAfterWait(t) \/ FinishSegment(t)
  \/ Classified \/ Reading

ServiceSpec == ServiceInit /\ [][ServiceNext]_serviceVars

-----------------------------------------------------------------------------
(* Properties. *)

ServiceTypeOK ==
  /\ segments \in Seq({"recording", "finishing", "queued", "partial"})
  /\ current \in 0..Len(segments) /\ rollover \in 0..Len(segments)
  /\ seasoned \subseteq DOMAIN segments /\ DOMAIN timers \subseteq DOMAIN segments
  /\ mutex \in Task \cup {"free"}
  /\ task \in [Task -> [step : {"idle", "sent", "lock", "finish", "end"}, item : 0..Len(segments)]]
  /\ alive \in BOOLEAN /\ desired \in BOOLEAN /\ moving \in BOOLEAN
  /\ wants \in [audio : BOOLEAN, gps : BOOLEAN]
  /\ location \in {"off", "still", "moving"} /\ activities \in {"off", "asked", "on"}

RecorderRuns == {n \in DOMAIN segments : segments[n] = "recording"}

\* Whatever boundary, early roll, reload and stop come together, a running
\* recorder is the one in hand, its rollover is the only one to come and the
\* service is there to roll it; once a stop is through nothing records and no
\* location is asked for (AudioCapture.kt: the transition mutex, the
\* cancelled rollover).
RecordersAreHeld ==
  /\ \A n \in RecorderRuns : n = current /\ alive /\ DOMAIN timers \subseteq {n}
  /\ ~desired /\ task["stop"].step \in {"idle", "end"} =>
       RecorderRuns = {} /\ location = "off"

\* A segment younger than 30 s is not sealed by an early roll, though the one
\* that was looked at may have rolled while the mutex was waited for
\* (AudioCapture.kt rollNow).
EarlyRollIsDue ==
  \A n \in DOMAIN segments :
    /\ task["early"].step = "lock" /\ task'["early"].step = "finish"
    /\ segments[n] = "recording" /\ segments'[n] = "finishing"
    => n \in seasoned

\* The recorder and its rollovers: every step keeps the one and is the other.
RecordingIsHeld ==
  [][RecordersAreHeld /\ RecordersAreHeld' /\ EarlyRollIsDue]_serviceVars
=============================================================================
