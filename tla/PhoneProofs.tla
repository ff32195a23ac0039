----------------------------- MODULE PhoneProofs -----------------------------
(***************************************************************************)
(* What the phone guarantees: its spool, for every number of segments,     *)
(* every set of location fixes and every budget of faults, deaths and      *)
(* replacements; its recorder, whatever boundaries, early rolls, reloads   *)
(* and stops come together; and its capture policy's tokens, however the   *)
(* server's requests, upkeep and crashes fall.                             *)
(***************************************************************************)
EXTENDS AndroidSpool, CaptureService, CapturePolicy, FiniteSetTheorems,
        SequenceTheorems, TLAPS

-----------------------------------------------------------------------------
(* The invariant.  Its parts are operators of the values they relate, so   *)
(* that one can be asked of the state before a step and of the one after.  *)

IsSeq(s) == s \in Seq({s[i] : i \in DOMAIN s})

RowField      == {"key", "file", "md5", "state", "error"}
PassField     == {"at", "todo", "body", "again"}
RecoveryField == {"at", "todo", "suspect"}

Taken == {"recording", "quarantine"}

\* Only a live transcript has contents that change.
FilesFit(fs) == \A f \in DOMAIN fs : Immutable(f) => fs[f] = 1

\* A row keeps the key it was inserted with, and is UPLOADED on the bucket's
\* word.
RowFit(id, row, bkt) ==
  /\ DOMAIN row = RowField
  /\ row.key \in {SealedKey(id), RecoveredKey(id)}
  /\ Kind(id) \notin Taken
  /\ Kind(id) # "audio" => row.key = SealedKey(id)
  /\ row.state \in {"PENDING", "UPLOADED"}
  /\ row.file \in {id, NoFile}
  /\ row.state = "PENDING" => row.file = id
  /\ Immutable(id) => row.md5 = 1
  /\ row.state = "UPLOADED" => row.key \in DOMAIN bkt /\ row.error = FALSE

RowsFit(rws, bkt) ==
  /\ IsFiniteSet(DOMAIN rws)
  /\ \A id \in DOMAIN rws : RowFit(id, rws[id], bkt)

\* An object is stored under the key of a row, with the bytes of its payload.
BucketFit(bkt, rws) ==
  \A k \in DOMAIN bkt : \E id \in DOMAIN rws :
    k = rws[id].key /\ (Immutable(id) => bkt[k] = 1)

RequestFit(r, rws) ==
  \E id \in DOMAIN rws : r.key = rws[id].key /\ (Immutable(id) => r.md5 = 1)

\* A snapshot of a row, which the row may have left behind.
ItemFit(i, rws) ==
  /\ i.id \in DOMAIN rws /\ i.key = rws[i.id].key /\ i.file = i.id
  /\ Immutable(i.id) => i.md5 = 1

PassFit(c, rws, bkt) ==
  /\ DOMAIN c = PassField
  /\ IsSeq(c.todo)
  /\ \A j \in DOMAIN c.todo : ItemFit(c.todo[j], rws)
  /\ c.at \in Point => c.todo # << >>
  /\ c.at \in {"stored", "unlink"} => Head(c.todo).key \in DOMAIN bkt

\* What recover is about to delete is no partial, and a recording only when
\* the bucket has it.
RecoveryFit(c, rws, bkt) ==
  /\ DOMAIN c = RecoveryField
  /\ Kind(c.suspect) \notin Taken
  /\ c.at = "walk" => \A f \in c.todo : Kind(f) \notin Taken
  /\ c.at = "clean" =>
       \A id \in c.todo : id \in DOMAIN rws /\ rws[id].key \in DOMAIN bkt

InBucket(id, bkt) ==
  SealedKey(id) \in DOMAIN bkt \/ RecoveredKey(id) \in DOMAIN bkt

Kept(last, fs, bkt) ==
  \A n \in 1..last :
    \/ Recording(n) \in DOMAIN fs \/ AudioId(n) \in DOMAIN fs
    \/ Quarantine(n) \in DOMAIN fs \/ InBucket(AudioId(n), bkt)

SpoolInv ==
  /\ recorder.segment \in Nat /\ DOMAIN recorder = {"segment", "at"}
  /\ FilesFit(files)
  /\ RowsFit(rows, bucket)
  /\ BucketFit(bucket, rows)
  /\ DOMAIN pass = Work
  /\ \A w \in Work : PassFit(pass[w], rows, bucket)
  /\ \A r \in late : RequestFit(r, rows)
  /\ RecoveryFit(recovery, rows, bucket)
  /\ Kept(recorder.segment, files, bucket)

\* Rows and objects stay, and rows keep their keys.
Grows(rws, rws2) ==
  /\ DOMAIN rws \subseteq DOMAIN rws2
  /\ \A id \in DOMAIN rws : rws2[id].key = rws[id].key

-----------------------------------------------------------------------------
(* Functions and sequences. *)

\* With adds or replaces one entry.
LEMMA WithFact ==
  ASSUME NEW f, NEW k, NEW v
  PROVE  /\ DOMAIN With(f, k, v) = DOMAIN f \cup {k}
         /\ With(f, k, v)[k] = v
         /\ \A x \in DOMAIN f \ {k} : With(f, k, v)[x] = f[x]
  BY DEF With

\* Without drops entries and changes none.
LEMMA WithoutFact ==
  ASSUME NEW f, NEW ks
  PROVE  /\ DOMAIN Without(f, ks) = DOMAIN f \ ks
         /\ \A x \in DOMAIN f \ ks : Without(f, ks)[x] = f[x]
  BY DEF Without

\* A sequence over a set is one over its own elements.
LEMMA SeqIs ==
  ASSUME NEW S, NEW s \in Seq(S)
  PROVE  IsSeq(s)
  <1>1. PICK n \in Nat : s \in [1..n -> S]
    OBVIOUS
  <1>2. s \in [1..n -> {s[i] : i \in DOMAIN s}]
    BY <1>1
  <1> QED
    BY <1>2 DEF IsSeq

\* The items after the first are items.
LEMMA TailIs ==
  ASSUME NEW s, IsSeq(s), s # << >>
  PROVE  /\ IsSeq(Tail(s))
         /\ Len(s) = 1 <=> Tail(s) = << >>
         /\ \A j \in DOMAIN Tail(s) : j + 1 \in DOMAIN s /\ Tail(s)[j] = s[j + 1]
         /\ 1 \in DOMAIN s /\ Head(s) = s[1]
  <1> DEFINE R == {s[i] : i \in DOMAIN s}
  <1>1. s \in Seq(R)
    BY DEF IsSeq
  <1> HIDE DEF R
  <1>2. /\ Tail(s) \in Seq(R) /\ Len(Tail(s)) = Len(s) - 1
        /\ \A j \in 1..Len(Tail(s)) : Tail(s)[j] = s[j + 1]
    BY <1>1, HeadTailProperties
  <1>3. Len(s) \in Nat /\ DOMAIN s = 1..Len(s) /\ Len(s) # 0
    BY <1>1, EmptySeq, LenProperties
  <1>4. DOMAIN Tail(s) = 1..Len(Tail(s)) /\ Head(s) = s[1]
    BY <1>1, <1>2, LenProperties, HeadTailProperties
  <1>5. IsSeq(Tail(s))
    BY <1>2, SeqIs
  <1>6. Len(s) = 1 <=> Tail(s) = << >>
    BY <1>2, <1>3, EmptySeq
  <1>7. \A j \in DOMAIN Tail(s) : j + 1 \in DOMAIN s /\ Tail(s)[j] = s[j + 1]
    BY <1>2, <1>3, <1>4
  <1> QED
    BY <1>3, <1>4, <1>5, <1>6, <1>7

-----------------------------------------------------------------------------
(* Each part of the invariant from one state to the next. *)

\* A file that goes is no partial, and if it is a recording the bucket has it.
LEMMA KeptStays ==
  ASSUME NEW last, NEW fs, NEW fs2, NEW bkt, NEW bkt2,
         Kept(last, fs, bkt), DOMAIN bkt \subseteq DOMAIN bkt2,
         \A f \in DOMAIN fs \ DOMAIN fs2 :
           /\ Kind(f) \notin Taken
           /\ Kind(f) = "audio" => InBucket(f, bkt2)
  PROVE  Kept(last, fs2, bkt2)
  <1> SUFFICES ASSUME NEW n \in 1..last
               PROVE  \/ Recording(n) \in DOMAIN fs2 \/ AudioId(n) \in DOMAIN fs2
                      \/ Quarantine(n) \in DOMAIN fs2 \/ InBucket(AudioId(n), bkt2)
    BY DEF Kept
  <1>1. /\ Kind(Recording(n)) \in Taken /\ Kind(Quarantine(n)) \in Taken
        /\ Kind(AudioId(n)) = "audio"
    BY DEF Kind, Recording, Quarantine, AudioId, Taken
  <1>2. \/ Recording(n) \in DOMAIN fs \/ AudioId(n) \in DOMAIN fs
        \/ Quarantine(n) \in DOMAIN fs \/ InBucket(AudioId(n), bkt)
    BY DEF Kept
  <1> QED
    BY <1>1, <1>2 DEF InBucket

\* A request stays good as the manifest grows.
LEMMA RequestStays ==
  ASSUME NEW r, NEW rws, NEW rws2, RequestFit(r, rws), Grows(rws, rws2)
  PROVE  RequestFit(r, rws2)
  BY DEF RequestFit, Grows

\* So do a pass and a recovery.
LEMMA PassStays ==
  ASSUME NEW c, NEW rws, NEW rws2, NEW bkt, NEW bkt2,
         PassFit(c, rws, bkt), Grows(rws, rws2), DOMAIN bkt \subseteq DOMAIN bkt2
  PROVE  PassFit(c, rws2, bkt2)
  BY DEF PassFit, ItemFit, Grows

LEMMA RecoveryStays ==
  ASSUME NEW c, NEW rws, NEW rws2, NEW bkt, NEW bkt2,
         RecoveryFit(c, rws, bkt), Grows(rws, rws2), DOMAIN bkt \subseteq DOMAIN bkt2
  PROVE  RecoveryFit(c, rws2, bkt2)
  BY DEF RecoveryFit, Grows

\* One row changed: its id is new, or it keeps its key.
LEMMA RowChanged ==
  ASSUME NEW rws, NEW rws2, NEW bkt, NEW id,
         RowsFit(rws, bkt), BucketFit(bkt, rws),
         DOMAIN rws2 = DOMAIN rws \cup {id},
         \A x \in DOMAIN rws \ {id} : rws2[x] = rws[x],
         RowFit(id, rws2[id], bkt),
         id \in DOMAIN rws => rws[id].key = rws2[id].key
  PROVE  Grows(rws, rws2) /\ RowsFit(rws2, bkt) /\ BucketFit(bkt, rws2)
  <1>1. Grows(rws, rws2)
    BY DEF Grows
  <1>2. IsFiniteSet(DOMAIN rws2)
    BY FS_AddElement DEF RowsFit
  <1>3. RowsFit(rws2, bkt)
    BY <1>2 DEF RowsFit
  <1>4. BucketFit(bkt, rws2)
    BY <1>1 DEF BucketFit, Grows
  <1> QED
    BY <1>1, <1>3, <1>4

\* The bucket takes a request whose digest is its body's.
LEMMA ObjectStored ==
  ASSUME NEW rws, NEW bkt, NEW r,
         RowsFit(rws, bkt), BucketFit(bkt, rws), RequestFit(r, rws), r.md5 = r.body
  PROVE  /\ DOMAIN bkt \subseteq DOMAIN With(bkt, r.key, r.body)
         /\ r.key \in DOMAIN With(bkt, r.key, r.body)
         /\ RowsFit(rws, With(bkt, r.key, r.body))
         /\ BucketFit(With(bkt, r.key, r.body), rws)
  <1> DEFINE bkt2 == With(bkt, r.key, r.body)
  <1>1. /\ DOMAIN bkt2 = DOMAIN bkt \cup {r.key} /\ bkt2[r.key] = r.body
        /\ \A x \in DOMAIN bkt \ {r.key} : bkt2[x] = bkt[x]
    BY DEF With
  <1> HIDE DEF bkt2
  <1>2. RowsFit(rws, bkt2)
    BY <1>1 DEF RowsFit, RowFit
  <1>3. BucketFit(bkt2, rws)
    <2> SUFFICES ASSUME NEW k \in DOMAIN bkt2
                 PROVE  \E id \in DOMAIN rws :
                          k = rws[id].key /\ (Immutable(id) => bkt2[k] = 1)
      BY DEF BucketFit
    <2>1. CASE k = r.key
      BY <1>1, <2>1 DEF RequestFit
    <2>2. CASE k # r.key
      BY <1>1, <2>2 DEF BucketFit
    <2> QED
      BY <2>1, <2>2
  <1>4. DOMAIN bkt \subseteq DOMAIN bkt2 /\ r.key \in DOMAIN bkt2
    BY <1>1
  <1> QED
    BY <1>2, <1>3, <1>4 DEF bkt2

-----------------------------------------------------------------------------
(* What a step has to show. *)

\* The whole invariant, from what the step did.
LEMMA Closing ==
  ASSUME SpoolInv,
         recorder'.segment \in Nat, DOMAIN recorder' = {"segment", "at"},
         FilesFit(files'), Kept(recorder'.segment, files', bucket'),
         Grows(rows, rows'), DOMAIN bucket \subseteq DOMAIN bucket',
         RowsFit(rows', bucket'), BucketFit(bucket', rows'),
         DOMAIN pass' = Work,
         \A w \in Work : \/ PassFit(pass[w], rows, bucket) /\ pass'[w] = pass[w]
                        \/ PassFit(pass'[w], rows', bucket'),
         \A r \in late' : r \in late \/ RequestFit(r, rows),
         recovery' = recovery \/ RecoveryFit(recovery', rows', bucket')
  PROVE  SpoolInv'
  <1>1. \A w \in Work : PassFit(pass'[w], rows', bucket')
    BY PassStays
  <1>2. \A r \in late' : RequestFit(r, rows')
    BY RequestStays DEF SpoolInv
  <1>3. RecoveryFit(recovery', rows', bucket')
    BY RecoveryStays DEF SpoolInv
  <1> QED
    BY <1>1, <1>2, <1>3 DEF SpoolInv

\* Files, the recorder or recover move; manifest, bucket and passes do not.
LEMMA FilesMove ==
  ASSUME SpoolInv, UNCHANGED <<rows, pass, late, bucket>>,
         recorder'.segment \in Nat, DOMAIN recorder' = {"segment", "at"},
         FilesFit(files'), Kept(recorder'.segment, files', bucket),
         recovery' = recovery \/ RecoveryFit(recovery', rows, bucket)
  PROVE  SpoolInv'
  <1>1. Grows(rows, rows)
    BY DEF Grows
  <1>2. \A r \in late' : r \in late
    OBVIOUS
  <1> QED
    BY <1>1, <1>2, Closing DEF SpoolInv

\* An idle pass, and one that is queued.
LEMMA IdleFit ==
  ASSUME NEW rws, NEW bkt
  PROVE  /\ PassFit(IdlePass, rws, bkt)
         /\ PassFit([IdlePass EXCEPT !.at = "queued"], rws, bkt)
  <1>1. IsSeq(<< >>) /\ DOMAIN << >> = {}
    BY EmptySeq DEF IsSeq
  <1> QED
    BY <1>1 DEF PassFit, IdlePass, PassField, Point

\* A pass of many items goes to another point of its loop.
LEMMA GotoFit ==
  ASSUME NEW c, NEW rws, NEW bkt, NEW l \in Point, PassFit(c, rws, bkt),
         c.at \in Point,
         l \in {"stored", "unlink"} => Head(c.todo).key \in DOMAIN bkt
  PROVE  PassFit([c EXCEPT !.at = l], rws, bkt)
  BY DEF PassFit, PassField

\* The next item, or the end.
LEMMA NextFit ==
  ASSUME NEW c, NEW rws, NEW bkt, PassFit(c, rws, bkt), c.at \in Point
  PROVE  PassFit(IF Len(c.todo) = 1 THEN IdlePass
                 ELSE [IdlePass EXCEPT !.at = "check", !.todo = Tail(c.todo)],
                 rws, bkt)
  <1>1. IsSeq(c.todo) /\ c.todo # << >>
    BY DEF PassFit
  <1>2. CASE Len(c.todo) = 1
    BY <1>2, IdleFit
  <1>3. CASE Len(c.todo) # 1
    <2>1. /\ IsSeq(Tail(c.todo)) /\ Tail(c.todo) # << >>
          /\ \A j \in DOMAIN Tail(c.todo) : ItemFit(Tail(c.todo)[j], rws)
      BY <1>1, <1>3, TailIs DEF PassFit
    <2>2. PassFit([IdlePass EXCEPT !.at = "check", !.todo = Tail(c.todo)], rws, bkt)
      BY <2>1 DEF PassFit, IdlePass, PassField
    <2> QED
      BY <1>3, <2>2
  <1> QED
    BY <1>2, <1>3

\* The item a pass has in hand.
LEMMA CurrentFit ==
  ASSUME SpoolInv, NEW w \in Work, pass[w].at \in Point
  PROVE  ItemFit(Current(w), rows)
  <1>1. /\ IsSeq(pass[w].todo) /\ pass[w].todo # << >>
        /\ \A j \in DOMAIN pass[w].todo : ItemFit(pass[w].todo[j], rows)
    BY DEF SpoolInv, PassFit
  <1> QED
    BY <1>1, TailIs DEF Current

\* Its request.
LEMMA OnWire ==
  ASSUME SpoolInv, NEW w \in Work, pass[w].at \in Point
  PROVE  RequestFit(Request(w), rows)
  <1>1. ItemFit(Current(w), rows)
    BY CurrentFit
  <1> QED
    BY <1>1 DEF RequestFit, ItemFit, Request

\* What cancelled passes leave on the wire.
LEMMA OrphanFit ==
  ASSUME SpoolInv, NEW ws \in SUBSET Work
  PROVE  \A r \in Orphaned(ws) : RequestFit(r, rows)
  BY OnWire DEF Orphaned, Point

\* A work queued again.
LEMMA Queued ==
  ASSUME SpoolInv, NEW w \in Work, Queue(w)
  PROVE  /\ DOMAIN pass' = Work
         /\ \A v \in Work : \/ PassFit(pass[v], rows, bucket) /\ pass'[v] = pass[v]
                          \/ \A rws, bkt : PassFit(pass'[v], rws, bkt)
         /\ \A r \in late' : r \in late \/ RequestFit(r, rows)
  <1>1. DOMAIN pass' = Work /\ pass'[w] = [IdlePass EXCEPT !.at = "queued"]
        /\ \A v \in Work \ {w} : pass'[v] = pass[v]
    BY DEF Queue, SpoolInv
  <1>2. \A rws, bkt : PassFit(pass'[w], rws, bkt)
    BY <1>1, IdleFit
  <1>3. \A r \in late' : r \in late \/ RequestFit(r, rows)
    BY OrphanFit DEF Queue
  <1> QED
    BY <1>1, <1>2, <1>3 DEF SpoolInv

-----------------------------------------------------------------------------
(* The manifest's writes. *)

\* A row of the manifest, and what it says of the files.
LEMMA RowIn ==
  ASSUME SpoolInv, NEW id \in DOMAIN rows
  PROVE  RowFit(id, rows[id], bucket)
  BY DEF SpoolInv, RowsFit

\* A pending row for a payload that is there.
LEMMA NewRowFit ==
  ASSUME SpoolInv, NEW id \in DOMAIN files,
         NEW key \in {SealedKey(id), RecoveredKey(id)},
         Kind(id) \notin Taken, Kind(id) # "audio" => key = SealedKey(id)
  PROVE  RowFit(id, NewRow(key, id), bucket) /\ NewRow(key, id).key = key
  BY DEF SpoolInv, FilesFit, RowFit, NewRow, RowField

\* Insert: the row of a recording is new; any other kind has one key.
LEMMA InsertFit ==
  ASSUME SpoolInv, NEW id \in DOMAIN files,
         NEW key \in {SealedKey(id), RecoveredKey(id)},
         Kind(id) \notin Taken,
         IF Kind(id) = "audio" THEN ~Row(id) ELSE key = SealedKey(id),
         Insert(id, key)
  PROVE  /\ Grows(rows, rows') /\ RowsFit(rows', bucket) /\ BucketFit(bucket, rows')
         /\ Schedule
  <1>1. RowFit(id, NewRow(key, id), bucket) /\ NewRow(key, id).key = key
    BY NewRowFit
  <1>2. /\ DOMAIN rows' = DOMAIN rows \cup {id}
        /\ rows'[id] = NewRow(key, id)
        /\ \A x \in DOMAIN rows \ {id} : rows'[x] = rows[x]
    BY DEF Insert, With
  <1>3. id \in DOMAIN rows => rows[id].key = key
    BY RowIn DEF RowFit, Row
  <1>4. RowFit(id, rows'[id], bucket) /\ (id \in DOMAIN rows => rows[id].key = rows'[id].key)
    BY <1>1, <1>2, <1>3
  <1> QED
    BY <1>2, <1>4, RowChanged DEF SpoolInv, Insert

\* A live transcript written again keeps its row's key.
LEMMA UpsertFit ==
  ASSUME SpoolInv, NEW n, LiveId(n) \in DOMAIN files, Upsert(LiveId(n))
  PROVE  /\ Grows(rows, rows') /\ RowsFit(rows', bucket) /\ BucketFit(bucket, rows')
         /\ Schedule
  <1>0. Kind(LiveId(n)) = "live" /\ Kind(LiveId(n)) \notin Taken
    BY DEF Kind, LiveId, Taken
  <1> DEFINE id == LiveId(n)
  <1>1. CASE ~Row(id)
    BY <1>0, <1>1, InsertFit DEF Upsert
  <1>2. CASE Row(id)
    <2>1. id \in DOMAIN rows /\ rows[id].key = SealedKey(id)
      BY <1>0, <1>2, RowIn DEF Row, RowFit
    <2>2. RowFit(id, NewRow(rows[id].key, id), bucket)
          /\ NewRow(rows[id].key, id).key = rows[id].key
      BY <1>0, <2>1, NewRowFit
    <2>3. /\ DOMAIN rows' = DOMAIN rows \cup {id}
          /\ rows'[id] = NewRow(rows[id].key, id)
          /\ \A x \in DOMAIN rows \ {id} : rows'[x] = rows[x]
          /\ Schedule
      BY <1>2, <2>1 DEF Upsert
    <2>4. RowFit(id, rows'[id], bucket) /\ rows[id].key = rows'[id].key
      BY <2>2, <2>3
    <2> QED
      BY <2>3, <2>4, RowChanged DEF SpoolInv
  <1> QED
    BY <1>1, <1>2

\* A step that writes rows, and at most queues the upload.
LEMMA Spooled ==
  ASSUME SpoolInv, UNCHANGED <<files, bucket>>,
         recorder'.segment = recorder.segment, DOMAIN recorder' = {"segment", "at"},
         Grows(rows, rows'), RowsFit(rows', bucket), BucketFit(bucket, rows'),
         recovery' = recovery \/ RecoveryFit(recovery', rows', bucket),
         Schedule \/ UNCHANGED <<pass, late>>
  PROVE  SpoolInv'
  <1>1. /\ DOMAIN pass' = Work
        /\ \A w \in Work : \/ PassFit(pass[w], rows, bucket) /\ pass'[w] = pass[w]
                         \/ PassFit(pass'[w], rows', bucket)
        /\ \A r \in late' : r \in late \/ RequestFit(r, rows)
    <2>1. CASE Schedule
      <3>1. "background" \in Work /\ Queue("background")
        BY <2>1 DEF Schedule, Work
      <3> QED
        BY <3>1, Queued
    <2>2. CASE UNCHANGED <<pass, late>>
      BY <2>2 DEF SpoolInv
    <2> QED
      BY <2>1, <2>2
  <1>2. recorder'.segment \in Nat /\ FilesFit(files') /\ bucket' = bucket
        /\ Kept(recorder'.segment, files', bucket')
    BY DEF SpoolInv
  <1> QED
    BY <1>1, <1>2, Closing

\* No row is written.
LEMMA NoRow ==
  ASSUME SpoolInv
  PROVE  Grows(rows, rows) /\ RowsFit(rows, bucket) /\ BucketFit(bucket, rows)
  BY DEF SpoolInv, Grows

-----------------------------------------------------------------------------
(* Each family of steps. *)

LEMMA CapturingKeeps == SpoolInv /\ Capturing => SpoolInv'
  <1> SUFFICES ASSUME SpoolInv, Capturing PROVE SpoolInv'
    OBVIOUS
  <1>1. CASE StartSegment
    <2> DEFINE n == recorder.segment + 1
    <2>1. /\ recorder' = [segment |-> n, at |-> "recording"]
          /\ DOMAIN files' = DOMAIN files \cup {Recording(n)}
          /\ files'[Recording(n)] = 1
          /\ \A f \in DOMAIN files \ {Recording(n)} : files'[f] = files[f]
          /\ UNCHANGED <<rows, pass, late, bucket, recovery>>
      BY <1>1 DEF StartSegment, With
    <2>2. FilesFit(files')
      BY <2>1 DEF SpoolInv, FilesFit
    <2>3. n \in Nat /\ \A m \in 1..n : m = n \/ m \in 1..recorder.segment
      BY DEF SpoolInv
    <2>4. Kept(n, files', bucket)
      BY <2>1, <2>3 DEF SpoolInv, Kept
    <2> QED
      BY <2>1, <2>2, <2>3, <2>4, FilesMove
  <1>2. CASE SealRename
    <2> DEFINE n == recorder.segment
    <2>1. /\ recorder'.segment = n /\ DOMAIN recorder' = {"segment", "at"}
          /\ UNCHANGED <<rows, pass, late, bucket, recovery>>
      BY <1>2 DEF SealRename, SpoolInv
    <2>2. CASE Exists(Recording(n))
      <3>1. files' = With(Without(files, {Recording(n)}), AudioId(n), 1)
        BY <1>2, <2>2 DEF SealRename
      <3>2. /\ DOMAIN files' = (DOMAIN files \ {Recording(n)}) \cup {AudioId(n)}
            /\ files'[AudioId(n)] = 1
            /\ \A f \in DOMAIN files' \ {AudioId(n)} : f \in DOMAIN files /\ files'[f] = files[f]
        BY <3>1 DEF With, Without
      <3>3. FilesFit(files')
        BY <3>2 DEF SpoolInv, FilesFit
      <3>4. \A m : /\ m # n => Recording(m) # Recording(n)
                   /\ AudioId(m) # Recording(n) /\ Quarantine(m) # Recording(n)
        BY DEF Recording, AudioId, Quarantine
      <3>5. Kept(n, files', bucket)
        BY <3>2, <3>4 DEF SpoolInv, Kept
      <3> QED
        BY <2>1, <3>3, <3>5, FilesMove DEF SpoolInv
    <2>3. CASE ~Exists(Recording(n))
      <3>1. files' = files
        BY <1>2, <2>3 DEF SealRename
      <3> QED
        BY <2>1, <3>1, FilesMove DEF SpoolInv
    <2> QED
      BY <2>2, <2>3
  <1>3. CASE SealEnqueue
    <2> DEFINE id == AudioId(recorder.segment)
    <2>1. /\ recorder'.segment = recorder.segment /\ DOMAIN recorder' = {"segment", "at"}
          /\ UNCHANGED <<files, bucket, recovery>>
      BY <1>3 DEF SealEnqueue, SpoolInv
    <2>2. CASE Exists(id) /\ ~Row(id)
      <3>1. id \in DOMAIN files /\ Kind(id) = "audio" /\ Insert(id, SealedKey(id))
        BY <1>3, <2>2 DEF SealEnqueue, Exists, AudioId, Kind
      <3>2. /\ Grows(rows, rows') /\ RowsFit(rows', bucket)
            /\ BucketFit(bucket, rows') /\ Schedule
        BY <2>2, <3>1, InsertFit DEF Taken
      <3> QED
        BY <2>1, <3>2, Spooled
    <2>3. CASE ~(Exists(id) /\ ~Row(id))
      <3>1. UNCHANGED <<rows, pass, late>>
        BY <1>3, <2>3 DEF SealEnqueue
      <3> QED
        BY <2>1, <3>1, NoRow, Spooled
    <2> QED
      BY <2>2, <2>3
  <1> QED
    BY <1>1, <1>2, <1>3 DEF Capturing

\* Steps that touch neither files nor manifest nor passes.
LEMMA Aside ==
  ASSUME SpoolInv, UNCHANGED <<files, rows, recorder, pass, late, recovery, bucket>>
  PROVE  SpoolInv'
  BY FilesMove DEF SpoolInv

\* A payload written, of another kind than a recording's.
LEMMA PayloadWritten ==
  ASSUME SpoolInv, UNCHANGED <<rows, recorder, pass, late, recovery, bucket>>,
         NEW id, NEW text, Immutable(id) => text = 1,
         files' = With(files, id, text)
  PROVE  SpoolInv'
  <1>1. /\ DOMAIN files' = DOMAIN files \cup {id} /\ files'[id] = text
        /\ \A f \in DOMAIN files \ {id} : files'[f] = files[f]
    BY DEF With
  <1>2. FilesFit(files')
    BY <1>1 DEF SpoolInv, FilesFit
  <1>3. Kept(recorder.segment, files', bucket)
    BY <1>1 DEF SpoolInv, Kept
  <1> QED
    BY <1>2, <1>3, FilesMove DEF SpoolInv

LEMMA TickingKeeps == SpoolInv /\ Ticking => SpoolInv'
  <1> SUFFICES ASSUME SpoolInv, Ticking PROVE SpoolInv'
    OBVIOUS
  <1>1. CASE LiveMerge
    BY <1>1, Aside DEF LiveMerge
  <1>2. CASE LiveRename
    <2>1. ~Immutable(LiveId(live.of))
      BY DEF Immutable, Kind, LiveId
    <2> QED
      BY <1>2, <2>1, PayloadWritten DEF LiveRename
  <1>3. CASE LiveUpsert
    <2> DEFINE id == LiveId(live.of)
    <2>1. /\ UNCHANGED <<files, recorder, recovery, bucket>>
          /\ DOMAIN recorder' = {"segment", "at"}
      BY <1>3 DEF LiveUpsert, SpoolInv
    <2>2. CASE Exists(id)
      <3>1. id \in DOMAIN files /\ Upsert(id)
        BY <1>3, <2>2 DEF LiveUpsert, Exists
      <3>2. /\ Grows(rows, rows') /\ RowsFit(rows', bucket)
            /\ BucketFit(bucket, rows') /\ Schedule
        BY <3>1, UpsertFit
      <3> QED
        BY <2>1, <3>2, Spooled
    <2>3. CASE ~Exists(id)
      <3>1. UNCHANGED <<rows, pass, late>>
        BY <1>3, <2>3 DEF LiveUpsert
      <3> QED
        BY <2>1, <3>1, NoRow, Spooled
    <2> QED
      BY <2>2, <2>3
  <1> QED
    BY <1>1, <1>2, <1>3 DEF Ticking

LEMMA TakingKeeps == SpoolInv /\ Taking => SpoolInv'
  <1> SUFFICES ASSUME SpoolInv, Taking PROVE SpoolInv'
    OBVIOUS
  <1>1. CASE TakeStart
    BY <1>1, Aside DEF TakeStart
  <1>2. CASE TakeDefer
    BY <1>2, Aside DEF TakeDefer
  <1>3. CASE TakeWrite
    BY <1>3, PayloadWritten DEF TakeWrite
  <1>4. CASE TakeEnqueue
    <2> DEFINE id == TakeId(scribe.of, scribe.take)
    <2>1. /\ UNCHANGED <<files, recorder, recovery, bucket>>
          /\ DOMAIN recorder' = {"segment", "at"}
      BY <1>4 DEF TakeEnqueue, SpoolInv
    <2>2. CASE Exists(id)
      <3>1. id \in DOMAIN files /\ Kind(id) = "transcript" /\ Insert(id, SealedKey(id))
        BY <1>4, <2>2 DEF TakeEnqueue, Exists, TakeId, Kind
      <3>2. /\ Grows(rows, rows') /\ RowsFit(rows', bucket)
            /\ BucketFit(bucket, rows') /\ Schedule
        BY <3>1, InsertFit DEF Taken
      <3> QED
        BY <2>1, <3>2, Spooled
    <2>3. CASE ~Exists(id)
      <3>1. UNCHANGED <<rows, pass, late>>
        BY <1>4, <2>3 DEF TakeEnqueue
      <3> QED
        BY <2>1, <3>1, NoRow, Spooled
    <2> QED
      BY <2>2, <2>3
  <1>5. CASE TakeMark
    <2>1. /\ UNCHANGED <<files, rows, recorder, recovery, bucket>> /\ Schedule
          /\ DOMAIN recorder' = {"segment", "at"}
      BY <1>5 DEF TakeMark, SpoolInv
    <2> QED
      BY <2>1, NoRow, Spooled
  <1> QED
    BY <1>1, <1>2, <1>3, <1>4, <1>5 DEF Taking

LEMMA EmittingKeeps == SpoolInv /\ Emitting => SpoolInv'
  <1> SUFFICES ASSUME SpoolInv, Emitting PROVE SpoolInv'
    OBVIOUS
  <1>1. CASE EventWrite
    BY <1>1, PayloadWritten DEF EventWrite
  <1>2. CASE EventInsert
    <2>1. PICK e \in emitting :
            IF Exists(EventId(e)) THEN Insert(EventId(e), SealedKey(EventId(e)))
            ELSE UNCHANGED <<rows, newest, pass, late>>
      BY <1>2 DEF EventInsert
    <2>2. /\ UNCHANGED <<files, recorder, recovery, bucket>>
          /\ DOMAIN recorder' = {"segment", "at"}
      BY <1>2 DEF EventInsert, SpoolInv
    <2>3. CASE Exists(EventId(e))
      <3>1. /\ EventId(e) \in DOMAIN files /\ Kind(EventId(e)) = "event"
            /\ Insert(EventId(e), SealedKey(EventId(e)))
        BY <2>1, <2>3 DEF Exists, EventId, Kind
      <3>2. /\ Grows(rows, rows') /\ RowsFit(rows', bucket)
            /\ BucketFit(bucket, rows') /\ Schedule
        BY <3>1, InsertFit DEF Taken
      <3> QED
        BY <2>2, <3>2, Spooled
    <2>4. CASE ~Exists(EventId(e))
      <3>1. UNCHANGED <<rows, pass, late>>
        BY <2>1, <2>4
      <3> QED
        BY <2>2, <3>1, NoRow, Spooled
    <2> QED
      BY <2>3, <2>4
  <1> QED
    BY <1>1, <1>2 DEF Emitting

-----------------------------------------------------------------------------
(* A pass. *)

\* Pass w moves, and the rest of the phone does not.
Turns(w) ==
  /\ UNCHANGED <<recorder, recovery, late>>
  /\ DOMAIN pass' = Work
  /\ \A v \in Work \ {w} : pass'[v] = pass[v]

\* A pass that fits keeps the invariant.
LEMMA Passed ==
  ASSUME SpoolInv, NEW w \in Work, Turns(w),
         PassFit(pass'[w], rows', bucket'),
         Grows(rows, rows'), DOMAIN bucket \subseteq DOMAIN bucket',
         RowsFit(rows', bucket'), BucketFit(bucket', rows'),
         FilesFit(files'), Kept(recorder.segment, files', bucket')
  PROVE  SpoolInv'
  <1>1. /\ recorder'.segment \in Nat /\ DOMAIN recorder' = {"segment", "at"}
        /\ Kept(recorder'.segment, files', bucket')
        /\ recovery' = recovery
        /\ \A r \in late' : r \in late
    BY DEF SpoolInv, Turns
  <1>2. \A v \in Work : \/ PassFit(pass[v], rows, bucket) /\ pass'[v] = pass[v]
                       \/ PassFit(pass'[v], rows', bucket')
    BY DEF SpoolInv, Turns
  <1> QED
    BY <1>1, <1>2, Closing DEF Turns

\* One that touches neither files nor rows nor the bucket.
LEMMA PassedBy ==
  ASSUME SpoolInv, NEW w \in Work, Turns(w), UNCHANGED <<files, rows, bucket>>,
         PassFit(pass'[w], rows, bucket)
  PROVE  SpoolInv'
  BY NoRow, Passed DEF SpoolInv

\* A row whose error is set, or whose path is cleared.
LEMMA RowMarked ==
  ASSUME SpoolInv, NEW id \in DOMAIN rows, Failed(id) \/ Cleared(id)
  PROVE  Grows(rows, rows') /\ RowsFit(rows', bucket) /\ BucketFit(bucket, rows')
  <1>1. RowFit(id, rows[id], bucket)
    BY RowIn
  <1>2. CASE rows' = rows
    BY <1>2, NoRow
  <1>3. CASE rows' # rows
    <2>1. \/ /\ rows[id].state = "PENDING"
             /\ rows' = [rows EXCEPT ![id] = [rows[id] EXCEPT !.error = TRUE]]
          \/ /\ rows[id].state = "UPLOADED"
             /\ rows' = [rows EXCEPT ![id] = [rows[id] EXCEPT !.file = NoFile]]
      BY <1>3 DEF Failed, Cleared, Pending
    <2>2. /\ DOMAIN rows' = DOMAIN rows \cup {id}
          /\ \A x \in DOMAIN rows \ {id} : rows'[x] = rows[x]
      BY <2>1
    <2>3. \/ /\ rows[id].state = "PENDING"
             /\ rows'[id] = [rows[id] EXCEPT !.error = TRUE]
          \/ /\ rows[id].state = "UPLOADED"
             /\ rows'[id] = [rows[id] EXCEPT !.file = NoFile]
      BY <2>1
    <2>4. RowFit(id, rows'[id], bucket) /\ rows[id].key = rows'[id].key
      BY <1>1, <2>3 DEF RowFit, RowField
    <2> QED
      BY <2>2, <2>4, RowChanged DEF SpoolInv
  <1> QED
    BY <1>2, <1>3

\* The snapshots a pass begins with.
LEMMA ItemsFit ==
  ASSUME SpoolInv, NEW S \in SUBSET PendingAll, NEW ids \in NewestFirst(S)
  PROVE  Items(ids) \in Seq({Snapshot(id) : id \in PendingAll})
  <1>1. IsFiniteSet(S)
    BY FS_Subset DEF SpoolInv, RowsFit, PendingAll
  <1>2. Cardinality(S) \in Nat
    BY <1>1, FS_CardinalityType
  <1>3. ids \in [1..Cardinality(S) -> S]
    BY DEF NewestFirst
  <1> DEFINE T == {Snapshot(id) : id \in PendingAll}
             n == Cardinality(S)
  <1>4. DOMAIN ids = 1..n /\ \A i \in 1..n : Snapshot(ids[i]) \in T
    BY <1>3
  <1>5. Items(ids) = [i \in 1..n |-> Snapshot(ids[i])]
    BY <1>4 DEF Items
  <1> HIDE DEF T, n
  <1>6. Items(ids) \in [1..n -> T]
    BY <1>4, <1>5
  <1>7. n \in Nat
    BY <1>2 DEF n
  <1>8. Items(ids) \in Seq(T)
    BY <1>6, <1>7
  <1> QED
    BY <1>8 DEF T

\* A pass that goes through some of them.
LEMMA UndertakeFit ==
  ASSUME SpoolInv, NEW w \in Work, UNCHANGED <<files, rows, bucket>>,
         UNCHANGED <<recorder, recovery, late>>,
         NEW items \in Seq({Snapshot(id) : id \in PendingAll}), Undertake(w, items)
  PROVE  SpoolInv'
  <1> DEFINE T == {Snapshot(id) : id \in PendingAll}
  <1>1. \A i \in T : ItemFit(i, rows)
    <2> SUFFICES ASSUME NEW id \in PendingAll PROVE ItemFit(Snapshot(id), rows)
      OBVIOUS
    <2>1. id \in DOMAIN rows /\ rows[id].state = "PENDING"
      BY DEF PendingAll, Pending
    <2>2. RowFit(id, rows[id], bucket)
      BY <2>1, RowIn
    <2> QED
      BY <2>1, <2>2 DEF ItemFit, RowFit, Snapshot
  <1>2. IsSeq(items) /\ \A j \in DOMAIN items : items[j] \in T
    <2>1. DOMAIN items = 1..Len(items) /\ \A j \in 1..Len(items) : items[j] \in T
      BY LenProperties, ElementOfSeq
    <2> QED
      BY <2>1, SeqIs
  <1> HIDE DEF T
  <1>3. Turns(w)
    BY DEF Turns, Undertake, EndPass, SpoolInv
  <1>4. \/ pass'[w] = IdlePass
        \/ /\ items # << >>
           /\ pass'[w] = [IdlePass EXCEPT !.at = "check", !.todo = items]
    BY DEF Undertake, EndPass, SpoolInv
  <1>5. items # << >> => PassFit([IdlePass EXCEPT !.at = "check", !.todo = items], rows, bucket)
    BY <1>1, <1>2 DEF PassFit, IdlePass, PassField
  <1> QED
    BY <1>3, <1>4, <1>5, IdleFit, PassedBy

LEMMA BeginKeeps ==
  ASSUME SpoolInv, NEW w \in Work, BeginPass(w)
  PROVE  SpoolInv'
  <1>1. UNCHANGED <<files, rows, bucket>> /\ UNCHANGED <<recorder, recovery, late>>
    BY DEF BeginPass, PassFrame
  <1>2. CASE \E ids \in NewestFirst(PendingAll) : Undertake(w, Items(ids))
    BY <1>1, <1>2, ItemsFit, UndertakeFit
  <1>3. CASE \E ids \in NewestFirst(Transcripts(PendingAll)),
               audio \in NewestFirst(NewestAudio(PendingAll)) :
               Undertake(w, Items(ids) \o Items(audio))
    <2>1. PICK ids \in NewestFirst(Transcripts(PendingAll)),
               audio \in NewestFirst(NewestAudio(PendingAll)) :
               Undertake(w, Items(ids) \o Items(audio))
      BY <1>3
    <2>2. /\ Transcripts(PendingAll) \in SUBSET PendingAll
          /\ NewestAudio(PendingAll) \in SUBSET PendingAll
      BY DEF Transcripts, NewestAudio
    <2>3. /\ Items(ids) \in Seq({Snapshot(id) : id \in PendingAll})
          /\ Items(audio) \in Seq({Snapshot(id) : id \in PendingAll})
      BY <2>2, ItemsFit
    <2>4. Items(ids) \o Items(audio) \in Seq({Snapshot(id) : id \in PendingAll})
      BY <2>3, ConcatProperties
    <2> QED
      BY <1>1, <2>1, <2>4, UndertakeFit
  <1> QED
    BY <1>2, <1>3 DEF BeginPass

\* Where a pass goes, and that nothing else does.
LEMMA PassAt ==
  ASSUME SpoolInv, NEW w \in Work, UNCHANGED <<recorder, recovery, late>>
  PROVE  /\ \A l : Goto(w, l) => Turns(w) /\ pass'[w] = [pass[w] EXCEPT !.at = l]
         /\ NextItem(w) => /\ Turns(w)
                           /\ pass[w].at \in Point => PassFit(pass'[w], rows, bucket)
         /\ RetryPass(w) \/ EndPass(w) =>
              Turns(w) /\ \A rws, bkt : PassFit(pass'[w], rws, bkt)
  <1>1. ASSUME NEW l, Goto(w, l)
        PROVE  Turns(w) /\ pass'[w] = [pass[w] EXCEPT !.at = l]
    BY <1>1 DEF Goto, Turns, SpoolInv
  <1>2. ASSUME NextItem(w)
        PROVE  Turns(w) /\ (pass[w].at \in Point => PassFit(pass'[w], rows, bucket))
    <2>1. /\ Turns(w)
          /\ pass'[w] = IF Len(pass[w].todo) = 1 THEN IdlePass
                        ELSE [IdlePass EXCEPT !.at = "check", !.todo = Tail(pass[w].todo)]
      BY <1>2 DEF NextItem, Turns, SpoolInv
    <2>2. PassFit(pass[w], rows, bucket)
      BY DEF SpoolInv
    <2>3. pass[w].at \in Point =>
            PassFit(IF Len(pass[w].todo) = 1 THEN IdlePass
                    ELSE [IdlePass EXCEPT !.at = "check", !.todo = Tail(pass[w].todo)],
                    rows, bucket)
      BY <2>2, NextFit
    <2> QED
      BY <2>1, <2>3
  <1>3. ASSUME RetryPass(w) \/ EndPass(w)
        PROVE  Turns(w) /\ \A rws, bkt : PassFit(pass'[w], rws, bkt)
    <2>1. Turns(w) /\ pass'[w] \in {IdlePass, [IdlePass EXCEPT !.at = "queued"]}
      BY <1>3 DEF RetryPass, EndPass, Turns, SpoolInv
    <2> QED
      BY <2>1, IdleFit
  <1> QED
    BY <1>1, <1>2, <1>3

\* The steps of a pass about its item, before the bucket has it.
LEMMA AskingKeeps ==
  ASSUME SpoolInv, NEW w \in Work,
         CheckItem(w) \/ Send(w) \/ Forbidden(w) \/ PassRetries(w) \/ PassFails(w)
  PROVE  SpoolInv'
  <1>a. PassFit(pass[w], rows, bucket) /\ pass[w].at \in Point
    BY DEF SpoolInv, CheckItem, Send, Forbidden, PassRetries, PassFails, Point
  <1>b. Current(w).id \in DOMAIN rows
    BY <1>a, CurrentFit DEF ItemFit
  <1>c. UNCHANGED <<recorder, recovery, late>> /\ UNCHANGED <<files, bucket>>
    BY DEF PassFrame, CheckItem, Send, Forbidden, PassRetries, PassFails
  <1>d. ASSUME Failed(Current(w).id), Turns(w), PassFit(pass'[w], rows, bucket)
        PROVE  SpoolInv'
    <2>1. Grows(rows, rows') /\ RowsFit(rows', bucket) /\ BucketFit(bucket, rows')
      BY <1>b, <1>d, RowMarked
    <2>2. PassFit(pass'[w], rows', bucket)
      BY <1>d, <2>1, PassStays
    <2> QED
      BY <1>c, <1>d, <2>1, <2>2, Passed DEF SpoolInv
  <1>1. CASE CheckItem(w)
    <2>1. CASE Goto(w, "send") /\ UNCHANGED rows
      <3>1. PassFit([pass[w] EXCEPT !.at = "send"], rows, bucket)
        BY <1>a, GotoFit DEF Point
      <3>2. Turns(w) /\ pass'[w] = [pass[w] EXCEPT !.at = "send"]
        BY <1>c, <2>1, PassAt
      <3> QED
        BY <1>c, <2>1, <3>1, <3>2, PassedBy
    <2>2. CASE Failed(Current(w).id) /\ NextItem(w)
      BY <1>a, <1>c, <1>d, <2>2, PassAt
    <2> QED
      BY <1>1, <2>1, <2>2 DEF CheckItem
  <1>2. CASE Send(w)
    <2>1. /\ Turns(w) /\ rows' = rows
          /\ \/ pass'[w] = [pass[w] EXCEPT !.at = "sent", !.body = files[Current(w).file]]
             \/ pass'[w] = [pass[w] EXCEPT !.at = "refused"]
      BY <1>2, <1>c DEF Send, Turns, SpoolInv
    <2>2. PassFit(pass'[w], rows, bucket)
      BY <1>a, <2>1 DEF PassFit, PassField
    <2> QED
      BY <1>c, <2>1, <2>2, PassedBy
  <1>3. CASE Forbidden(w)
    <2>1. /\ Turns(w) /\ rows' = rows
          /\ \/ pass'[w] = [pass[w] EXCEPT !.at = "send", !.again = TRUE]
             \/ pass'[w] = [pass[w] EXCEPT !.at = "refused"]
      BY <1>3, <1>c DEF Forbidden, Goto, Turns, SpoolInv
    <2>2. PassFit(pass'[w], rows, bucket)
      BY <1>a, <2>1 DEF PassFit, PassField
    <2> QED
      BY <1>c, <2>1, <2>2, PassedBy
  <1>4. CASE PassRetries(w) \/ PassFails(w)
    <2>1. Failed(Current(w).id) /\ (RetryPass(w) \/ EndPass(w))
      BY <1>4 DEF PassRetries, PassFails
    <2>2. Turns(w) /\ PassFit(pass'[w], rows, bucket)
      BY <1>c, <2>1, PassAt
    <2> QED
      BY <1>d, <2>1, <2>2
  <1> QED
    BY <1>1, <1>2, <1>3, <1>4

\* The bucket's answer, or its loss.
LEMMA AnsweringKeeps ==
  ASSUME SpoolInv, NEW w \in Work, Answer(w) \/ AnswerLost(w)
  PROVE  SpoolInv'
  <1>a. PassFit(pass[w], rows, bucket) /\ pass[w].at = "sent"
    BY DEF SpoolInv, Answer, AnswerLost
  <1>b. UNCHANGED <<recorder, recovery, late>> /\ UNCHANGED <<files, rows>>
    BY DEF PassFrame, Answer, AnswerLost
  <1> DEFINE r == Request(w)
  <1>c. RequestFit(r, rows) /\ r.key = Head(pass[w].todo).key
    <2>1. RequestFit(r, rows)
      BY <1>a, OnWire DEF Point
    <2> QED
      BY <2>1 DEF Request, Current
  <1>d. PICK l \in Point :
          /\ Goto(w, l)
          /\ \/ bucket' = bucket /\ l \notin {"stored", "unlink"}
             \/ r.md5 = r.body /\ bucket' = With(bucket, r.key, r.body)
    BY DEF Answer, AnswerLost, Point
  <1> HIDE DEF r
  <1>e. Turns(w) /\ pass'[w] = [pass[w] EXCEPT !.at = l]
    BY <1>b, <1>d, PassAt
  <1>1. CASE bucket' = bucket /\ l \notin {"stored", "unlink"}
    <2>1. PassFit([pass[w] EXCEPT !.at = l], rows, bucket)
      BY <1>a, <1>1, GotoFit DEF Point
    <2> QED
      BY <1>b, <1>e, <1>1, <2>1, PassedBy
  <1>2. CASE r.md5 = r.body /\ bucket' = With(bucket, r.key, r.body)
    <2>1. /\ DOMAIN bucket \subseteq DOMAIN bucket' /\ r.key \in DOMAIN bucket'
          /\ RowsFit(rows, bucket') /\ BucketFit(bucket', rows)
      BY <1>c, <1>2, ObjectStored DEF SpoolInv
    <2>2. Grows(rows, rows)
      BY NoRow
    <2>3. PassFit(pass[w], rows, bucket')
      BY <1>a, <2>1, <2>2, PassStays
    <2>4. PassFit([pass[w] EXCEPT !.at = l], rows, bucket')
      BY <1>a, <1>c, <2>1, <2>3, GotoFit DEF Point
    <2>5. FilesFit(files') /\ Kept(recorder.segment, files', bucket')
      BY <1>b, <2>1 DEF SpoolInv, Kept, InBucket
    <2> QED
      BY <1>b, <1>e, <2>1, <2>2, <2>4, <2>5, Passed
  <1> QED
    BY <1>d, <1>1, <1>2

\* The row marked once the bucket has the object.
LEMMA MarkKeeps ==
  ASSUME SpoolInv, NEW w \in Work, MarkUploaded(w)
  PROVE  SpoolInv'
  <1>a. PassFit(pass[w], rows, bucket) /\ pass[w].at = "stored"
    BY DEF SpoolInv, MarkUploaded
  <1>b. UNCHANGED <<recorder, recovery, late>> /\ UNCHANGED <<files, bucket>>
    BY DEF PassFrame, MarkUploaded
  <1> DEFINE id == Current(w).id
  <1>c. /\ id \in DOMAIN rows /\ RowFit(id, rows[id], bucket)
        /\ rows[id].key \in DOMAIN bucket
    <2>1. ItemFit(Current(w), rows)
      BY <1>a, CurrentFit DEF Point
    <2>2. id \in DOMAIN rows /\ RowFit(id, rows[id], bucket)
      BY <2>1, RowIn DEF ItemFit
    <2> QED
      BY <1>a, <2>1, <2>2 DEF ItemFit, PassFit, Current
  <1>1. CASE Pending(id)
    <2>1. /\ rows' = [rows EXCEPT ![id].state = "UPLOADED", ![id].error = FALSE]
          /\ Goto(w, "unlink")
      BY <1>1 DEF MarkUploaded, Goto
    <2>2. /\ DOMAIN rows' = DOMAIN rows \cup {id}
          /\ rows'[id] = [rows[id] EXCEPT !.state = "UPLOADED", !.error = FALSE]
          /\ \A x \in DOMAIN rows \ {id} : rows'[x] = rows[x]
      BY <1>c, <2>1
    <2>3. RowFit(id, rows'[id], bucket) /\ rows[id].key = rows'[id].key
      BY <1>c, <2>2 DEF RowFit, RowField
    <2>4. Grows(rows, rows') /\ RowsFit(rows', bucket) /\ BucketFit(bucket, rows')
      BY <2>2, <2>3, RowChanged DEF SpoolInv
    <2>5. Turns(w) /\ pass'[w] = [pass[w] EXCEPT !.at = "unlink"]
      BY <1>b, <2>1, PassAt
    <2>6. PassFit([pass[w] EXCEPT !.at = "unlink"], rows, bucket)
      BY <1>a, GotoFit DEF PassFit, Point
    <2>7. PassFit(pass'[w], rows', bucket)
      BY <2>4, <2>5, <2>6, PassStays
    <2> QED
      BY <1>b, <2>4, <2>5, <2>7, Passed DEF SpoolInv
  <1>2. CASE ~Pending(id)
    <2>1. NextItem(w) /\ rows' = rows
      BY <1>2 DEF MarkUploaded
    <2>2. Turns(w) /\ PassFit(pass'[w], rows, bucket)
      BY <1>a, <1>b, <2>1, PassAt DEF Point
    <2> QED
      BY <1>b, <2>1, <2>2, PassedBy
  <1> QED
    BY <1>1, <1>2

\* A file whose row's key is in the bucket may go.
LEMMA PayloadGone ==
  ASSUME SpoolInv, NEW id \in DOMAIN rows, rows[id].key \in DOMAIN bucket,
         files' = Without(files, {id})
  PROVE  FilesFit(files') /\ Kept(recorder.segment, files', bucket)
  <1>1. /\ DOMAIN files' = DOMAIN files \ {id}
        /\ \A f \in DOMAIN files' : files'[f] = files[f]
    BY DEF Without
  <1>2. /\ Kind(id) \notin Taken
        /\ InBucket(id, bucket)
    BY RowIn DEF RowFit, InBucket
  <1> QED
    BY <1>1, <1>2, KeptStays DEF SpoolInv, FilesFit

\* The payload unlinked, and its row cleared.
LEMMA UnlinkKeeps ==
  ASSUME SpoolInv, NEW w \in Work, UnlinkPayload(w)
  PROVE  SpoolInv'
  <1>a. PassFit(pass[w], rows, bucket) /\ pass[w].at = "unlink"
    BY DEF SpoolInv, UnlinkPayload
  <1>b. UNCHANGED <<recorder, recovery, late>> /\ bucket' = bucket
    BY DEF PassFrame, UnlinkPayload
  <1> DEFINE i == Current(w)
  <1>c. i.id \in DOMAIN rows /\ i.file = i.id /\ rows[i.id].key \in DOMAIN bucket
    <2>1. ItemFit(i, rows)
      BY <1>a, CurrentFit DEF Point
    <2> QED
      BY <1>a, <2>1 DEF ItemFit, PassFit, Current
  <1>d. files' = Without(files, {i.id}) /\ Cleared(i.id) /\ NextItem(w)
    BY <1>c DEF UnlinkPayload
  <1>e. FilesFit(files') /\ Kept(recorder.segment, files', bucket)
    BY <1>c, <1>d, PayloadGone
  <1>f. Grows(rows, rows') /\ RowsFit(rows', bucket) /\ BucketFit(bucket, rows')
    BY <1>c, <1>d, RowMarked
  <1>g. Turns(w) /\ PassFit(pass'[w], rows, bucket)
    BY <1>a, <1>b, <1>d, PassAt DEF Point
  <1>h. PassFit(pass'[w], rows', bucket)
    BY <1>f, <1>g, PassStays
  <1> QED
    BY <1>b, <1>e, <1>f, <1>g, <1>h, Passed

LEMMA QueueKeeps ==
  ASSUME SpoolInv, NEW w \in Work, Trigger(w) \/ Replace(w)
  PROVE  SpoolInv'
  <1>1. /\ UNCHANGED <<files, rows, bucket, recorder, recovery>> /\ Queue(w)
    BY DEF Trigger, Replace, PassFrame
  <1>2. \A v \in Work : \/ PassFit(pass[v], rows, bucket) /\ pass'[v] = pass[v]
                       \/ PassFit(pass'[v], rows', bucket')
    BY <1>1, Queued
  <1>3. DOMAIN pass' = Work /\ \A r \in late' : r \in late \/ RequestFit(r, rows)
    BY <1>1, Queued
  <1> QED
    BY <1>1, <1>2, <1>3, NoRow, Closing DEF SpoolInv

LEMMA LateKeeps ==
  ASSUME SpoolInv, LateArrives
  PROVE  SpoolInv'
  <1>1. PICK r \in late :
          /\ late' = late \ {r}
          /\ \/ UNCHANGED bucket
             \/ r.md5 = r.body /\ bucket' = With(bucket, r.key, r.body)
    BY DEF LateArrives
  <1>2. UNCHANGED <<files, rows, pass, recorder, recovery>>
    BY DEF LateArrives, PassFrame
  <1>3. /\ DOMAIN bucket \subseteq DOMAIN bucket'
        /\ RowsFit(rows, bucket') /\ BucketFit(bucket', rows)
    <2>1. CASE UNCHANGED bucket
      BY <2>1 DEF SpoolInv
    <2>2. CASE r.md5 = r.body /\ bucket' = With(bucket, r.key, r.body)
      BY <2>2, ObjectStored DEF SpoolInv
    <2> QED
      BY <1>1, <2>1, <2>2
  <1>4. Kept(recorder.segment, files, bucket')
    BY <1>3 DEF SpoolInv, Kept, InBucket
  <1>5. \A q \in late' : q \in late
    BY <1>1
  <1> QED
    BY <1>2, <1>3, <1>4, <1>5, NoRow, Closing DEF SpoolInv

LEMMA UploadingKeeps == SpoolInv /\ Uploading => SpoolInv'
  BY AskingKeeps, AnsweringKeeps, MarkKeeps, UnlinkKeeps, QueueKeeps, LateKeeps,
     BeginKeeps DEF Uploading, PassStep

\* recover: partials are set aside, unlisted recordings adopted, and the
\* files of uploaded rows deleted.
LEMMA RecoveringKeeps == SpoolInv /\ Recovering => SpoolInv'
  <1> SUFFICES ASSUME SpoolInv, Recovering PROVE SpoolInv'
    OBVIOUS
  <1>a. RecoveryFit(recovery, rows, bucket) /\ Kind(NoFile) \notin Taken
    BY DEF SpoolInv, Kind, NoFile, Taken
  <1>b. UNCHANGED <<recorder, bucket>> /\ DOMAIN recorder' = {"segment", "at"}
        /\ recorder'.segment \in Nat
    BY DEF Recovering, RecoverStart, RecoverLook, RecoverAct, RecoverUploaded,
           RecoverClean, RecoverEnd, RecoverFrame, SpoolInv
  <1>1. CASE RecoverStart
    <2> DEFINE moved == {f \in DOMAIN files : Kind(f) = "recording"}
               kept == Without(files, moved)
               held == DOMAIN kept \cup {Quarantine(f[2]) : f \in moved}
    <2>1. /\ files' = [f \in held |-> IF f \in DOMAIN kept THEN kept[f] ELSE 1]
          /\ recovery' = [at |-> "walk", suspect |-> NoFile,
                          todo |-> {f \in DOMAIN kept : Kind(f) # "quarantine"}]
          /\ UNCHANGED <<rows, pass, late>>
      BY <1>1 DEF RecoverStart
    <2>2. /\ DOMAIN kept = DOMAIN files \ moved
          /\ \A f \in DOMAIN kept : kept[f] = files[f]
      BY DEF Without
    <2>3. FilesFit(files')
      BY <2>1, <2>2 DEF SpoolInv, FilesFit
    <2>4. \A f \in DOMAIN kept : Kind(f) # "quarantine" => Kind(f) \notin Taken
      BY <2>2 DEF Taken
    <2>5. RecoveryFit(recovery', rows, bucket)
      BY <1>a, <2>1, <2>4 DEF RecoveryFit, RecoveryField
    <2>6. Kept(recorder.segment, files', bucket)
      <3>1. DOMAIN files' = held
        BY <2>1
      <3>2. ASSUME NEW n, Recording(n) \in DOMAIN files
            PROVE  Quarantine(n) \in held
        <4>1. Recording(n) \in moved /\ Recording(n)[2] = n
          BY <3>2 DEF Recording, Kind
        <4> QED
          BY <4>1
      <3>3. ASSUME NEW n PROVE AudioId(n) \notin moved /\ Quarantine(n) \notin moved
        BY DEF AudioId, Quarantine, Kind
      <3>4. \A f \in DOMAIN files \ moved : f \in held
        BY <2>2
      <3> HIDE DEF moved, kept, held
      <3> QED
        BY <3>1, <3>2, <3>3, <3>4 DEF SpoolInv, Kept
    <2> QED
      BY <1>b, <2>1, <2>3, <2>5, <2>6, FilesMove
  <1>2. CASE RecoverLook
    <2>1. PICK f \in recovery.todo :
            recovery' = [recovery EXCEPT !.todo = @ \ {f},
              !.suspect = IF \E id \in DOMAIN rows : rows[id].file = f THEN NoFile ELSE f]
      BY <1>2 DEF RecoverLook
    <2>2. recovery.at = "walk" /\ UNCHANGED <<files, rows, pass, late>>
      BY <1>2 DEF RecoverLook
    <2>3. /\ DOMAIN recovery' = RecoveryField /\ recovery'.at = "walk"
          /\ recovery'.todo \subseteq recovery.todo /\ recovery'.suspect \in {NoFile, f}
      BY <1>a, <2>1, <2>2 DEF RecoveryFit, RecoveryField
    <2>4. RecoveryFit(recovery', rows, bucket)
      BY <1>a, <2>2, <2>3 DEF RecoveryFit
    <2> QED
      BY <1>b, <2>2, <2>4, FilesMove DEF SpoolInv
  <1>3. CASE RecoverAct
    <2> DEFINE f == recovery.suspect
    <2>1. recovery.at = "walk" /\ recovery' = [recovery EXCEPT !.suspect = NoFile]
      BY <1>3 DEF RecoverAct
    <2>2. /\ DOMAIN recovery' = RecoveryField /\ recovery'.at = "walk"
          /\ recovery'.todo = recovery.todo /\ recovery'.suspect = NoFile
      BY <1>a, <2>1 DEF RecoveryFit, RecoveryField
    <2>3. \A rws : RecoveryFit(recovery', rws, bucket)
      BY <1>a, <2>1, <2>2 DEF RecoveryFit
    <2>4. CASE Kind(f) = "audio"
      <3>1. UNCHANGED files
        BY <1>3, <2>4 DEF RecoverAct, Adoptable
      <3>2. CASE Exists(f) /\ ~Row(f)
        <4>1. Insert(f, RecoveredKey(f)) /\ f \in DOMAIN files
          BY <1>3, <2>4, <3>2 DEF RecoverAct, Adoptable, Exists
        <4>2. /\ Grows(rows, rows') /\ RowsFit(rows', bucket)
              /\ BucketFit(bucket, rows') /\ Schedule
          BY <2>4, <3>2, <4>1, InsertFit DEF Taken
        <4> QED
          BY <1>b, <2>3, <3>1, <4>2, Spooled
      <3>3. CASE ~(Exists(f) /\ ~Row(f))
        <4>1. UNCHANGED <<rows, pass, late>>
          BY <1>3, <2>4, <3>3 DEF RecoverAct, Adoptable
        <4> QED
          BY <1>b, <2>3, <3>1, <4>1, NoRow, Spooled
      <3> QED
        BY <3>2, <3>3
    <2>5. CASE Kind(f) # "audio"
      <3>1. files' = Without(files, {f}) /\ UNCHANGED <<rows, pass, late>>
        BY <1>3, <2>5 DEF RecoverAct, Adoptable
      <3>2. /\ DOMAIN files' = DOMAIN files \ {f}
            /\ \A x \in DOMAIN files' : files'[x] = files[x]
        BY <3>1 DEF Without
      <3>3. FilesFit(files')
        BY <3>2 DEF SpoolInv, FilesFit
      <3>4. Kind(f) \notin Taken
        BY <1>a DEF RecoveryFit
      <3>5. Kept(recorder.segment, files', bucket)
        BY <2>5, <3>2, <3>4, KeptStays DEF SpoolInv
      <3> QED
        BY <1>b, <2>3, <3>1, <3>3, <3>5, FilesMove
    <2> QED
      BY <2>4, <2>5
  <1>4. CASE RecoverUploaded
    <2>1. /\ recovery' = [at |-> "clean", suspect |-> NoFile,
               todo |-> {id \in DOMAIN rows : /\ rows[id].state = "UPLOADED"
                                              /\ rows[id].file # NoFile}]
          /\ UNCHANGED <<files, rows, pass, late>>
      BY <1>4 DEF RecoverUploaded
    <2>2. \A id \in DOMAIN rows : rows[id].state = "UPLOADED" => rows[id].key \in DOMAIN bucket
      BY RowIn DEF RowFit
    <2>3. RecoveryFit(recovery', rows, bucket)
      BY <1>a, <2>1, <2>2 DEF RecoveryFit, RecoveryField
    <2> QED
      BY <1>b, <2>1, <2>3, FilesMove DEF SpoolInv
  <1>5. CASE RecoverClean
    <2>1. PICK id \in recovery.todo :
            /\ recovery' = [recovery EXCEPT !.todo = @ \ {id}]
            /\ files' = Without(files, {id})
            /\ Cleared(id)
      BY <1>5 DEF RecoverClean
    <2>2. recovery.at = "clean" /\ UNCHANGED <<pass, late>>
      BY <1>5 DEF RecoverClean
    <2>3. id \in DOMAIN rows /\ rows[id].key \in DOMAIN bucket
      BY <1>a, <2>2 DEF RecoveryFit
    <2>4. FilesFit(files') /\ Kept(recorder.segment, files', bucket)
      BY <2>1, <2>3, PayloadGone
    <2>5. Grows(rows, rows') /\ RowsFit(rows', bucket) /\ BucketFit(bucket, rows')
      BY <2>1, <2>3, RowMarked
    <2>6. /\ DOMAIN recovery' = RecoveryField /\ recovery'.at = "clean"
          /\ recovery'.todo \subseteq recovery.todo /\ recovery'.suspect = recovery.suspect
      BY <1>a, <2>1, <2>2 DEF RecoveryFit, RecoveryField
    <2>7. RecoveryFit(recovery', rows, bucket)
      BY <1>a, <2>2, <2>6 DEF RecoveryFit
    <2>8. RecoveryFit(recovery', rows', bucket)
      BY <2>5, <2>7, RecoveryStays
    <2>9. \A w \in Work : PassFit(pass[w], rows, bucket) /\ pass'[w] = pass[w]
      BY <2>2 DEF SpoolInv
    <2> QED
      BY <1>b, <2>2, <2>4, <2>5, <2>8, <2>9, Closing DEF SpoolInv
  <1>6. CASE RecoverEnd
    <2>1. /\ recovery' = IdleRecovery /\ UNCHANGED <<files, pass, late>>
          /\ rows' = [id \in DOMAIN rows |->
                IF Pending(id) THEN rows[id] ELSE [rows[id] EXCEPT !.error = FALSE]]
      BY <1>6 DEF RecoverEnd
    <2>2. \A rws : RecoveryFit(recovery', rws, bucket)
      BY <1>a, <2>1 DEF RecoveryFit, IdleRecovery, RecoveryField
    <2>3. DOMAIN rows' = DOMAIN rows
      BY <2>1
    <2>4. ASSUME NEW id \in DOMAIN rows
          PROVE  RowFit(id, rows'[id], bucket) /\ rows'[id].key = rows[id].key
      <3>1. \/ rows'[id] = rows[id]
            \/ rows'[id] = [rows[id] EXCEPT !.error = FALSE]
        BY <2>1
      <3> QED
        BY <3>1, RowIn DEF RowFit, RowField
    <2>5. RowsFit(rows', bucket)
      BY <2>3, <2>4 DEF SpoolInv, RowsFit
    <2>6. Grows(rows, rows') /\ BucketFit(bucket, rows')
      BY <2>3, <2>4 DEF SpoolInv, Grows, BucketFit
    <2> QED
      BY <1>b, <2>1, <2>2, <2>5, <2>6, Spooled
  <1> QED
    BY <1>1, <1>2, <1>3, <1>4, <1>5, <1>6 DEF Recovering

\* Death: works that ran are queued, their requests on the wire.
LEMMA DeathKeeps == SpoolInv /\ ProcessDies => SpoolInv'
  <1> SUFFICES ASSUME SpoolInv, ProcessDies PROVE SpoolInv'
    OBVIOUS
  <1>1. /\ recorder' = [recorder EXCEPT !.at = "idle"]
        /\ late' = late \cup Orphaned(Work) /\ recovery' = IdleRecovery
        /\ pass' = [w \in Work |-> IF Running(w) THEN [IdlePass EXCEPT !.at = "queued"]
                                    ELSE pass[w]]
        /\ UNCHANGED <<files, rows, bucket>>
    BY DEF ProcessDies
  <1>2. recorder'.segment = recorder.segment /\ DOMAIN recorder' = {"segment", "at"}
        /\ recorder'.segment \in Nat
    BY <1>1 DEF SpoolInv
  <1>3. RecoveryFit(recovery', rows, bucket)
    BY <1>1 DEF RecoveryFit, IdleRecovery, RecoveryField, Kind, NoFile, Taken
  <1>4. \A w \in Work : \/ PassFit(pass[w], rows, bucket) /\ pass'[w] = pass[w]
                       \/ PassFit(pass'[w], rows, bucket)
    <2> SUFFICES ASSUME NEW w \in Work
                 PROVE  \/ PassFit(pass[w], rows, bucket) /\ pass'[w] = pass[w]
                        \/ PassFit(pass'[w], rows, bucket)
      OBVIOUS
    <2>1. CASE Running(w)
      <3>1. pass'[w] = [IdlePass EXCEPT !.at = "queued"]
        BY <1>1, <2>1
      <3> QED
        BY <3>1, IdleFit
    <2>2. CASE ~Running(w)
      BY <1>1, <2>2 DEF SpoolInv
    <2> QED
      BY <2>1, <2>2
  <1>5. DOMAIN pass' = Work /\ \A r \in late' : r \in late \/ RequestFit(r, rows)
    BY <1>1, OrphanFit
  <1> QED
    BY <1>1, <1>2, <1>3, <1>4, <1>5, NoRow, Closing DEF SpoolInv

-----------------------------------------------------------------------------
(* The theorems. *)

LEMMA SpoolBegins == SpoolInit => SpoolInv
  <1> SUFFICES ASSUME SpoolInit PROVE SpoolInv
    OBVIOUS
  <1>1. DOMAIN files = {} /\ DOMAIN rows = {} /\ DOMAIN bucket = {}
    BY EmptySeq DEF SpoolInit
  <1>2. RecoveryFit(recovery, rows, bucket)
    BY DEF SpoolInit, RecoveryFit, IdleRecovery, RecoveryField, Kind, NoFile, Taken
  <1>3. \A w \in Work : PassFit(pass[w], rows, bucket)
    BY IdleFit DEF SpoolInit
  <1>4. FilesFit(files) /\ BucketFit(bucket, rows) /\ RowsFit(rows, bucket)
    BY <1>1, FS_EmptySet DEF FilesFit, BucketFit, RowsFit
  <1>5. recorder.segment = 0 /\ DOMAIN recorder = {"segment", "at"}
        /\ DOMAIN pass = Work /\ late = {}
    BY DEF SpoolInit
  <1>6. Kept(recorder.segment, files, bucket)
    BY <1>5 DEF Kept
  <1> QED
    BY <1>2, <1>3, <1>4, <1>5, <1>6 DEF SpoolInv

LEMMA SpoolKeeps == SpoolInv /\ [SpoolNext]_spoolVars => SpoolInv'
  <1>1. SpoolInv /\ UNCHANGED spoolVars => SpoolInv'
    BY Aside DEF spoolVars
  <1> QED
    BY <1>1, CapturingKeeps, TickingKeeps, TakingKeeps, EmittingKeeps, UploadingKeeps,
       RecoveringKeeps, DeathKeeps DEF SpoolNext

\* The phone never loses a recording: whatever recovery, passes, deaths and
\* late requests do, each segment begun is a partial, a sealed file, in
\* quarantine or in the bucket (SpoolRepository.kt, UploadWorker.kt).
THEOREM AudioIsKept == Spec => []NoAudioLost
  <1>1. SpoolInv => NoAudioLost
    BY DEF SpoolInv, NoAudioLost, Kept, InBucket, Exists, Received
  <1> QED
    BY <1>1, SpoolBegins, SpoolKeeps, PTL DEF Spec

\* One object of each segment, rows marked only on the bucket's word, and no
\* error left on an uploaded row (Manifest.kt, UploadWorker.kt).
THEOREM UploadsAreConfirmed == Spec => []UploadsAreSound
  <1>1. SpoolInv => OneObjectPerSegment
    <2> SUFFICES ASSUME SpoolInv, NEW n \in Segment
                 PROVE  Cardinality({SealedKey(AudioId(n)), RecoveredKey(AudioId(n))}
                                      \cap DOMAIN bucket) <= 1
      BY DEF OneObjectPerSegment
    <2> DEFINE a == SealedKey(AudioId(n))
               b == RecoveredKey(AudioId(n))
    <2>1. ~(a \in DOMAIN bucket /\ b \in DOMAIN bucket)
      <3> SUFFICES ASSUME a \in DOMAIN bucket, b \in DOMAIN bucket PROVE FALSE
        OBVIOUS
      <3>1. PICK i \in DOMAIN rows : a = rows[i].key
        BY DEF SpoolInv, BucketFit
      <3>2. PICK j \in DOMAIN rows : b = rows[j].key
        BY DEF SpoolInv, BucketFit
      <3>3. a \in {SealedKey(i), RecoveredKey(i)} /\ b \in {SealedKey(j), RecoveredKey(j)}
        BY <3>1, <3>2, RowIn DEF RowFit
      <3>4. i = AudioId(n) /\ j = AudioId(n) /\ a # b
        BY <3>3 DEF SealedKey, RecoveredKey
      <3> QED
        BY <3>1, <3>2, <3>4
    <2>2. /\ \A k : Cardinality({k}) = 1
          /\ Cardinality({}) = 0
      BY FS_EmptySet, FS_Singleton
    <2>3. CASE a \in DOMAIN bucket
      <3>1. {a, b} \cap DOMAIN bucket = {a}
        BY <2>1, <2>3
      <3>2. Cardinality({a, b} \cap DOMAIN bucket) = 1
        BY <2>2, <3>1, Zenon
      <3> QED
        BY <3>2
    <2>4. CASE a \notin DOMAIN bucket
      <3>1. CASE b \in DOMAIN bucket
        <4>1. {a, b} \cap DOMAIN bucket = {b}
          BY <2>4, <3>1
        <4>2. Cardinality({a, b} \cap DOMAIN bucket) = 1
          BY <2>2, <4>1, Zenon
        <4> QED
          BY <4>2
      <3>2. CASE b \notin DOMAIN bucket
        <4>1. {a, b} \cap DOMAIN bucket = {}
          BY <2>4, <3>2
        <4>2. Cardinality({a, b} \cap DOMAIN bucket) = 0
          BY <2>2, <4>1, Zenon
        <4> QED
          BY <4>2
      <3> QED
        BY <3>1, <3>2
    <2> QED
      BY <2>3, <2>4
  <1>2. SpoolInv => UploadedIsConfirmed
    <2> SUFFICES ASSUME SpoolInv, NEW id \in DOMAIN rows,
                        rows[id].state = "UPLOADED", Immutable(id)
                 PROVE  rows[id].key \in DOMAIN bucket /\ bucket[rows[id].key] = rows[id].md5
      BY DEF UploadedIsConfirmed
    <2>1. /\ rows[id].key \in DOMAIN bucket /\ rows[id].md5 = 1
          /\ rows[id].key \in {SealedKey(id), RecoveredKey(id)}
      BY RowIn DEF RowFit
    <2>2. PICK x \in DOMAIN rows :
            rows[id].key = rows[x].key /\ (Immutable(x) => bucket[rows[id].key] = 1)
      BY <2>1 DEF SpoolInv, BucketFit
    <2>3. rows[x].key \in {SealedKey(x), RecoveredKey(x)}
      BY RowIn DEF RowFit
    <2>4. x = id
      BY <2>1, <2>2, <2>3 DEF SealedKey, RecoveredKey
    <2> QED
      BY <2>1, <2>2, <2>4
  <1>3. SpoolInv => UploadedKeepsNoError
    BY RowIn DEF UploadedKeepsNoError, RowFit
  <1>4. SpoolInv => UploadsAreSound
    BY <1>1, <1>2, <1>3 DEF UploadsAreSound
  <1> QED
    BY <1>4, SpoolBegins, SpoolKeeps, PTL DEF Spec

-----------------------------------------------------------------------------
(* The recorder. *)

\* The user starts only once his last stop is through, and stops only while no
\* reload is under way.
Apart ==
  /\ ~desired /\ desired' => task["stop"].step = "idle"
  /\ desired /\ ~desired' => task["reload"].step = "idle"

Status == {"recording", "finishing", "queued", "partial"}
Steps  == {"idle", "sent", "lock", "finish", "end"}

\* Only the recorder in hand runs, with the rollover to come, if any; who has
\* the mutex has taken it out of the service's hands.
HandFits(sg, cur, rol, tms, mtx, alv) ==
  /\ sg \in Seq(Status) /\ cur \in 0..Len(sg)
  /\ \A n \in DOMAIN sg : sg[n] = "recording" => n = cur
  /\ rol = cur /\ DOMAIN tms \subseteq {cur} /\ DOMAIN tms \subseteq DOMAIN sg
  /\ mtx # "free" => cur = 0
  /\ cur # 0 \/ mtx # "free" => alv

\* Whoever finishes a segment has the mutex.
TasksFit(tk, mtx) ==
  /\ DOMAIN tk = Task /\ \A t \in Task : DOMAIN tk[t] = {"step", "item"}
  /\ mtx \in Task \cup {"free"}
  /\ \A t \in Task : tk[t].step = "finish" <=> mtx = t

\* What is under way is for the user's wish, and a stop that is through leaves
\* nothing in hand.
WishFits(tk, cur, mtx, alv, des, loc) ==
  /\ alv \in BOOLEAN /\ des \in BOOLEAN
  /\ des => alv
  /\ tk["reload"].step # "idle" => des
  /\ tk["stop"].step # "idle" => ~des /\ alv
  /\ ~des => loc = "off"
  /\ ~des /\ tk["stop"].step \in {"idle", "end"} => cur = 0 /\ mtx = "free"

ServiceInv ==
  /\ HandFits(segments, current, rollover, timers, mutex, alive)
  /\ TasksFit(task, mutex)
  /\ WishFits(task, current, mutex, alive, desired, location)

-----------------------------------------------------------------------------
LEMMA StatusSet ==
  ASSUME NEW sg \in Seq(Status), NEW n \in DOMAIN sg, NEW st \in Status
  PROVE  /\ [sg EXCEPT ![n] = st] \in Seq(Status)
         /\ Len([sg EXCEPT ![n] = st]) = Len(sg)
         /\ DOMAIN [sg EXCEPT ![n] = st] = DOMAIN sg
         /\ \A m \in DOMAIN sg : [sg EXCEPT ![n] = st][m] = IF m = n THEN st ELSE sg[m]
<1>1. sg = [m \in 1..Len(sg) |-> sg[m]] /\ Len(sg) \in Nat /\ DOMAIN sg = 1..Len(sg)
  OBVIOUS
<1> DEFINE s2 == [sg EXCEPT ![n] = st]
<1>2. s2 \in [1..Len(sg) -> Status]
  BY <1>1
<1>3. s2 \in Seq(Status) /\ Len(s2) = Len(sg) /\ DOMAIN s2 = DOMAIN sg
  BY <1>1, <1>2
<1> QED
  BY <1>3

LEMMA StatusAdded ==
  ASSUME NEW sg \in Seq(Status), NEW st \in Status
  PROVE  /\ Append(sg, st) \in Seq(Status)
         /\ Len(Append(sg, st)) = Len(sg) + 1
         /\ DOMAIN Append(sg, st) = 1..(Len(sg) + 1)
         /\ \A m \in 1..Len(sg) : Append(sg, st)[m] = sg[m]
  OBVIOUS

\* A new recorder is had only with empty hands.
LEMMA Handed ==
  ASSUME NEW was \in Seq(Status), \A n \in DOMAIN was : was[n] # "recording",
         DOMAIN timers = {}, rollover = 0, alive' = TRUE, NextSegment(was)
  PROVE  HandFits(segments', current', rollover', timers', "free", alive')
<1>1. Len(was) \in Nat /\ DOMAIN was = 1..Len(was)
  OBVIOUS
<1>2. CASE segments' = was /\ current' = 0 /\ UNCHANGED <<timers, rollover>>
  BY <1>1, <1>2 DEF HandFits
<1>3. CASE ~(segments' = was /\ current' = 0 /\ UNCHANGED <<timers, rollover>>)
  <2> DEFINE n == Len(was) + 1
  <2>1. segments' = Append(was, "recording") /\ current' = n /\ rollover' = n
    BY <1>3 DEF NextSegment
  <2>2. DOMAIN timers' = {n}
    BY <1>3 DEF NextSegment
  <2>3. "recording" \in Status
    BY DEF Status
  <2>4. /\ segments' \in Seq(Status) /\ Len(segments') = n /\ DOMAIN segments' = 1..n
        /\ \A m \in 1..Len(was) : segments'[m] = was[m]
    BY <2>1, <2>3, StatusAdded
  <2>5. \A m \in DOMAIN segments' : segments'[m] = "recording" => m = n
    BY <2>4, <1>1
  <2>6. n \in DOMAIN segments' /\ n \in 0..Len(segments')
    BY <2>4, <1>1
  <2> QED
    BY <2>1, <2>2, <2>4, <2>5, <2>6 DEF HandFits
<1> QED
  BY <1>2, <1>3 DEF NextSegment

\* What a seal leaves.
LEMMA Sealed ==
  ASSUME ServiceInv, alive, alive' = alive, NEW t \in Task, NEW over,
         DOMAIN over = {}, Seal(t, over)
  PROVE  /\ HandFits(segments', current', rollover', timers', mutex', alive')
         /\ TasksFit(task', mutex') /\ current' = 0 /\ mutex' = t /\ mutex = "free"
         /\ \A u \in Task \ {t} : task'[u] = task[u]
         /\ task'[t].step = "finish"
         /\ \A n \in DOMAIN segments :
              segments[n] = "recording" /\ segments'[n] = "finishing" => n = current
<1>1. /\ mutex = "free" /\ mutex' = t /\ current' = 0 /\ rollover' = 0 /\ timers' = over
      /\ task' = [task EXCEPT ![t] = [step |-> "finish", item |-> current]]
      /\ segments' = IF current = 0 THEN segments ELSE [segments EXCEPT ![current] = "finishing"]
  BY DEF Seal
<1>2. /\ segments \in Seq(Status) /\ current \in 0..Len(segments)
      /\ \A n \in DOMAIN segments : segments[n] = "recording" => n = current
  BY DEF ServiceInv, HandFits
<1>3. Len(segments) \in Nat /\ DOMAIN segments = 1..Len(segments)
  BY <1>2
<1>4. segments' \in Seq(Status) /\ \A n \in DOMAIN segments' : segments'[n] # "recording"
  <2>1. CASE current = 0
    BY <2>1, <1>1, <1>2, <1>3
  <2>2. CASE current # 0
    <3>1. current \in DOMAIN segments /\ "finishing" \in Status
      BY <2>2, <1>2, <1>3 DEF Status
    <3>2. /\ segments' \in Seq(Status) /\ DOMAIN segments' = DOMAIN segments
          /\ \A m \in DOMAIN segments : segments'[m] = IF m = current THEN "finishing" ELSE segments[m]
      BY <3>1, <2>2, <1>1, <1>2, StatusSet
    <3> QED
      BY <3>2, <1>2
  <2> QED
    BY <2>1, <2>2
<1>5. Len(segments') \in Nat
  BY <1>4
<1>6. HandFits(segments', current', rollover', timers', mutex', alive')
  BY <1>1, <1>4, <1>5 DEF HandFits
<1>7. DOMAIN task = Task /\ \A u \in Task : DOMAIN task[u] = {"step", "item"}
  BY DEF ServiceInv, TasksFit
<1>8. \A u \in Task : task[u].step # "finish"
  BY <1>1 DEF ServiceInv, TasksFit, Task
<1>9. /\ DOMAIN task' = Task /\ \A u \in Task : DOMAIN task'[u] = {"step", "item"}
      /\ \A u \in Task \ {t} : task'[u] = task[u]
      /\ task'[t].step = "finish"
  BY <1>1, <1>7
<1>10. TasksFit(task', mutex')
  BY <1>1, <1>8, <1>9 DEF TasksFit
<1> QED
  BY <1>1, <1>2, <1>6, <1>9, <1>10

\* A rollover is of the segment in hand: without it none is left.
LEMMA NoRollover ==
  ASSUME ServiceInv, NEW n, n \in DOMAIN timers \/ n = rollover
  PROVE  DOMAIN Off(timers, n) = {}
  BY DEF ServiceInv, HandFits, Off

\* A task that only moves between steps that are not a finish.
LEMMA TaskMoves ==
  ASSUME ServiceInv, NEW t \in Task, task[t].step # "finish", NEW r,
         DOMAIN r = {"step", "item"}, r.step # "finish", task' = [task EXCEPT ![t] = r],
         UNCHANGED mutex
  PROVE  /\ TasksFit(task', mutex')
         /\ \A u \in Task \ {t} : task'[u] = task[u]
         /\ task'[t] = r
  BY DEF ServiceInv, TasksFit

-----------------------------------------------------------------------------
LEMMA RollKeeps ==
  ASSUME ServiceInv, NEW n \in DOMAIN timers, Roll(n)
  PROVE  ServiceInv' /\ EarlyRollIsDue
<1>1. DOMAIN Off(timers, n) = {}
  BY NoRollover
<1>2. n = current /\ n # 0 /\ alive /\ "roll" \in Task
  <2>1. n = current /\ n \in DOMAIN segments /\ Len(segments) \in Nat /\ DOMAIN segments = 1..Len(segments)
    BY DEF ServiceInv, HandFits
  <2> QED
    BY <2>1 DEF ServiceInv, HandFits, Task
<1>3. Seal("roll", Off(timers, n)) /\ UNCHANGED wish /\ UNCHANGED location
  BY DEF Roll, senses
<1>4. alive' = alive /\ desired' = desired
  BY <1>3 DEF wish
<1>5. /\ HandFits(segments', current', rollover', timers', mutex', alive')
      /\ TasksFit(task', mutex') /\ current' = 0
      /\ \A u \in Task \ {"roll"} : task'[u] = task[u]
  BY <1>1, <1>2, <1>3, <1>4, Sealed
<1>6. task'["reload"] = task["reload"] /\ task'["stop"] = task["stop"] /\ task'["early"] = task["early"]
  BY <1>5 DEF Task
<1>7. WishFits(task', current', mutex', alive', desired', location')
  BY <1>2, <1>3, <1>4, <1>6 DEF ServiceInv, WishFits
<1>8. EarlyRollIsDue
  BY <1>6 DEF EarlyRollIsDue
<1> QED
  BY <1>5, <1>7, <1>8 DEF ServiceInv

LEMMA LockedKeeps ==
  ASSUME ServiceInv, RollLocked
  PROVE  ServiceInv' /\ EarlyRollIsDue
<1>1. /\ task["early"].step = "lock" /\ mutex = "free" /\ "early" \in Task
      /\ alive' = alive /\ desired' = desired /\ location' = location
  BY DEF RollLocked, wish, senses, Task
<1>2. CASE EarlyDue
  <2>1. alive /\ current \in seasoned /\ current # 0
    BY <1>2 DEF EarlyDue, ServiceInv, HandFits
  <2>2. Seal("early", Off(timers, rollover)) /\ DOMAIN Off(timers, rollover) = {}
    BY <1>2, NoRollover DEF RollLocked
  <2>3. /\ HandFits(segments', current', rollover', timers', mutex', alive')
        /\ TasksFit(task', mutex') /\ current' = 0
        /\ \A u \in Task \ {"early"} : task'[u] = task[u]
        /\ \A n \in DOMAIN segments :
             segments[n] = "recording" /\ segments'[n] = "finishing" => n = current
    BY <1>1, <2>1, <2>2, Sealed
  <2>4. task'["reload"] = task["reload"] /\ task'["stop"] = task["stop"]
    BY <2>3 DEF Task
  <2>5. WishFits(task', current', mutex', alive', desired', location')
    BY <1>1, <2>1, <2>4 DEF ServiceInv, WishFits
  <2> QED
    BY <2>1, <2>3, <2>5 DEF ServiceInv, EarlyRollIsDue
<1>3. CASE ~EarlyDue
  <2>1. task' = [task EXCEPT !["early"] = Idle] /\ UNCHANGED <<segments, current, mutex, timers, rollover>>
    BY <1>3 DEF RollLocked
  <2>2. DOMAIN Idle = {"step", "item"} /\ Idle.step = "idle"
    BY DEF Idle
  <2>3. /\ TasksFit(task', mutex') /\ task'["early"] = Idle
        /\ \A u \in Task \ {"early"} : task'[u] = task[u]
    BY <1>1, <2>1, <2>2, TaskMoves
  <2>4. task'["reload"] = task["reload"] /\ task'["stop"] = task["stop"]
    BY <2>3 DEF Task
  <2> QED
    BY <1>1, <2>1, <2>2, <2>3, <2>4 DEF ServiceInv, HandFits, WishFits, EarlyRollIsDue
<1> QED
  BY <1>2, <1>3

LEMMA WaitedKeeps ==
  ASSUME ServiceInv, NEW t \in Task, StopAfterWait(t)
  PROVE  ServiceInv' /\ EarlyRollIsDue
<1>1. /\ t \in {"stop", "reload"} /\ task[t].step = "lock"
      /\ alive' = alive /\ desired' = desired /\ location' = location
      /\ Seal(t, Off(timers, rollover)) /\ DOMAIN Off(timers, rollover) = {}
  BY NoRollover DEF StopAfterWait, StopRecorder, wish, senses
<1>2. alive /\ (t = "stop" => ~desired) /\ (t = "reload" => desired)
  BY <1>1 DEF ServiceInv, WishFits
<1>3. /\ HandFits(segments', current', rollover', timers', mutex', alive')
      /\ TasksFit(task', mutex') /\ current' = 0
      /\ \A u \in Task \ {t} : task'[u] = task[u]
      /\ task'[t].step = "finish" /\ mutex = "free"
  BY <1>1, <1>2, Sealed
<1>4. task'["early"] = task["early"]
  BY <1>1, <1>3 DEF Task
<1>5. \A u \in {"stop", "reload"} \ {t} : task'[u] = task[u]
  BY <1>1, <1>3 DEF Task
<1>6. WishFits(task', current', mutex', alive', desired', location')
  <2>1. CASE t = "stop"
    <3>1. task'["reload"] = task["reload"]
      BY <2>1, <1>5
    <3> QED
      BY <2>1, <3>1, <1>1, <1>2, <1>3 DEF ServiceInv, WishFits
  <2>2. CASE t = "reload"
    <3>1. task'["stop"] = task["stop"]
      BY <2>2, <1>5
    <3> QED
      BY <2>2, <3>1, <1>1, <1>2, <1>3 DEF ServiceInv, WishFits
  <2> QED
    BY <2>1, <2>2, <1>1
<1> QED
  BY <1>3, <1>4, <1>6 DEF ServiceInv, EarlyRollIsDue

LEMMA StopKeeps ==
  ASSUME ServiceInv, StopCommand, Apart
  PROVE  ServiceInv' /\ EarlyRollIsDue
<1>1. /\ desired /\ alive /\ ~desired' /\ alive' = alive /\ location' = "off"
      /\ task["stop"].step = "idle" /\ StopOrWait("stop") /\ "stop" \in Task
      /\ desired' = FALSE
  BY DEF StopCommand, ServiceInv, WishFits, Task
<1>2. task["reload"].step = "idle"
  BY <1>1 DEF Apart
<1>3. CASE StopRecorder("stop")
  <2>1. Seal("stop", Off(timers, rollover)) /\ DOMAIN Off(timers, rollover) = {}
    BY <1>3, NoRollover DEF StopRecorder
  <2>2. /\ HandFits(segments', current', rollover', timers', mutex', alive')
        /\ TasksFit(task', mutex') /\ current' = 0
        /\ \A u \in Task \ {"stop"} : task'[u] = task[u]
        /\ task'["stop"].step = "finish"
    BY <1>1, <2>1, Sealed
  <2>3. task'["reload"] = task["reload"] /\ task'["early"] = task["early"]
    BY <2>2 DEF Task
  <2>4. WishFits(task', current', mutex', alive', desired', location')
    BY <1>1, <1>2, <2>2, <2>3 DEF ServiceInv, WishFits
  <2> QED
    BY <2>2, <2>3, <2>4 DEF ServiceInv, EarlyRollIsDue
<1>4. CASE ~StopRecorder("stop")
  <2>1. /\ task' = [task EXCEPT !["stop"].step = "lock"]
        /\ UNCHANGED <<segments, current, mutex, timers, rollover>>
    BY <1>1, <1>4 DEF StopOrWait
  <2> DEFINE r == [task["stop"] EXCEPT !.step = "lock"]
  <2>2. DOMAIN r = {"step", "item"} /\ r.step = "lock" /\ task' = [task EXCEPT !["stop"] = r]
    BY <2>1 DEF ServiceInv, TasksFit, Task
  <2> HIDE DEF r
  <2>3. /\ TasksFit(task', mutex') /\ task'["stop"] = r
        /\ \A u \in Task \ {"stop"} : task'[u] = task[u]
    BY <1>1, <2>1, <2>2, TaskMoves
  <2>4. task'["reload"] = task["reload"] /\ task'["early"] = task["early"]
    BY <2>3 DEF Task
  <2>5. HandFits(segments', current', rollover', timers', mutex', alive')
    BY <1>1, <2>1 DEF ServiceInv
  <2>6. WishFits(task', current', mutex', alive', desired', location')
    BY <1>1, <1>2, <2>2, <2>3, <2>4 DEF ServiceInv, WishFits
  <2> QED
    BY <2>3, <2>4, <2>5, <2>6 DEF ServiceInv, EarlyRollIsDue
<1> QED
  BY <1>3, <1>4

LEMMA ReloadKeeps ==
  ASSUME ServiceInv, ReloadCommand
  PROVE  ServiceInv' /\ EarlyRollIsDue
<1>1. task["reload"].step = "sent" /\ desired /\ alive /\ "reload" \in Task
  BY DEF ReloadCommand, ServiceInv, WishFits, Task
<1>2. StopOrWait("reload") /\ alive' = alive /\ desired' = desired /\ location' = location
  BY <1>1 DEF ReloadCommand, wish, senses
<1>3. task["stop"].step = "idle"
  BY <1>1 DEF ServiceInv, WishFits
<1>4. CASE StopRecorder("reload")
  <2>1. Seal("reload", Off(timers, rollover)) /\ DOMAIN Off(timers, rollover) = {}
    BY <1>4, NoRollover DEF StopRecorder
  <2>2. /\ HandFits(segments', current', rollover', timers', mutex', alive')
        /\ TasksFit(task', mutex')
        /\ \A u \in Task \ {"reload"} : task'[u] = task[u]
    BY <1>1, <1>2, <2>1, Sealed
  <2>3. task'["stop"] = task["stop"] /\ task'["early"] = task["early"]
    BY <2>2 DEF Task
  <2>4. WishFits(task', current', mutex', alive', desired', location')
    BY <1>1, <1>2, <1>3, <2>3 DEF WishFits
  <2> QED
    BY <2>2, <2>3, <2>4 DEF ServiceInv, EarlyRollIsDue
<1>5. CASE ~StopRecorder("reload")
  <2>1. /\ task' = [task EXCEPT !["reload"].step = "lock"]
        /\ UNCHANGED <<segments, current, mutex, timers, rollover>>
    BY <1>2, <1>5 DEF StopOrWait
  <2> DEFINE r == [task["reload"] EXCEPT !.step = "lock"]
  <2>2. DOMAIN r = {"step", "item"} /\ r.step = "lock" /\ task' = [task EXCEPT !["reload"] = r]
    BY <2>1 DEF ServiceInv, TasksFit, Task
  <2> HIDE DEF r
  <2>3. /\ TasksFit(task', mutex')
        /\ \A u \in Task \ {"reload"} : task'[u] = task[u]
    BY <1>1, <2>1, <2>2, TaskMoves
  <2>4. task'["stop"] = task["stop"] /\ task'["early"] = task["early"]
    BY <2>3 DEF Task
  <2>5. HandFits(segments', current', rollover', timers', mutex', alive')
    BY <1>2, <2>1 DEF ServiceInv
  <2>6. WishFits(task', current', mutex', alive', desired', location')
    BY <1>1, <1>2, <1>3, <2>4 DEF WishFits
  <2> QED
    BY <2>3, <2>4, <2>5, <2>6 DEF ServiceInv, EarlyRollIsDue
<1> QED
  BY <1>4, <1>5

LEMMA FinishKeeps ==
  ASSUME ServiceInv, NEW t \in Task, FinishSegment(t)
  PROVE  ServiceInv' /\ EarlyRollIsDue
<1>1. /\ task[t].step = "finish" /\ mutex = t /\ t # "free" /\ mutex' = "free"
      /\ alive' = alive /\ desired' = desired
  BY DEF FinishSegment, ServiceInv, TasksFit, wish, Task
<1>2. current = 0 /\ alive = TRUE /\ rollover = 0 /\ DOMAIN timers = {}
  <2>1. current = 0 /\ alive
    BY <1>1 DEF ServiceInv, HandFits
  <2>2. DOMAIN timers \subseteq {0} /\ DOMAIN timers \subseteq DOMAIN segments /\ 0 \notin DOMAIN segments
    BY <2>1 DEF ServiceInv, HandFits
  <2> QED
    BY <2>1, <2>2 DEF ServiceInv, HandFits, WishFits
<1>3. PICK how \in {"queued", "partial"} :
        LET n == task[t].item
            done == IF n = 0 THEN segments ELSE [segments EXCEPT ![n] = how]
        IN IF t \in {"roll", "early"} \/ (t = "reload" /\ wants.audio /\ current = 0)
           THEN NextSegment(done)
           ELSE segments' = done /\ UNCHANGED <<current, timers, rollover>>
  BY <1>2 DEF FinishSegment
<1> DEFINE done == IF task[t].item = 0 THEN segments ELSE [segments EXCEPT ![task[t].item] = how]
<1>4. done \in Seq(Status) /\ \A n \in DOMAIN done : done[n] # "recording"
  <2>1. /\ segments \in Seq(Status) /\ \A n \in DOMAIN segments : segments[n] # "recording"
        /\ DOMAIN segments = 1..Len(segments)
    BY <1>2 DEF ServiceInv, HandFits
  <2>2. CASE task[t].item \in DOMAIN segments
    <3>1. how \in Status /\ how # "recording"
      BY DEF Status
    <3>2. task[t].item # 0 /\ done = [segments EXCEPT ![task[t].item] = how]
      BY <2>1, <2>2
    <3> QED
      BY <3>1, <3>2, <2>1, <2>2, StatusSet
  <2>3. CASE task[t].item \notin DOMAIN segments
    <3>1. done = segments
      BY <2>1, <2>3
    <3> QED
      BY <2>1, <3>1
  <2> QED
    BY <2>2, <2>3
<1> HIDE DEF done
<1>5. HandFits(segments', current', rollover', timers', mutex', alive')
  <2>1. CASE NextSegment(done)
    BY <2>1, <1>1, <1>2, <1>4, Handed
  <2>2. CASE segments' = done /\ UNCHANGED <<current, timers, rollover>>
    <3>1. Len(done) \in Nat
      BY <1>4
    <3> QED
      BY <2>2, <3>1, <1>1, <1>2, <1>4 DEF HandFits
  <2> QED
    BY <1>3, <2>1, <2>2 DEF done
<1> DEFINE r == IF t = "stop" /\ alive THEN [step |-> "end", item |-> 0] ELSE Idle
<1>6. DOMAIN r = {"step", "item"} /\ r.step = IF t = "stop" THEN "end" ELSE "idle"
  <2>1. CASE t = "stop"
    BY <2>1, <1>2
  <2>2. CASE t # "stop"
    BY <2>2 DEF Idle
  <2> QED
    BY <2>1, <2>2
<1>7. task' = [task EXCEPT ![t] = r]
  BY DEF FinishSegment
<1> HIDE DEF r
<1>8. DOMAIN task = Task /\ \A u \in Task : DOMAIN task[u] = {"step", "item"}
  BY DEF ServiceInv, TasksFit
<1>9. \A u \in Task \ {t} : task'[u] = task[u] /\ task[u].step # "finish"
  BY <1>1, <1>7, <1>8 DEF ServiceInv, TasksFit
<1>10. task'[t] = r /\ DOMAIN task' = Task
  BY <1>7, <1>8
<1>11. TasksFit(task', mutex')
  <2>1. \A u \in Task : DOMAIN task'[u] = {"step", "item"} /\ task'[u].step # "finish"
    BY <1>6, <1>8, <1>9, <1>10
  <2> QED
    BY <2>1, <1>1, <1>10 DEF TasksFit, Task
<1>12. WishFits(task', current', mutex', alive', desired', location')
  <2>1. t = "stop" => ~desired
    BY <1>1 DEF ServiceInv, WishFits
  <2>2. t = "reload" => desired
    BY <1>1 DEF ServiceInv, WishFits
  <2>3. ~desired /\ t # "stop" => task["stop"].step \notin {"idle", "end"}
    BY <1>1 DEF ServiceInv, WishFits
  <2>4. task'["reload"].step # "idle" => desired
    <3>1. CASE t = "reload"
      BY <3>1, <2>2
    <3>2. CASE t # "reload"
      BY <3>2, <1>9 DEF ServiceInv, WishFits, Task
    <3> QED
      BY <3>1, <3>2
  <2>5. task'["stop"].step # "idle" => ~desired
    <3>1. CASE t = "stop"
      BY <3>1, <2>1
    <3>2. CASE t # "stop"
      BY <3>2, <1>9 DEF ServiceInv, WishFits, Task
    <3> QED
      BY <3>1, <3>2
  <2>6. ~desired => location' = "off"
    BY <2>2 DEF FinishSegment, ServiceInv, WishFits
  <2>7. ~desired /\ task'["stop"].step \in {"idle", "end"} => current' = 0
    <3>1. CASE t = "stop"
      <4>1. UNCHANGED current
        BY <3>1, <1>3
      <4> QED
        BY <4>1, <1>2
    <3>2. CASE t # "stop"
      <4>1. task'["stop"] = task["stop"]
        BY <3>2, <1>9 DEF Task
      <4> QED
        BY <3>2, <4>1, <2>3
    <3> QED
      BY <3>1, <3>2
  <2> QED
    BY <1>1, <1>2, <2>4, <2>5, <2>6, <2>7 DEF WishFits, ServiceInv
<1>13. task["early"].step = "lock" => task'["early"].step # "finish"
  <2>1. "early" = t \/ "early" \in Task \ {t}
    BY DEF Task
  <2> QED
    BY <2>1, <1>1, <1>9
<1> QED
  BY <1>5, <1>11, <1>12, <1>13 DEF ServiceInv, EarlyRollIsDue

LEMMA StartKeeps ==
  ASSUME ServiceInv, StartCommand, Apart
  PROVE  ServiceInv' /\ EarlyRollIsDue
<1>1. /\ ~desired /\ alive' = TRUE /\ desired' = TRUE /\ UNCHANGED <<mutex, task>>
  BY DEF StartCommand
<1>2. task["stop"].step = "idle"
  BY <1>1 DEF Apart
<1>3. current = 0 /\ mutex = "free" /\ rollover = 0 /\ DOMAIN timers = {}
  <2>1. current = 0 /\ mutex = "free" /\ rollover = 0
    BY <1>1, <1>2 DEF ServiceInv, WishFits, HandFits
  <2>2. DOMAIN timers \subseteq {0} /\ DOMAIN timers \subseteq DOMAIN segments /\ 0 \notin DOMAIN segments
    BY <2>1 DEF ServiceInv, HandFits
  <2> QED
    BY <2>1, <2>2
<1>4. /\ segments \in Seq(Status) /\ \A n \in DOMAIN segments : segments[n] # "recording"
  BY <1>3 DEF ServiceInv, HandFits
<1>5. HandFits(segments', current', rollover', timers', mutex', alive')
  <2>1. CASE NextSegment(segments)
    BY <2>1, <1>1, <1>3, <1>4, Handed
  <2>2. CASE UNCHANGED <<segments, current, timers, rollover>>
    BY <2>2, <1>1, <1>3 DEF ServiceInv, HandFits
  <2> QED
    BY <2>1, <2>2 DEF StartCommand
<1>6. WishFits(task', current', mutex', alive', desired', location')
  BY <1>1, <1>2 DEF ServiceInv, WishFits
<1> QED
  BY <1>1, <1>5, <1>6 DEF ServiceInv, EarlyRollIsDue

LEMMA EndKeeps ==
  ASSUME ServiceInv, EndService
  PROVE  ServiceInv' /\ EarlyRollIsDue
<1>1. /\ task["stop"].step = "end" /\ alive' = FALSE /\ current' = 0 /\ rollover' = 0
      /\ timers' = [n \in {} |-> "due"] /\ location' = "off"
      /\ task' = [t \in Task |-> IF t = "early" \/ task[t].step = "finish" THEN task[t] ELSE Idle]
      /\ UNCHANGED <<segments, mutex, desired>>
  BY DEF EndService, Destroyed
<1>2. ~desired /\ current = 0 /\ mutex = "free"
  BY <1>1 DEF ServiceInv, WishFits
<1>3. \A t \in Task : task[t].step # "finish" /\ DOMAIN task[t] = {"step", "item"}
  BY <1>2 DEF ServiceInv, TasksFit, Task
<1>4. DOMAIN task' = Task /\ \A t \in Task : task'[t] = IF t = "early" THEN task[t] ELSE Idle
  BY <1>1, <1>3
<1>5. DOMAIN Idle = {"step", "item"} /\ Idle.step = "idle"
  BY DEF Idle
<1>6. TasksFit(task', mutex')
  BY <1>1, <1>2, <1>3, <1>4, <1>5 DEF TasksFit, Task
<1>7. /\ segments \in Seq(Status) /\ current \in 0..Len(segments)
      /\ \A n \in DOMAIN segments : segments[n] = "recording" => n = current
  BY DEF ServiceInv, HandFits
<1>8. DOMAIN timers' = {}
  BY <1>1
<1>9. HandFits(segments', current', rollover', timers', mutex', alive')
  BY <1>1, <1>2, <1>7, <1>8 DEF HandFits
<1>10. task'["reload"] = Idle /\ task'["stop"] = Idle /\ task'["early"] = task["early"]
  BY <1>4 DEF Task
<1>11. WishFits(task', current', mutex', alive', desired', location')
  BY <1>1, <1>2, <1>5, <1>10 DEF ServiceInv, WishFits
<1> QED
  BY <1>6, <1>9, <1>10, <1>11 DEF ServiceInv, EarlyRollIsDue

LEMMA ServiceKeeps ==
  ASSUME ServiceInv, [ServiceNext /\ Apart]_serviceVars
  PROVE  ServiceInv' /\ EarlyRollIsDue
<1>1. CASE UNCHANGED serviceVars
  BY <1>1 DEF serviceVars, ServiceInv, EarlyRollIsDue, HandFits, TasksFit, WishFits
<1>2. CASE \E n \in DOMAIN segments : Season(n)
  <2>1. UNCHANGED <<segments, current, mutex, timers, rollover, task, alive, desired, location>>
    BY <1>2 DEF Season, wish, senses
  <2> QED
    BY <2>1 DEF ServiceInv, EarlyRollIsDue
<1>3. CASE \E n \in DOMAIN timers : BoundaryComes(n)
  <2>1. /\ UNCHANGED <<segments, current, mutex, rollover, task, alive, desired, location>>
        /\ DOMAIN timers' = DOMAIN timers
    BY <1>3 DEF BoundaryComes, wish, senses
  <2> QED
    BY <2>1 DEF ServiceInv, EarlyRollIsDue, HandFits
<1>4. CASE \E n \in DOMAIN timers : Roll(n)
  BY <1>4, RollKeeps
<1>5. CASE RollNow
  <2> DEFINE r == [task["early"] EXCEPT !.step = "lock"]
  <2>1. /\ task["early"].step = "idle" /\ "early" \in Task
        /\ UNCHANGED <<segments, current, mutex, timers, rollover, alive, desired, location>>
    BY <1>5 DEF RollNow, wish, senses, Task
  <2>2. DOMAIN r = {"step", "item"} /\ r.step = "lock" /\ task' = [task EXCEPT !["early"] = r]
    BY <1>5 DEF RollNow, ServiceInv, TasksFit, Task
  <2> HIDE DEF r
  <2>3. TasksFit(task', mutex') /\ \A u \in Task \ {"early"} : task'[u] = task[u]
    BY <2>1, <2>2, TaskMoves
  <2>4. task'["stop"] = task["stop"] /\ task'["reload"] = task["reload"]
    BY <2>3 DEF Task
  <2> QED
    BY <2>1, <2>3, <2>4 DEF ServiceInv, EarlyRollIsDue, WishFits
<1>6. CASE PolicyChanges
  <2> DEFINE r == [task["reload"] EXCEPT !.step = "sent"]
  <2>1. /\ task["reload"].step = "idle" /\ "reload" \in Task /\ desired
        /\ UNCHANGED <<segments, current, mutex, timers, rollover, alive, desired, location>>
    BY <1>6 DEF PolicyChanges, wish, senses, Task
  <2>2. DOMAIN r = {"step", "item"} /\ r.step = "sent" /\ task' = [task EXCEPT !["reload"] = r]
    BY <1>6 DEF PolicyChanges, ServiceInv, TasksFit, Task
  <2> HIDE DEF r
  <2>3. TasksFit(task', mutex') /\ \A u \in Task \ {"reload"} : task'[u] = task[u]
    BY <2>1, <2>2, TaskMoves
  <2>4. task'["stop"] = task["stop"] /\ task'["early"] = task["early"]
    BY <2>3 DEF Task
  <2> QED
    BY <2>1, <2>3, <2>4 DEF ServiceInv, EarlyRollIsDue, WishFits
<1>7. CASE Classified
  <2>1. UNCHANGED <<segments, current, mutex, timers, rollover, task, alive, desired, location>>
    BY <1>7 DEF Classified, recorders, wish
  <2> QED
    BY <2>1 DEF ServiceInv, EarlyRollIsDue
<1>8. CASE Reading
  <2>1. /\ UNCHANGED <<segments, current, mutex, timers, rollover, task, alive, desired>>
        /\ location = "off" => location' = "off"
    BY <1>8 DEF Reading, recorders, wish
  <2> QED
    BY <2>1 DEF ServiceInv, EarlyRollIsDue, WishFits
<1>9. CASE StartCommand /\ Apart
  BY <1>9, StartKeeps
<1>10. CASE StopCommand /\ Apart
  BY <1>10, StopKeeps
<1>11. CASE ReloadCommand
  BY <1>11, ReloadKeeps
<1>12. CASE EndService
  BY <1>12, EndKeeps
<1>13. CASE RollLocked
  BY <1>13, LockedKeeps
<1>14. CASE \E t \in Task : StopAfterWait(t)
  BY <1>14, WaitedKeeps
<1>15. CASE \E t \in Task : FinishSegment(t)
  BY <1>15, FinishKeeps
<1> QED
  BY <1>1, <1>2, <1>3, <1>4, <1>5, <1>6, <1>7, <1>8, <1>9, <1>10, <1>11, <1>12, <1>13,
     <1>14, <1>15 DEF ServiceNext

LEMMA ServiceBegins == ServiceInit => ServiceInv
<1> SUFFICES ASSUME NEW s \in ServiceScenes, ServiceStart(s)
             PROVE  ServiceInv
  BY DEF ServiceInit
<1>1. /\ segments = << >> /\ current = 0 /\ rollover = 0 /\ mutex = "free"
      /\ timers = [n \in {} |-> "due"] /\ task = [t \in Task |-> Idle]
      /\ alive = FALSE /\ desired = FALSE /\ location = "off"
  BY DEF ServiceStart
<1>2. << >> \in Seq(Status) /\ Len(<< >>) = 0 /\ DOMAIN << >> = {}
  OBVIOUS
<1>3. DOMAIN timers = {}
  BY <1>1
<1>4. HandFits(segments, current, rollover, timers, mutex, alive)
  BY <1>1, <1>2, <1>3 DEF HandFits
<1>5. DOMAIN Idle = {"step", "item"} /\ Idle.step = "idle"
  BY DEF Idle
<1>6. DOMAIN task = Task /\ \A t \in Task : task[t] = Idle
  BY <1>1
<1> QED
  BY <1>1, <1>4, <1>5, <1>6 DEF ServiceInv, TasksFit, WishFits, Task

LEMMA ServiceHolds == ServiceInv => RecordersAreHeld
<1> SUFFICES ASSUME ServiceInv PROVE RecordersAreHeld
  OBVIOUS
<1>1. \A n \in RecorderRuns : n \in DOMAIN segments /\ n = current /\ n # 0
  BY DEF ServiceInv, HandFits, RecorderRuns
<1>2. \A n \in RecorderRuns : alive /\ DOMAIN timers \subseteq {n}
  BY <1>1 DEF ServiceInv, HandFits
<1>3. ~desired /\ task["stop"].step \in {"idle", "end"} => current = 0 /\ location = "off"
  BY DEF ServiceInv, WishFits
<1> QED
  BY <1>1, <1>2, <1>3 DEF RecordersAreHeld

THEOREM RecordersStay == ServiceSpec /\ [][Apart]_serviceVars => RecordingIsHeld
<1>1. ServiceInit => ServiceInv
  BY ServiceBegins
<1>2. ServiceInv /\ [ServiceNext /\ Apart]_serviceVars => ServiceInv'
  BY ServiceKeeps
<1>3. ServiceInv /\ ServiceInv' /\ [ServiceNext /\ Apart]_serviceVars =>
        RecordersAreHeld /\ RecordersAreHeld' /\ EarlyRollIsDue
  <2>1. ServiceInv' => RecordersAreHeld'
    BY ServiceHolds, PTL
  <2> QED
    BY <2>1, ServiceHolds, ServiceKeeps
<1> QED
  BY <1>1, <1>2, <1>3, PTL DEF ServiceSpec, RecordingIsHeld

-----------------------------------------------------------------------------
(* The tokens of the capture policy. *)

Tokens == [PolicyToken -> TokenState]
Field == {"op", "token", "edition", "read"}

\* Whoever is past the gate, and what he read there.
Inside(c) == gated[c].op # "none"
Registers(c) == gated[c].op \in {"issue", "revoke", "touch", "mirror"}

GateFits ==
  /\ DOMAIN gated = Caller /\ \A c \in Caller : DOMAIN gated[c] = Field
  /\ \A c, d \in Caller : Inside(c) /\ Inside(d) => c = d
  /\ \A c \in Caller : Registers(c) => gated[c].read = registry
  /\ \A c \in Caller : gated[c].op \in {"issue", "revoke"} => gated[c].token \in PolicyToken
  /\ \A c \in Caller : gated[c].op = "issue" => registry[gated[c].token] = "unknown"

PolicyInv ==
  /\ registry \in Tokens /\ mirror \in Tokens /\ owed \in BOOLEAN
  /\ GateFits
  /\ ~owed => mirror = registry

\* A step of the registry's own.
Revokes ==
  /\ \A t \in PolicyToken : registry[t] \in {"revoked", "pruned"} => registry'[t] # "live"
  /\ ~owed' => mirror' = registry'

\* A caller enters a free gate and is the only one inside.
LEMMA Entered ==
  ASSUME GateFits, NEW c \in Caller, NEW op, NEW t, EnterGate(c, op, t)
  PROVE  /\ DOMAIN gated' = Caller /\ \A d \in Caller : DOMAIN gated'[d] = Field
         /\ gated'[c].op = op /\ gated'[c].token = t /\ gated'[c].read = registry
         /\ \A d \in Caller \ {c} : gated'[d].op = "none"
<1> DEFINE g == [NotGated EXCEPT !.op = op, !.token = t, !.read = registry]
<1>1. DOMAIN g = Field /\ g.op = op /\ g.token = t /\ g.read = registry
  BY DEF NotGated, Field
<1>2. gated' = [gated EXCEPT ![c] = g] /\ \A d \in Caller : gated[d].op = "none"
  BY DEF EnterGate, Enter, GateFree
<1> HIDE DEF g
<1> QED
  BY <1>1, <1>2 DEF GateFits

LEMMA EnteredFits ==
  ASSUME GateFits, NEW c \in Caller, NEW op \in {"issue", "revoke", "touch"}, NEW t,
         EnterGate(c, op, t), UNCHANGED registry,
         op \in {"issue", "revoke"} => t \in PolicyToken,
         op = "issue" => registry[t] = "unknown"
  PROVE  GateFits'
<1>1. /\ DOMAIN gated' = Caller /\ \A d \in Caller : DOMAIN gated'[d] = Field
      /\ gated'[c].op = op /\ gated'[c].token = t /\ gated'[c].read = registry
      /\ \A d \in Caller \ {c} : gated'[d].op = "none"
  BY Entered
<1>2. \A d \in Caller : d = c \/ gated'[d].op = "none"
  BY <1>1
<1> QED
  BY <1>1, <1>2 DEF GateFits, Inside, Registers

\* One who leaves leaves it free.
LEMMA LeftFits ==
  ASSUME GateFits, NEW c \in Caller, Inside(c), gated' = [gated EXCEPT ![c] = NotGated],
         UNCHANGED registry
  PROVE  GateFits'
<1>1. DOMAIN NotGated = Field /\ NotGated.op = "none"
  BY DEF NotGated, Field
<1>2. /\ DOMAIN gated' = Caller /\ gated'[c] = NotGated
      /\ \A d \in Caller \ {c} : gated'[d] = gated[d] /\ gated[d].op = "none"
  BY DEF GateFits, Inside
<1>3. \A d \in Caller : gated'[d].op = "none" /\ DOMAIN gated'[d] = Field
  BY <1>1, <1>2 DEF GateFits
<1> QED
  BY <1>2, <1>3 DEF GateFits, Inside, Registers

\* What a write makes of the registry: nothing revoked or pruned comes alive.
LEMMA Written ==
  ASSUME PolicyInv, NEW c \in Caller, gated[c].op \in {"issue", "revoke", "touch"},
         NEW old \in SUBSET {t \in PolicyToken : gated[c].read[t] = "revoked"}
  PROVE  LET written == Pruned(Rewritten(gated[c]), old) IN
         /\ written \in Tokens
         /\ \A t \in PolicyToken :
              registry[t] \in {"revoked", "pruned"} => written[t] # "live"
<1> DEFINE r == Rewritten(gated[c])
<1>1. gated[c].read = registry /\ registry \in Tokens
  BY DEF PolicyInv, GateFits, Registers
<1>2. r \in Tokens /\ \A t \in PolicyToken : registry[t] \in {"revoked", "pruned"} => r[t] # "live"
  <2>1. CASE gated[c].op = "issue"
    <3>1. r = [registry EXCEPT ![gated[c].token] = "live"]
      BY <1>1, <2>1 DEF Rewritten
    <3>2. gated[c].token \in PolicyToken /\ registry[gated[c].token] = "unknown"
      BY <2>1 DEF PolicyInv, GateFits
    <3> QED
      BY <1>1, <3>1, <3>2 DEF Tokens, TokenState
  <2>2. CASE gated[c].op = "revoke"
    <3>1. r = [registry EXCEPT ![gated[c].token] = "revoked"]
      BY <1>1, <2>2 DEF Rewritten
    <3>2. gated[c].token \in PolicyToken
      BY <2>2 DEF PolicyInv, GateFits
    <3> QED
      BY <1>1, <3>1, <3>2 DEF Tokens, TokenState
  <2>3. CASE gated[c].op = "touch"
    <3>1. r = registry
      BY <1>1, <2>3 DEF Rewritten
    <3> QED
      BY <1>1, <3>1
  <2> QED
    BY <2>1, <2>2, <2>3
<1> HIDE DEF r
<1>3. Pruned(r, old) = [t \in PolicyToken |-> IF t \in old THEN "pruned" ELSE r[t]]
  BY DEF Pruned
<1>4. /\ Pruned(r, old) \in Tokens
      /\ \A t \in PolicyToken :
           registry[t] \in {"revoked", "pruned"} => Pruned(r, old)[t] # "live"
  BY <1>2, <1>3 DEF Tokens, TokenState
<1> QED
  BY <1>4 DEF r

\* Who is at the gate, and who writes the registry or its mirror.
LEMMA WhoRegisters ==
  ASSUME PolicyNext
  PROVE  \/ UNCHANGED <<registry, mirror, owed>> /\
            \/ UNCHANGED gated
            \/ IssueToken \/ RevokeToken \/ PutPolicy \/ KeepPolicy \/ ServerRestarts
            \/ \E r \in Refresher : VerifyToken(r)
         \/ \E c \in Caller : GateStep(c)
<1>1. CASE \E r \in Refresher : AskPolicy(r) \/ FetchFails(r)
  BY <1>1 DEF AskPolicy, FetchFails, objects, store
<1>2. CASE \E r \in Refresher : FetchStep(r)
  BY <1>2 DEF FetchStep, VerifyToken, Touched, HeadPolicy, GetPolicy, SeedPolicy, EdgeVerifies,
              EdgeServes, FileAnswer, objects, store
<1>3. CASE IssueToken \/ RevokeToken \/ PutPolicy \/ KeepPolicy \/ ServerRestarts
  BY <1>3 DEF IssueToken, RevokeToken, PutPolicy, KeepPolicy, ServerRestarts, objects, store
<1>4. CASE ScriptReads \/ ScriptSeeds \/ ScriptWrites \/ SaveUrl \/ StartCapture \/ ReloadPolicy
  BY <1>4 DEF ScriptReads, ScriptSeeds, ScriptWrites, SaveUrl, StartCapture, ReloadPolicy,
              objects, store
<1> QED
  BY <1>1, <1>2, <1>3, <1>4 DEF PolicyNext

LEMMA PolicyStep ==
  ASSUME PolicyInv, PolicyNext
  PROVE  PolicyInv' /\ Revokes
<1>1. /\ registry \in Tokens /\ mirror \in Tokens /\ owed \in BOOLEAN
      /\ GateFits /\ (~owed => mirror = registry)
  BY DEF PolicyInv
<1>2. ASSUME UNCHANGED <<registry, mirror, owed>>, GateFits'
      PROVE  PolicyInv' /\ Revokes
  BY <1>1, <1>2 DEF PolicyInv, Revokes
<1>3. ASSUME UNCHANGED <<registry, mirror, owed>>, UNCHANGED gated PROVE GateFits'
  BY <1>1, <1>3 DEF GateFits, Inside, Registers
<1>4. ASSUME UNCHANGED registry, IssueToken PROVE GateFits'
  BY <1>1, <1>4, EnteredFits DEF IssueToken, Caller
<1>5. ASSUME UNCHANGED registry, RevokeToken PROVE GateFits'
  BY <1>1, <1>5, EnteredFits DEF RevokeToken, Caller
<1>6. ASSUME UNCHANGED registry, PutPolicy PROVE GateFits'
  <2>1. /\ gated' = [gated EXCEPT !["admin"].op = "policy", !["admin"].edition = NextEdition]
        /\ \A d \in Caller : gated[d].op = "none"
    BY <1>6 DEF PutPolicy, GateFree
  <2>2. "admin" \in Caller
    BY DEF Caller
  <2>3. /\ DOMAIN gated' = Caller /\ gated'["admin"].op = "policy" /\ DOMAIN gated'["admin"] = Field
        /\ \A d \in Caller \ {"admin"} : gated'[d] = gated[d]
    BY <1>1, <2>1, <2>2 DEF GateFits, Field
  <2>4. \A d \in Caller : d = "admin" \/ gated'[d].op = "none"
    BY <2>1, <2>3
  <2> QED
    BY <1>1, <2>3, <2>4 DEF GateFits, Inside, Registers
<1>7. ASSUME UNCHANGED registry, KeepPolicy PROVE GateFits'
  <2>1. "admin" \in Caller /\ Inside("admin") /\ gated' = [gated EXCEPT !["admin"] = NotGated]
    BY <1>7 DEF KeepPolicy, Caller, Inside
  <2> QED
    BY <1>1, <1>7, <2>1, LeftFits
<1>8. ASSUME ServerRestarts PROVE GateFits'
  <2>1. DOMAIN NotGated = Field /\ NotGated.op = "none"
    BY DEF NotGated, Field
  <2>2. gated' = [c \in Caller |-> NotGated]
    BY <1>8 DEF ServerRestarts
  <2>3. \A d \in Caller : gated'[d].op = "none" /\ DOMAIN gated'[d] = Field
    BY <2>1, <2>2
  <2> QED
    BY <2>2, <2>3 DEF GateFits, Inside, Registers
<1>9. ASSUME UNCHANGED <<registry, mirror, owed>>, NEW r \in Refresher, VerifyToken(r)
      PROVE  GateFits'
  <2>1. UNCHANGED gated \/ EnterGate(r, "touch", refresh[r].token)
    BY <1>9 DEF VerifyToken
  <2>2. r \in Caller
    BY DEF Caller
  <2> QED
    BY <1>1, <1>3, <1>9, <2>1, <2>2, EnteredFits
<1>10. ASSUME NEW c \in Caller, WriteRegistry(c) PROVE PolicyInv' /\ Revokes
  <2>1. PICK old \in SUBSET {t \in PolicyToken : gated[c].read[t] = "revoked"} :
          LET written == Pruned(Rewritten(gated[c]), old) IN
          /\ registry' = written
          /\ gated' = [gated EXCEPT ![c].op = "mirror", ![c].read = written]
    BY <1>10 DEF WriteRegistry
  <2> DEFINE w == Pruned(Rewritten(gated[c]), old)
  <2>2. /\ w \in Tokens /\ registry' = w
        /\ \A t \in PolicyToken : registry[t] \in {"revoked", "pruned"} => w[t] # "live"
    BY <1>10, <2>1, Written DEF WriteRegistry
  <2>3. gated' = [gated EXCEPT ![c].op = "mirror", ![c].read = w]
    BY <2>1
  <2>4. /\ UNCHANGED mirror /\ owed' = TRUE /\ Inside(c)
        /\ \A d \in Caller \ {c} : gated[d].op = "none"
    BY <1>1, <1>10 DEF WriteRegistry, objects, GateFits, Inside
  <2> HIDE DEF w
  <2>5. /\ DOMAIN gated' = Caller /\ DOMAIN gated'[c] = Field
        /\ gated'[c].op = "mirror" /\ gated'[c].read = w
        /\ \A d \in Caller \ {c} : gated'[d] = gated[d]
    BY <1>1, <2>3 DEF GateFits, Field
  <2>6. \A d \in Caller : d = c \/ gated'[d].op = "none"
    BY <2>4, <2>5
  <2>7. GateFits'
    BY <1>1, <2>2, <2>5, <2>6 DEF GateFits, Inside, Registers
  <2> QED
    BY <1>1, <2>2, <2>4, <2>7 DEF PolicyInv, Revokes
<1>11. ASSUME NEW c \in Caller, MirrorRegistry(c) PROVE PolicyInv' /\ Revokes
  <2>1. /\ gated[c].op = "mirror" /\ gated' = [gated EXCEPT ![c] = NotGated] /\ UNCHANGED registry
        /\ (mirror' = gated[c].read /\ owed' = FALSE) \/ UNCHANGED <<mirror, owed>>
    BY <1>11 DEF MirrorRegistry
  <2>2. gated[c].read = registry /\ Inside(c)
    BY <1>1, <2>1 DEF GateFits, Registers, Inside
  <2>3. GateFits'
    BY <1>1, <2>1, <2>2, LeftFits
  <2> QED
    BY <1>1, <2>1, <2>2, <2>3 DEF PolicyInv, Revokes
<1> QED
  BY <1>2, <1>3, <1>4, <1>5, <1>6, <1>7, <1>8, <1>9, <1>10, <1>11, WhoRegisters DEF GateStep

LEMMA PolicyInvAtStart ==
  ASSUME NEW s \in PolicyScenes, PolicyStart(s)
  PROVE  PolicyInv
<1>1. DOMAIN NotGated = Field /\ NotGated.op = "none"
  BY DEF NotGated, Field
<1>2. gated = [c \in Caller |-> NotGated]
  BY DEF PolicyStart
<1>3. \A d \in Caller : gated[d].op = "none" /\ DOMAIN gated[d] = Field
  BY <1>1, <1>2
<1>4. GateFits
  BY <1>2, <1>3 DEF GateFits, Inside, Registers
<1>5. registry \in Tokens /\ mirror = registry /\ owed = FALSE
  BY PolicyScenesAssumption DEF PolicyStart, Tokens
<1> QED
  BY <1>4, <1>5 DEF PolicyInv

THEOREM RevokedStaysRevoked == PolicySpec => RevocationHolds
<1>1. PolicyInit => PolicyInv
  BY PolicyInvAtStart DEF PolicyInit
<1>2. PolicyInv /\ [PolicyNext]_policyVars => PolicyInv' /\ [Revokes]_policyVars
  <2>1. CASE UNCHANGED policyVars
    BY <2>1 DEF PolicyInv, GateFits, Inside, Registers, policyVars
  <2> QED
    BY <2>1, PolicyStep
<1>3. PolicySpec => [][Revokes]_policyVars
  BY <1>1, <1>2, PTL DEF PolicySpec
<1> QED
  BY <1>3 DEF RevocationHolds, Revokes
=============================================================================
