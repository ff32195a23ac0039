---------------------------- MODULE ServerStore ----------------------------
(***************************************************************************)
(* The server's artifact store (lib/ArtifactStore, lib/Files): artifacts   *)
(* as files of a local tree, or as objects of a bucket that are listed by  *)
(* an index beside it; and the migration from one to the other             *)
(* (lib/MigrateArtifacts).                                                 *)
(*                                                                         *)
(* A content is the set of the parts there are of one version, so that a   *)
(* torn or mixed artifact can be told from a whole one.  Writers are the   *)
(* callers of the store: each performs its operations one after the other, *)
(* several run at once, any call may fail and the process may die.         *)
(***************************************************************************)
EXTENDS Integers, Sequences, FiniteSets

CONSTANTS
  Version,      \* version -> its size: how many parts it is written in
  StoreScenes,  \* what a behaviour may start with (see StoreStart)
  SampleSize    \* artifacts a migration verifies

ASSUME StoreAssumption ==
  SampleSize \in Nat /\ \A v \in DOMAIN Version : Version[v] \in Nat \ {0}

Whole(v) == {<<v, i>> : i \in 1..Version[v]}

Operation(keys) ==
  [op : {"put", "delete"}, key : keys, version : DOMAIN Version \cup {"none"},
   where : {"local", "bucket"}]

\* What the writer does in the scene, where everybody does it, and the versions
\* there may be of a key.
OpsOf(s, w) == {s.ops[w][i] : i \in DOMAIN s.ops[w]}
AllIn(s, where) == \A w \in DOMAIN s.ops : \A o \in OpsOf(s, w) : o.where = where
VersionsOf(s, k) ==
  {v \in DOMAIN Version :
     \/ s.disk[k] = Whole(v)
     \/ \E w \in DOMAIN s.ops : \E o \in OpsOf(s, w) :
          o.op = "put" /\ o.key = k /\ o.version = v}

\* A process has one store, and the migration runs where it is the local tree.
\* An object that is deleted is nobody else's to write meanwhile; and versions
\* of a key that is migrated differ in size (MigrateArtifacts.ts 9-15: keys are
\* content addressed, and the one family that is not grows monotonically).
ASSUME StoreScenesAssumption ==
  \A s \in StoreScenes :
    /\ \A k \in DOMAIN s.disk : s.disk[k] = {} \/ \E v \in DOMAIN Version : s.disk[k] = Whole(v)
    /\ \A w \in DOMAIN s.ops :
         /\ s.ops[w] \in Seq(Operation(DOMAIN s.disk))
         /\ \A o \in OpsOf(s, w) : o.op = "put" => o.version \in DOMAIN Version
    /\ \/ s.move = "idle" /\ AllIn(s, "bucket")
       \/ s.move \in {"idle", "start"} /\ AllIn(s, "local")
    /\ \A w, x \in DOMAIN s.ops : \A o \in OpsOf(s, w), q \in OpsOf(s, x) :
         o.op = "delete" /\ o.where = "bucket" /\ o.key = q.key => w = x
    /\ s.move # "idle" => \A k \in DOMAIN s.disk : \A u, v \in VersionsOf(s, k) :
                            Version[u] = Version[v] => u = v

VARIABLES
  disk,     \* the local tree: key -> the parts of its file, {} if none
  cloud,    \* the bucket: key -> the parts of its object, {} if none
  listed,   \* the keys the index holds
  writer,   \* writer -> the operations it has before it, and its scratch
  vouched,  \* key -> what the last call that returned for it made of it, and where
  move,     \* the migration: where it is, what it saw and what it reports
  upset     \* the bounds: calls that fail, deaths

storeVars == <<disk, cloud, listed, writer, vouched, move, upset>>

Keys == DOMAIN disk
SizeOf(content) == Cardinality(content)

-----------------------------------------------------------------------------
(* One operation of a writer. *)

Busy(w) == writer[w].ops # <<>>
Op(w) == Head(writer[w].ops)
Scratch(w) == writer[w].scratch

\* The operation returns: the key is as it left it.
Returns(w) ==
  /\ writer' = [writer EXCEPT ![w] = [ops |-> Tail(@.ops), scratch |-> {}, at |-> "start"]]
  /\ vouched' = [vouched EXCEPT ![Op(w).key] = [op |-> Op(w).op, where |-> Op(w).where]]

To(w, step) == writer' = [writer EXCEPT ![w].at = step]

\* Nothing is known of a key that is being worked on, but that a deletion has
\* got as far as the object.
Touch(w) == vouched' = [vouched EXCEPT ![Op(w).key].op =
  IF Op(w).op = "delete" \/ @ = "deleting" THEN "deleting" ELSE "unknown"]

\* A part of the version goes to the scratch: a temporary file beside the
\* artifact, or the parts of a multipart upload.
WritePart(w) ==
  /\ Busy(w) /\ writer[w].at = "start" /\ Op(w).op = "put"
  /\ SizeOf(Scratch(w)) < Version[Op(w).version]
  /\ writer' = [writer EXCEPT ![w].scratch =
       @ \cup {<<Op(w).version, SizeOf(@) + 1>>}]
  /\ Touch(w)
  /\ UNCHANGED <<disk, cloud, listed>>

Written(w) ==
  /\ Busy(w) /\ writer[w].at = "start" /\ Op(w).op = "put"
  /\ SizeOf(Scratch(w)) = Version[Op(w).version]

\* writeAtomic: the rename puts the whole file in the artifact's place.
Rename(w) ==
  /\ Written(w) /\ Op(w).where = "local"
  /\ disk' = [disk EXCEPT ![Op(w).key] = Scratch(w)]
  /\ Returns(w)
  /\ UNCHANGED <<cloud, listed>>

\* Seeded fault: the object is registered before it is there.
RegisterFirst(w) ==
  /\ Written(w) /\ Op(w).where = "bucket"
  /\ IF Op(w).key \in listed
     THEN cloud' = [cloud EXCEPT ![Op(w).key] = Scratch(w)] /\ Returns(w) /\ UNCHANGED listed
     ELSE listed' = listed \cup {Op(w).key} /\ UNCHANGED <<cloud, writer, vouched>>
  /\ UNCHANGED disk

\* A plain put, or the upload's completion: the object is replaced at once.
PutObject(w) ==
  /\ Written(w) /\ Op(w).where = "bucket"
  /\ cloud' = [cloud EXCEPT ![Op(w).key] = Scratch(w)]
  /\ To(w, "register")
  /\ UNCHANGED <<disk, listed, vouched>>

\* A write the index cannot see must not pretend to have succeeded.
Register(w) ==
  /\ Busy(w) /\ writer[w].at = "register"
  /\ listed' = listed \cup {Op(w).key}
  /\ Returns(w)
  /\ UNCHANGED <<disk, cloud>>

\* Deleting an absent key succeeds.
Delete(w) ==
  /\ Busy(w) /\ writer[w].at = "start" /\ Op(w).op = "delete"
  /\ IF Op(w).where = "local"
     THEN /\ disk' = [disk EXCEPT ![Op(w).key] = {}]
          /\ Returns(w) /\ UNCHANGED cloud
     ELSE /\ cloud' = [cloud EXCEPT ![Op(w).key] = {}]
          /\ To(w, "unregister") /\ Touch(w) /\ UNCHANGED disk
  /\ UNCHANGED listed

Unregister(w) ==
  /\ Busy(w) /\ writer[w].at = "unregister"
  /\ listed' = listed \ {Op(w).key}
  /\ Returns(w)
  /\ UNCHANGED <<disk, cloud>>

\* A call fails: the temporary file is removed, the upload aborted, and the
\* caller turns to its next operation, or to this one again.
OperationFails(w) ==
  /\ Busy(w) /\ upset.fails > 0
  /\ upset' = [upset EXCEPT !.fails = @ - 1]
  /\ \E again \in BOOLEAN :
       writer' = [writer EXCEPT ![w] =
         [ops |-> IF again THEN @.ops ELSE Tail(@.ops), scratch |-> {}, at |-> "start"]]
  /\ Touch(w)
  /\ UNCHANGED <<disk, cloud, listed, move>>

WriterStep(w) ==
  /\ \/ WritePart(w) \/ Rename(w) \/ PutObject(w) \/ Register(w)
     \/ Delete(w) \/ Unregister(w)
  /\ UNCHANGED <<move, upset>>

-----------------------------------------------------------------------------
(* The migration: every key of the tree, then a sample. *)

AtMove(step) == move.at = step

\* local.list leaves temporary files out.
ListTree ==
  /\ AtMove("start")
  /\ LET there == {k \in Keys : disk[k] # {}}
     IN move' = [at |-> "next", todo |-> there, scanned |-> there, key |-> "none",
                 bytes |-> {}, worked |-> [k \in Keys |-> {}],
                 failures |-> {}, sampled |-> {}, mismatches |-> {}]
  /\ UNCHANGED <<cloud, listed>>

\* What is already there with the local size is only registered anew: an
\* earlier run may have died in between.
Compare ==
  /\ AtMove("next")
  /\ \E k \in move.todo :
       LET step == IF disk[k] = {} THEN "vanished"
                   ELSE IF SizeOf(cloud[k]) = SizeOf(disk[k]) THEN "refresh" ELSE "upload"
       IN move' = [move EXCEPT !.key = k, !.todo = @ \ {k}, !.bytes = disk[k],
            !.at = IF step = "vanished" THEN "next" ELSE step,
            !.failures = IF step = "vanished" THEN @ \cup {k} ELSE @]
  /\ UNCHANGED <<cloud, listed>>

Moved == [move EXCEPT !.at = "next", !.worked[move.key] = move.bytes]

Refresh ==
  /\ AtMove("refresh")
  /\ listed' = listed \cup {move.key}
  /\ move' = Moved
  /\ UNCHANGED cloud

\* bucket.putBytes or putFile: the object, then its registration.
CopyUp ==
  /\ AtMove("upload")
  /\ IF disk[move.key] = {}
     THEN move' = [move EXCEPT !.at = "next", !.failures = @ \cup {move.key}] /\ UNCHANGED cloud
     ELSE /\ cloud' = [cloud EXCEPT ![move.key] = disk[move.key]]
          /\ move' = [move EXCEPT !.at = "refresh", !.bytes = disk[move.key]]
  /\ UNCHANGED listed

\* Each of the sample is fetched from both and compared.
Verify ==
  /\ AtMove("next") /\ move.todo = {}
  /\ Cardinality(move.sampled) < SampleSize /\ move.sampled # move.scanned
  /\ \E k \in move.scanned \ move.sampled :
       move' = [move EXCEPT !.sampled = @ \cup {k},
                  !.mismatches = IF disk[k] # {} /\ cloud[k] = disk[k] THEN @ ELSE @ \cup {k}]
  /\ UNCHANGED <<cloud, listed>>

\* The summary; an operator runs it again, and after the last run it is over.
Summarize ==
  /\ AtMove("next") /\ move.todo = {}
  /\ Cardinality(move.sampled) = SampleSize \/ move.sampled = move.scanned
  /\ move' = [move EXCEPT !.at = "done"]
  /\ UNCHANGED <<cloud, listed>>

RunAgain ==
  /\ AtMove("done") /\ move.failures \cup move.mismatches # {}
  /\ move' = [move EXCEPT !.at = "start"]
  /\ UNCHANGED <<cloud, listed>>

\* A key that fails is reported, and the run goes on.
MoveFails ==
  /\ move.at \in {"refresh", "upload"} /\ upset.fails > 0
  /\ upset' = [upset EXCEPT !.fails = @ - 1]
  /\ move' = [move EXCEPT !.at = "next", !.failures = @ \cup {move.key}]
  /\ UNCHANGED <<disk, cloud, listed, writer, vouched>>

MoveStep ==
  /\ ListTree \/ Compare \/ Refresh \/ CopyUp \/ Verify \/ Summarize \/ RunAgain
  /\ UNCHANGED <<disk, writer, vouched, upset>>

\* The process dies: writers forget what they had in hand, and their scratch
\* is in nobody's way; a migration that was under way starts over.
ProcessEnds ==
  /\ upset.deaths > 0
  /\ upset' = [upset EXCEPT !.deaths = @ - 1]
  /\ writer' = [w \in DOMAIN writer |->
       [ops |-> IF Busy(w) THEN Tail(writer[w].ops) ELSE <<>>, scratch |-> {}, at |-> "start"]]
  /\ UNCHANGED vouched
  /\ move' = IF move.at \in {"idle", "done"} THEN move ELSE [move EXCEPT !.at = "start"]
  /\ UNCHANGED <<disk, cloud, listed>>

-----------------------------------------------------------------------------
StoreStart(s) ==
  /\ disk = s.disk
  /\ cloud = [k \in DOMAIN s.disk |-> {}]
  /\ listed = {}
  /\ writer = [w \in DOMAIN s.ops |-> [ops |-> s.ops[w], scratch |-> {}, at |-> "start"]]
  /\ vouched = [k \in DOMAIN s.disk |-> [op |-> "unknown", where |-> "local"]]
  /\ move = [at |-> s.move, todo |-> {}, scanned |-> {}, key |-> "none", bytes |-> {},
             worked |-> [k \in DOMAIN s.disk |-> {}], failures |-> {}, sampled |-> {},
             mismatches |-> {}]
  /\ upset = s.upset

StoreNext ==
  \/ \E w \in DOMAIN writer : WriterStep(w) \/ OperationFails(w)
  \/ MoveStep
  \/ MoveFails
  \/ ProcessEnds

StoreFairness == WF_storeVars(MoveStep)

StoreSpec == (\E s \in StoreScenes : StoreStart(s)) /\ [][StoreNext]_storeVars /\ StoreFairness

-----------------------------------------------------------------------------
(* Properties. *)

StoreTypeOK ==
  /\ listed \subseteq Keys
  /\ \A k \in Keys : vouched[k].op \in {"unknown", "put", "delete", "deleting"}
  /\ move.scanned \subseteq Keys /\ move.failures \subseteq move.scanned

IsStored(k, where) ==
  IF where = "local" THEN disk[k] # {} ELSE cloud[k] # {} /\ k \in listed

IsMissing(k, where) ==
  IF where = "local" THEN disk[k] = {} ELSE cloud[k] = {} /\ k \notin listed

IsWhole(content) == content = {} \/ \E v \in DOMAIN Version : content = Whole(v)

\* Readers never see a part of an artifact or a mixture of two
\* (ArtifactStore.ts 133-138), the index lists nothing that was not written
\* (608-616), and what a put or a delete returned is so: however writers
\* overlap, calls fail and processes die.
StoreIsHonest ==
  \A k \in Keys :
    /\ IsWhole(disk[k]) /\ IsWhole(cloud[k])
    /\ k \in listed => cloud[k] # {} \/ vouched[k].op = "deleting"
    /\ vouched[k].op = "put" => IsStored(k, vouched[k].where)
    /\ vouched[k].op = "delete" => IsMissing(k, vouched[k].where)

\* A migration that reports neither a failure nor a mismatch has every
\* artifact it scanned in the bucket, whole as it read it, and listed
\* (MigrateArtifacts.ts 6-16), whatever earlier runs left half done.
MigratedIsWhole ==
  AtMove("done") /\ move.failures \cup move.mismatches = {} =>
    \A k \in move.scanned :
      /\ k \in listed
      /\ cloud[k] = move.worked[k]

\* The store and the migration into it.
StoreIsSound == StoreIsHonest /\ MigratedIsWhole
=============================================================================
