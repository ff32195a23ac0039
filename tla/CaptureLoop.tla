----------------------------- MODULE CaptureLoop -----------------------------
(***************************************************************************)
(* The capture loop's live pass (cloudflare/src/capture.ts,                *)
(* runCaptureLivePass), driven by the minutely cron of                     *)
(* cloudflare/src/worker.ts.                                               *)
(*                                                                         *)
(* A phone uploads objects to the source bucket.  A pass lists them,       *)
(* resolves each item's ingest receipt, then performs the unreceipted      *)
(* items newest first.  Each call to the bucket or to the index is one     *)
(* step, so a failed call, a crash of the isolate, and a second pass (the  *)
(* cron fires whether or not the last pass has ended) can fall between     *)
(* any two of them.                                                        *)
(*                                                                         *)
(* Abstractions.  A source object's `modified` stamp stands for both its   *)
(* lastModified and its etag, so an item <<object, stamp>> is one receipt  *)
(* identity.  Payloads are classified by constant sets (Unparsable,        *)
(* Rejected, ...) instead of being parsed.  GPS inbox posts of one fix are *)
(* one key: Gps.ts keeps one row per (source, ts, lat, lon).               *)
(***************************************************************************)
EXTENDS ArtifactLedger, Integers, FiniteSets

CONSTANTS
  Audio, Partial, Final, Event,  \* source objects, by kind
  Unparsable,     \* objects whose payload is not JSON
  Rejected,       \* objects whose payload fails validation
  Oversized,      \* audio past MAX_BUFFERED_BYTES
  Grandfathered,  \* audio with a transcript under its pre-content-hash id
  Capture, CaptureOf,     \* content hash of an audio object or a final
  NoSegment, SegmentOf,   \* the live partial of the segment an audio seals
  Device, DeviceOf,       \* an event's device
  Fixes, FixAt, FixSeq,   \* events that are usable location fixes; their order
  Pass,           \* passes that may run
  PerSourceLimit, \* items one pass performs per source
  MaxUploads,     \* bound: uploads in a behaviour
  MaxFaults,      \* bound: failed calls and crashes in a behaviour
  NoItem, NoDoc

Object == Audio \cup Partial \cup Final \cup Event
Source == {"capture-bucket", "local-transcripts", "device-events"}

ASSUME ObjectAssumption ==
  /\ Audio \cap (Partial \cup Final \cup Event) = {}
  /\ Partial \cap (Final \cup Event) = {}
  /\ Final \cap Event = {}
  /\ Fixes \subseteq Event \ (Unparsable \cup Rejected)
  /\ Grandfathered \subseteq Audio \ Oversized
  /\ Audio \cap (Unparsable \cup Rejected) = {}
  /\ NoSegment \notin Partial

ASSUME MappingAssumption ==
  /\ CaptureOf \in [Audio \cup Final -> Capture]
  /\ SegmentOf \in [Audio -> Partial \cup {NoSegment}]
  /\ DeviceOf \in [Event -> Device]
  /\ FixAt \in [Event -> Nat]
  /\ FixSeq \in [Event -> Nat]

ASSUME BoundAssumption ==
  /\ PerSourceLimit \in Nat \ {0}
  /\ MaxUploads \in Nat
  /\ MaxFaults \in Nat

VARIABLES
  clock,     \* stamp of the last upload
  modified,  \* object -> stamp of its last upload, 0 when not uploaded
  horizon,   \* stamps up to here have left the scan window
  pass,      \* the state of each pass
  faults     \* failed calls and crashes so far

sourceVars == <<clock, modified, horizon>>
vars == <<ledgerVars, sourceVars, pass, faults>>

-----------------------------------------------------------------------------
(* Artifact keys and the documents stored under them. *)

BlobKey(a)       == <<"blob", a>>
ProvenanceKey(c) == <<"provenance", c>>
ReceiptKey(o, t) == <<"receipt", o, t>>
LiveKey(s)       == <<"live", s>>
PromotedKey(s)   == <<"promoted", s>>
FirstLookKey(c)  == <<"firstlook", c>>
InboxKey(e)      == <<"inbox", e>>
LatestKey(d)     == <<"latest", d>>

SourceOf(o) ==
  IF o \in Audio THEN "capture-bucket"
  ELSE IF o \in Event THEN "device-events" ELSE "local-transcripts"

\* The capture id a receipt records: "" (skip) for partials and for payloads
\* that fail validation, the old id for grandfathered audio.
ReceiptDoc(o) ==
  IF o \in Partial \cup Rejected THEN "skip"
  ELSE IF o \in Grandfathered THEN "legacy"
  ELSE IF o \in Event THEN o ELSE CaptureOf[o]

\* The two authors of a first-look transcript.
PromotedText(t) == [by |-> "promotion", stamp |-> t]
FinalText(o)    == [by |-> "final", stamp |-> 0]

\* fixWins: newer by the event's own timestamp, ties by sequence.
FixWins(e, f) ==
  \/ FixAt[e] > FixAt[f]
  \/ FixAt[e] = FixAt[f] /\ FixSeq[e] > FixSeq[f]

\* noteFix: the batch's newest fix per device.
NoteFix(noted, e) ==
  IF \E f \in noted : DeviceOf[f] = DeviceOf[e] /\ ~FixWins(e, f)
  THEN noted
  ELSE {f \in noted : DeviceOf[f] # DeviceOf[e]} \cup {e}

-----------------------------------------------------------------------------
(* A pass: where it is, what is left of its batch, the item in hand. *)

Label ==
  {"idle", "list", "scan", "pick", "hash", "blob", "sightings", "provenance",
   "receipt", "seal", "adopt", "promote", "retire", "mark", "partial",
   "raced", "provisional", "final", "firstlook", "event", "inbox", "reduce",
   "believe"}

\* Labels inside one item's perform, whose failure costs only that item.
ItemLabel == Label \ {"idle", "list", "scan", "pick", "reduce", "believe"}

IdlePass ==
  [at |-> "idle", landed |-> FALSE, unscanned |-> {}, checks |-> {},
   item |-> NoItem, doc |-> NoDoc,
   done |-> [s \in Source |-> 0], noted |-> {}]

At(p, l) == pass[p].at = l
Item(p)  == pass[p].item.o

Move(p, l) == [pass[p] EXCEPT !.at = l, !.landed = FALSE]

\* The item in hand is over: by an error, or performed and counted.
Settle(p) == [Move(p, "pick") EXCEPT !.item = NoItem, !.doc = NoDoc]
Finish(p) == [Settle(p) EXCEPT !.done[SourceOf(Item(p))] = @ + 1]

\* The pass goes on to label l with document d in hand, touching no artifact.
Carry(p, l, d) ==
  /\ pass' = [pass EXCEPT ![p] = [Move(p, l) EXCEPT !.doc = d]]
  /\ UNCHANGED <<ledgerVars, sourceVars, faults>>

Goto(p, l) == Carry(p, l, pass[p].doc)

\* ledger.writeText / writeBlob at label l: the bucket, then the index, then
\* on as r.
Write(p, l, k, d, r) ==
  /\ At(p, l)
  /\ \/ /\ ~pass[p].landed
        /\ Put(k, d)
        /\ pass' = [pass EXCEPT ![p].landed = TRUE]
        /\ UNCHANGED index
     \/ /\ pass[p].landed
        /\ Register(k)
        /\ pass' = [pass EXCEPT ![p] = r]
        /\ UNCHANGED store
  /\ UNCHANGED <<sourceVars, faults>>

\* ledger.remove at label l.
Remove(p, l, k, r) ==
  /\ At(p, l)
  /\ \/ /\ ~pass[p].landed
        /\ Delete(k)
        /\ pass' = [pass EXCEPT ![p].landed = TRUE]
        /\ UNCHANGED index
     \/ /\ pass[p].landed
        /\ Unregister(k)
        /\ pass' = [pass EXCEPT ![p] = r]
        /\ UNCHANGED store
  /\ UNCHANGED <<sourceVars, faults>>

-----------------------------------------------------------------------------
(* The scan and the batch. *)

\* Seeded fault: the listing keeps only the newest of each source.
ListedCapped(to) ==
  {o \in Object : /\ modified[o] \in (horizon + 1)..to
                  /\ Cardinality({x \in Object : SourceOf(x) = SourceOf(o)
                          /\ modified[x] > modified[o]}) < PerSourceLimit}

\* The listing as it is now, cut to the scan window that ends at `to`.
Listed(to) == {o \in Object : modified[o] \in (horizon + 1)..to}

\* The cron fires: the window ends at its scheduled time.
Begin(p) ==
  /\ At(p, "idle")
  /\ pass' = [pass EXCEPT ![p] =
                 [IdlePass EXCEPT !.at = "list", !.doc = clock]]
  /\ UNCHANGED <<ledgerVars, sourceVars, faults>>

\* The bucket is listed later: what was overwritten since is not in the window.
List(p) ==
  /\ At(p, "list")
  /\ LET batch == {[o |-> o, t |-> modified[o]] : o \in Listed(pass[p].doc)}
     IN pass' = [pass EXCEPT ![p] = [IdlePass EXCEPT !.at = "scan",
                                       !.unscanned = batch, !.checks = batch]]
  /\ UNCHANGED <<ledgerVars, sourceVars, faults>>

\* findReceipt for one item of the batch.  A failed read leaves the item in
\* the batch, as an unreceipted one.
Scanned(p, it, receipted) ==
  pass' = [pass EXCEPT ![p].unscanned = @ \ {it},
                       ![p].checks = IF receipted THEN @ \ {it} ELSE @]

Scan(p) ==
  /\ At(p, "scan")
  /\ \E it \in pass[p].unscanned :
       \/ /\ Scanned(p, it, Has(ReceiptKey(it.o, it.t)))
          /\ UNCHANGED faults
       \/ /\ faults < MaxFaults
          /\ faults' = faults + 1
          /\ Scanned(p, it, FALSE)
  /\ UNCHANGED <<ledgerVars, sourceVars>>

ScanEnd(p) ==
  /\ At(p, "scan")
  /\ pass[p].unscanned = {}
  /\ Goto(p, "pick")

\* Seeded fault: the cap is off by one.
EligibleOneMore(p) ==
  {it \in pass[p].checks : pass[p].done[SourceOf(it.o)] <= PerSourceLimit}

\* The items whose source is still under its cap; the others are passed over.
Eligible(p) ==
  {it \in pass[p].checks : pass[p].done[SourceOf(it.o)] < PerSourceLimit}

Newest(items) == {it \in items : \A other \in items : other.t <= it.t}

EntryLabel(o) ==
  IF o \in Audio THEN "hash"
  ELSE IF o \in Partial THEN "partial"
  ELSE IF o \in Final THEN "final" ELSE "event"

Take(p) ==
  /\ At(p, "pick")
  /\ \E it \in Newest(Eligible(p)) :
       pass' = [pass EXCEPT ![p] =
                  [Move(p, EntryLabel(it.o)) EXCEPT !.item = it,
                     !.doc = NoDoc, !.checks = @ \ {it}]]
  /\ UNCHANGED <<ledgerVars, sourceVars, faults>>

BatchEnd(p) ==
  /\ At(p, "pick")
  /\ Eligible(p) = {}
  /\ Goto(p, "reduce")

\* A payload that is not JSON, or audio past the buffer cap: the item fails,
\* the pass moves on without a receipt.
Drop(p) ==
  /\ \/ At(p, "hash") /\ Item(p) \in Oversized
     \/ pass[p].at \in {"partial", "final", "event"} /\ Item(p) \in Unparsable
  /\ pass' = [pass EXCEPT ![p] = Settle(p)]
  /\ UNCHANGED <<ledgerVars, sourceVars, faults>>

\* Every handler ends its artifacts with the receipt; audio then goes on to
\* promote the segment's provisional.
WriteReceipt(p) ==
  LET o == Item(p)
      sealing == o \in Audio \ Grandfathered /\ SegmentOf[o] # NoSegment
  IN Write(p, "receipt", ReceiptKey(o, pass[p].item.t), ReceiptDoc(o),
           IF sealing THEN Move(p, "seal") ELSE Finish(p))

-----------------------------------------------------------------------------
(* performAudio *)

\* Seeded fault: the blob check is inverted.
IdentifyInverted(p) ==
  /\ At(p, "hash")
  /\ Item(p) \notin Oversized
  /\ Goto(p, IF Item(p) \in Grandfathered THEN "receipt"
             ELSE IF Has(BlobKey(Item(p))) THEN "blob" ELSE "sightings")

\* Download, hash, and the two existence checks before the blob.
Identify(p) ==
  /\ At(p, "hash")
  /\ Item(p) \notin Oversized
  /\ Goto(p, IF Item(p) \in Grandfathered THEN "receipt"
             ELSE IF Has(BlobKey(Item(p))) THEN "sightings" ELSE "blob")

\* Seeded fault: a new blob is receipted without its provenance.
WriteBlobUnsighted(p) ==
  Write(p, "blob", BlobKey(Item(p)), "bytes", Move(p, "receipt"))

WriteBlob(p) ==
  Write(p, "blob", BlobKey(Item(p)), "bytes", Move(p, "sightings"))

ReadSightings(p) ==
  /\ At(p, "sightings")
  /\ LET key  == ProvenanceKey(CaptureOf[Item(p)])
         seen == IF Has(key) THEN store[key] ELSE {}
     IN Carry(p, IF Item(p) \in seen THEN "receipt" ELSE "provenance", seen)

\* Seeded fault: the sightings already read are dropped.
WriteProvenanceAfresh(p) ==
  Write(p, "provenance", ProvenanceKey(CaptureOf[Item(p)]),
        {Item(p)}, Move(p, "receipt"))

WriteProvenance(p) ==
  Write(p, "provenance", ProvenanceKey(CaptureOf[Item(p)]),
        pass[p].doc \cup {Item(p)}, Move(p, "receipt"))

\* After the receipt: read the segment's provisional ...
ReadProvisional(p) ==
  /\ At(p, "seal")
  /\ LET key == LiveKey(SegmentOf[Item(p)])
     IN IF Has(key)
        THEN Carry(p, "adopt", store[key])
        ELSE /\ pass' = [pass EXCEPT ![p] = Finish(p)]
             /\ UNCHANGED <<ledgerVars, sourceVars, faults>>

\* Seeded fault: promotion does not look for a first look.
CheckFirstLookNever(p) == At(p, "adopt") /\ Goto(p, "promote")

\* Seeded fault: the check is inverted.
CheckFirstLookInverted(p) ==
  /\ At(p, "adopt")
  /\ Goto(p, IF Has(FirstLookKey(CaptureOf[Item(p)]))
             THEN "promote" ELSE "retire")

\* ... file it under the capture unless a first-look is already there ...
CheckFirstLook(p) ==
  /\ At(p, "adopt")
  /\ Goto(p, IF Has(FirstLookKey(CaptureOf[Item(p)]))
             THEN "retire" ELSE "promote")

Promote(p) ==
  Write(p, "promote", FirstLookKey(CaptureOf[Item(p)]),
        PromotedText(pass[p].doc), Move(p, "retire"))

\* ... remove it, and leave the marker that stops a racing partial.
Retire(p) ==
  Remove(p, "retire", LiveKey(SegmentOf[Item(p)]), Move(p, "mark"))

MarkPromoted(p) ==
  Write(p, "mark", PromotedKey(SegmentOf[Item(p)]), CaptureOf[Item(p)],
        Finish(p))

-----------------------------------------------------------------------------
(* performTranscript *)

\* The download reads the object as it is now, not as it was listed.
DownloadPartial(p) ==
  /\ At(p, "partial")
  /\ Item(p) \notin Unparsable
  /\ Carry(p, IF Item(p) \in Rejected THEN "receipt" ELSE "raced",
           modified[Item(p)])

CheckPromoted(p) ==
  /\ At(p, "raced")
  /\ Goto(p, IF Has(PromotedKey(Item(p))) THEN "receipt" ELSE "provisional")

WriteProvisional(p) ==
  Write(p, "provisional", LiveKey(Item(p)), pass[p].doc, Move(p, "receipt"))

DownloadFinal(p) ==
  /\ At(p, "final")
  /\ Item(p) \notin Unparsable
  /\ Goto(p, IF Item(p) \in Rejected THEN "receipt" ELSE "firstlook")

WriteFirstLook(p) ==
  Write(p, "firstlook", FirstLookKey(CaptureOf[Item(p)]), FinalText(Item(p)),
        Move(p, "receipt"))

-----------------------------------------------------------------------------
(* performEvent and the latest-location reduction *)

DownloadEvent(p) ==
  /\ At(p, "event")
  /\ Item(p) \notin Unparsable
  /\ Goto(p, IF Item(p) \in Fixes THEN "inbox" ELSE "receipt")

WriteInbox(p) ==
  Write(p, "inbox", InboxKey(Item(p)), "point",
        [Move(p, "receipt") EXCEPT !.noted = NoteFix(@, Item(p))])

\* Seeded fault: every fix displaces.
DisplacesAlways(e, k) == TRUE

\* A fix displaces the believed position at k.
Displaces(e, k) == Has(k) => FixWins(e, store[k])

\* Read the believed position of one noted device; an unreadable one loses.
ReadBelieved(p) ==
  /\ At(p, "reduce")
  /\ \E e \in pass[p].noted :
       LET key == LatestKey(DeviceOf[e])
           believe == [Move(p, "believe") EXCEPT !.doc = e]
       IN \/ /\ IF Displaces(e, key)
                THEN pass' = [pass EXCEPT ![p] = believe]
                ELSE pass' = [pass EXCEPT ![p].noted = @ \ {e}]
             /\ UNCHANGED faults
          \/ /\ faults < MaxFaults
             /\ faults' = faults + 1
             /\ pass' = [pass EXCEPT ![p] = believe]
  /\ UNCHANGED <<ledgerVars, sourceVars>>

WriteBelieved(p) ==
  LET e == pass[p].doc
  IN Write(p, "believe", LatestKey(DeviceOf[e]), e,
           [Move(p, "reduce") EXCEPT !.doc = NoDoc, !.noted = @ \ {e}])

End(p) ==
  /\ At(p, "reduce")
  /\ pass[p].noted = {}
  /\ pass' = [pass EXCEPT ![p] = IdlePass]
  /\ UNCHANGED <<ledgerVars, sourceVars, faults>>

-----------------------------------------------------------------------------
(* Failures, the phone, and time. *)

\* A call of the item in hand fails: the item is recorded as an error and
\* the pass moves on.  A failed latest-location write is recorded too.
Fault(p) ==
  /\ faults < MaxFaults
  /\ faults' = faults + 1
  /\ \/ /\ pass[p].at \in ItemLabel
        /\ pass' = [pass EXCEPT ![p] = Settle(p)]
     \/ /\ At(p, "believe")
        /\ pass' = [pass EXCEPT ![p] =
                      [Move(p, "reduce") EXCEPT !.doc = NoDoc,
                         !.noted = @ \ {pass[p].doc}]]
  /\ UNCHANGED <<ledgerVars, sourceVars>>

\* The isolate is evicted, or the listing fails: the pass is gone.
Crash(p) ==
  /\ ~At(p, "idle")
  /\ faults < MaxFaults
  /\ faults' = faults + 1
  /\ pass' = [pass EXCEPT ![p] = IdlePass]
  /\ UNCHANGED <<ledgerVars, sourceVars>>

\* The phone uploads an object; a live partial is overwritten in place on
\* every tick, the other objects are written once.
Upload(o) ==
  /\ clock < MaxUploads
  /\ modified[o] = 0 \/ o \in Partial
  /\ clock' = clock + 1
  /\ modified' = [modified EXCEPT ![o] = clock']
  /\ UNCHANGED <<ledgerVars, horizon, pass, faults>>

\* The oldest uploads leave the pass's 24-hour scan window.
AgeOut ==
  /\ horizon < clock
  /\ horizon' = horizon + 1
  /\ UNCHANGED <<ledgerVars, clock, modified, pass, faults>>

-----------------------------------------------------------------------------
Init ==
  /\ LedgerInit
  /\ clock = 0
  /\ modified = [o \in Object |-> 0]
  /\ horizon = 0
  /\ pass = [p \in Pass |-> IdlePass]
  /\ faults = 0

Step(p) ==
  \/ Begin(p) \/ List(p) \/ Scan(p) \/ ScanEnd(p) \/ Take(p) \/ BatchEnd(p)
  \/ Drop(p) \/ WriteReceipt(p)
  \/ Identify(p) \/ WriteBlob(p) \/ ReadSightings(p) \/ WriteProvenance(p)
  \/ ReadProvisional(p) \/ CheckFirstLook(p) \/ Promote(p) \/ Retire(p)
  \/ MarkPromoted(p)
  \/ DownloadPartial(p) \/ CheckPromoted(p) \/ WriteProvisional(p)
  \/ DownloadFinal(p) \/ WriteFirstLook(p)
  \/ DownloadEvent(p) \/ WriteInbox(p)
  \/ ReadBelieved(p) \/ WriteBelieved(p) \/ End(p)

Next ==
  \/ \E p \in Pass : Step(p) \/ Fault(p) \/ Crash(p)
  \/ \E o \in Object : Upload(o)
  \/ AgeOut

Spec == Init /\ [][Next]_vars

\* The cron keeps firing, and a running pass keeps running until it ends or
\* is evicted.  Uploads, ageing and faults are never owed.
FairSpec == Spec /\ \A p \in Pass : WF_vars(Step(p))

-----------------------------------------------------------------------------
(* Properties. *)

\* The stamps of the source objects; their keys.
Stamp == 1..MaxUploads
Key ==
  {BlobKey(a) : a \in Audio} \cup {ProvenanceKey(c) : c \in Capture}
  \cup {ReceiptKey(o, t) : o \in Object, t \in Stamp}
  \cup {LiveKey(s) : s \in Partial} \cup {PromotedKey(s) : s \in Partial}
  \cup {FirstLookKey(c) : c \in Capture}
  \cup {InboxKey(e) : e \in Fixes} \cup {LatestKey(d) : d \in Device}

\* A stored document is of the kind its key promises.
StoreTyped ==
  /\ DOMAIN store \subseteq Key
  /\ \A c \in Capture :
       /\ Has(ProvenanceKey(c)) => store[ProvenanceKey(c)] \subseteq Audio
       /\ Has(FirstLookKey(c)) =>
            store[FirstLookKey(c)] \in
              [by : {"promotion", "final"}, stamp : 0..MaxUploads]
  /\ \A s \in Partial : Has(LiveKey(s)) =>
       store[LiveKey(s)] \in 0..MaxUploads
  /\ \A d \in Device : Has(LatestKey(d)) =>
       /\ store[LatestKey(d)] \in Fixes
       /\ DeviceOf[store[LatestKey(d)]] = d

\* Object o and document d are what a pass holds at item label l.
Holds(l, o, d) ==
  /\ l \in {"hash", "blob", "sightings", "provenance"} => o \in Audio
  /\ l \in {"blob", "sightings", "provenance", "seal", "adopt", "promote",
            "retire", "mark"} => o \in Audio \ Grandfathered
  /\ l \in {"seal", "adopt", "promote", "retire", "mark"} =>
       SegmentOf[o] \in Partial
  /\ l = "provenance" => d \subseteq Audio
  /\ l \in {"adopt", "promote"} => d \in 0..MaxUploads
  /\ l = "partial" => o \in Partial
  /\ l \in {"raced", "provisional"} =>
       o \in Partial \ Rejected /\ d \in 0..MaxUploads
  /\ l = "final" => o \in Final
  /\ l = "firstlook" => o \in Final \ Rejected
  /\ l = "event" => o \in Event
  /\ l = "inbox" => o \in Fixes

PassField ==
  {"at", "landed", "unscanned", "checks", "item", "doc", "done", "noted"}
ItemRecord == [o : Object, t : Stamp]

\* The state b of a pass.
BatchTyped(b) ==
  /\ DOMAIN b = PassField
  /\ b.at \in Label
  /\ b.landed \in BOOLEAN
  /\ b.unscanned \subseteq ItemRecord
  /\ b.checks \subseteq ItemRecord
  /\ b.done \in [Source -> 0..PerSourceLimit]
  /\ b.noted \subseteq Fixes

InHandTyped(b) ==
  /\ b.at \in ItemLabel =>
       /\ b.item \in ItemRecord
       /\ b.done[SourceOf(b.item.o)] < PerSourceLimit
       /\ Holds(b.at, b.item.o, b.doc)
  /\ b.at = "list" => b.doc \in 0..MaxUploads
  /\ b.at = "believe" => b.doc \in Fixes

PassTyped(b) == BatchTyped(b) /\ InHandTyped(b)

\* The types of the state, and the agreement between a pass's program point
\* and the item and document it holds.
TypeOK ==
  /\ clock \in 0..MaxUploads
  /\ horizon \in 0..clock
  /\ modified \in [Object -> 0..clock]
  /\ faults \in 0..MaxFaults
  /\ StoreTyped
  /\ index \subseteq Key
  /\ DOMAIN pass = Pass
  /\ \A p \in Pass : PassTyped(pass[p])

Receipted(o, t) == Has(ReceiptKey(o, t))

\* What performing an object leaves in the bucket for good.
Performed(o) ==
  /\ o \in Audio \ Grandfathered =>
       Has(BlobKey(o)) /\ Has(ProvenanceKey(CaptureOf[o]))
  /\ o \in Final \ Rejected => Has(FirstLookKey(CaptureOf[o]))
  /\ o \in Fixes => Has(InboxKey(o))

\* The receipt is the guard: because an item with a receipt is never
\* performed again, everything its perform owes must be in the bucket when
\* the receipt is.  This must survive failed calls, crashes between any two
\* calls, and a second pass at work on the same item.
ReceiptBacked ==
  \A o \in Object, t \in Stamp : Receipted(o, t) => Performed(o)

PerformedItems == {o \in Object : Performed(o)}
ReceiptedItems == {o \in Object : \E t \in Stamp : Receipted(o, t)}

Promise == INSTANCE ReceiptedWork
             WITH done <- PerformedItems, receipted <- ReceiptedItems

\* The loop implements the promise of receipted work (performAudio and its
\* siblings: artifacts first, the receipt last): performing and receipting
\* are steps apart, and no promotion, crash or second pass undoes an item.
ReceiptsKeepPromise == Promise!WorkSpec

\* A live provisional is the only first look at a segment until its capture
\* has one: promotion may remove it only when a transcript is filed under
\* the id of a capture that seals the segment (performAudio).
NoTranscriptLost ==
  [][\A s \in Partial : Has(LiveKey(s)) /\ ~Has(LiveKey(s))' =>
       \E a \in Audio :
         SegmentOf[a] = s /\ Has(FirstLookKey(CaptureOf[a]))]_vars

\* Every sighting of a capture's content is evidence: a receipted upload is
\* listed in its capture's provenance, although uploads of one content share
\* that document and each rewrites it whole (appendProvenanceRecord).
\* Needs passes that do not overlap.
SightingsKept ==
  \A o \in Audio \ Grandfathered, t \in Stamp :
    Receipted(o, t) => /\ Has(ProvenanceKey(CaptureOf[o]))
                       /\ o \in store[ProvenanceKey(CaptureOf[o])]

\* A partial that raced the seal must not resurrect a promoted provisional
\* (performTranscript): a segment that has its promotion marker has no live
\* transcript.  Needs passes that do not overlap.
NoResurrection ==
  \A s \in Partial : Has(PromotedKey(s)) => ~Has(LiveKey(s))

\* The batch final wins over a promoted provisional regardless of ingest
\* order (performTranscript): once a capture's first look is a final's, no
\* step replaces it with a provisional's.  Needs passes that do not overlap.
FinalStands ==
  \A c \in Capture :
    Has(FirstLookKey(c)) /\ store[FirstLookKey(c)].by = "final"
      => store'[FirstLookKey(c)].by = "final"

\* What an item has established the items after it leave alone, whatever
\* order they are taken in: a promoted provisional and a final's first look.
FirstLooksStand == [][NoResurrection' /\ FinalStands]_vars

AtRest == \A p \in Pass : At(p, "idle")

\* The index is the listing source of truth: as long as no call has failed,
\* it lists between passes exactly what the bucket holds (ArtifactLedger).
\* Needs passes that do not overlap.
IndexIsStore == AtRest /\ faults = 0 => index = DOMAIN store

\* A receipted item's artifacts are in the index as well: "a failed
\* registration fails the write ... a write it cannot see must not pretend
\* to have succeeded" (ArtifactLedger).
ReceiptedIsListed ==
  AtRest => \A o \in Audio \ Grandfathered, t \in Stamp :
    Receipted(o, t) => /\ BlobKey(o) \in index
                       /\ ProvenanceKey(CaptureOf[o]) \in index

\* "Audio ingest promotes the provisional to the sealed capture"
\* (lib/lifelog/Resources.ts): between passes, a segment whose audio is
\* receipted has no live transcript left beside its capture.
NoOrphanProvisional ==
  AtRest => \A a \in Audio \ Grandfathered, t \in Stamp :
    Receipted(a, t) /\ SegmentOf[a] # NoSegment => ~Has(LiveKey(SegmentOf[a]))

\* The believed position of a device only moves to a fix that wins by the
\* event's own time and sequence, in whatever order events were uploaded and
\* batched, as long as no call has failed: an unreadable position loses to any
\* fix.  Needs passes that do not overlap.
BelievedMonotone ==
  faults = 0 => \A d \in Device : Has(LatestKey(d)) =>
    \/ store'[LatestKey(d)] = store[LatestKey(d)]
    \/ FixWins(store'[LatestKey(d)], store[LatestKey(d)])

\* Between passes no receipted fix beats the believed position of its device:
\* the stale position that the reduction is there to remove.  It holds as long
\* as no call has failed, and needs passes that do not overlap.
NewestFixBelieved ==
  AtRest /\ faults = 0 => \A e \in Fixes, t \in Stamp : Receipted(e, t) =>
    /\ Has(LatestKey(DeviceOf[e]))
    /\ ~FixWins(e, store[LatestKey(DeviceOf[e])])

\* An upload is owed a receipt while it can be performed, is the object's
\* latest, and is inside the scan window.
Owed(o) ==
  /\ o \notin Unparsable \cup Oversized
  /\ modified[o] > horizon
  /\ ~Receipted(o, modified[o])

\* Every upload owed a receipt gets it: the backlog drains whenever the phone
\* pauses, and neither the cap per source, nor the newest-first order, nor
\* items that fail on every pass starve what can be performed.
BacklogDrains == []<>(\A o \in Object : ~Owed(o))
=============================================================================
