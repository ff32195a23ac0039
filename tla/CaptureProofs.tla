---------------------------- MODULE CaptureProofs ----------------------------
(***************************************************************************)
(* Proofs about the capture loop and its shadow audit, for every set of    *)
(* objects, passes and bounds: first what holds however passes overlap,    *)
(* then what the loop guarantees while the cron's pass is the only one,    *)
(* and last what the audit reports of such a loop.                         *)
(***************************************************************************)
EXTENDS CaptureAudit, WellFoundedInduction, FiniteSetTheorems, TLAPS

-----------------------------------------------------------------------------
(* Keys. *)

\* A key is told from every other by its kind and its parts.
LEMMA KeyParts ==
  /\ \A x : BlobKey(x)[1] = "blob" /\ BlobKey(x)[2] = x
  /\ \A x : ProvenanceKey(x)[1] = "provenance" /\ ProvenanceKey(x)[2] = x
  /\ \A x, t : /\ ReceiptKey(x, t)[1] = "receipt"
               /\ ReceiptKey(x, t)[2] = x
               /\ ReceiptKey(x, t)[3] = t
  /\ \A x : LiveKey(x)[1] = "live" /\ LiveKey(x)[2] = x
  /\ \A x : PromotedKey(x)[1] = "promoted" /\ PromotedKey(x)[2] = x
  /\ \A x : FirstLookKey(x)[1] = "firstlook" /\ FirstLookKey(x)[2] = x
  /\ \A x : InboxKey(x)[1] = "inbox" /\ InboxKey(x)[2] = x
  /\ \A x : LatestKey(x)[1] = "latest" /\ LatestKey(x)[2] = x
  BY DEF BlobKey, ProvenanceKey, ReceiptKey, LiveKey, PromotedKey,
         FirstLookKey, InboxKey, LatestKey

\* Each object of the source bucket belongs to one of the three sources.
LEMMA SourceType ==
  ASSUME NEW o \in Object
  PROVE  SourceOf(o) \in Source
  BY DEF Object, SourceOf, Source

-----------------------------------------------------------------------------
(* Type correctness. *)

\* Going idle.
LEMMA IdleTyped == PassTyped(IdlePass)
  <1>1. 0 \in 0..PerSourceLimit
    BY BoundAssumption
  <1>2. IdlePass.done \in [Source -> 0..PerSourceLimit]
    BY <1>1 DEF IdlePass
  <1> QED
    BY <1>2 DEF IdlePass, PassTyped, BatchTyped, InHandTyped, PassField,
                Label, ItemLabel

\* The bucket half of a ledger call.
LEMMA LandedTyped ==
  ASSUME NEW b, PassTyped(b)
  PROVE  PassTyped([b EXCEPT !.landed = TRUE])
  BY DEF PassTyped, BatchTyped, InHandTyped, PassField

\* Going on to another label of the item in hand.
LEMMA CarryTyped ==
  ASSUME NEW p, PassTyped(pass[p]), pass[p].at \in ItemLabel,
         NEW l \in ItemLabel, NEW d, Holds(l, Item(p), d)
  PROVE  Carry(p, l, d) /\ p \in DOMAIN pass => PassTyped(pass'[p])
  <1>1. PassTyped([Move(p, l) EXCEPT !.doc = d])
    BY DEF Move, Item, PassTyped, BatchTyped, InHandTyped, PassField, Label,
           ItemLabel
  <1> QED
    BY <1>1 DEF Carry

\* Going to another label with the item as it is.
LEMMA MoveTyped ==
  ASSUME NEW p, PassTyped(pass[p]), pass[p].at \in ItemLabel,
         NEW l \in ItemLabel, Holds(l, Item(p), pass[p].doc)
  PROVE  PassTyped(Move(p, l))
  BY DEF Move, Item, PassTyped, BatchTyped, InHandTyped, PassField, Label,
         ItemLabel

\* The item in hand is over.
LEMMA SettleTyped ==
  ASSUME NEW p, PassTyped(pass[p])
  PROVE  PassTyped(Settle(p))
  BY DEF PassTyped, BatchTyped, InHandTyped, PassField, Settle, Move,
         Label, ItemLabel

\* The same for an item that counts as performed.
LEMMA FinishTyped ==
  ASSUME NEW p, PassTyped(pass[p]), pass[p].at \in ItemLabel
  PROVE  PassTyped(Finish(p))
  <1> DEFINE s == SourceOf(Item(p))
  <1>1. s \in Source
    BY SourceType DEF PassTyped, BatchTyped, InHandTyped, ItemRecord, Item
  <1>2. pass[p].done[s] + 1 \in 0..PerSourceLimit
    BY <1>1, BoundAssumption DEF PassTyped, BatchTyped, InHandTyped, Item
  <1>3. DOMAIN Settle(p) = PassField /\ Settle(p).done = pass[p].done
    BY DEF Settle, Move, PassTyped, BatchTyped, InHandTyped, PassField
  <1>4. Finish(p) = [Settle(p) EXCEPT
                       !.done = [pass[p].done EXCEPT ![s] = @ + 1]]
    BY <1>3 DEF Finish, PassField
  <1>5. [pass[p].done EXCEPT ![s] = @ + 1] \in [Source -> 0..PerSourceLimit]
    BY <1>2 DEF PassTyped, BatchTyped
  <1> HIDE DEF s
  <1>6. PassTyped(Settle(p)) /\ Settle(p).at = "pick"
    BY SettleTyped DEF Settle, Move, PassTyped, BatchTyped, PassField
  <1> QED
    BY <1>4, <1>5, <1>6
    DEF PassTyped, BatchTyped, InHandTyped, PassField, ItemLabel

\* A stamp is within the bound on uploads.
LEMMA ModifiedType ==
  ASSUME TypeOK, NEW o \in Object
  PROVE  modified[o] \in 0..MaxUploads
  BY BoundAssumption DEF TypeOK

\* The pass that takes a step stays well typed.
LEMMA PassTypedStep ==
  ASSUME TypeOK, NEW p \in Pass, Step(p) \/ Fault(p) \/ Crash(p)
  PROVE  PassTyped(pass'[p])
  <1> USE DEF At
  <1>a. PassTyped(pass[p]) /\ p \in DOMAIN pass
    BY DEF TypeOK
  <1>b. pass[p].at \in ItemLabel => Holds(pass[p].at, Item(p), pass[p].doc)
    BY <1>a DEF PassTyped, InHandTyped, Item
  <1>1. CASE WriteBlob(p)
    <2>1. /\ pass[p].at \in ItemLabel /\ "sightings" \in ItemLabel
          /\ Holds("sightings", Item(p), pass[p].doc)
      BY <1>b, <1>1 DEF WriteBlob, Write, Holds, Label, ItemLabel
    <2> QED
      BY <1>a, <1>1, <2>1, LandedTyped, MoveTyped DEF WriteBlob, Write
  <1>2. CASE WriteProvenance(p)
    <2>1. /\ pass[p].at \in ItemLabel /\ "receipt" \in ItemLabel
          /\ Holds("receipt", Item(p), pass[p].doc)
      BY <1>b, <1>2 DEF WriteProvenance, Write, Holds, Label, ItemLabel
    <2> QED
      BY <1>a, <1>2, <2>1, LandedTyped, MoveTyped DEF WriteProvenance, Write
  <1>3. CASE Promote(p)
    <2>1. /\ pass[p].at \in ItemLabel /\ "retire" \in ItemLabel
          /\ Holds("retire", Item(p), pass[p].doc)
      BY <1>b, <1>3 DEF Promote, Write, Holds, Label, ItemLabel
    <2> QED
      BY <1>a, <1>3, <2>1, LandedTyped, MoveTyped DEF Promote, Write
  <1>4. CASE WriteProvisional(p)
    <2>1. /\ pass[p].at \in ItemLabel /\ "receipt" \in ItemLabel
          /\ Holds("receipt", Item(p), pass[p].doc)
      BY <1>b, <1>4 DEF WriteProvisional, Write, Holds, Label, ItemLabel
    <2> QED
      BY <1>a, <1>4, <2>1, LandedTyped, MoveTyped DEF WriteProvisional, Write
  <1>5. CASE WriteFirstLook(p)
    <2>1. /\ pass[p].at \in ItemLabel /\ "receipt" \in ItemLabel
          /\ Holds("receipt", Item(p), pass[p].doc)
      BY <1>b, <1>5 DEF WriteFirstLook, Write, Holds, Label, ItemLabel
    <2> QED
      BY <1>a, <1>5, <2>1, LandedTyped, MoveTyped DEF WriteFirstLook, Write
  <1>6. CASE Retire(p)
    <2>1. /\ pass[p].at \in ItemLabel /\ "mark" \in ItemLabel
          /\ Holds("mark", Item(p), pass[p].doc)
      BY <1>b, <1>6 DEF Retire, Remove, Holds, Label, ItemLabel
    <2> QED
      BY <1>a, <1>6, <2>1, LandedTyped, MoveTyped DEF Retire, Remove
  <1>7. CASE MarkPromoted(p)
    BY <1>a, <1>7, LandedTyped, FinishTyped
    DEF MarkPromoted, Write, ItemLabel, Label
  <1>8. CASE WriteReceipt(p)
    <2> DEFINE sealing == /\ Item(p) \in Audio \ Grandfathered
                          /\ SegmentOf[Item(p)] # NoSegment
    <2>1. /\ pass[p].at \in ItemLabel /\ "seal" \in ItemLabel
          /\ sealing => Holds("seal", Item(p), pass[p].doc)
      BY <1>8, MappingAssumption
      DEF WriteReceipt, Write, Holds, Label, ItemLabel
    <2> QED
      BY <1>a, <1>8, <2>1, LandedTyped, MoveTyped, FinishTyped
      DEF WriteReceipt, Write
  <1>9. CASE End(p)
    BY <1>a, <1>9, IdleTyped DEF End
  <1>10. CASE Crash(p)
    BY <1>a, <1>10, IdleTyped DEF Crash
  <1>11. CASE Drop(p)
    BY <1>a, <1>11, SettleTyped DEF Drop
  <1>12. CASE Identify(p)
    <2>1. pass[p].at \in ItemLabel
      BY <1>12 DEF Identify, Label, ItemLabel
    <2>2. CASE Goto(p, "receipt")
      <3>1. "receipt" \in ItemLabel /\ Holds("receipt", Item(p), pass[p].doc)
        BY <1>b, <1>12, <2>2 DEF Identify, Holds, Label, ItemLabel
      <3> QED
        BY <1>a, <2>1, <2>2, <3>1, CarryTyped DEF Goto
    <2>3. CASE Goto(p, "sightings") /\ Item(p) \in Audio \ Grandfathered
      <3>1. /\ "sightings" \in ItemLabel
            /\ Holds("sightings", Item(p), pass[p].doc)
        BY <1>b, <1>12, <2>3 DEF Identify, Holds, Label, ItemLabel
      <3> QED
        BY <1>a, <2>1, <2>3, <3>1, CarryTyped DEF Goto
    <2>4. CASE Goto(p, "blob") /\ Item(p) \in Audio \ Grandfathered
      <3>1. "blob" \in ItemLabel /\ Holds("blob", Item(p), pass[p].doc)
        BY <1>b, <1>12, <2>4 DEF Identify, Holds, Label, ItemLabel
      <3> QED
        BY <1>a, <2>1, <2>4, <3>1, CarryTyped DEF Goto
    <2> QED
      BY <1>a, <1>b, <1>12, <2>1, <2>2, <2>3, <2>4
      DEF Identify, Holds, Label, ItemLabel
  <1>13. CASE CheckFirstLook(p)
    <2>1. pass[p].at \in ItemLabel
      BY <1>13 DEF CheckFirstLook, Label, ItemLabel
    <2>2. CASE Goto(p, "retire")
      <3>1. "retire" \in ItemLabel /\ Holds("retire", Item(p), pass[p].doc)
        BY <1>b, <1>13, <2>2 DEF CheckFirstLook, Holds, Label, ItemLabel
      <3> QED
        BY <1>a, <2>1, <2>2, <3>1, CarryTyped DEF Goto
    <2>3. CASE Goto(p, "promote")
      <3>1. "promote" \in ItemLabel /\ Holds("promote", Item(p), pass[p].doc)
        BY <1>b, <1>13, <2>3 DEF CheckFirstLook, Holds, Label, ItemLabel
      <3> QED
        BY <1>a, <2>1, <2>3, <3>1, CarryTyped DEF Goto
    <2> QED
      BY <1>a, <1>b, <1>13, <2>1, <2>2, <2>3
      DEF CheckFirstLook, Holds, Label, ItemLabel
  <1>14. CASE CheckPromoted(p)
    <2>1. pass[p].at \in ItemLabel
      BY <1>14 DEF CheckPromoted, Label, ItemLabel
    <2>2. CASE Goto(p, "receipt")
      <3>1. "receipt" \in ItemLabel /\ Holds("receipt", Item(p), pass[p].doc)
        BY <1>b, <1>14, <2>2 DEF CheckPromoted, Holds, Label, ItemLabel
      <3> QED
        BY <1>a, <2>1, <2>2, <3>1, CarryTyped DEF Goto
    <2>3. CASE Goto(p, "provisional")
      <3>1. /\ "provisional" \in ItemLabel
            /\ Holds("provisional", Item(p), pass[p].doc)
        BY <1>b, <1>14, <2>3 DEF CheckPromoted, Holds, Label, ItemLabel
      <3> QED
        BY <1>a, <2>1, <2>3, <3>1, CarryTyped DEF Goto
    <2> QED
      BY <1>a, <1>b, <1>14, <2>1, <2>2, <2>3
      DEF CheckPromoted, Holds, Label, ItemLabel
  <1>15. CASE DownloadFinal(p)
    <2>1. pass[p].at \in ItemLabel
      BY <1>15 DEF DownloadFinal, Label, ItemLabel
    <2>2. CASE Goto(p, "receipt")
      <3>1. "receipt" \in ItemLabel /\ Holds("receipt", Item(p), pass[p].doc)
        BY <1>b, <1>15, <2>2 DEF DownloadFinal, Holds, Label, ItemLabel
      <3> QED
        BY <1>a, <2>1, <2>2, <3>1, CarryTyped DEF Goto
    <2>3. CASE Goto(p, "firstlook") /\ Item(p) \notin Rejected
      <3>1. /\ "firstlook" \in ItemLabel
            /\ Holds("firstlook", Item(p), pass[p].doc)
        BY <1>b, <1>15, <2>3 DEF DownloadFinal, Holds, Label, ItemLabel
      <3> QED
        BY <1>a, <2>1, <2>3, <3>1, CarryTyped DEF Goto
    <2> QED
      BY <1>a, <1>b, <1>15, <2>1, <2>2, <2>3
      DEF DownloadFinal, Holds, Label, ItemLabel
  <1>16. CASE DownloadEvent(p)
    <2>1. pass[p].at \in ItemLabel
      BY <1>16 DEF DownloadEvent, Label, ItemLabel
    <2>2. CASE Goto(p, "receipt")
      <3>1. "receipt" \in ItemLabel /\ Holds("receipt", Item(p), pass[p].doc)
        BY <1>b, <1>16, <2>2 DEF DownloadEvent, Holds, Label, ItemLabel
      <3> QED
        BY <1>a, <2>1, <2>2, <3>1, CarryTyped DEF Goto
    <2>3. CASE Goto(p, "inbox") /\ Item(p) \in Fixes
      <3>1. "inbox" \in ItemLabel /\ Holds("inbox", Item(p), pass[p].doc)
        BY <1>b, <1>16, <2>3 DEF DownloadEvent, Holds, Label, ItemLabel
      <3> QED
        BY <1>a, <2>1, <2>3, <3>1, CarryTyped DEF Goto
    <2> QED
      BY <1>a, <1>b, <1>16, <2>1, <2>2, <2>3
      DEF DownloadEvent, Holds, Label, ItemLabel
  <1>17. CASE ReadSightings(p)
    <2> DEFINE key  == ProvenanceKey(CaptureOf[Item(p)])
               seen == IF Has(key) THEN store[key] ELSE {}
    <2>1. pass[p].at \in ItemLabel /\ Item(p) \in Audio \ Grandfathered
      BY <1>b, <1>17 DEF ReadSightings, Holds, Label, ItemLabel
    <2>2. CaptureOf[Item(p)] \in Capture
      BY <2>1, MappingAssumption
    <2>3. seen \subseteq Audio
      BY <2>2 DEF TypeOK, StoreTyped
    <2>4. Carry(p, "receipt", seen) \/ Carry(p, "provenance", seen)
      BY <1>17 DEF ReadSightings
    <2> HIDE DEF seen
    <2>5. /\ "receipt" \in ItemLabel /\ Holds("receipt", Item(p), seen)
          /\ "provenance" \in ItemLabel /\ Holds("provenance", Item(p), seen)
      BY <2>1, <2>3 DEF Holds, Label, ItemLabel
    <2> QED
      BY <1>a, <2>1, <2>4, <2>5, CarryTyped
  <1>18. CASE DownloadPartial(p)
    <2> DEFINE d == modified[Item(p)]
    <2>1. pass[p].at \in ItemLabel /\ Item(p) \in Partial
      BY <1>b, <1>18 DEF DownloadPartial, Holds, Label, ItemLabel
    <2>2. d \in 0..MaxUploads
      BY <2>1, ModifiedType DEF Object
    <2>3. \/ Carry(p, "receipt", d)
          \/ Carry(p, "raced", d) /\ Item(p) \notin Rejected
      BY <1>18 DEF DownloadPartial
    <2> HIDE DEF d
    <2>4. /\ "receipt" \in ItemLabel /\ Holds("receipt", Item(p), d)
          /\ "raced" \in ItemLabel
          /\ Item(p) \notin Rejected => Holds("raced", Item(p), d)
      BY <2>1, <2>2 DEF Holds, Label, ItemLabel
    <2> QED
      BY <1>a, <2>1, <2>3, <2>4, CarryTyped
  <1>19. CASE ReadProvisional(p)
    <2> DEFINE d == store[LiveKey(SegmentOf[Item(p)])]
    <2>1. /\ pass[p].at \in ItemLabel
          /\ Item(p) \in Audio \ Grandfathered
          /\ SegmentOf[Item(p)] \in Partial
      BY <1>b, <1>19 DEF ReadProvisional, Holds, Label, ItemLabel
    <2>2. CASE Has(LiveKey(SegmentOf[Item(p)])) /\ Carry(p, "adopt", d)
      <3>1. d \in 0..MaxUploads
        BY <2>1, <2>2 DEF TypeOK, StoreTyped
      <3> HIDE DEF d
      <3>2. "adopt" \in ItemLabel /\ Holds("adopt", Item(p), d)
        BY <2>1, <3>1 DEF Holds, Label, ItemLabel
      <3> QED
        BY <1>a, <2>1, <2>2, <3>2, CarryTyped
    <2>3. CASE pass' = [pass EXCEPT ![p] = Finish(p)]
      BY <1>a, <2>1, <2>3, FinishTyped
    <2> QED
      BY <1>19, <2>2, <2>3 DEF ReadProvisional
  <1>20. CASE ScanEnd(p)
    BY <1>a, <1>20
    DEF ScanEnd, Goto, Carry, Move, PassTyped, BatchTyped, PassField,
        InHandTyped, Label, ItemLabel
  <1>21. CASE BatchEnd(p)
    BY <1>a, <1>21
    DEF BatchEnd, Goto, Carry, Move, PassTyped, BatchTyped, PassField,
        InHandTyped, Label, ItemLabel
  <1>22. CASE Scan(p)
    <2>1. PICK it \in pass[p].unscanned :
            \E r \in BOOLEAN : Scanned(p, it, r)
      BY <1>22 DEF Scan, Has, Scanned
    <2> QED
      BY <1>a, <1>22, <2>1
      DEF Scan, Scanned, PassTyped, BatchTyped, PassField, InHandTyped, Label,
          ItemLabel
  <1>23. CASE List(p)
    <2> DEFINE batch == {[o |-> o, t |-> modified[o]] :
                           o \in Listed(pass[p].doc)}
               b == [IdlePass EXCEPT !.at = "scan", !.unscanned = batch,
                                     !.checks = batch]
    <2>1. ASSUME NEW o \in Listed(pass[p].doc)
          PROVE  [o |-> o, t |-> modified[o]] \in ItemRecord
      <3>1. pass[p].doc \in 0..MaxUploads /\ horizon \in Nat
        BY <1>a, <1>23 DEF List, PassTyped, InHandTyped, TypeOK
      <3>2. o \in Object /\ modified[o] \in Stamp
        BY <3>1, BoundAssumption DEF Listed, Stamp
      <3> QED
        BY <3>2 DEF ItemRecord
    <2>2. batch \subseteq ItemRecord
      BY <2>1
    <2>3. pass'[p] = b
      BY <1>a, <1>23 DEF List
    <2> HIDE DEF batch
    <2>4. PassTyped(b)
      BY <2>2, IdleTyped
      DEF IdlePass, PassTyped, BatchTyped, PassField, InHandTyped, Label,
          ItemLabel
    <2> QED
      BY <2>3, <2>4
  <1>24. CASE Begin(p)
    <2> DEFINE b == [IdlePass EXCEPT !.at = "list", !.doc = clock]
    <2>1. pass'[p] = b
      BY <1>a, <1>24 DEF Begin
    <2>2. PassTyped(b)
      BY IdleTyped
      DEF IdlePass, PassTyped, BatchTyped, PassField, InHandTyped, Label,
          ItemLabel, TypeOK
    <2> QED
      BY <2>1, <2>2
  <1>25. CASE Take(p)
    <2>1. PICK it \in Newest(Eligible(p)) :
            pass'[p] = [Move(p, EntryLabel(it.o)) EXCEPT !.item = it,
                          !.doc = NoDoc, !.checks = pass[p].checks \ {it}]
      BY <1>a, <1>25 DEF Take, Move, PassTyped, BatchTyped, PassField
    <2>2. /\ it \in ItemRecord
          /\ pass[p].done[SourceOf(it.o)] < PerSourceLimit
      BY <1>a, <2>1 DEF Newest, Eligible, PassTyped, BatchTyped
    <2>3. /\ EntryLabel(it.o) \in ItemLabel
          /\ Holds(EntryLabel(it.o), it.o, NoDoc)
      BY <2>2 DEF ItemRecord, Object, EntryLabel, Holds, Label, ItemLabel
    <2> DEFINE l == EntryLabel(it.o)
    <2> HIDE DEF l
    <2> QED
      BY <1>a, <2>1, <2>2, <2>3
      DEF Move, PassTyped, BatchTyped, PassField, InHandTyped, Label,
          ItemLabel, l
  <1>26. CASE ReadBelieved(p)
    <2>1. PICK e \in pass[p].noted :
            \/ pass'[p] = [Move(p, "believe") EXCEPT !.doc = e]
            \/ pass'[p] = [pass[p] EXCEPT !.noted = pass[p].noted \ {e}]
      BY <1>a, <1>26 DEF ReadBelieved
    <2>2. e \in Fixes /\ pass[p].at = "reduce"
      BY <1>a, <1>26 DEF ReadBelieved, PassTyped, BatchTyped
    <2>3. CASE pass'[p] = [Move(p, "believe") EXCEPT !.doc = e]
      BY <1>a, <2>2, <2>3
      DEF Move, PassTyped, BatchTyped, PassField, InHandTyped, Label, ItemLabel
    <2>4. CASE pass'[p] = [pass[p] EXCEPT !.noted = pass[p].noted \ {e}]
      BY <1>a, <2>2, <2>4
      DEF PassTyped, BatchTyped, PassField, InHandTyped, Label, ItemLabel
    <2> QED
      BY <2>1, <2>3, <2>4
  <1>27. CASE WriteBelieved(p)
    <2>1. CASE ~pass[p].landed
      BY <1>a, <1>27, <2>1, LandedTyped DEF WriteBelieved, Write
    <2>2. CASE pass[p].landed
      <3>1. pass'[p] = [Move(p, "reduce") EXCEPT !.doc = NoDoc,
                          !.noted = Move(p, "reduce").noted \ {pass[p].doc}]
        BY <1>a, <1>27, <2>2 DEF WriteBelieved, Write
      <3> QED
        BY <1>a, <3>1
        DEF Move, PassTyped, BatchTyped, PassField, InHandTyped, Label,
            ItemLabel
    <2> QED
      BY <2>1, <2>2
  <1>28. CASE WriteInbox(p)
    <2>1. CASE ~pass[p].landed
      BY <1>a, <1>28, <2>1, LandedTyped DEF WriteInbox, Write
    <2>2. CASE pass[p].landed
      <3>1. Item(p) \in Fixes /\ pass[p].at \in ItemLabel
        BY <1>b, <1>28 DEF WriteInbox, Write, Holds, Label, ItemLabel
      <3>2. pass'[p] = [Move(p, "receipt") EXCEPT
                          !.noted = NoteFix(Move(p, "receipt").noted, Item(p))]
        BY <1>a, <1>28, <2>2 DEF WriteInbox, Write
      <3>3. NoteFix(Move(p, "receipt").noted, Item(p)) \subseteq Fixes
        BY <1>a, <3>1 DEF NoteFix, Move, PassTyped, BatchTyped, PassField
      <3>4. PassTyped(Move(p, "receipt")) /\ Move(p, "receipt").at = "receipt"
        BY <1>a, <3>1, MoveTyped
        DEF Move, Holds, Label, ItemLabel, PassTyped, BatchTyped, PassField
      <3> QED
        BY <3>2, <3>3, <3>4
        DEF PassTyped, BatchTyped, PassField, InHandTyped
    <2> QED
      BY <2>1, <2>2
  <1>29. CASE Fault(p)
    <2>1. CASE pass'[p] = Settle(p)
      BY <1>a, <2>1, SettleTyped
    <2>2. CASE pass'[p] = [Move(p, "reduce") EXCEPT !.doc = NoDoc,
                             !.noted = Move(p, "reduce").noted \ {pass[p].doc}]
      BY <1>a, <2>2
      DEF Move, PassTyped, BatchTyped, PassField, InHandTyped, Label, ItemLabel
    <2> QED
      BY <1>a, <1>29, <2>1, <2>2 DEF Fault
  <1> QED
    BY <1>1, <1>2, <1>3, <1>4, <1>5, <1>6, <1>7, <1>8, <1>9, <1>10, <1>11,
       <1>12, <1>13, <1>14, <1>15, <1>16, <1>17, <1>18, <1>19, <1>20, <1>21,
       <1>22, <1>23, <1>25, <1>26, <1>27, <1>28, <1>29, <1>24
    DEF Step

-----------------------------------------------------------------------------
(* What a step may do to the bucket and the index. *)

\* Document d is of the kind key k promises.
DocTyped(k, d) ==
  /\ \A c \in Capture :
       /\ k = ProvenanceKey(c) => d \subseteq Audio
       /\ k = FirstLookKey(c) =>
            d \in [by : {"promotion", "final"}, stamp : 0..MaxUploads]
  /\ \A s \in Partial : k = LiveKey(s) => d \in 0..MaxUploads
  /\ \A x \in Device : k = LatestKey(x) => d \in Fixes /\ DeviceOf[d] = x

StoreStep ==
  \/ UNCHANGED store
  \/ \E k \in Key : \E d : Put(k, d) /\ DocTyped(k, d)
  \/ \E s \in Partial : Delete(LiveKey(s))

\* Both kinds of change keep the bucket typed.
LEMMA StoreTypedStep ==
  ASSUME StoreTyped, StoreStep
  PROVE  StoreTyped'
  <1>1. CASE UNCHANGED store
    BY <1>1 DEF StoreTyped, Has
  <1>2. ASSUME NEW k \in Key, NEW d, Put(k, d), DocTyped(k, d)
        PROVE  StoreTyped'
    BY <1>2 DEF StoreTyped, Has, Put, DocTyped
  <1>3. ASSUME NEW s \in Partial, Delete(LiveKey(s))
        PROVE  StoreTyped'
    BY <1>3 DEF StoreTyped, Has, Delete
  <1> QED
    BY <1>1, <1>2, <1>3 DEF StoreStep

\* Every step puts, deletes, or leaves the bucket alone, and types stay.
LEMMA LedgerStep ==
  ASSUME TypeOK, NEW p \in Pass, Step(p) \/ Fault(p) \/ Crash(p)
  PROVE  StoreStep /\ index' \subseteq Key
  <1> USE DEF At
  <1>a. PassTyped(pass[p]) /\ index \subseteq Key
    BY DEF TypeOK
  <1>b. pass[p].at \in ItemLabel =>
          /\ pass[p].item \in ItemRecord
          /\ Holds(pass[p].at, Item(p), pass[p].doc)
    BY <1>a DEF PassTyped, InHandTyped, Item
  <1>c. ASSUME NEW l, NEW k \in Key, NEW d, NEW r, Write(p, l, k, d, r),
               DocTyped(k, d)
        PROVE  StoreStep /\ index' \subseteq Key
    BY <1>a, <1>c DEF Write, StoreStep, Register
  <1>d. ASSUME UNCHANGED ledgerVars
        PROVE  StoreStep /\ index' \subseteq Key
    BY <1>a, <1>d DEF StoreStep, ledgerVars
  <1>1. CASE WriteBlob(p)
    <2> DEFINE k == BlobKey(Item(p))
    <2>1. Item(p) \in Audio
      BY <1>b, <1>1 DEF WriteBlob, Write, Holds, Label, ItemLabel
    <2>2. k \in Key /\ DocTyped(k, "bytes")
      BY <2>1, KeyParts DEF Key, DocTyped
    <2> QED
      BY <1>1, <1>c, <2>2 DEF WriteBlob
  <1>2. CASE WriteProvenance(p)
    <2> DEFINE k == ProvenanceKey(CaptureOf[Item(p)])
               d == pass[p].doc \cup {Item(p)}
    <2>1. Item(p) \in Audio /\ pass[p].doc \subseteq Audio
      BY <1>b, <1>2 DEF WriteProvenance, Write, Holds, Label, ItemLabel
    <2>2. CaptureOf[Item(p)] \in Capture
      BY <2>1, MappingAssumption
    <2>3. k \in Key /\ DocTyped(k, d)
      BY <2>1, <2>2, KeyParts DEF Key, DocTyped
    <2> QED
      BY <1>2, <1>c, <2>3 DEF WriteProvenance
  <1>3. CASE WriteReceipt(p)
    <2> DEFINE k == ReceiptKey(Item(p), pass[p].item.t)
    <2>1. Item(p) \in Object /\ pass[p].item.t \in Stamp
      BY <1>b, <1>3 DEF WriteReceipt, Write, ItemRecord, Item, Label, ItemLabel
    <2>2. k \in Key /\ DocTyped(k, ReceiptDoc(Item(p)))
      BY <2>1, KeyParts DEF Key, DocTyped
    <2> QED
      BY <1>3, <1>c, <2>2 DEF WriteReceipt
  <1>4. CASE Promote(p)
    <2> DEFINE k == FirstLookKey(CaptureOf[Item(p)])
               d == PromotedText(pass[p].doc)
    <2>1. Item(p) \in Audio /\ pass[p].doc \in 0..MaxUploads
      BY <1>b, <1>4 DEF Promote, Write, Holds, Label, ItemLabel
    <2>2. CaptureOf[Item(p)] \in Capture
      BY <2>1, MappingAssumption
    <2>3. k \in Key /\ DocTyped(k, d)
      BY <2>1, <2>2, KeyParts DEF Key, DocTyped, PromotedText
    <2> QED
      BY <1>4, <1>c, <2>3 DEF Promote
  <1>5. CASE Retire(p)
    <2>1. SegmentOf[Item(p)] \in Partial
      BY <1>b, <1>5 DEF Retire, Remove, Holds, Label, ItemLabel
    <2> QED
      BY <1>a, <1>5, <2>1 DEF Retire, Remove, StoreStep, Unregister
  <1>6. CASE MarkPromoted(p)
    <2> DEFINE k == PromotedKey(SegmentOf[Item(p)])
    <2>1. SegmentOf[Item(p)] \in Partial
      BY <1>b, <1>6 DEF MarkPromoted, Write, Holds, Label, ItemLabel
    <2>2. k \in Key /\ DocTyped(k, CaptureOf[Item(p)])
      BY <2>1, KeyParts DEF Key, DocTyped
    <2> QED
      BY <1>6, <1>c, <2>2 DEF MarkPromoted
  <1>7. CASE WriteProvisional(p)
    <2> DEFINE k == LiveKey(Item(p))
    <2>1. Item(p) \in Partial /\ pass[p].doc \in 0..MaxUploads
      BY <1>b, <1>7 DEF WriteProvisional, Write, Holds, Label, ItemLabel
    <2>2. k \in Key /\ DocTyped(k, pass[p].doc)
      BY <2>1, KeyParts DEF Key, DocTyped
    <2> QED
      BY <1>7, <1>c, <2>2 DEF WriteProvisional
  <1>8. CASE WriteFirstLook(p)
    <2> DEFINE k == FirstLookKey(CaptureOf[Item(p)])
               d == FinalText(Item(p))
    <2>1. Item(p) \in Final
      BY <1>b, <1>8 DEF WriteFirstLook, Write, Holds, Label, ItemLabel
    <2>2. CaptureOf[Item(p)] \in Capture
      BY <2>1, MappingAssumption
    <2>3. k \in Key /\ DocTyped(k, d)
      BY <2>1, <2>2, KeyParts, BoundAssumption DEF Key, DocTyped, FinalText
    <2> QED
      BY <1>8, <1>c, <2>3 DEF WriteFirstLook
  <1>9. CASE WriteInbox(p)
    <2> DEFINE k == InboxKey(Item(p))
    <2>1. Item(p) \in Fixes
      BY <1>b, <1>9 DEF WriteInbox, Write, Holds, Label, ItemLabel
    <2>2. k \in Key /\ DocTyped(k, "point")
      BY <2>1, KeyParts DEF Key, DocTyped
    <2> QED
      BY <1>9, <1>c, <2>2 DEF WriteInbox
  <1>10. CASE WriteBelieved(p)
    <2> DEFINE e == pass[p].doc
               k == LatestKey(DeviceOf[e])
    <2>1. e \in Fixes
      BY <1>a, <1>10 DEF WriteBelieved, Write, PassTyped, InHandTyped
    <2>2. DeviceOf[e] \in Device
      BY <2>1, MappingAssumption, ObjectAssumption
    <2>3. k \in Key /\ DocTyped(k, e)
      BY <2>1, <2>2, KeyParts DEF Key, DocTyped
    <2> QED
      BY <1>10, <1>c, <2>3 DEF WriteBelieved
  <1>11. CASE \/ Begin(p) \/ List(p) \/ Scan(p) \/ ScanEnd(p) \/ Take(p)
              \/ BatchEnd(p) \/ Drop(p) \/ Identify(p) \/ ReadSightings(p)
              \/ ReadProvisional(p) \/ CheckFirstLook(p)
              \/ DownloadPartial(p) \/ CheckPromoted(p) \/ DownloadFinal(p)
              \/ DownloadEvent(p) \/ ReadBelieved(p) \/ End(p)
              \/ Fault(p) \/ Crash(p)
    BY <1>11, <1>d
    DEF Begin, List, Scan, ScanEnd, Take, BatchEnd, Drop, Identify,
        ReadSightings,
        ReadProvisional, CheckFirstLook, DownloadPartial, CheckPromoted,
        DownloadFinal, DownloadEvent, ReadBelieved, End, Fault, Crash,
        Goto, Carry
  <1> QED
    BY <1>1, <1>2, <1>3, <1>4, <1>5, <1>6, <1>7, <1>8, <1>9, <1>10, <1>11
    DEF Step

\* A step of one pass leaves the others, the uploads and the window alone.
LEMMA PassFrame ==
  ASSUME TypeOK, NEW p \in Pass, Step(p) \/ Fault(p) \/ Crash(p)
  PROVE  /\ DOMAIN pass' = Pass
         /\ \A q \in Pass \ {p} : pass'[q] = pass[q]
         /\ UNCHANGED sourceVars
         /\ faults' \in 0..MaxFaults
  <1> USE DEF TypeOK
  <1>1. CASE \/ WriteReceipt(p) \/ WriteBlob(p) \/ WriteProvenance(p)
             \/ Promote(p) \/ Retire(p) \/ MarkPromoted(p)
             \/ WriteProvisional(p) \/ WriteFirstLook(p) \/ WriteInbox(p)
             \/ WriteBelieved(p)
    BY <1>1
    DEF WriteReceipt, WriteBlob, WriteProvenance, Promote, Retire,
        MarkPromoted, WriteProvisional, WriteFirstLook, WriteInbox,
        WriteBelieved, Write, Remove
  <1>2. CASE \/ Begin(p) \/ List(p) \/ ScanEnd(p) \/ Take(p) \/ BatchEnd(p)
             \/ Drop(p) \/ Identify(p) \/ ReadSightings(p)
             \/ ReadProvisional(p) \/ CheckFirstLook(p)
             \/ DownloadPartial(p) \/ CheckPromoted(p) \/ DownloadFinal(p)
             \/ DownloadEvent(p) \/ End(p)
    BY <1>2
    DEF Begin, List, ScanEnd, Take, BatchEnd, Drop, Identify, ReadSightings,
        ReadProvisional, CheckFirstLook, DownloadPartial, CheckPromoted,
        DownloadFinal, DownloadEvent, End, Goto, Carry
  <1>3. CASE Scan(p)
    BY <1>3, BoundAssumption DEF Scan, Scanned
  <1>4. CASE ReadBelieved(p)
    BY <1>4, BoundAssumption DEF ReadBelieved
  <1>5. CASE Fault(p) \/ Crash(p)
    BY <1>5, BoundAssumption DEF Fault, Crash
  <1> QED
    BY <1>1, <1>2, <1>3, <1>4, <1>5 DEF Step

\* TypeOK holds initially and is preserved by every step, hence always.
THEOREM TypeCorrect == Spec => []TypeOK
  <1>1. Init => TypeOK
    <2> SUFFICES ASSUME Init PROVE TypeOK
      OBVIOUS
    <2>1. \A p \in Pass : PassTyped(pass[p])
      BY IdleTyped DEF Init
    <2> QED
      BY <2>1, BoundAssumption DEF Init, LedgerInit, TypeOK, StoreTyped, Has
  <1>2. TypeOK /\ [Next]_vars => TypeOK'
    <2> SUFFICES ASSUME TypeOK, [Next]_vars PROVE TypeOK'
      OBVIOUS
    <2>1. ASSUME NEW p \in Pass, Step(p) \/ Fault(p) \/ Crash(p)
          PROVE  TypeOK'
      <3>1. \A q \in Pass : PassTyped(pass'[q])
        BY <2>1, PassTypedStep, PassFrame DEF TypeOK
      <3> QED
        BY <2>1, <3>1, LedgerStep, StoreTypedStep, PassFrame
        DEF TypeOK, sourceVars
    <2>2. ASSUME NEW o \in Object, Upload(o)
          PROVE  TypeOK'
      BY <2>2, BoundAssumption
      DEF Upload, TypeOK, StoreTyped, Has, ledgerVars
    <2>3. CASE AgeOut
      BY <2>3 DEF AgeOut, TypeOK, StoreTyped, Has, ledgerVars
    <2>4. CASE UNCHANGED vars
      BY <2>4 DEF vars, ledgerVars, sourceVars, TypeOK, StoreTyped, Has
    <2> QED
      BY <2>1, <2>2, <2>3, <2>4 DEF Next
  <1> QED
    BY <1>1, <1>2, PTL DEF Spec

-----------------------------------------------------------------------------
(* The receipt is backed by its artifacts. *)

\* Nothing but a live transcript is ever taken out of the bucket.
LEMMA Durable ==
  ASSUME StoreStep, NEW k, Has(k), \A s \in Partial : k # LiveKey(s)
  PROVE  Has(k)'
  BY DEF StoreStep, Put, Delete, Has

\* What makes an item performed is never removed.
LEMMA PerformedStays ==
  ASSUME StoreStep, NEW o, Performed(o)
  PROVE  Performed(o)'
  BY Durable, KeyParts DEF Performed, Has

\* Only the receipt write of the item in hand adds a receipt.
LEMMA ReceiptSource ==
  ASSUME NEW p \in Pass, Step(p) \/ Fault(p) \/ Crash(p),
         NEW o, NEW t, Receipted(o, t)', ~Receipted(o, t)
  PROVE  WriteReceipt(p) /\ o = Item(p)
  <1> USE KeyParts DEF Receipted, Has, Put
  <1>1. CASE WriteReceipt(p)
    BY <1>1 DEF WriteReceipt, Write
  <1>2. CASE WriteBlob(p)
    BY <1>2 DEF WriteBlob, Write
  <1>3. CASE WriteProvenance(p)
    BY <1>3 DEF WriteProvenance, Write
  <1>4. CASE Promote(p)
    BY <1>4 DEF Promote, Write
  <1>5. CASE Retire(p)
    BY <1>5 DEF Retire, Remove, Delete
  <1>6. CASE MarkPromoted(p)
    BY <1>6 DEF MarkPromoted, Write
  <1>7. CASE WriteProvisional(p)
    BY <1>7 DEF WriteProvisional, Write
  <1>8. CASE WriteFirstLook(p)
    BY <1>8 DEF WriteFirstLook, Write
  <1>9. CASE WriteInbox(p)
    BY <1>9 DEF WriteInbox, Write
  <1>10. CASE WriteBelieved(p)
    BY <1>10 DEF WriteBelieved, Write
  <1>11. CASE \/ Begin(p) \/ List(p) \/ Scan(p) \/ ScanEnd(p) \/ Take(p)
              \/ BatchEnd(p) \/ Drop(p) \/ Identify(p) \/ ReadSightings(p)
              \/ ReadProvisional(p) \/ CheckFirstLook(p)
              \/ DownloadPartial(p) \/ CheckPromoted(p) \/ DownloadFinal(p)
              \/ DownloadEvent(p) \/ ReadBelieved(p) \/ End(p)
              \/ Fault(p) \/ Crash(p)
    BY <1>11
    DEF Begin, List, Scan, ScanEnd, Take, BatchEnd, Drop, Identify,
        ReadSightings,
        ReadProvisional, CheckFirstLook, DownloadPartial, CheckPromoted,
        DownloadFinal, DownloadEvent, ReadBelieved, End, Fault, Crash,
        Goto, Carry, ledgerVars
  <1> QED
    BY <1>1, <1>2, <1>3, <1>4, <1>5, <1>6, <1>7, <1>8, <1>9, <1>10, <1>11
    DEF Step

\* What the bucket already holds for the item that a pass in state b has in
\* hand: each artifact from the moment its write has landed.
Filed(b) ==
  LET o == b.item.o
  IN /\ \/ b.at \in {"sightings", "provenance"}
        \/ b.at = "blob" /\ b.landed
        => Has(BlobKey(o))
     /\ b.at = "provenance" /\ b.landed => Has(ProvenanceKey(CaptureOf[o]))
     /\ b.at = "firstlook" /\ b.landed => Has(FirstLookKey(CaptureOf[o]))
     /\ b.at = "inbox" /\ b.landed => Has(InboxKey(o))
     /\ b.at = "receipt" => Performed(o)
     /\ \/ b.at = "promote" /\ b.landed
        \/ b.at = "retire"
        => Has(FirstLookKey(CaptureOf[o]))

BackedInv == ReceiptBacked /\ \A p \in Pass : Filed(pass[p])

\* What is filed for a pass stays filed while others work.
LEMMA FiledStays ==
  ASSUME StoreStep, NEW b, Filed(b)
  PROVE  Filed(b)'
  BY PerformedStays, Durable, KeyParts DEF Filed

\* Where the moves of a pass lead.
LEMMA MoveShape ==
  ASSUME NEW p, DOMAIN pass[p] = PassField, NEW l
  PROVE  /\ Move(p, l).at = l
         /\ Move(p, l).landed = FALSE
         /\ Move(p, l).item = pass[p].item
  BY DEF Move, PassField

\* The same when a document is taken along.
LEMMA CarryShape ==
  ASSUME NEW p, DOMAIN pass[p] = PassField, p \in DOMAIN pass,
         NEW l, NEW d, Carry(p, l, d)
  PROVE  /\ pass'[p].at = l
         /\ pass'[p].landed = FALSE
         /\ pass'[p].item = pass[p].item
         /\ UNCHANGED store
  BY DEF Carry, Move, PassField, ledgerVars

\* However the item in hand ends, the pass goes back to pick the next.
LEMMA PickShape ==
  ASSUME NEW p, DOMAIN pass[p] = PassField
  PROVE  Settle(p).at = "pick" /\ Finish(p).at = "pick"
  BY DEF Finish, Settle, Move, PassField

\* The two halves of a ledger call at label l that goes on as r.
LEMMA WriteShape ==
  ASSUME NEW p, DOMAIN pass[p] = PassField, p \in DOMAIN pass,
         NEW l, NEW k, NEW d, NEW r, Write(p, l, k, d, r)
  PROVE  /\ pass[p].at = l
         /\ \/ /\ ~pass[p].landed /\ Has(k)'
               /\ pass'[p].at = l /\ pass'[p].item = pass[p].item
            \/ /\ pass[p].landed /\ UNCHANGED store
               /\ pass'[p] = r
  BY DEF Write, Put, Has, At, PassField

\* The two halves of a removal at label l that goes on as r.
LEMMA RemoveShape ==
  ASSUME NEW p, DOMAIN pass[p] = PassField, p \in DOMAIN pass,
         NEW l, NEW k, NEW r, Remove(p, l, k, r)
  PROVE  /\ pass[p].at = l
         /\ \/ pass'[p].at = l /\ pass'[p].item = pass[p].item
            \/ pass'[p] = r
  BY DEF Remove, At, PassField

\* The pass that takes a step files what its next label relies on.
LEMMA FiledStep ==
  ASSUME TypeOK, NEW p \in Pass, Filed(pass[p]),
         Step(p) \/ Fault(p) \/ Crash(p)
  PROVE  Filed(pass[p])'
  <1> USE DEF At, Item
  <1>a. /\ PassTyped(pass[p]) /\ DOMAIN pass[p] = PassField
        /\ p \in DOMAIN pass /\ DOMAIN pass' = Pass
    BY PassFrame DEF TypeOK, PassTyped, BatchTyped
  <1>b. pass[p].at \in ItemLabel =>
          /\ pass[p].item.o \in Object
          /\ Holds(pass[p].at, pass[p].item.o, pass[p].doc)
    BY <1>a DEF PassTyped, InHandTyped, ItemRecord
  <1>c. StoreStep
    BY LedgerStep
  <1>d. ASSUME pass'[p].at \notin {"blob", "sightings", "provenance",
                                   "firstlook", "inbox", "receipt",
                                   "promote", "retire"}
        PROVE  Filed(pass[p])'
    BY <1>d DEF Filed
  <1>e. ASSUME pass'[p].at \in {"blob", "firstlook", "inbox", "promote"},
               ~pass'[p].landed
        PROVE  Filed(pass[p])'
    BY <1>e DEF Filed
  <1>f. ASSUME pass'[p].at = "receipt", Performed(pass[p].item.o)'
        PROVE  Filed(pass[p])'
    BY <1>f DEF Filed
  <1>1. CASE List(p)
    <2>1. pass'[p].at = "scan"
      BY <1>a, <1>1 DEF List, IdlePass
    <2> QED
      BY <2>1, <1>d
  <1>2. CASE Begin(p)
    <2>1. pass'[p].at = "list"
      BY <1>a, <1>2 DEF Begin, IdlePass
    <2> QED
      BY <2>1, <1>d
  <1>3. CASE End(p)
    <2>1. pass'[p].at = "idle"
      BY <1>a, <1>3 DEF End, IdlePass
    <2> QED
      BY <2>1, <1>d
  <1>4. CASE Crash(p)
    <2>1. pass'[p].at = "idle"
      BY <1>a, <1>4 DEF Crash, IdlePass
    <2> QED
      BY <2>1, <1>d
  <1>5. CASE ScanEnd(p)
    <2>1. pass'[p].at = "pick"
      BY <1>a, <1>5, MoveShape, CarryShape, PickShape DEF ScanEnd, Goto
    <2> QED
      BY <2>1, <1>d
  <1>6. CASE BatchEnd(p)
    <2>1. pass'[p].at = "reduce"
      BY <1>a, <1>6, MoveShape, CarryShape, PickShape DEF BatchEnd, Goto
    <2> QED
      BY <2>1, <1>d
  <1>7. CASE Scan(p)
    <2>1. pass'[p].at = "scan"
      BY <1>a, <1>7 DEF Scan, Scanned, PassField
    <2> QED
      BY <2>1, <1>d
  <1>8. CASE Take(p)
    <2>1. PICK it \in Newest(Eligible(p)) :
            pass'[p] = [Move(p, EntryLabel(it.o)) EXCEPT !.item = it,
                          !.doc = NoDoc, !.checks = @ \ {it}]
      BY <1>a, <1>8 DEF Take
    <2>2. pass'[p].at = EntryLabel(it.o)
      BY <1>a, <2>1 DEF Move, PassField
    <2>3. EntryLabel(it.o) \in {"hash", "partial", "final", "event"}
      BY DEF EntryLabel
    <2> QED
      BY <2>2, <2>3, <1>d
  <1>9. CASE Drop(p)
    <2>1. pass'[p].at = "pick"
      BY <1>a, <1>9, MoveShape, CarryShape, PickShape DEF Drop
    <2> QED
      BY <2>1, <1>d
  <1>10. CASE Fault(p)
    <2>1. \/ pass'[p] = Settle(p)
          \/ pass'[p] = [Move(p, "reduce") EXCEPT !.doc = NoDoc,
                            !.noted = @ \ {pass[p].doc}]
      BY <1>a, <1>10 DEF Fault
    <2>2. pass'[p].at \in {"pick", "reduce"}
      BY <1>a, <2>1, PickShape DEF Move, PassField
    <2> QED
      BY <2>2, <1>d
  <1>11. CASE ReadBelieved(p)
    <2>1. PICK e \in pass[p].noted :
            \/ pass'[p] = [Move(p, "believe") EXCEPT !.doc = e]
            \/ pass'[p] = [pass[p] EXCEPT !.noted = @ \ {e}]
      BY <1>a, <1>11 DEF ReadBelieved
    <2>2. pass[p].at = "reduce"
      BY <1>11 DEF ReadBelieved
    <2>3. pass'[p].at \in {"believe", "reduce"}
      BY <1>a, <2>1, <2>2 DEF Move, PassField
    <2> QED
      BY <2>3, <1>d
  <1>12. CASE WriteBelieved(p)
    <2>1. \/ pass'[p].at = "believe"
          \/ pass'[p] = [Move(p, "reduce") EXCEPT !.doc = NoDoc,
                            !.noted = @ \ {pass[p].doc}]
      BY <1>a, <1>12, WriteShape DEF WriteBelieved
    <2>2. pass'[p].at \in {"believe", "reduce"}
      BY <1>a, <2>1 DEF Move, PassField
    <2> QED
      BY <2>2, <1>d
  <1>13. CASE ReadProvisional(p)
    <2>1. \/ Carry(p, "adopt", store[LiveKey(SegmentOf[Item(p)])])
          \/ pass'[p] = Finish(p)
      BY <1>a, <1>13 DEF ReadProvisional
    <2>2. pass'[p].at \in {"adopt", "pick"}
      BY <1>a, <2>1, CarryShape, PickShape
    <2> QED
      BY <2>2, <1>d
  <1>14. CASE CheckFirstLook(p)
    <2>1. /\ pass'[p].item = pass[p].item /\ UNCHANGED store
          /\ ~pass'[p].landed
      BY <1>a, <1>14, CarryShape DEF CheckFirstLook, Goto
    <2>2. \/ pass'[p].at = "promote"
          \/ /\ pass'[p].at = "retire"
             /\ Has(FirstLookKey(CaptureOf[pass[p].item.o]))
      BY <1>a, <1>14, CarryShape DEF CheckFirstLook, Goto
    <2>3. CASE pass'[p].at = "promote"
      BY <1>e, <2>1, <2>3
    <2>4. CASE /\ pass'[p].at = "retire"
               /\ Has(FirstLookKey(CaptureOf[pass[p].item.o]))
      BY <2>1, <2>4 DEF Filed, Has
    <2> QED
      BY <2>2, <2>3, <2>4
  <1>15. CASE Promote(p)
    <2>1. \/ /\ pass'[p].at = "promote" /\ pass'[p].item = pass[p].item
             /\ Has(FirstLookKey(CaptureOf[pass[p].item.o]))'
          \/ /\ pass[p].landed /\ UNCHANGED store
             /\ pass'[p] = Move(p, "retire")
      BY <1>a, <1>15, WriteShape DEF Promote
    <2>2. CASE /\ pass'[p].at = "promote" /\ pass'[p].item = pass[p].item
               /\ Has(FirstLookKey(CaptureOf[pass[p].item.o]))'
      BY <2>2 DEF Filed, Has
    <2>3. CASE /\ pass[p].landed /\ UNCHANGED store
               /\ pass'[p] = Move(p, "retire")
      <3>1. Has(FirstLookKey(CaptureOf[pass[p].item.o]))
        BY <1>15, <2>3 DEF Promote, Write, Filed
      <3>2. pass'[p].at = "retire" /\ pass'[p].item = pass[p].item
        BY <1>a, <2>3 DEF Move, PassField
      <3> QED
        BY <2>3, <3>1, <3>2 DEF Filed, Has
    <2> QED
      BY <2>1, <2>2, <2>3
  <1>16. CASE Retire(p)
    <2>1. \/ pass'[p].at = "retire" /\ pass'[p].item = pass[p].item
          \/ pass'[p] = Move(p, "mark")
      BY <1>a, <1>16, RemoveShape DEF Retire
    <2>2. CASE pass'[p].at = "retire" /\ pass'[p].item = pass[p].item
      <3>1. Has(FirstLookKey(CaptureOf[pass[p].item.o]))
        BY <1>16 DEF Retire, Remove, Filed
      <3>2. PICK k : k = FirstLookKey(CaptureOf[pass[p].item.o])
        OBVIOUS
      <3>3. \A s \in Partial : k # LiveKey(s)
        BY <3>2, KeyParts
      <3>4. Has(k)'
        BY <1>c, <3>1, <3>2, <3>3, Durable
      <3> QED
        BY <2>2, <3>2, <3>4 DEF Filed, Has
    <2>3. CASE pass'[p] = Move(p, "mark")
      <3>1. pass'[p].at = "mark"
        BY <1>a, <2>3 DEF Move, PassField
      <3> QED
        BY <3>1, <1>d
    <2> QED
      BY <2>1, <2>2, <2>3
  <1>17. CASE MarkPromoted(p)
    <2>1. pass'[p].at = "mark" \/ pass'[p] = Finish(p)
      BY <1>a, <1>17, WriteShape DEF MarkPromoted
    <2>2. pass'[p].at \in {"mark", "pick"}
      BY <1>a, <2>1, MoveShape, PickShape
    <2> QED
      BY <2>2, <1>d
  <1>18. CASE WriteReceipt(p)
    <2>1. Performed(pass[p].item.o)
      BY <1>18 DEF WriteReceipt, Write, Filed
    <2>2. \/ pass'[p].at = "receipt" /\ pass'[p].item = pass[p].item
          \/ pass'[p] = Move(p, "seal")
          \/ pass'[p] = Finish(p)
      BY <1>a, <1>18, WriteShape DEF WriteReceipt
    <2>3. CASE pass'[p].at = "receipt" /\ pass'[p].item = pass[p].item
      <3>1. PICK o : o = pass[p].item.o
        OBVIOUS
      <3>2. Performed(o)'
        BY <1>c, <2>1, <3>1, PerformedStays
      <3>3. Performed(pass[p].item.o)'
        BY <2>3, <3>1, <3>2 DEF Performed, Has
      <3> QED
        BY <1>f, <2>3, <3>3
    <2>4. CASE pass'[p] = Move(p, "seal")
      <3>1. pass'[p].at = "seal"
        BY <1>a, <2>4 DEF Move, PassField
      <3> QED
        BY <3>1, <1>d
    <2>5. CASE pass'[p] = Finish(p)
      <3>1. pass'[p].at = "pick"
        BY <1>a, <2>5, PickShape
      <3> QED
        BY <3>1, <1>d
    <2> QED
      BY <2>2, <2>3, <2>4, <2>5
  <1>19. CASE Identify(p)
    <2>1. pass[p].item.o \in Audio /\ UNCHANGED store
      BY <1>a, <1>b, <1>19, CarryShape
      DEF Identify, Goto, Holds, Label, ItemLabel
    <2>2. CASE Item(p) \in Grandfathered
      <3>1. pass'[p].at = "receipt" /\ pass'[p].item = pass[p].item
        BY <1>a, <1>19, <2>2, MoveShape, CarryShape, PickShape
        DEF Identify, Goto
      <3>2. Performed(pass[p].item.o)'
        BY <2>1, <2>2, <3>1, ObjectAssumption DEF Performed
      <3> QED
        BY <1>f, <3>1, <3>2
    <2>3. CASE Item(p) \notin Grandfathered /\ Has(BlobKey(Item(p)))
      <3>1. pass'[p].at = "sightings" /\ pass'[p].item = pass[p].item
        BY <1>a, <1>19, <2>3, MoveShape, CarryShape, PickShape
        DEF Identify, Goto
      <3> QED
        BY <2>1, <2>3, <3>1 DEF Filed, Has
    <2>4. CASE Item(p) \notin Grandfathered /\ ~Has(BlobKey(Item(p)))
      <3>1. pass'[p].at = "blob" /\ ~pass'[p].landed
        BY <1>a, <1>19, <2>4, MoveShape, CarryShape, PickShape
        DEF Identify, Goto
      <3> QED
        BY <1>e, <3>1
    <2> QED
      BY <2>2, <2>3, <2>4
  <1>20. CASE WriteBlob(p)
    <2>1. \/ /\ pass'[p].at = "blob" /\ pass'[p].item = pass[p].item
             /\ Has(BlobKey(pass[p].item.o))'
          \/ /\ pass[p].landed /\ UNCHANGED store
             /\ pass'[p] = Move(p, "sightings")
      BY <1>a, <1>20, WriteShape DEF WriteBlob
    <2>2. CASE /\ pass'[p].at = "blob" /\ pass'[p].item = pass[p].item
               /\ Has(BlobKey(pass[p].item.o))'
      BY <2>2 DEF Filed, Has
    <2>3. CASE /\ pass[p].landed /\ UNCHANGED store
               /\ pass'[p] = Move(p, "sightings")
      <3>1. Has(BlobKey(pass[p].item.o))
        BY <1>20, <2>3 DEF WriteBlob, Write, Filed
      <3>2. pass'[p].at = "sightings" /\ pass'[p].item = pass[p].item
        BY <1>a, <2>3 DEF Move, PassField
      <3> QED
        BY <2>3, <3>1, <3>2 DEF Filed, Has
    <2> QED
      BY <2>1, <2>2, <2>3
  <1>21. CASE ReadSightings(p)
    <2>1. /\ pass[p].item.o \in Audio /\ UNCHANGED store
          /\ Has(BlobKey(pass[p].item.o)) /\ pass'[p].item = pass[p].item
          /\ ~pass'[p].landed
      BY <1>a, <1>b, <1>21, MoveShape, CarryShape, PickShape
      DEF ReadSightings, ledgerVars, Holds, Label, ItemLabel, Filed
    <2>2. \/ pass'[p].at = "provenance"
          \/ /\ pass'[p].at = "receipt"
             /\ Has(ProvenanceKey(CaptureOf[pass[p].item.o]))
      BY <1>a, <1>21, MoveShape, CarryShape, PickShape DEF ReadSightings
    <2>3. CASE pass'[p].at = "provenance"
      BY <2>1, <2>3 DEF Filed, Has
    <2>4. CASE /\ pass'[p].at = "receipt"
               /\ Has(ProvenanceKey(CaptureOf[pass[p].item.o]))
      <3>1. Performed(pass[p].item.o)'
        BY <2>1, <2>4, ObjectAssumption DEF Performed, Has
      <3> QED
        BY <1>f, <2>4, <3>1
    <2> QED
      BY <2>2, <2>3, <2>4
  <1>22. CASE WriteProvenance(p)
    <2>1. pass[p].item.o \in Audio
      BY <1>b, <1>22 DEF WriteProvenance, Write, Holds, Label, ItemLabel
    <2>2. Has(BlobKey(pass[p].item.o))'
      <3>1. Has(BlobKey(pass[p].item.o))
        BY <1>22 DEF WriteProvenance, Write, Filed
      <3>2. \A s \in Partial : BlobKey(pass[p].item.o) # LiveKey(s)
        BY KeyParts
      <3>3. PICK k : k = BlobKey(pass[p].item.o)
        OBVIOUS
      <3>4. Has(k)'
        BY <1>c, <3>1, <3>2, <3>3, Durable
      <3>5. pass'[p].item = pass[p].item
        <4>1. \/ pass'[p].item = pass[p].item
              \/ pass'[p] = Move(p, "receipt")
          BY <1>a, <1>22, WriteShape DEF WriteProvenance
        <4> QED
          BY <1>a, <4>1 DEF Move, PassField
      <3> QED
        BY <3>3, <3>4, <3>5 DEF Has
    <2>3. \/ /\ pass'[p].at = "provenance" /\ pass'[p].item = pass[p].item
             /\ Has(ProvenanceKey(CaptureOf[pass[p].item.o]))'
          \/ /\ pass[p].landed /\ UNCHANGED store
             /\ pass'[p] = Move(p, "receipt")
      BY <1>a, <1>22, WriteShape DEF WriteProvenance
    <2>4. CASE /\ pass'[p].at = "provenance" /\ pass'[p].item = pass[p].item
               /\ Has(ProvenanceKey(CaptureOf[pass[p].item.o]))'
      BY <2>2, <2>4 DEF Filed, Has
    <2>5. CASE /\ pass[p].landed /\ UNCHANGED store
               /\ pass'[p] = Move(p, "receipt")
      <3>1. Has(ProvenanceKey(CaptureOf[pass[p].item.o]))
        BY <1>22, <2>5 DEF WriteProvenance, Write, Filed
      <3>2. pass'[p].at = "receipt"
        BY <1>a, <2>5, MoveShape DEF Move, PassField
      <3>3. Performed(pass[p].item.o)'
        <4>1. pass'[p].item = pass[p].item
          BY <1>a, <2>5, MoveShape DEF Move, PassField
        <4> QED
          BY <2>1, <2>2, <2>5, <3>1, <4>1, ObjectAssumption DEF Performed, Has
      <3> QED
        BY <1>f, <3>2, <3>3
    <2> QED
      BY <2>3, <2>4, <2>5
  <1>23. CASE DownloadPartial(p)
    <2>1. pass[p].item.o \in Partial
      BY <1>b, <1>23 DEF DownloadPartial, Holds, Label, ItemLabel
    <2>2. pass'[p].item = pass[p].item /\ pass'[p].at \in {"receipt", "raced"}
      BY <1>a, <1>23, MoveShape, CarryShape, PickShape DEF DownloadPartial
    <2>3. Performed(pass[p].item.o)'
      BY <2>1, <2>2, ObjectAssumption DEF Performed
    <2> QED
      BY <1>d, <1>f, <2>2, <2>3
  <1>24. CASE CheckPromoted(p)
    <2>1. pass[p].item.o \in Partial
      BY <1>b, <1>24 DEF CheckPromoted, Holds, Label, ItemLabel
    <2>2. /\ pass'[p].item = pass[p].item
          /\ pass'[p].at \in {"receipt", "provisional"}
      BY <1>a, <1>24, MoveShape, CarryShape, PickShape DEF CheckPromoted, Goto
    <2>3. Performed(pass[p].item.o)'
      BY <2>1, <2>2, ObjectAssumption DEF Performed
    <2> QED
      BY <1>d, <1>f, <2>2, <2>3
  <1>25. CASE WriteProvisional(p)
    <2>1. pass[p].item.o \in Partial
      BY <1>b, <1>25 DEF WriteProvisional, Write, Holds, Label, ItemLabel
    <2>2. \/ pass'[p].at = "provisional"
          \/ pass'[p] = Move(p, "receipt")
      BY <1>a, <1>25, WriteShape DEF WriteProvisional
    <2>3. CASE pass'[p].at = "provisional"
      BY <1>d, <2>3
    <2>4. CASE pass'[p] = Move(p, "receipt")
      <3>1. pass'[p].at = "receipt" /\ pass'[p].item = pass[p].item
        BY <1>a, <2>4 DEF Move, PassField
      <3>2. Performed(pass[p].item.o)'
        BY <2>1, <3>1, ObjectAssumption DEF Performed
      <3> QED
        BY <1>f, <3>1, <3>2
    <2> QED
      BY <2>2, <2>3, <2>4
  <1>26. CASE DownloadFinal(p)
    <2>1. /\ pass[p].item.o \in Final /\ pass'[p].item = pass[p].item
          /\ ~pass'[p].landed
          /\ \/ pass'[p].at = "firstlook"
             \/ pass'[p].at = "receipt" /\ pass[p].item.o \in Rejected
      BY <1>a, <1>b, <1>26, MoveShape, CarryShape, PickShape
      DEF DownloadFinal, Goto, Holds, Label, ItemLabel
    <2>2. pass[p].item.o \in Rejected => Performed(pass[p].item.o)'
      BY <2>1, ObjectAssumption DEF Performed
    <2> QED
      BY <1>e, <1>f, <2>1, <2>2
  <1>27. CASE WriteFirstLook(p)
    <2>1. pass[p].item.o \in Final
      BY <1>b, <1>27 DEF WriteFirstLook, Write, Holds, Label, ItemLabel
    <2>3. \/ /\ pass'[p].at = "firstlook" /\ pass'[p].item = pass[p].item
             /\ Has(FirstLookKey(CaptureOf[pass[p].item.o]))'
          \/ /\ pass[p].landed /\ UNCHANGED store
             /\ pass'[p] = Move(p, "receipt")
      BY <1>a, <1>27, WriteShape DEF WriteFirstLook
    <2>4. CASE /\ pass'[p].at = "firstlook" /\ pass'[p].item = pass[p].item
               /\ Has(FirstLookKey(CaptureOf[pass[p].item.o]))'
      BY <2>4 DEF Filed, Has
    <2>5. CASE /\ pass[p].landed /\ UNCHANGED store
               /\ pass'[p] = Move(p, "receipt")
      <3>1. Has(FirstLookKey(CaptureOf[pass[p].item.o]))
        BY <1>27, <2>5 DEF WriteFirstLook, Write, Filed
      <3>2. pass'[p].at = "receipt"
        BY <1>a, <2>5, MoveShape DEF Move, PassField
      <3>3. Performed(pass[p].item.o)'
        <4>1. pass'[p].item = pass[p].item
          BY <1>a, <2>5, MoveShape DEF Move, PassField
        <4> QED
          BY <2>1, <2>5, <3>1, <4>1, ObjectAssumption DEF Performed, Has
      <3> QED
        BY <1>f, <3>2, <3>3
    <2> QED
      BY <2>3, <2>4, <2>5
  <1>28. CASE DownloadEvent(p)
    <2>1. /\ pass[p].item.o \in Event /\ pass'[p].item = pass[p].item
          /\ ~pass'[p].landed
          /\ \/ pass'[p].at = "inbox"
             \/ pass'[p].at = "receipt" /\ pass[p].item.o \notin Fixes
      BY <1>a, <1>b, <1>28, MoveShape, CarryShape, PickShape
      DEF DownloadEvent, Goto, Holds, Label, ItemLabel
    <2>2. pass[p].item.o \notin Fixes => Performed(pass[p].item.o)'
      BY <2>1, ObjectAssumption DEF Performed
    <2> QED
      BY <1>e, <1>f, <2>1, <2>2
  <1>29. CASE WriteInbox(p)
    <2>1. pass[p].item.o \in Fixes
      BY <1>b, <1>29 DEF WriteInbox, Write, Holds, Label, ItemLabel
    <2>3. \/ /\ pass'[p].at = "inbox" /\ pass'[p].item = pass[p].item
             /\ Has(InboxKey(pass[p].item.o))'
          \/ /\ pass[p].landed /\ UNCHANGED store
             /\ pass'[p] = [Move(p, "receipt") EXCEPT
                              !.noted = NoteFix(@, Item(p))]
      BY <1>a, <1>29, WriteShape DEF WriteInbox
    <2>4. CASE /\ pass'[p].at = "inbox" /\ pass'[p].item = pass[p].item
               /\ Has(InboxKey(pass[p].item.o))'
      BY <2>4 DEF Filed, Has
    <2>5. CASE /\ pass[p].landed /\ UNCHANGED store
               /\ pass'[p] = [Move(p, "receipt") EXCEPT
                              !.noted = NoteFix(@, Item(p))]
      <3>1. Has(InboxKey(pass[p].item.o))
        BY <1>29, <2>5 DEF WriteInbox, Write, Filed
      <3>2. pass'[p].at = "receipt"
        BY <1>a, <2>5, MoveShape DEF Move, PassField
      <3>3. Performed(pass[p].item.o)'
        <4>1. pass'[p].item = pass[p].item
          BY <1>a, <2>5, MoveShape DEF Move, PassField
        <4> QED
          BY <2>1, <2>5, <3>1, <4>1, ObjectAssumption DEF Performed, Has
      <3> QED
        BY <1>f, <3>2, <3>3
    <2> QED
      BY <2>3, <2>4, <2>5
  <1> QED
    BY <1>2, <1>3, <1>4, <1>5, <1>6, <1>7, <1>8, <1>9, <1>10, <1>11, <1>12,
       <1>13, <1>14, <1>15, <1>16, <1>17, <1>18, <1>19, <1>20, <1>21, <1>22,
       <1>23, <1>24, <1>25, <1>26, <1>27, <1>28, <1>29, <1>1
    DEF Step

\* BackedInv is inductive: receipts are backed because each pass has filed
\* what its next write promises, and only live transcripts are ever removed.
LEMMA BackedInvariant == Spec => []BackedInv
  <1>1. Init => BackedInv
    BY DEF Init, LedgerInit, BackedInv, ReceiptBacked, Receipted, Has, Filed,
           IdlePass
  <1>2. TypeOK /\ BackedInv /\ [Next]_vars => BackedInv'
    <2> SUFFICES ASSUME TypeOK, BackedInv, [Next]_vars PROVE BackedInv'
      OBVIOUS
    <2>1. ASSUME NEW p \in Pass, Step(p) \/ Fault(p) \/ Crash(p)
          PROVE  BackedInv'
      <3>1. StoreStep
        BY <2>1, LedgerStep
      <3>2. ASSUME NEW q \in Pass PROVE Filed(pass[q])'
        <4>1. CASE q = p
          BY <2>1, <4>1, FiledStep DEF BackedInv
        <4>2. CASE q # p
          <5>1. pass'[q] = pass[q] /\ Filed(pass[q])
            BY <2>1, <4>2, PassFrame DEF BackedInv
          <5>2. \A b : Filed(b) => Filed(b)'
            BY <3>1, FiledStays
          <5> QED
            BY <5>1, <5>2 DEF Filed, Performed, Has
        <4> QED
          BY <4>1, <4>2
      <3>3. ASSUME NEW o \in Object, NEW t \in Stamp, Receipted(o, t)'
            PROVE  Performed(o)'
        <4>1. CASE Receipted(o, t)
          BY <3>1, <4>1, PerformedStays DEF BackedInv, ReceiptBacked
        <4>2. CASE ~Receipted(o, t)
          <5>1. WriteReceipt(p) /\ o = Item(p)
            BY <2>1, <3>3, <4>2, ReceiptSource
          <5>2. Performed(o)
            BY <5>1 DEF WriteReceipt, Write, At, Item, BackedInv, Filed
          <5> QED
            BY <3>1, <5>2, PerformedStays
        <4> QED
          BY <4>1, <4>2
      <3> QED
        BY <3>2, <3>3 DEF BackedInv, ReceiptBacked
    <2>2. ASSUME UNCHANGED <<ledgerVars, pass>>
          PROVE  BackedInv'
      BY <2>2
      DEF BackedInv, ReceiptBacked, Receipted, Performed, Filed, Has,
          ledgerVars
    <2> QED
      BY <2>1, <2>2 DEF Next, Upload, AgeOut, vars
  <1> QED
    BY <1>1, <1>2, TypeCorrect, PTL DEF Spec

\* ReceiptBacked: a receipt is never in the bucket before what it stands for,
\* through failed calls, crashes and passes that overlap.
THEOREM ReceiptsAreBacked == Spec => []ReceiptBacked
  <1>1. BackedInv => ReceiptBacked
    BY DEF BackedInv
  <1> QED
    BY <1>1, BackedInvariant, PTL

\* What is receipted stays receipted.
LEMMA ReceiptsStay ==
  ASSUME StoreStep, NEW o, NEW t, Receipted(o, t)
  PROVE  Receipted(o, t)'
  BY Durable, KeyParts DEF Receipted, Has

\* The step that lands a receipt performs nothing.
LEMMA ReceiptPerformsNothing ==
  ASSUME NEW p \in Pass, WriteReceipt(p)
  PROVE  PerformedItems' = PerformedItems
  <1>1. \A k : (\A o, t : k # ReceiptKey(o, t)) => Has(k)' = Has(k)
    BY DEF WriteReceipt, Write, Put, Has
  <1>2. \A o : Performed(o)' = Performed(o)
    BY <1>1, KeyParts DEF Performed
  <1> QED
    BY <1>2 DEF PerformedItems

\* ReceiptsKeepPromise: the loop implements ReceiptedWork.  A receipt lands
\* only when its item is performed; every other step leaves the receipts as
\* they are and what is performed performed.
THEOREM LoopKeepsPromise == Spec => ReceiptsKeepPromise
  <1>1. Init => Promise!WorkInit
    BY DEF Init, LedgerInit, Promise!WorkInit, ReceiptedItems, Receipted, Has
  <1>2. TypeOK /\ BackedInv /\ [Next]_vars
          => [Promise!Perform \/ Promise!Confirm]_(Promise!work)
    <2> SUFFICES ASSUME TypeOK, BackedInv, [Next]_vars
                 PROVE  Promise!Perform \/ Promise!Confirm \/ UNCHANGED Promise!work
      OBVIOUS
    <2>1. ASSUME NEW p \in Pass, Step(p) \/ Fault(p) \/ Crash(p)
          PROVE  Promise!Perform \/ Promise!Confirm
      <3>1. StoreStep
        BY <2>1, LedgerStep
      <3>2. CASE \E o \in Object, t \in Stamp :
                   Receipted(o, t)' /\ ~Receipted(o, t)
        <4>1. PICK o \in Object, t \in Stamp :
                Receipted(o, t)' /\ ~Receipted(o, t)
          BY <3>2
        <4>2. WriteReceipt(p)
          BY <2>1, <4>1, ReceiptSource
        <4>3. ASSUME NEW x \in Object, NEW u \in Stamp, Receipted(x, u)'
              PROVE  Performed(x)
          <5>1. CASE Receipted(x, u)
            BY <5>1 DEF BackedInv, ReceiptBacked
          <5>2. CASE ~Receipted(x, u)
            <6>1. x = Item(p)
              BY <2>1, <4>3, <5>2, ReceiptSource
            <6> QED
              BY <4>2, <6>1
              DEF WriteReceipt, Write, At, Item, BackedInv, Filed
          <5> QED
            BY <5>1, <5>2
        <4>4. ReceiptedItems' \subseteq PerformedItems
          BY <4>3 DEF ReceiptedItems, PerformedItems
        <4> QED
          BY <4>2, <4>4, ReceiptPerformsNothing DEF Promise!Confirm
      <3>3. CASE ~\E o \in Object, t \in Stamp :
                    Receipted(o, t)' /\ ~Receipted(o, t)
        <4>1. \A o \in Object, t \in Stamp : Receipted(o, t)' <=> Receipted(o, t)
          <5>1. \A o, t : Receipted(o, t) => Receipted(o, t)'
            BY <3>1, ReceiptsStay
          <5> QED
            BY <3>3, <5>1
        <4>2. \A o \in Object : Performed(o) => Performed(o)'
          BY <3>1, PerformedStays
        <4>3. ReceiptedItems' = ReceiptedItems
          BY <4>1 DEF ReceiptedItems
        <4>4. PerformedItems \subseteq PerformedItems'
          BY <4>2 DEF PerformedItems
        <4> QED
          BY <4>3, <4>4 DEF Promise!Perform
      <3> QED
        BY <3>2, <3>3
    <2>2. CASE UNCHANGED store
      BY <2>2
      DEF Promise!work, PerformedItems, ReceiptedItems, Performed, Receipted,
          Has
    <2> QED
      BY <2>1, <2>2 DEF Next, Upload, AgeOut, vars, ledgerVars
  <1> QED
    BY <1>1, <1>2, TypeCorrect, BackedInvariant, PTL
    DEF Spec, ReceiptsKeepPromise, Promise!WorkSpec

\* Only promotion takes a live transcript out of the bucket.
LEMMA RemovalSource ==
  ASSUME NEW p \in Pass, Step(p) \/ Fault(p) \/ Crash(p),
         NEW s, Has(LiveKey(s)), ~Has(LiveKey(s))'
  PROVE  Retire(p) /\ s = SegmentOf[Item(p)]
  <1>1. CASE Retire(p)
    BY <1>1, KeyParts DEF Retire, Remove, Delete, Has
  <1>2. CASE \/ WriteReceipt(p) \/ WriteBlob(p) \/ WriteProvenance(p)
             \/ Promote(p) \/ MarkPromoted(p) \/ WriteProvisional(p)
             \/ WriteFirstLook(p) \/ WriteInbox(p) \/ WriteBelieved(p)
    BY <1>2
    DEF WriteReceipt, WriteBlob, WriteProvenance, Promote, MarkPromoted,
        WriteProvisional, WriteFirstLook, WriteInbox, WriteBelieved, Write,
        Put, Has
  <1>3. CASE \/ Begin(p) \/ List(p) \/ Scan(p) \/ ScanEnd(p) \/ Take(p)
             \/ BatchEnd(p) \/ Drop(p) \/ Identify(p) \/ ReadSightings(p)
             \/ ReadProvisional(p) \/ CheckFirstLook(p)
             \/ DownloadPartial(p) \/ CheckPromoted(p) \/ DownloadFinal(p)
             \/ DownloadEvent(p) \/ ReadBelieved(p) \/ End(p)
             \/ Fault(p) \/ Crash(p)
    BY <1>3
    DEF Begin, List, Scan, ScanEnd, Take, BatchEnd, Drop, Identify,
        ReadSightings, ReadProvisional, CheckFirstLook, DownloadPartial,
        CheckPromoted, DownloadFinal, DownloadEvent, ReadBelieved, End,
        Fault, Crash, Goto, Carry, ledgerVars, Has
  <1> QED
    BY <1>1, <1>2, <1>3 DEF Step

\* NoTranscriptLost: promotion removes the live transcript of a segment only
\* when a first look is filed under a capture that seals the segment.
THEOREM TranscriptsAreKept == Spec => NoTranscriptLost
  <1> DEFINE Kept ==
        \A s \in Partial : Has(LiveKey(s)) /\ ~Has(LiveKey(s))' =>
          \E a \in Audio :
            SegmentOf[a] = s /\ Has(FirstLookKey(CaptureOf[a]))
  <1>1. TypeOK /\ BackedInv /\ [Next]_vars => [Kept]_vars
    <2> SUFFICES ASSUME TypeOK, BackedInv, [Next]_vars,
                        NEW s \in Partial,
                        Has(LiveKey(s)), ~Has(LiveKey(s))'
                 PROVE  \E a \in Audio : /\ SegmentOf[a] = s
                                         /\ Has(FirstLookKey(CaptureOf[a]))
      OBVIOUS
    <2>1. PICK p \in Pass : Step(p) \/ Fault(p) \/ Crash(p)
      <3>1. ~UNCHANGED store
        BY DEF Has
      <3> QED
        BY <3>1 DEF Next, Upload, AgeOut, vars, ledgerVars
    <2>2. Retire(p) /\ s = SegmentOf[Item(p)]
      BY <2>1, RemovalSource
    <2>3. pass[p].at = "retire"
      BY <2>2 DEF Retire, Remove, At
    <2>4. Item(p) \in Audio
      BY <2>3 DEF TypeOK, PassTyped, InHandTyped, Holds, Item, Label, ItemLabel
    <2>5. Has(FirstLookKey(CaptureOf[Item(p)]))
      BY <2>3 DEF BackedInv, Filed, Item
    <2> QED
      BY <2>2, <2>4, <2>5
  <1> QED
    BY <1>1, TypeCorrect, BackedInvariant, PTL DEF Spec, NoTranscriptLost

-----------------------------------------------------------------------------
(* One pass at a time.                                                     *)

(* A step of a pass either lands one artifact in the bucket, or leaves the *)
(* bucket alone and goes on.                                               *)

\* The bucket half of a ledger call: what each label writes or removes.
Lands(p) ==
  /\ ~pass[p].landed
  /\ pass'[p] = [pass[p] EXCEPT !.landed = TRUE]
  /\ UNCHANGED <<index, faults>>
  /\ \/ At(p, "blob") /\ Put(BlobKey(Item(p)), "bytes")
     \/ /\ At(p, "provenance")
        /\ Put(ProvenanceKey(CaptureOf[Item(p)]), pass[p].doc \cup {Item(p)})
     \/ /\ At(p, "receipt")
        /\ Put(ReceiptKey(Item(p), pass[p].item.t), ReceiptDoc(Item(p)))
     \/ /\ At(p, "promote")
        /\ Put(FirstLookKey(CaptureOf[Item(p)]), PromotedText(pass[p].doc))
     \/ At(p, "retire") /\ Delete(LiveKey(SegmentOf[Item(p)]))
     \/ /\ At(p, "mark")
        /\ Put(PromotedKey(SegmentOf[Item(p)]), CaptureOf[Item(p)])
     \/ At(p, "provisional") /\ Put(LiveKey(Item(p)), pass[p].doc)
     \/ /\ At(p, "firstlook")
        /\ Put(FirstLookKey(CaptureOf[Item(p)]), FinalText(Item(p)))
     \/ At(p, "inbox") /\ Put(InboxKey(Item(p)), "point")
     \/ /\ At(p, "believe")
        /\ Put(LatestKey(DeviceOf[pass[p].doc]), pass[p].doc)

\* How a pass comes to the labels whose writes depend on what it read.
Arrives(b, c) ==
  /\ c.at = "provenance" =>
       /\ c.item = b.item /\ ~c.landed
       /\ LET key == ProvenanceKey(CaptureOf[b.item.o])
          IN c.doc = IF Has(key) THEN store[key] ELSE {}
  /\ c.at = "receipt" /\ c.item.o \in Audio \ Grandfathered =>
       /\ c.item = b.item
       /\ \/ b.at = "provenance" /\ b.landed
          \/ LET key == ProvenanceKey(CaptureOf[b.item.o])
             IN Has(key) /\ b.item.o \in store[key]
  /\ c.at = "promote" =>
       /\ c.item = b.item /\ ~c.landed
       /\ ~Has(FirstLookKey(CaptureOf[b.item.o]))
  /\ c.at = "retire" => ~c.landed
  /\ c.at = "mark" => c.item = b.item /\ b.at = "retire" /\ b.landed
  /\ c.at = "provisional" =>
       c.item = b.item /\ ~c.landed /\ ~Has(PromotedKey(b.item.o))

GoesOn(p) == UNCHANGED store /\ Arrives(pass[p], pass'[p])

\* A pass at no such label has nothing to answer for.
LEMMA ArrivesNowhere ==
  ASSUME NEW b, NEW c,
         c.at \notin {"provenance", "receipt", "promote", "retire", "mark",
                      "provisional"}
  PROVE  Arrives(b, c)
  BY DEF Arrives

\* Every step of a pass is one or the other.
LEMMA StepKinds ==
  ASSUME TypeOK, NEW p \in Pass, Step(p) \/ Fault(p) \/ Crash(p)
  PROVE  Lands(p) \/ GoesOn(p)
  <1> USE DEF At, Item
  <1>a. /\ PassTyped(pass[p]) /\ DOMAIN pass[p] = PassField
        /\ p \in DOMAIN pass
    BY DEF TypeOK, PassTyped, BatchTyped
  <1>b. pass[p].at \in ItemLabel =>
          Holds(pass[p].at, pass[p].item.o, pass[p].doc)
    BY <1>a DEF PassTyped, InHandTyped
  <1>c. ASSUME UNCHANGED store,
               pass'[p].at \notin {"provenance", "receipt", "promote",
                                  "retire", "mark", "provisional"}
        PROVE  GoesOn(p)
    BY <1>c, ArrivesNowhere DEF GoesOn
  <1>d. ASSUME UNCHANGED store, pass'[p].at = "receipt",
               pass'[p].item = pass[p].item,
               pass[p].item.o \notin Audio \ Grandfathered
        PROVE  GoesOn(p)
    BY <1>d DEF GoesOn, Arrives
  <1>e. ASSUME NEW l, NEW k, NEW d, NEW r, Write(p, l, k, d, r)
        PROVE  \/ /\ pass[p].at = l /\ ~pass[p].landed /\ Put(k, d)
                  /\ pass'[p] = [pass[p] EXCEPT !.landed = TRUE]
                  /\ UNCHANGED <<index, faults>>
               \/ /\ pass[p].at = l /\ pass[p].landed
                  /\ UNCHANGED store /\ pass'[p] = r
    BY <1>a, <1>e DEF Write
  <1>1. CASE WriteBlob(p)
    <2>1. CASE pass'[p] = Move(p, "sightings") /\ UNCHANGED store
      <3>1. pass'[p].at = "sightings"
        BY <1>a, <2>1 DEF Move, PassField
      <3> QED
        BY <1>c, <2>1, <3>1
    <2> QED
      BY <1>1, <1>e, <2>1 DEF WriteBlob, Lands
  <1>2. CASE WriteProvenance(p)
    <2>1. CASE /\ pass'[p] = Move(p, "receipt") /\ UNCHANGED store
               /\ pass[p].at = "provenance" /\ pass[p].landed
      <3>1. pass'[p].at = "receipt" /\ pass'[p].item = pass[p].item
        BY <1>a, <2>1 DEF Move, PassField
      <3> QED
        BY <2>1, <3>1 DEF GoesOn, Arrives
    <2> QED
      BY <1>2, <1>e, <2>1 DEF WriteProvenance, Lands
  <1>3. CASE WriteReceipt(p)
    <2>1. CASE /\ pass'[p] = Move(p, "seal") \/ pass'[p] = Finish(p)
               /\ UNCHANGED store
      <3>1. pass'[p].at \in {"seal", "pick"}
        BY <1>a, <2>1, PickShape DEF Move, PassField
      <3> QED
        BY <1>c, <2>1, <3>1
    <2> DEFINE r == IF /\ Item(p) \in Audio \ Grandfathered
                       /\ SegmentOf[Item(p)] # NoSegment
                    THEN Move(p, "seal") ELSE Finish(p)
    <2>2. Write(p, "receipt", ReceiptKey(Item(p), pass[p].item.t),
                ReceiptDoc(Item(p)), r)
      BY <1>3 DEF WriteReceipt
    <2>3. r = Move(p, "seal") \/ r = Finish(p)
      OBVIOUS
    <2> HIDE DEF r
    <2> QED
      BY <1>e, <2>1, <2>2, <2>3 DEF Lands
  <1>4. CASE Promote(p)
    <2>1. CASE pass'[p] = Move(p, "retire") /\ UNCHANGED store
      <3>1. pass'[p].at = "retire" /\ ~pass'[p].landed
        BY <1>a, <2>1 DEF Move, PassField
      <3> QED
        BY <2>1, <3>1 DEF GoesOn, Arrives
    <2> QED
      BY <1>4, <1>e, <2>1 DEF Promote, Lands
  <1>5. CASE Retire(p)
    <2>1. CASE /\ pass'[p] = Move(p, "mark") /\ UNCHANGED store
               /\ pass[p].at = "retire" /\ pass[p].landed
      <3>1. pass'[p].at = "mark" /\ pass'[p].item = pass[p].item
        BY <1>a, <2>1 DEF Move, PassField
      <3> QED
        BY <2>1, <3>1 DEF GoesOn, Arrives
    <2> QED
      BY <1>a, <1>5, <2>1 DEF Retire, Remove, Lands
  <1>6. CASE MarkPromoted(p)
    <2>1. CASE pass'[p] = Finish(p) /\ UNCHANGED store
      BY <1>a, <1>c, <2>1, PickShape
    <2> QED
      BY <1>6, <1>e, <2>1 DEF MarkPromoted, Lands
  <1>7. CASE WriteProvisional(p)
    <2>1. pass[p].item.o \notin Audio
      BY <1>b, <1>7, ObjectAssumption
      DEF WriteProvisional, Write, Holds, Label, ItemLabel
    <2>2. CASE pass'[p] = Move(p, "receipt") /\ UNCHANGED store
      <3>1. pass'[p].at = "receipt" /\ pass'[p].item = pass[p].item
        BY <1>a, <2>2 DEF Move, PassField
      <3> QED
        BY <1>d, <2>1, <2>2, <3>1
    <2> QED
      BY <1>7, <1>e, <2>2 DEF WriteProvisional, Lands
  <1>8. CASE WriteFirstLook(p)
    <2>1. pass[p].item.o \notin Audio
      BY <1>b, <1>8, ObjectAssumption
      DEF WriteFirstLook, Write, Holds, Label, ItemLabel
    <2>2. CASE pass'[p] = Move(p, "receipt") /\ UNCHANGED store
      <3>1. pass'[p].at = "receipt" /\ pass'[p].item = pass[p].item
        BY <1>a, <2>2 DEF Move, PassField
      <3> QED
        BY <1>d, <2>1, <2>2, <3>1
    <2> QED
      BY <1>8, <1>e, <2>2 DEF WriteFirstLook, Lands
  <1>9. CASE WriteInbox(p)
    <2>1. pass[p].item.o \notin Audio
      BY <1>b, <1>9, ObjectAssumption
      DEF WriteInbox, Write, Holds, Label, ItemLabel
    <2>2. CASE /\ pass'[p] = [Move(p, "receipt") EXCEPT
                                !.noted = NoteFix(@, Item(p))]
               /\ UNCHANGED store
      <3>1. /\ pass'[p].at = "receipt" /\ pass'[p].item = pass[p].item
        BY <1>a, <2>2 DEF Move, PassField
      <3> QED
        BY <1>d, <2>1, <2>2, <3>1
    <2> QED
      BY <1>9, <1>e, <2>2 DEF WriteInbox, Lands
  <1>10. CASE WriteBelieved(p)
    <2>1. CASE /\ pass'[p] = [Move(p, "reduce") EXCEPT !.doc = NoDoc,
                                !.noted = @ \ {pass[p].doc}]
               /\ UNCHANGED store
      <3>1. pass'[p].at = "reduce"
        BY <1>a, <2>1 DEF Move, PassField
      <3> QED
        BY <1>c, <2>1, <3>1
    <2> DEFINE r == [Move(p, "reduce") EXCEPT !.doc = NoDoc,
                                              !.noted = @ \ {pass[p].doc}]
    <2>2. Write(p, "believe", LatestKey(DeviceOf[pass[p].doc]), pass[p].doc, r)
      BY <1>10 DEF WriteBelieved
    <2>3. pass'[p] = r /\ UNCHANGED store => Lands(p) \/ GoesOn(p)
      BY <2>1
    <2> HIDE DEF r
    <2> QED
      BY <1>e, <2>2, <2>3 DEF Lands
  <1>11. CASE List(p) \/ Begin(p) \/ End(p) \/ Crash(p)
    <2>1. pass'[p].at \in {"scan", "list", "idle"} /\ UNCHANGED store
      <3>1. IdlePass.at = "idle" /\ "at" \in DOMAIN IdlePass
        BY DEF IdlePass
      <3>2. UNCHANGED store
        BY <1>11 DEF List, Begin, End, Crash, ledgerVars
      <3>3. CASE List(p)
        BY <1>a, <3>2, <3>3 DEF List, IdlePass
      <3>4. CASE Begin(p)
        BY <1>a, <3>2, <3>4 DEF Begin, IdlePass
      <3>5. CASE End(p) \/ Crash(p)
        BY <1>a, <3>1, <3>2, <3>5 DEF End, Crash
      <3> QED
        BY <1>11, <3>3, <3>4, <3>5
    <2> QED
      BY <1>c, <2>1
  <1>12. CASE ScanEnd(p) \/ BatchEnd(p) \/ Drop(p)
    <2>1. pass'[p].at \in {"pick", "reduce"} /\ UNCHANGED store
      BY <1>a, <1>12, CarryShape, PickShape
      DEF ScanEnd, BatchEnd, Drop, Goto, ledgerVars
    <2> QED
      BY <1>c, <2>1
  <1>13. CASE Scan(p)
    <2>1. pass'[p].at = "scan" /\ UNCHANGED store
      BY <1>a, <1>13 DEF Scan, Scanned, PassField, ledgerVars
    <2> QED
      BY <1>c, <2>1
  <1>14. CASE Take(p)
    <2>1. pass'[p].at \in {"hash", "partial", "final", "event"}
      <3>1. PICK it \in Newest(Eligible(p)) :
              pass'[p] = [Move(p, EntryLabel(it.o)) EXCEPT !.item = it,
                            !.doc = NoDoc, !.checks = @ \ {it}]
        BY <1>a, <1>14 DEF Take
      <3>2. pass'[p].at = EntryLabel(it.o)
        BY <1>a, <3>1 DEF Move, PassField
      <3> QED
        BY <3>2 DEF EntryLabel
    <2>2. UNCHANGED store
      BY <1>14 DEF Take, ledgerVars
    <2> QED
      BY <1>c, <2>1, <2>2
  <1>15. CASE Fault(p)
    <2>1. \/ pass'[p] = Settle(p)
          \/ pass'[p] = [Move(p, "reduce") EXCEPT !.doc = NoDoc,
                            !.noted = @ \ {pass[p].doc}]
      BY <1>a, <1>15 DEF Fault
    <2>2. pass'[p].at \in {"pick", "reduce"} /\ UNCHANGED store
      BY <1>a, <1>15, <2>1, PickShape DEF Fault, Move, PassField, ledgerVars
    <2> QED
      BY <1>c, <2>2
  <1>16. CASE ReadBelieved(p)
    <2>1. PICK e \in pass[p].noted :
            \/ pass'[p] = [Move(p, "believe") EXCEPT !.doc = e]
            \/ pass'[p] = [pass[p] EXCEPT !.noted = @ \ {e}]
      BY <1>a, <1>16 DEF ReadBelieved
    <2>2. pass[p].at = "reduce" /\ UNCHANGED store
      BY <1>16 DEF ReadBelieved, ledgerVars
    <2>3. pass'[p].at \in {"believe", "reduce"}
      BY <1>a, <2>1, <2>2 DEF Move, PassField
    <2> QED
      BY <1>c, <2>2, <2>3
  <1>17. CASE Identify(p)
    <2>1. pass[p].item.o \in Audio
      BY <1>b, <1>17 DEF Identify, Holds, Label, ItemLabel
    <2> DEFINE l == IF Item(p) \in Grandfathered THEN "receipt"
                    ELSE IF Has(BlobKey(Item(p))) THEN "sightings" ELSE "blob"
    <2>3. Carry(p, l, pass[p].doc)
      BY <1>17 DEF Identify, Goto
    <2>4. /\ l \in {"receipt", "sightings", "blob"}
          /\ l = "receipt" => pass[p].item.o \in Grandfathered
      OBVIOUS
    <2> HIDE DEF l
    <2>2. /\ UNCHANGED store /\ pass'[p].item = pass[p].item
          /\ pass'[p].at \in {"receipt", "sightings", "blob"}
          /\ pass'[p].at = "receipt" => pass[p].item.o \in Grandfathered
      BY <1>a, <2>3, <2>4, CarryShape
    <2> QED
      BY <1>c, <1>d, <2>2
  <1>18. CASE ReadSightings(p)
    <2> DEFINE key == ProvenanceKey(CaptureOf[pass[p].item.o])
               seen == IF Has(key) THEN store[key] ELSE {}
               l == IF pass[p].item.o \in seen THEN "receipt" ELSE "provenance"
    <2>1. Carry(p, l, seen)
      BY <1>18 DEF ReadSightings
    <2>2. /\ UNCHANGED store /\ pass'[p].item = pass[p].item
          /\ ~pass'[p].landed /\ pass'[p].at = l /\ pass'[p].doc = seen
      BY <1>a, <2>1 DEF Carry, Move, PassField, ledgerVars
    <2> QED
      BY <2>2 DEF GoesOn, Arrives
  <1>19. CASE ReadProvisional(p)
    <2>1. \/ Carry(p, "adopt", store[LiveKey(SegmentOf[Item(p)])])
          \/ pass'[p] = Finish(p) /\ UNCHANGED store
      BY <1>a, <1>19 DEF ReadProvisional, ledgerVars
    <2>2. pass'[p].at \in {"adopt", "pick"} /\ UNCHANGED store
      BY <1>a, <2>1, CarryShape, PickShape
    <2> QED
      BY <1>c, <2>2
  <1>20. CASE CheckFirstLook(p)
    <2>1. /\ pass'[p].item = pass[p].item /\ UNCHANGED store
          /\ ~pass'[p].landed
          /\ pass'[p].at = IF Has(FirstLookKey(CaptureOf[pass[p].item.o]))
                           THEN "retire" ELSE "promote"
      BY <1>a, <1>20, CarryShape DEF CheckFirstLook, Goto
    <2> QED
      BY <2>1 DEF GoesOn, Arrives
  <1>21. CASE DownloadPartial(p)
    <2>1. /\ pass'[p].item = pass[p].item /\ UNCHANGED store
          /\ pass'[p].at \in {"receipt", "raced"}
      BY <1>a, <1>21, CarryShape DEF DownloadPartial
    <2>2. pass[p].item.o \notin Audio
      BY <1>b, <1>21, ObjectAssumption
      DEF DownloadPartial, Holds, Label, ItemLabel
    <2> QED
      BY <1>c, <1>d, <2>1, <2>2
  <1>22. CASE CheckPromoted(p)
    <2>1. /\ pass'[p].item = pass[p].item /\ UNCHANGED store
          /\ ~pass'[p].landed
          /\ pass'[p].at = IF Has(PromotedKey(pass[p].item.o))
                           THEN "receipt" ELSE "provisional"
      BY <1>a, <1>22, CarryShape DEF CheckPromoted, Goto
    <2>2. pass[p].item.o \notin Audio
      BY <1>b, <1>22, ObjectAssumption
      DEF CheckPromoted, Holds, Label, ItemLabel
    <2> QED
      BY <2>1, <2>2 DEF GoesOn, Arrives
  <1>23. CASE DownloadFinal(p) \/ DownloadEvent(p)
    <2>1. /\ pass'[p].item = pass[p].item /\ UNCHANGED store
          /\ pass'[p].at \in {"receipt", "firstlook", "inbox"}
      BY <1>a, <1>23, CarryShape DEF DownloadFinal, DownloadEvent, Goto
    <2>2. pass[p].item.o \notin Audio
      BY <1>b, <1>23, ObjectAssumption
      DEF DownloadFinal, DownloadEvent, Holds, Label, ItemLabel
    <2> QED
      BY <1>c, <1>d, <2>1, <2>2
  <1> QED
    BY <1>2, <1>3, <1>4, <1>5, <1>6, <1>7, <1>8, <1>9, <1>10, <1>11, <1>12, <1>13, <1>14, <1>15, <1>16, <1>17, <1>18, <1>19, <1>20, <1>21, <1>22, <1>23, <1>1
    DEF Step

\* The steps of the other actors: they touch neither artifacts nor passes.
LEMMA Outside ==
  ASSUME [Next]_vars
  PROVE  \/ \E p \in Pass : Step(p) \/ Fault(p) \/ Crash(p)
         \/ UNCHANGED <<store, index, pass, faults>>
  BY DEF Next, Upload, AgeOut, vars, ledgerVars

-----------------------------------------------------------------------------
(* Sightings. *)

\* The provenance a pass is about to write, or has written, holds every
\* sighting that is there.
Sighted(b) ==
  LET o   == b.item.o
      key == ProvenanceKey(CaptureOf[o])
  IN /\ b.at = "receipt" /\ o \in Audio \ Grandfathered =>
          Has(key) /\ o \in store[key]
     /\ b.at = "provenance" =>
          /\ Has(key) => store[key] \subseteq b.doc \cup {o}
          /\ b.landed => Has(key) /\ o \in store[key]

SightingsInv == SightingsKept /\ \A p \in Pass : Sighted(pass[p])

LEMMA SightingsStep ==
  ASSUME NEW p, Pass = {p}, TypeOK, SightingsInv,
         Step(p) \/ Fault(p) \/ Crash(p)
  PROVE  SightingsInv'
  <1> DEFINE b == pass[p]
             c == pass'[p]
             o == b.item.o
             key == ProvenanceKey(CaptureOf[o])
  <1>a. DOMAIN pass[p] = PassField /\ Sighted(b) /\ SightingsKept
    BY DEF TypeOK, PassTyped, BatchTyped, SightingsInv
  <1>1. CASE Lands(p)
    <2>1. c.at = b.at /\ c.item = b.item /\ c.doc = b.doc /\ c.landed
      BY <1>a, <1>1 DEF Lands, PassField
    <2>2. CASE b.at = "provenance"
      <3>1. Put(key, b.doc \cup {o})
        BY <1>1, <2>2 DEF Lands, At, Item
      <3>2. key \in DOMAIN store' /\ store'[key] = b.doc \cup {o}
        BY <3>1 DEF Put
      <3>3. Sighted(pass[p])'
        BY <2>1, <2>2, <3>2 DEF Sighted, Has
      <3>4. ASSUME NEW x \in Audio \ Grandfathered, NEW t \in Stamp,
                   Receipted(x, t)'
            PROVE  /\ Has(ProvenanceKey(CaptureOf[x]))'
                   /\ x \in store'[ProvenanceKey(CaptureOf[x])]
        <4>1. Receipted(x, t)
          BY <3>1, <3>4, KeyParts DEF Receipted, Has, Put
        <4>2. /\ Has(ProvenanceKey(CaptureOf[x]))
              /\ x \in store[ProvenanceKey(CaptureOf[x])]
          BY <1>a, <4>1 DEF SightingsKept
        <4>3. CASE ProvenanceKey(CaptureOf[x]) = key
          BY <1>a, <2>2, <3>2, <4>2, <4>3 DEF Sighted, Has
        <4>4. CASE ProvenanceKey(CaptureOf[x]) # key
          BY <3>1, <4>2, <4>4 DEF Put, Has
        <4> QED
          BY <4>3, <4>4
      <3> QED
        BY <3>3, <3>4 DEF SightingsInv, SightingsKept
    <2>3. CASE b.at # "provenance"
      <3>1. \A x : LET k == ProvenanceKey(x)
                   IN Has(k)' = Has(k) /\ (Has(k) => store'[k] = store[k])
        BY <1>1, <2>3, KeyParts DEF Lands, At, Put, Delete, Has
      <3>2. Sighted(pass[p])'
        BY <1>a, <2>1, <2>3, <3>1 DEF Sighted, Has
      <3>3. ASSUME NEW x \in Audio \ Grandfathered, NEW t \in Stamp,
                   Receipted(x, t)'
            PROVE  /\ Has(ProvenanceKey(CaptureOf[x]))
                   /\ x \in store[ProvenanceKey(CaptureOf[x])]
        <4>1. CASE Receipted(x, t)
          BY <1>a, <4>1 DEF SightingsKept
        <4>2. CASE ~Receipted(x, t)
          <5>1. WriteReceipt(p) /\ x = o
            BY <3>3, <4>2, ReceiptSource DEF Item
          <5> QED
            BY <1>a, <5>1 DEF Sighted, WriteReceipt, Write, At
        <4> QED
          BY <4>1, <4>2
      <3> QED
        BY <3>1, <3>2, <3>3 DEF SightingsInv, SightingsKept, Has
    <2> QED
      BY <2>2, <2>3
  <1>2. CASE GoesOn(p)
    <2>1. UNCHANGED store /\ Arrives(b, c)
      BY <1>2 DEF GoesOn
    <2>2. Sighted(pass[p])'
      BY <1>a, <2>1 DEF Sighted, Arrives, Has
    <2> QED
      BY <1>a, <2>1, <2>2 DEF SightingsInv, SightingsKept, Receipted, Has
  <1> QED
    BY <1>1, <1>2, StepKinds

\* SightingsKept: while passes do not overlap, a receipted upload is listed
\* in its capture's provenance, through failed calls and crashes.
THEOREM SightingsAreKept ==
  ASSUME NEW p, Pass = {p}
  PROVE  Spec => []SightingsKept
  <1>1. Init => SightingsInv
    BY DEF Init, LedgerInit, SightingsInv, SightingsKept, Receipted, Has,
           Sighted, IdlePass
  <1>2. TypeOK /\ SightingsInv /\ [Next]_vars => SightingsInv'
    <2> SUFFICES ASSUME TypeOK, SightingsInv, [Next]_vars PROVE SightingsInv'
      OBVIOUS
    <2>1. CASE Step(p) \/ Fault(p) \/ Crash(p)
      BY <2>1, SightingsStep
    <2>2. CASE UNCHANGED <<store, index, pass, faults>>
      BY <2>2 DEF SightingsInv, SightingsKept, Receipted, Has, Sighted
    <2> QED
      BY <2>1, <2>2, Outside
  <1>3. SightingsInv => SightingsKept
    BY DEF SightingsInv
  <1> QED
    BY <1>1, <1>2, <1>3, TypeCorrect, PTL DEF Spec

-----------------------------------------------------------------------------
(* First looks. *)

\* What a pass has read of the segment and the capture in hand still holds
\* when it writes.
Settled(b) ==
  LET o == b.item.o
  IN /\ b.at = "promote" /\ ~b.landed => ~Has(FirstLookKey(CaptureOf[o]))
     /\ b.at = "provisional" => ~Has(PromotedKey(o))
     /\ b.at = "mark" \/ (b.at = "retire" /\ b.landed)
          => ~Has(LiveKey(SegmentOf[o]))

FirstLooksInv == NoResurrection /\ \A p \in Pass : Settled(pass[p])

LEMMA FirstLooksStep ==
  ASSUME NEW p, Pass = {p}, TypeOK, FirstLooksInv,
         Step(p) \/ Fault(p) \/ Crash(p)
  PROVE  FirstLooksInv' /\ FinalStands
  <1> DEFINE b == pass[p]
             c == pass'[p]
             o == b.item.o
  <1>a. DOMAIN pass[p] = PassField /\ Settled(b) /\ NoResurrection
    BY DEF TypeOK, PassTyped, BatchTyped, FirstLooksInv
  <1>1. CASE Lands(p)
    <2>1. c.at = b.at /\ c.item = b.item /\ c.landed /\ ~b.landed
      BY <1>a, <1>1 DEF Lands, PassField
    <2>0. FinalStands
      <3> SUFFICES ASSUME NEW x \in Capture, Has(FirstLookKey(x)),
                          store[FirstLookKey(x)].by = "final"
                   PROVE  store'[FirstLookKey(x)].by = "final"
        BY DEF FinalStands
      <3>1. CASE b.at = "promote"
        <4>1. FirstLookKey(x) # FirstLookKey(CaptureOf[o])
          BY <1>a, <2>1, <3>1 DEF Settled
        <4> QED
          BY <1>1, <3>1, <4>1 DEF Lands, At, Item, Put, Has
      <3>2. CASE b.at = "firstlook"
        BY <1>1, <3>2 DEF Lands, At, Item, Put, Has, FinalText
      <3>3. CASE b.at \notin {"promote", "firstlook"}
        BY <1>1, <3>3, KeyParts DEF Lands, At, Put, Delete, Has
      <3> QED
        BY <3>1, <3>2, <3>3
    <2>2. CASE b.at \notin {"retire", "mark", "provisional"}
      <3>1. \A x : /\ Has(LiveKey(x))' = Has(LiveKey(x))
                   /\ Has(PromotedKey(x))' = Has(PromotedKey(x))
        BY <1>1, <2>2, KeyParts DEF Lands, At, Put, Has
      <3>2. Settled(pass[p])'
        BY <1>a, <2>1, <2>2, <3>1 DEF Settled, Has
      <3> QED
        BY <1>a, <2>0, <3>1, <3>2 DEF FirstLooksInv, NoResurrection
    <2>3. CASE b.at = "retire"
      <3>1. Delete(LiveKey(SegmentOf[o]))
        BY <1>1, <2>3 DEF Lands, At, Item
      <3>2. NoResurrection'
        BY <1>a, <3>1, KeyParts DEF NoResurrection, Has, Delete
      <3>3. LiveKey(SegmentOf[o]) \notin DOMAIN store'
        BY <3>1 DEF Delete
      <3>4. Settled(pass[p])'
        BY <2>1, <2>3, <3>3 DEF Settled, Has
      <3> QED
        BY <2>0, <3>2, <3>4 DEF FirstLooksInv
    <2>4. CASE b.at = "mark"
      <3>1. Put(PromotedKey(SegmentOf[o]), CaptureOf[o])
        BY <1>1, <2>4 DEF Lands, At, Item
      <3>2. \A x : Has(LiveKey(x))' = Has(LiveKey(x))
        BY <3>1, KeyParts DEF Put, Has
      <3>3. \A x : Has(PromotedKey(x))' => Has(PromotedKey(x)) \/ x = SegmentOf[o]
        BY <3>1, KeyParts DEF Put, Has
      <3>4. ~Has(LiveKey(SegmentOf[o]))
        BY <1>a, <2>4 DEF Settled
      <3>5. NoResurrection'
        BY <1>a, <3>2, <3>3, <3>4 DEF NoResurrection
      <3>6. Settled(pass[p])'
        BY <2>1, <2>4, <3>2, <3>4 DEF Settled, Has
      <3> QED
        BY <2>0, <3>5, <3>6 DEF FirstLooksInv
    <2>5. CASE b.at = "provisional"
      <3>1. Put(LiveKey(o), b.doc)
        BY <1>1, <2>5 DEF Lands, At, Item
      <3>2. \A x : Has(PromotedKey(x))' = Has(PromotedKey(x))
        BY <3>1, KeyParts DEF Put, Has
      <3>3. \A x : Has(LiveKey(x))' => Has(LiveKey(x)) \/ x = o
        BY <3>1, KeyParts DEF Put, Has
      <3>4. ~Has(PromotedKey(o))
        BY <1>a, <2>5 DEF Settled
      <3>5. NoResurrection'
        BY <1>a, <3>2, <3>3, <3>4 DEF NoResurrection
      <3>6. Settled(pass[p])'
        BY <2>1, <2>5, <3>2, <3>4 DEF Settled, Has
      <3> QED
        BY <2>0, <3>5, <3>6 DEF FirstLooksInv
    <2> QED
      BY <2>2, <2>3, <2>4, <2>5
  <1>2. CASE GoesOn(p)
    <2>1. UNCHANGED store /\ Arrives(b, c)
      BY <1>2 DEF GoesOn
    <2>2. Settled(pass[p])'
      BY <1>a, <2>1 DEF Settled, Arrives, Has
    <2> QED
      BY <1>a, <2>1, <2>2 DEF FirstLooksInv, NoResurrection, FinalStands, Has
  <1> QED
    BY <1>1, <1>2, StepKinds

\* FirstLooksStand: while passes do not overlap, a promoted provisional does
\* not come back and a final's first look is not replaced, in whatever order
\* partials, audio and finals are taken, through failed calls and crashes.
THEOREM FirstLooksAreKept ==
  ASSUME NEW p, Pass = {p}
  PROVE  Spec => FirstLooksStand
  <1>1. Init => FirstLooksInv
    BY DEF Init, LedgerInit, FirstLooksInv, NoResurrection, Has, Settled,
           IdlePass
  <1>2. TypeOK /\ FirstLooksInv /\ [Next]_vars => FirstLooksInv' /\ FinalStands
    <2> SUFFICES ASSUME TypeOK, FirstLooksInv, [Next]_vars
                 PROVE  FirstLooksInv' /\ FinalStands
      OBVIOUS
    <2>1. CASE Step(p) \/ Fault(p) \/ Crash(p)
      BY <2>1, FirstLooksStep
    <2>2. CASE UNCHANGED <<store, index, pass, faults>>
      BY <2>2 DEF FirstLooksInv, NoResurrection, FinalStands, Has, Settled
    <2> QED
      BY <2>1, <2>2, Outside
  <1>3. FirstLooksInv /\ FirstLooksInv' /\ FinalStands
          => [NoResurrection' /\ FinalStands]_vars
    BY DEF FirstLooksInv
  <1> QED
    BY <1>1, <1>2, <1>3, TypeCorrect, PTL DEF Spec, FirstLooksStand

-----------------------------------------------------------------------------
(* The index. *)

LedgerLabel ==
  {"blob", "provenance", "receipt", "promote", "retire", "mark",
   "provisional", "firstlook", "inbox", "believe"}

\* The artifact of the ledger call a pass is in.
KeyInHand(b) ==
  LET o == b.item.o
  IN CASE b.at = "blob" -> BlobKey(o)
       [] b.at = "provenance" -> ProvenanceKey(CaptureOf[o])
       [] b.at = "receipt" -> ReceiptKey(o, b.item.t)
       [] b.at \in {"promote", "firstlook"} -> FirstLookKey(CaptureOf[o])
       [] b.at = "retire" -> LiveKey(SegmentOf[o])
       [] b.at = "mark" -> PromotedKey(SegmentOf[o])
       [] b.at = "provisional" -> LiveKey(o)
       [] b.at = "inbox" -> InboxKey(o)
       [] b.at = "believe" -> LatestKey(DeviceOf[b.doc])

\* Between the halves of a call the index is one artifact behind the bucket.
Behind(b) ==
  /\ b.landed => b.at \in LedgerLabel
  /\ faults = 0 =>
       /\ ~b.landed => DOMAIN store = index
       /\ b.landed /\ b.at = "retire" => DOMAIN store = index \ {KeyInHand(b)}
       /\ b.landed /\ b.at # "retire" =>
            DOMAIN store = index \cup {KeyInHand(b)}

IndexInv == \A p \in Pass : Behind(pass[p])

\* The index half of a ledger call.
Registers(p) ==
  /\ pass[p].landed /\ ~pass'[p].landed
  /\ pass[p].at \in LedgerLabel
  /\ index' = IF At(p, "retire") THEN index \ {KeyInHand(pass[p])}
              ELSE index \cup {KeyInHand(pass[p])}
  /\ UNCHANGED <<store, faults>>

\* A step that is no half of a ledger call.
Passes(p) ==
  /\ pass'[p].landed => pass[p].landed /\ pass'[p].at = pass[p].at
  /\ pass[p].landed /\ pass[p].at \in LedgerLabel => faults' # 0
  /\ UNCHANGED <<store, index>>
  /\ faults' = 0 => faults = 0

LEMMA EndsUnlanded ==
  ASSUME NEW p, DOMAIN pass[p] = PassField
  PROVE  ~Settle(p).landed /\ ~Finish(p).landed
  BY DEF Finish, Settle, Move, PassField

LEMMA RegisterShape ==
  ASSUME NEW p, DOMAIN pass[p] = PassField, p \in DOMAIN pass,
         NEW l \in LedgerLabel \ {"retire"}, NEW k, NEW d, NEW r,
         Write(p, l, k, d, r), pass[p].landed, ~r.landed,
         pass[p].at = l => KeyInHand(pass[p]) = k
  PROVE  Registers(p)
  BY DEF Write, Registers, Register, At

LEMMA IndexMoves ==
  ASSUME TypeOK, NEW p \in Pass, Step(p) \/ Fault(p) \/ Crash(p)
  PROVE  Lands(p) \/ Registers(p) \/ Passes(p)
  <1> USE DEF At, Item
  <1>a. /\ PassTyped(pass[p]) /\ DOMAIN pass[p] = PassField
        /\ p \in DOMAIN pass /\ faults \in Nat
        /\ ~Settle(p).landed /\ ~Finish(p).landed
    BY EndsUnlanded, BoundAssumption DEF TypeOK, PassTyped, BatchTyped
  <1>b. \A l : ~Move(p, l).landed
    BY <1>a, MoveShape
  <1>c. ASSUME ~pass[p].landed,
               \/ WriteBlob(p) \/ WriteProvenance(p) \/ WriteReceipt(p)
               \/ Promote(p) \/ Retire(p) \/ MarkPromoted(p)
               \/ WriteProvisional(p) \/ WriteFirstLook(p) \/ WriteInbox(p)
               \/ WriteBelieved(p)
        PROVE  Lands(p)
    BY <1>a, <1>c
    DEF WriteBlob, WriteProvenance, WriteReceipt, Promote, Retire,
        MarkPromoted, WriteProvisional, WriteFirstLook, WriteInbox,
        WriteBelieved, Write, Remove, Lands
  <1>1. CASE WriteBlob(p) /\ pass[p].landed
    BY <1>a, <1>b, <1>1, RegisterShape DEF WriteBlob, LedgerLabel, KeyInHand
  <1>2. CASE WriteProvenance(p) /\ pass[p].landed
    BY <1>a, <1>b, <1>2, RegisterShape
    DEF WriteProvenance, LedgerLabel, KeyInHand
  <1>3. CASE WriteReceipt(p) /\ pass[p].landed
    <2> DEFINE r == IF /\ Item(p) \in Audio \ Grandfathered
                       /\ SegmentOf[Item(p)] # NoSegment
                    THEN Move(p, "seal") ELSE Finish(p)
    <2>1. Write(p, "receipt", ReceiptKey(Item(p), pass[p].item.t),
                ReceiptDoc(Item(p)), r)
      BY <1>3 DEF WriteReceipt
    <2>2. ~r.landed
      BY <1>a, <1>b
    <2> HIDE DEF r
    <2> QED
      BY <1>a, <1>3, <2>1, <2>2, RegisterShape DEF LedgerLabel, KeyInHand
  <1>4. CASE Promote(p) /\ pass[p].landed
    BY <1>a, <1>b, <1>4, RegisterShape DEF Promote, LedgerLabel, KeyInHand
  <1>5. CASE Retire(p) /\ pass[p].landed
    BY <1>a, <1>b, <1>5
    DEF Retire, Remove, Registers, Unregister, LedgerLabel, KeyInHand
  <1>6. CASE MarkPromoted(p) /\ pass[p].landed
    BY <1>a, <1>b, <1>6, RegisterShape DEF MarkPromoted, LedgerLabel, KeyInHand
  <1>7. CASE WriteProvisional(p) /\ pass[p].landed
    BY <1>a, <1>b, <1>7, RegisterShape
    DEF WriteProvisional, LedgerLabel, KeyInHand
  <1>8. CASE WriteFirstLook(p) /\ pass[p].landed
    BY <1>a, <1>b, <1>8, RegisterShape
    DEF WriteFirstLook, LedgerLabel, KeyInHand
  <1>9. CASE WriteInbox(p) /\ pass[p].landed
    <2> DEFINE r == [Move(p, "receipt") EXCEPT !.noted = NoteFix(@, Item(p))]
    <2>1. Write(p, "inbox", InboxKey(Item(p)), "point", r)
      BY <1>9 DEF WriteInbox
    <2>2. ~r.landed
      BY <1>a, <1>b DEF Move, PassField
    <2> HIDE DEF r
    <2> QED
      BY <1>a, <1>9, <2>1, <2>2, RegisterShape DEF LedgerLabel, KeyInHand
  <1>10. CASE WriteBelieved(p) /\ pass[p].landed
    <2> DEFINE r == [Move(p, "reduce") EXCEPT !.doc = NoDoc,
                                              !.noted = @ \ {pass[p].doc}]
    <2>1. Write(p, "believe", LatestKey(DeviceOf[pass[p].doc]), pass[p].doc, r)
      BY <1>10 DEF WriteBelieved
    <2>2. ~r.landed
      BY <1>a, <1>b DEF Move, PassField
    <2> HIDE DEF r
    <2> QED
      BY <1>a, <1>10, <2>1, <2>2, RegisterShape DEF LedgerLabel, KeyInHand
  <1>11. CASE Fault(p)
    <2>1. \/ pass'[p] = Settle(p)
          \/ pass'[p] = [Move(p, "reduce") EXCEPT !.doc = NoDoc,
                            !.noted = @ \ {pass[p].doc}]
      BY <1>a, <1>11 DEF Fault
    <2>2. ~pass'[p].landed
      BY <1>a, <2>1 DEF Move, PassField
    <2>3. faults' # 0 /\ UNCHANGED <<store, index>>
      BY <1>a, <1>11 DEF Fault, ledgerVars
    <2> QED
      BY <2>2, <2>3 DEF Passes
  <1>12. CASE Crash(p)
    <2>1. faults' # 0 /\ UNCHANGED <<store, index>> /\ pass'[p] = IdlePass
      BY <1>a, <1>12 DEF Crash, ledgerVars
    <2> QED
      BY <2>1 DEF Passes, IdlePass
  <1>13. CASE Begin(p)
    BY <1>a, <1>13 DEF Begin, IdlePass, ledgerVars, Passes, LedgerLabel
  <1>14. CASE List(p)
    BY <1>a, <1>14 DEF List, IdlePass, ledgerVars, Passes, LedgerLabel
  <1>15. CASE End(p)
    BY <1>a, <1>15 DEF End, IdlePass, ledgerVars, Passes, LedgerLabel
  <1>16. CASE Scan(p)
    <2>1. /\ pass'[p].at = pass[p].at /\ pass'[p].landed = pass[p].landed
          /\ pass[p].at = "scan"
      BY <1>a, <1>16 DEF Scan, Scanned, PassField
    <2>2. UNCHANGED <<store, index>> /\ (faults' = 0 => faults = 0)
      <3>1. faults' = faults \/ faults' = faults + 1
        BY <1>16 DEF Scan
      <3>2. UNCHANGED <<store, index>>
        BY <1>16 DEF Scan, ledgerVars
      <3> QED
        BY <1>a, <3>1, <3>2
    <2> QED
      BY <2>1, <2>2 DEF Passes, LedgerLabel
  <1>17. CASE ReadBelieved(p)
    <2>1. PICK e \in pass[p].noted :
            \/ pass'[p] = [Move(p, "believe") EXCEPT !.doc = e]
            \/ pass'[p] = [pass[p] EXCEPT !.noted = @ \ {e}]
      BY <1>a, <1>17 DEF ReadBelieved
    <2>2. pass[p].at = "reduce"
      BY <1>17 DEF ReadBelieved
    <2>3. pass'[p].landed => pass[p].landed /\ pass'[p].at = pass[p].at
      BY <1>a, <2>1, <2>2 DEF Move, PassField
    <2>4. UNCHANGED <<store, index>> /\ (faults' = 0 => faults = 0)
      BY <1>a, <1>17 DEF ReadBelieved, ledgerVars
    <2> QED
      BY <2>2, <2>3, <2>4 DEF Passes, LedgerLabel
  <1>18. CASE Take(p)
    <2>1. ~pass'[p].landed /\ pass[p].at = "pick"
      BY <1>a, <1>18 DEF Take, Move, PassField
    <2> QED
      BY <1>18, <2>1 DEF Take, Passes, LedgerLabel, ledgerVars
  <1>19. CASE Drop(p)
    BY <1>a, <1>19 DEF Drop, Passes, LedgerLabel, ledgerVars
  <1>20. CASE ReadProvisional(p)
    <2>1. \/ Carry(p, "adopt", store[LiveKey(SegmentOf[Item(p)])])
          \/ pass'[p] = Finish(p)
      BY <1>a, <1>20 DEF ReadProvisional
    <2>2. ~pass'[p].landed /\ pass[p].at = "seal"
      BY <1>a, <1>20, <2>1, CarryShape DEF ReadProvisional
    <2>3. UNCHANGED <<store, index, faults>>
      BY <1>20 DEF ReadProvisional, Carry, ledgerVars
    <2> QED
      BY <2>2, <2>3 DEF Passes, LedgerLabel
  <1>21. CASE \/ ScanEnd(p) \/ BatchEnd(p) \/ Identify(p) \/ ReadSightings(p)
              \/ CheckFirstLook(p) \/ DownloadPartial(p) \/ CheckPromoted(p)
              \/ DownloadFinal(p) \/ DownloadEvent(p)
    <2>1. PICK l, d : Carry(p, l, d)
      BY <1>21
      DEF ScanEnd, BatchEnd, Identify, ReadSightings, CheckFirstLook,
          DownloadPartial, CheckPromoted, DownloadFinal, DownloadEvent, Goto
    <2>2. ~pass'[p].landed /\ UNCHANGED <<store, index, faults>>
      BY <1>a, <2>1, CarryShape DEF Carry, ledgerVars
    <2>3. pass[p].at \notin LedgerLabel
      BY <1>21
      DEF ScanEnd, BatchEnd, Identify, ReadSightings, CheckFirstLook,
          DownloadPartial, CheckPromoted, DownloadFinal, DownloadEvent,
          LedgerLabel
    <2> QED
      BY <2>2, <2>3 DEF Passes
  <1> QED
    BY <1>c, <1>1, <1>2, <1>3, <1>4, <1>5, <1>6, <1>7, <1>8, <1>9, <1>10,
       <1>11, <1>12, <1>13, <1>14, <1>15, <1>16, <1>17, <1>18, <1>19, <1>20,
       <1>21
    DEF Step

LEMMA IndexStep ==
  ASSUME NEW p, Pass = {p}, TypeOK, IndexInv,
         Step(p) \/ Fault(p) \/ Crash(p)
  PROVE  IndexInv'
  <1> DEFINE b == pass[p]
             c == pass'[p]
  <1>a. DOMAIN pass[p] = PassField /\ Behind(b)
    BY DEF TypeOK, PassTyped, BatchTyped, IndexInv
  <1>1. CASE Lands(p)
    <2>1. /\ c.at = b.at /\ c.item = b.item /\ c.doc = b.doc
          /\ c.landed /\ ~b.landed
      BY <1>a, <1>1 DEF Lands, PassField
    <2>2. /\ b.at \in LedgerLabel /\ UNCHANGED <<index, faults>>
          /\ IF b.at = "retire"
             THEN DOMAIN store' = DOMAIN store \ {KeyInHand(b)}
             ELSE DOMAIN store' = DOMAIN store \cup {KeyInHand(b)}
      BY <1>1 DEF Lands, At, Item, Put, Delete, LedgerLabel, KeyInHand
    <2>3. KeyInHand(c) = KeyInHand(b)
      BY <2>1 DEF KeyInHand
    <2>4. Behind(pass[p])'
      BY <1>a, <2>1, <2>2, <2>3 DEF Behind
    <2> QED
      BY <2>4 DEF IndexInv
  <1>2. CASE Registers(p)
    <2>1. Behind(pass[p])'
      BY <1>a, <1>2 DEF Registers, Behind, At
    <2> QED
      BY <2>1 DEF IndexInv
  <1>3. CASE Passes(p)
    <2>1. Behind(pass[p])'
      BY <1>a, <1>3 DEF Passes, Behind
    <2> QED
      BY <2>1 DEF IndexInv
  <1> QED
    BY <1>1, <1>2, <1>3, IndexMoves

\* IndexIsStore: while passes do not overlap and no call has failed, the index
\* lists between passes exactly what the bucket holds.
THEOREM IndexIsTheStore ==
  ASSUME NEW p, Pass = {p}
  PROVE  Spec => []IndexIsStore
  <1>1. Init => IndexInv
    BY DEF Init, LedgerInit, IndexInv, Behind, IdlePass, LedgerLabel
  <1>2. TypeOK /\ IndexInv /\ [Next]_vars => IndexInv'
    <2> SUFFICES ASSUME TypeOK, IndexInv, [Next]_vars PROVE IndexInv'
      OBVIOUS
    <2>1. CASE Step(p) \/ Fault(p) \/ Crash(p)
      BY <2>1, IndexStep
    <2>2. CASE UNCHANGED <<store, index, pass, faults>>
      BY <2>2 DEF IndexInv, Behind
    <2> QED
      BY <2>1, <2>2, Outside
  <1>3. IndexInv => IndexIsStore
    BY DEF IndexInv, IndexIsStore, AtRest, At, Behind, LedgerLabel
  <1> QED
    BY <1>1, <1>2, <1>3, TypeCorrect, PTL DEF Spec

-----------------------------------------------------------------------------
(* Believed positions. *)

\* Which fix wins is a strict order in which fixes that tie are equals.
LEMMA WinsOrder ==
  ASSUME NEW e \in Fixes, NEW f \in Fixes, NEW g \in Fixes
  PROVE  /\ ~FixWins(e, e)
         /\ ~FixWins(e, f) /\ ~FixWins(f, g) => ~FixWins(e, g)
         /\ FixWins(f, g) => ~FixWins(g, f)
  <1>1. /\ FixAt[e] \in Nat /\ FixAt[f] \in Nat /\ FixAt[g] \in Nat
        /\ FixSeq[e] \in Nat /\ FixSeq[f] \in Nat /\ FixSeq[g] \in Nat
    BY ObjectAssumption, MappingAssumption
  <1> QED
    BY <1>1 DEF FixWins

\* Fix e is answered for: the believed position is no older, or a fix that is
\* no older is noted for the reduction that ends the pass.
Heeded(e, noted) ==
  LET key == LatestKey(DeviceOf[e])
  IN \/ Has(key) /\ ~FixWins(e, store[key])
     \/ \E f \in noted : DeviceOf[f] = DeviceOf[e] /\ ~FixWins(e, f)

\* The fixes a pass answers for, and what it knows when it writes a position.
Attentive(b) ==
  LET key == LatestKey(DeviceOf[b.doc])
  IN /\ b.at \in {"idle", "list"} => b.noted = {}
     /\ b.at = "receipt" /\ b.item.o \in Fixes => Heeded(b.item.o, b.noted)
     /\ b.at = "believe" =>
          /\ ~b.landed => Displaces(b.doc, key)
          /\ b.landed => Has(key) /\ store[key] = b.doc

PositionsInv ==
  faults = 0 => \A p \in Pass :
    /\ Attentive(pass[p])
    /\ \A e \in Fixes, t \in Stamp :
         Receipted(e, t) => Heeded(e, pass[p].noted)

\* What becomes of the fixes a pass in state b has noted, when it goes on to c.
Restarts(b, c) ==
  /\ b.at \in {"idle", "list"} \/ b.noted = {}
  /\ c.noted = {} /\ c.at \in {"idle", "list", "scan"}

Keeps(b, c) ==
  /\ c.noted = b.noted
  /\ c.at \notin {"idle", "list", "believe"}
  /\ c.at = "receipt" => c.item.o \notin Fixes

Notes(b, c) ==
  /\ c.noted = NoteFix(b.noted, b.item.o)
  /\ b.item.o \in Fixes
  /\ c.at = "receipt" /\ c.item = b.item

Dismisses(b, c) ==
  /\ c.at = "reduce"
  /\ \E e \in b.noted : /\ ~Displaces(e, LatestKey(DeviceOf[e]))
                        /\ c.noted = b.noted \ {e}

Prefers(b, c) ==
  /\ c.at = "believe" /\ ~c.landed /\ c.noted = b.noted
  /\ Displaces(c.doc, LatestKey(DeviceOf[c.doc]))

Believes(b, c) ==
  /\ b.at = "believe" /\ b.landed
  /\ c.at = "reduce" /\ c.noted = b.noted \ {b.doc}

Minds(b, c) ==
  \/ Restarts(b, c) \/ Keeps(b, c) \/ Notes(b, c)
  \/ Dismisses(b, c) \/ Prefers(b, c) \/ Believes(b, c)

LEMMA NotedMoves ==
  ASSUME TypeOK, NEW p \in Pass, Step(p) \/ Fault(p) \/ Crash(p), faults' = 0
  PROVE  /\ faults = 0
         /\ \/ Lands(p)
            \/ UNCHANGED store /\ Minds(pass[p], pass'[p])
  <1> USE DEF At, Item
  <1>a. /\ PassTyped(pass[p]) /\ DOMAIN pass[p] = PassField
        /\ p \in DOMAIN pass /\ faults \in Nat
    BY BoundAssumption DEF TypeOK, PassTyped, BatchTyped
  <1>b. pass[p].at \in ItemLabel =>
          Holds(pass[p].at, pass[p].item.o, pass[p].doc)
    BY <1>a DEF PassTyped, InHandTyped
  <1>c. ~Fault(p) /\ ~Crash(p)
    BY <1>a DEF Fault, Crash
  <1>d. \A l, d : Carry(p, l, d) =>
          /\ pass'[p].at = l /\ pass'[p].noted = pass[p].noted
          /\ pass'[p].item = pass[p].item /\ UNCHANGED <<store, faults>>
    BY <1>a DEF Carry, Move, PassField, ledgerVars
  <1>e. \A l : /\ Move(p, l).at = l /\ Move(p, l).noted = pass[p].noted
               /\ Move(p, l).item = pass[p].item
    BY <1>a DEF Move, PassField
  <1>f. \A r \in {Settle(p), Finish(p)} :
          r.at = "pick" /\ r.noted = pass[p].noted
    BY <1>a DEF Finish, Settle, Move, PassField
  <1>g. ASSUME NEW l, NEW k, NEW d, NEW r, Write(p, l, k, d, r)
        PROVE  /\ UNCHANGED faults
               /\ pass[p].landed => UNCHANGED store /\ pass'[p] = r
    BY <1>a, <1>g DEF Write
  <1>h. ASSUME pass'[p].noted = pass[p].noted,
               pass'[p].at \notin {"idle", "list", "believe"},
               pass'[p].at = "receipt" => pass'[p].item.o \notin Fixes
        PROVE  Minds(pass[p], pass'[p])
    BY <1>h DEF Minds, Keeps
  <1>i. ASSUME ~pass[p].landed,
               \/ WriteBlob(p) \/ WriteProvenance(p) \/ WriteReceipt(p)
               \/ Promote(p) \/ Retire(p) \/ MarkPromoted(p)
               \/ WriteProvisional(p) \/ WriteFirstLook(p) \/ WriteInbox(p)
               \/ WriteBelieved(p)
        PROVE  faults = 0 /\ Lands(p)
    BY <1>a, <1>i
    DEF WriteBlob, WriteProvenance, WriteReceipt, Promote, Retire,
        MarkPromoted, WriteProvisional, WriteFirstLook, WriteInbox,
        WriteBelieved, Write, Remove, Lands
  <1>1. CASE /\ pass[p].landed
             /\ WriteBlob(p) \/ WriteReceipt(p) \/ Promote(p) \/ MarkPromoted(p)
    <2>1. /\ UNCHANGED <<store, faults>>
          /\ \/ \E l \in {"sightings", "seal", "retire"} : pass'[p] = Move(p, l)
             \/ pass'[p] = Finish(p)
      BY <1>a, <1>1, <1>g DEF WriteBlob, WriteReceipt, Promote, MarkPromoted
    <2>2. /\ pass'[p].noted = pass[p].noted
          /\ pass'[p].at \in {"sightings", "seal", "retire", "pick"}
      BY <1>e, <1>f, <2>1
    <2> QED
      BY <1>h, <2>1, <2>2
  <1>2. CASE Retire(p) /\ pass[p].landed
    <2>1. UNCHANGED <<store, faults>> /\ pass'[p] = Move(p, "mark")
      BY <1>a, <1>2 DEF Retire, Remove
    <2> QED
      BY <1>e, <1>h, <2>1
  <1>3. CASE /\ pass[p].landed
             /\ WriteProvenance(p) \/ WriteProvisional(p) \/ WriteFirstLook(p)
    <2>1. UNCHANGED <<store, faults>> /\ pass'[p] = Move(p, "receipt")
      BY <1>a, <1>3, <1>g DEF WriteProvenance, WriteProvisional, WriteFirstLook
    <2>2. pass[p].item.o \notin Fixes
      BY <1>b, <1>3, ObjectAssumption
      DEF WriteProvenance, WriteProvisional, WriteFirstLook, Write, Holds,
          Label, ItemLabel
    <2>3. /\ pass'[p].noted = pass[p].noted /\ pass'[p].at = "receipt"
          /\ pass'[p].item = pass[p].item
      BY <1>e, <2>1
    <2> QED
      BY <1>h, <2>1, <2>2, <2>3
  <1>4. CASE WriteInbox(p) /\ pass[p].landed
    <2> DEFINE r == [Move(p, "receipt") EXCEPT !.noted = NoteFix(@, Item(p))]
    <2>1. Write(p, "inbox", InboxKey(Item(p)), "point", r)
      BY <1>4 DEF WriteInbox
    <2>2. /\ r.at = "receipt" /\ r.item = pass[p].item
          /\ r.noted = NoteFix(pass[p].noted, pass[p].item.o)
      BY <1>a DEF Move, PassField
    <2> HIDE DEF r
    <2>3. pass[p].item.o \in Fixes
      BY <1>b, <2>1 DEF Write, Holds, Label, ItemLabel
    <2> QED
      BY <1>4, <1>g, <2>1, <2>2, <2>3 DEF Minds, Notes
  <1>5. CASE WriteBelieved(p) /\ pass[p].landed
    <2> DEFINE r == [Move(p, "reduce") EXCEPT !.doc = NoDoc,
                                              !.noted = @ \ {pass[p].doc}]
    <2>1. Write(p, "believe", LatestKey(DeviceOf[pass[p].doc]), pass[p].doc, r)
      BY <1>5 DEF WriteBelieved
    <2>2. r.at = "reduce" /\ r.noted = pass[p].noted \ {pass[p].doc}
      BY <1>a DEF Move, PassField
    <2> HIDE DEF r
    <2>3. pass[p].at = "believe"
      BY <2>1 DEF Write
    <2> QED
      BY <1>5, <1>g, <2>1, <2>2, <2>3 DEF Minds, Believes
  <1>6. CASE Begin(p) \/ List(p)
    <2>1. /\ UNCHANGED <<store, faults>> /\ pass[p].at \in {"idle", "list"}
          /\ pass'[p].noted = {} /\ pass'[p].at \in {"list", "scan"}
      BY <1>a, <1>6 DEF Begin, List, IdlePass, ledgerVars
    <2> QED
      BY <2>1 DEF Minds, Restarts
  <1>7. CASE End(p)
    <2>1. /\ UNCHANGED <<store, faults>> /\ pass[p].noted = {}
          /\ pass'[p].noted = {} /\ pass'[p].at = "idle"
      BY <1>a, <1>7 DEF End, IdlePass, ledgerVars
    <2> QED
      BY <2>1 DEF Minds, Restarts
  <1>8. CASE Scan(p)
    <2>1. pass'[p].noted = pass[p].noted /\ pass'[p].at = "scan"
      BY <1>a, <1>8 DEF Scan, Scanned, PassField
    <2>2. faults' = faults \/ faults' = faults + 1
      BY <1>8 DEF Scan
    <2>3. UNCHANGED store
      BY <1>8 DEF Scan, ledgerVars
    <2> QED
      BY <1>a, <1>h, <2>1, <2>2, <2>3
  <1>9. CASE Take(p)
    <2>0. PICK it \in Newest(Eligible(p)) :
            pass'[p] = [Move(p, EntryLabel(it.o)) EXCEPT !.item = it,
                          !.doc = NoDoc, !.checks = @ \ {it}]
      BY <1>a, <1>9 DEF Take
    <2>1. /\ pass'[p].noted = pass[p].noted
          /\ pass'[p].at \in {"hash", "partial", "final", "event"}
      BY <1>a, <2>0 DEF Move, EntryLabel, PassField
    <2>2. UNCHANGED <<store, faults>>
      BY <1>9 DEF Take, ledgerVars
    <2> QED
      BY <1>h, <2>1, <2>2
  <1>10. CASE Drop(p)
    <2>1. pass'[p] = Settle(p) /\ UNCHANGED <<store, faults>>
      BY <1>a, <1>10 DEF Drop, ledgerVars
    <2> QED
      BY <1>f, <1>h, <2>1
  <1>11. CASE ReadBelieved(p)
    <2>1. faults' = faults \/ faults' = faults + 1
      BY <1>11 DEF ReadBelieved
    <2>2. faults = 0 /\ UNCHANGED faults
      BY <1>a, <2>1
    <2>3. PICK e \in pass[p].noted :
            IF Displaces(e, LatestKey(DeviceOf[e]))
            THEN pass' = [pass EXCEPT ![p] = [Move(p, "believe") EXCEPT !.doc = e]]
            ELSE pass' = [pass EXCEPT ![p].noted = @ \ {e}]
      <3>1. faults' # faults + 1
        BY <1>a, <2>2
      <3> QED
        BY <1>11, <3>1 DEF ReadBelieved
    <2>4. pass[p].at = "reduce" /\ UNCHANGED store
      BY <1>11 DEF ReadBelieved, ledgerVars
    <2>5. CASE Displaces(e, LatestKey(DeviceOf[e]))
      <3>1. pass'[p] = [Move(p, "believe") EXCEPT !.doc = e]
        BY <1>a, <2>3, <2>5
      <3>2. /\ pass'[p].at = "believe" /\ ~pass'[p].landed
            /\ pass'[p].noted = pass[p].noted /\ pass'[p].doc = e
        BY <1>a, <3>1 DEF Move, PassField
      <3> QED
        BY <2>2, <2>4, <2>5, <3>2 DEF Minds, Prefers
    <2>6. CASE ~Displaces(e, LatestKey(DeviceOf[e]))
      <3>1. pass'[p] = [pass[p] EXCEPT !.noted = @ \ {e}]
        BY <1>a, <2>3, <2>6
      <3>2. pass'[p].at = "reduce" /\ pass'[p].noted = pass[p].noted \ {e}
        BY <1>a, <2>4, <3>1 DEF PassField
      <3> QED
        BY <2>2, <2>4, <2>6, <3>2 DEF Minds, Dismisses
    <2> QED
      BY <2>5, <2>6
  <1>12. CASE ReadProvisional(p)
    <2>1. \/ Carry(p, "adopt", store[LiveKey(SegmentOf[Item(p)])])
          \/ pass'[p] = Finish(p) /\ UNCHANGED <<store, faults>>
      BY <1>a, <1>12 DEF ReadProvisional, ledgerVars
    <2> QED
      BY <1>d, <1>f, <1>h, <2>1
  <1>13. CASE \/ ScanEnd(p) \/ BatchEnd(p) \/ Identify(p) \/ ReadSightings(p)
              \/ CheckFirstLook(p) \/ DownloadPartial(p) \/ CheckPromoted(p)
              \/ DownloadFinal(p) \/ DownloadEvent(p)
    <2>1. PICK l, d : Carry(p, l, d)
      BY <1>13
      DEF ScanEnd, BatchEnd, Identify, ReadSightings, CheckFirstLook,
          DownloadPartial, CheckPromoted, DownloadFinal, DownloadEvent, Goto
    <2>2. /\ pass'[p].noted = pass[p].noted /\ UNCHANGED <<store, faults>>
          /\ pass'[p].item = pass[p].item /\ pass'[p].at = l
      BY <1>d, <2>1
    <2>3. /\ pass'[p].at \notin {"idle", "list", "believe"}
          /\ pass'[p].at = "receipt" => pass[p].item.o \notin Fixes
      <3>1. CASE ScanEnd(p) \/ BatchEnd(p)
        BY <1>d, <3>1 DEF ScanEnd, BatchEnd, Goto
      <3>2. CASE Identify(p)
        <4>1. pass[p].item.o \notin Fixes
          BY <1>b, <3>2, ObjectAssumption DEF Identify, Holds, Label, ItemLabel
        <4> QED
          BY <1>d, <3>2, <4>1 DEF Identify, Goto
      <3>3. CASE ReadSightings(p)
        <4>1. pass[p].item.o \notin Fixes
          BY <1>b, <3>3, ObjectAssumption
          DEF ReadSightings, Holds, Label, ItemLabel
        <4> QED
          BY <1>d, <3>3, <4>1 DEF ReadSightings
      <3>4. CASE CheckFirstLook(p)
        BY <1>d, <3>4 DEF CheckFirstLook, Goto
      <3>5. CASE DownloadPartial(p)
        <4>1. pass[p].item.o \notin Fixes
          BY <1>b, <3>5, ObjectAssumption
          DEF DownloadPartial, Holds, Label, ItemLabel
        <4> QED
          BY <1>d, <3>5, <4>1 DEF DownloadPartial
      <3>6. CASE CheckPromoted(p)
        <4>1. pass[p].item.o \notin Fixes
          BY <1>b, <3>6, ObjectAssumption
          DEF CheckPromoted, Holds, Label, ItemLabel
        <4> QED
          BY <1>d, <3>6, <4>1 DEF CheckPromoted, Goto
      <3>7. CASE DownloadFinal(p)
        <4>1. pass[p].item.o \notin Fixes
          BY <1>b, <3>7, ObjectAssumption
          DEF DownloadFinal, Holds, Label, ItemLabel
        <4> QED
          BY <1>d, <3>7, <4>1 DEF DownloadFinal, Goto
      <3>8. CASE DownloadEvent(p)
        BY <1>d, <3>8 DEF DownloadEvent, Goto
      <3> QED
        BY <1>13, <3>1, <3>2, <3>3, <3>4, <3>5, <3>6, <3>7, <3>8
    <2> QED
      BY <1>h, <2>2, <2>3
  <1> QED
    BY <1>c, <1>i, <1>1, <1>2, <1>3, <1>4, <1>5, <1>6, <1>7, <1>8, <1>9,
       <1>10, <1>11, <1>12, <1>13
    DEF Step

\* Noting a fix covers it and all that was covered before.
LEMMA NoteCovers ==
  ASSUME NEW noted \in SUBSET Fixes, NEW e \in Fixes, NEW f \in Fixes,
         f = e \/ \E g \in noted : DeviceOf[g] = DeviceOf[f] /\ ~FixWins(f, g)
  PROVE  \E g \in NoteFix(noted, e) : DeviceOf[g] = DeviceOf[f] /\ ~FixWins(f, g)
  <1>1. CASE \E g \in noted : DeviceOf[g] = DeviceOf[e] /\ ~FixWins(e, g)
    BY <1>1 DEF NoteFix
  <1>2. CASE ~\E g \in noted : DeviceOf[g] = DeviceOf[e] /\ ~FixWins(e, g)
    <2>1. NoteFix(noted, e) =
            {g \in noted : DeviceOf[g] # DeviceOf[e]} \cup {e}
      BY <1>2 DEF NoteFix
    <2>2. CASE f = e
      BY <2>1, <2>2, WinsOrder
    <2>3. CASE f # e
      <3>1. PICK g \in noted : DeviceOf[g] = DeviceOf[f] /\ ~FixWins(f, g)
        BY <2>3
      <3>2. CASE DeviceOf[g] # DeviceOf[e]
        BY <2>1, <3>1, <3>2
      <3>3. CASE DeviceOf[g] = DeviceOf[e]
        <4>1. ~FixWins(g, e)
          BY <1>2, <3>3, WinsOrder
        <4>2. ~FixWins(f, e)
          BY <3>1, <4>1, WinsOrder
        <4> QED
          BY <2>1, <3>1, <3>3, <4>2
      <3> QED
        BY <3>2, <3>3
    <2> QED
      BY <2>2, <2>3
  <1> QED
    BY <1>1, <1>2

\* What landing an artifact changes of the believed positions.
LEMMA PositionLands ==
  ASSUME TypeOK, NEW p \in Pass, Lands(p)
  PROVE  IF pass[p].at = "believe"
         THEN Put(LatestKey(DeviceOf[pass[p].doc]), pass[p].doc)
         ELSE \A d : /\ Has(LatestKey(d))' = Has(LatestKey(d))
                     /\ Has(LatestKey(d)) =>
                          store'[LatestKey(d)] = store[LatestKey(d)]
  BY KeyParts DEF Lands, At, Put, Delete, Has

LEMMA PositionsStep ==
  ASSUME NEW p, Pass = {p}, TypeOK, PositionsInv,
         Step(p) \/ Fault(p) \/ Crash(p)
  PROVE  PositionsInv'
  <1> SUFFICES ASSUME faults' = 0
               PROVE  /\ Attentive(pass[p])'
                      /\ \A e \in Fixes, t \in Stamp :
                           Receipted(e, t)' => Heeded(e, pass[p].noted)'
    BY DEF PositionsInv
  <1> DEFINE b == pass[p]
             c == pass'[p]
  <1>a. /\ DOMAIN pass[p] = PassField /\ b.noted \subseteq Fixes
        /\ b.at = "believe" => b.doc \in Fixes
        /\ b.at = "receipt" => b.item.o \in Object
    BY DEF TypeOK, PassTyped, BatchTyped, InHandTyped, ItemLabel, Label,
           ItemRecord
  <1>b. faults = 0 /\ (Lands(p) \/ (UNCHANGED store /\ Minds(b, c)))
    BY NotedMoves
  <1>c. /\ Attentive(b)
        /\ \A e \in Fixes, t \in Stamp : Receipted(e, t) => Heeded(e, b.noted)
    BY <1>b DEF PositionsInv
  <1>d. \A e \in Fixes : DeviceOf[e] \in Device
    BY ObjectAssumption, MappingAssumption
  <1>e. \A d \in Device : Has(LatestKey(d)) => store[LatestKey(d)] \in Fixes
    BY DEF TypeOK, StoreTyped
  <1>1. CASE Lands(p)
    <2>1. /\ c.at = b.at /\ c.item = b.item /\ c.doc = b.doc
          /\ c.noted = b.noted /\ c.landed /\ ~b.landed
      BY <1>a, <1>1 DEF Lands, PassField
    <2>2. ASSUME NEW e \in Fixes, Heeded(e, b.noted)
          PROVE  Heeded(e, pass[p].noted)'
      <3>1. CASE b.at = "believe"
        <4> DEFINE key == LatestKey(DeviceOf[b.doc])
        <4>1. /\ DOMAIN store' = DOMAIN store \cup {key}
              /\ store'[key] = b.doc
              /\ \A k \in DOMAIN store \ {key} : store'[k] = store[k]
          BY <1>1, <3>1, PositionLands DEF Put
        <4>2. Displaces(b.doc, key) /\ b.doc \in Fixes
          BY <1>a, <1>c, <2>1, <3>1 DEF Attentive
        <4>3. CASE LatestKey(DeviceOf[e]) = key
          <5>1. CASE Has(key) /\ ~FixWins(e, store[key])
            <6>1. store[key] \in Fixes /\ FixWins(b.doc, store[key])
              BY <1>d, <1>e, <4>2, <5>1 DEF Displaces
            <6>2. ~FixWins(e, b.doc)
              BY <4>2, <5>1, <6>1, WinsOrder
            <6> QED
              BY <2>1, <4>1, <4>3, <6>2 DEF Heeded, Has
          <5>2. CASE \E f \in b.noted :
                       DeviceOf[f] = DeviceOf[e] /\ ~FixWins(e, f)
            BY <2>1, <5>2 DEF Heeded
          <5> QED
            BY <2>2, <4>3, <5>1, <5>2 DEF Heeded
        <4>4. CASE LatestKey(DeviceOf[e]) # key
          BY <2>1, <2>2, <4>1, <4>4 DEF Heeded, Has
        <4> QED
          BY <4>3, <4>4
      <3>2. CASE b.at # "believe"
        BY <1>1, <2>1, <2>2, <3>2, PositionLands DEF Heeded
      <3> QED
        BY <3>1, <3>2
    <2>3. Attentive(pass[p])'
      <3>1. b.at = "believe" => /\ Has(LatestKey(DeviceOf[b.doc]))'
                                /\ store'[LatestKey(DeviceOf[b.doc])] = b.doc
        BY <1>1, <2>1, PositionLands DEF Put, Has
      <3>2. b.at = "receipt" /\ b.item.o \in Fixes =>
              Heeded(pass[p].item.o, pass[p].noted)'
        BY <1>c, <2>1, <2>2 DEF Attentive
      <3> QED
        BY <1>c, <2>1, <3>1, <3>2 DEF Attentive
    <2>4. ASSUME NEW e \in Fixes, NEW t \in Stamp, Receipted(e, t)'
          PROVE  Heeded(e, b.noted)
      <3>1. CASE Receipted(e, t)
        BY <1>c, <3>1
      <3>2. CASE ~Receipted(e, t)
        <4>1. WriteReceipt(p) /\ e = b.item.o
          BY <2>4, <3>2, ReceiptSource DEF Item
        <4>2. b.at = "receipt"
          BY <4>1 DEF WriteReceipt, Write, At
        <4> QED
          BY <1>c, <4>1, <4>2 DEF Attentive
      <3> QED
        BY <3>1, <3>2
    <2> QED
      BY <2>1, <2>2, <2>3, <2>4
  <1>2. CASE UNCHANGED store /\ Minds(b, c)
    <2>1. \A e : /\ Has(LatestKey(e))' = Has(LatestKey(e))
                 /\ store'[LatestKey(e)] = store[LatestKey(e)]
      BY <1>2 DEF Has
    <2>2. \A e, t : Receipted(e, t)' = Receipted(e, t)
      BY <1>2 DEF Receipted, Has
    <2>3. SUFFICES ASSUME NEW e \in Fixes, Heeded(e, b.noted)
                   PROVE  Heeded(e, pass[p].noted)'
      <3>1. Attentive(pass[p])'
        <4>1. CASE Restarts(b, c)
          BY <1>c, <4>1 DEF Restarts, Attentive
        <4>2. CASE Keeps(b, c)
          BY <4>2 DEF Keeps, Attentive
        <4>3. CASE Notes(b, c)
          <5>1. \E g \in NoteFix(b.noted, b.item.o) :
                  DeviceOf[g] = DeviceOf[b.item.o] /\ ~FixWins(b.item.o, g)
            <6>1. b.item.o \in Fixes /\ b.noted \in SUBSET Fixes
              BY <1>a, <4>3 DEF Notes
            <6> QED
              BY <6>1, NoteCovers
          <5> QED
            BY <4>3, <5>1 DEF Notes, Attentive, Heeded
        <4>4. CASE Dismisses(b, c)
          BY <4>4 DEF Dismisses, Attentive
        <4>5. CASE Prefers(b, c)
          BY <1>2, <4>5 DEF Prefers, Attentive, Displaces, Has
        <4>6. CASE Believes(b, c)
          BY <4>6 DEF Believes, Attentive
        <4> QED
          BY <1>2, <4>1, <4>2, <4>3, <4>4, <4>5, <4>6 DEF Minds
      <3> QED
        BY <1>c, <2>2, <2>3, <3>1
    <2>4. CASE Restarts(b, c)
      <3>1. b.noted = c.noted
        BY <1>c, <2>4 DEF Restarts, Attentive
      <3> QED
        BY <2>1, <2>3, <3>1 DEF Heeded
    <2>5. CASE c.noted = b.noted
      BY <2>1, <2>3, <2>5 DEF Heeded
    <2>6. CASE Notes(b, c)
      <3>1. CASE \E g \in b.noted : DeviceOf[g] = DeviceOf[e] /\ ~FixWins(e, g)
        <4>1. \E g \in c.noted : DeviceOf[g] = DeviceOf[e] /\ ~FixWins(e, g)
          BY <1>a, <2>6, <3>1, NoteCovers DEF Notes
        <4> QED
          BY <4>1 DEF Heeded
      <3>2. CASE ~\E g \in b.noted : DeviceOf[g] = DeviceOf[e] /\ ~FixWins(e, g)
        BY <2>1, <2>3, <3>2 DEF Heeded
      <3> QED
        BY <3>1, <3>2
    <2>7. ASSUME NEW x \in b.noted, c.noted = b.noted \ {x},
                 Has(LatestKey(DeviceOf[x])),
                 ~FixWins(x, store[LatestKey(DeviceOf[x])])
          PROVE  Heeded(e, pass[p].noted)'
      <3>1. CASE /\ Has(LatestKey(DeviceOf[e]))
                 /\ ~FixWins(e, store[LatestKey(DeviceOf[e])])
        BY <2>1, <3>1 DEF Heeded
      <3>2. CASE DeviceOf[x] = DeviceOf[e] /\ ~FixWins(e, x)
        <4>1. store[LatestKey(DeviceOf[x])] \in Fixes /\ x \in Fixes
          BY <1>a, <1>d, <1>e, <2>7
        <4>2. ~FixWins(e, store[LatestKey(DeviceOf[x])])
          BY <2>7, <3>2, <4>1, WinsOrder
        <4> QED
          BY <2>1, <2>7, <3>2, <4>2 DEF Heeded
      <3>3. CASE \E g \in c.noted : DeviceOf[g] = DeviceOf[e] /\ ~FixWins(e, g)
        BY <3>3 DEF Heeded
      <3> QED
        BY <2>3, <2>7, <3>1, <3>2, <3>3 DEF Heeded
    <2>8. CASE Dismisses(b, c)
      BY <2>7, <2>8 DEF Dismisses, Displaces
    <2>9. CASE Believes(b, c)
      <3>1. /\ Has(LatestKey(DeviceOf[b.doc])) /\ b.doc \in Fixes
            /\ store[LatestKey(DeviceOf[b.doc])] = b.doc
        BY <1>a, <1>c, <2>9 DEF Believes, Attentive
      <3>2. ~FixWins(b.doc, b.doc)
        BY <3>1, WinsOrder
      <3>3. CASE b.doc \in b.noted
        BY <2>7, <2>9, <3>1, <3>2, <3>3 DEF Believes
      <3>4. CASE b.doc \notin b.noted
        BY <2>5, <2>9, <3>4 DEF Believes
      <3> QED
        BY <3>3, <3>4
    <2> QED
      BY <1>2, <2>4, <2>5, <2>6, <2>8, <2>9 DEF Minds, Keeps, Prefers
  <1> QED
    BY <1>b, <1>1, <1>2

\* The believed position of every device is the newest receipted fix between
\* passes, as far as no call has failed.
LEMMA PositionsInvariant ==
  ASSUME NEW p, Pass = {p}
  PROVE  Spec => []PositionsInv
  <1>1. Init => PositionsInv
    BY DEF Init, LedgerInit, PositionsInv, Attentive, Receipted, Has, IdlePass
  <1>2. TypeOK /\ PositionsInv /\ [Next]_vars => PositionsInv'
    <2> SUFFICES ASSUME TypeOK, PositionsInv, [Next]_vars PROVE PositionsInv'
      OBVIOUS
    <2>1. CASE Step(p) \/ Fault(p) \/ Crash(p)
      BY <2>1, PositionsStep
    <2>2. CASE UNCHANGED <<store, index, pass, faults>>
      BY <2>2 DEF PositionsInv, Attentive, Heeded, Displaces, Receipted, Has
    <2> QED
      BY <2>1, <2>2, Outside
  <1> QED
    BY <1>1, <1>2, TypeCorrect, PTL DEF Spec

\* Between passes what is receipted is believed, or something no older is.
LEMMA NewestIsBelieved ==
  ASSUME NEW p, Pass = {p}, PositionsInv
  PROVE  NewestFixBelieved
  BY DEF PositionsInv, NewestFixBelieved, Attentive, Heeded, AtRest, At

\* A position gives way only to a fix that wins over it.
LEMMA PositionsMove ==
  ASSUME NEW p, Pass = {p}, TypeOK, PositionsInv, [Next]_vars
  PROVE  BelievedMonotone
  <1> SUFFICES ASSUME faults = 0, NEW d \in Device, Has(LatestKey(d))
               PROVE  \/ store'[LatestKey(d)] = store[LatestKey(d)]
                      \/ FixWins(store'[LatestKey(d)], store[LatestKey(d)])
    BY DEF BelievedMonotone
  <1>1. CASE Lands(p)
    <2>1. CASE pass[p].at = "believe"
      <3> DEFINE key == LatestKey(DeviceOf[pass[p].doc])
      <3>1. Displaces(pass[p].doc, key)
        BY <1>1, <2>1 DEF PositionsInv, Attentive, Lands
      <3>2. /\ store'[key] = pass[p].doc
            /\ \A k \in DOMAIN store \ {key} : store'[k] = store[k]
        BY <1>1, <2>1, PositionLands DEF Put
      <3> QED
        BY <3>1, <3>2 DEF Displaces, Has
    <2>2. CASE pass[p].at # "believe"
      BY <1>1, <2>2, PositionLands
    <2> QED
      BY <2>1, <2>2
  <1>2. CASE UNCHANGED store
    BY <1>2
  <1> QED
    BY <1>1, <1>2, StepKinds, Outside DEF GoesOn

-----------------------------------------------------------------------------
(* Believed positions. *)

\* Finitely many fixes have one that none of them wins over.
LEMMA NewestExists ==
  ASSUME IsFiniteSet(Fixes), NEW S \in SUBSET Fixes, S # {}
  PROVE  \E e \in S : \A f \in S : ~FixWins(f, e)
  <1> DEFINE Winners(e) == {f \in S : FixWins(f, e)}
             T == {Winners(e) : e \in S}
  <1>1. IsFiniteSet(S)
    BY FS_Subset
  <1>2. IsWellFoundedOn(StrictSubsetOrdering(S), FiniteSubsetsOf(S))
    BY <1>1, FS_StrictSubsetOrderingWellFounded
  <1>3. T \subseteq FiniteSubsetsOf(S) /\ T # {}
    <2>1. \A e : IsFiniteSet(Winners(e)) /\ Winners(e) \in SUBSET S
      <3> SUFFICES ASSUME NEW e PROVE IsFiniteSet({f \in S : FixWins(f, e)})
        OBVIOUS
      <3>1. {f \in S : FixWins(f, e)} \in SUBSET S
        OBVIOUS
      <3> QED
        BY <1>1, <3>1, FS_Subset
    <2>2. \A w \in T : \E e \in S : w = Winners(e)
      OBVIOUS
    <2>3. T # {}
      OBVIOUS
    <2> HIDE DEF T, Winners
    <2> QED
      BY <2>1, <2>2, <2>3 DEF FiniteSubsetsOf
  <1>4. PICK w \in T : \A v \in T : ~(<<v, w>> \in StrictSubsetOrdering(S))
    <2> HIDE DEF T
    <2> QED
      BY <1>2, <1>3, WFMin
  <1>5. PICK e \in S : w = Winners(e)
    BY DEF T
  <1>6. ASSUME NEW f \in S, FixWins(f, e)
        PROVE  FALSE
    <2>1. \A g \in S : FixWins(g, f) => FixWins(g, e)
      BY <1>6, WinsOrder
    <2>2. f \in Winners(e) /\ f \notin Winners(f)
      BY <1>6, WinsOrder
    <2>3. Winners(f) \subseteq Winners(e) /\ Winners(f) # Winners(e)
      BY <2>1, <2>2
    <2>4. <<Winners(f), w>> \in StrictSubsetOrdering(S)
      BY <1>5, <2>3 DEF StrictSubsetOrdering
    <2> QED
      BY <1>4, <2>4
  <1> QED
    BY <1>6

\* What the audit may assume of a device's fixes: the phone numbers its rows
\* (SpoolRepository.kt), so no two fixes of a device share time and sequence.
FixesAreOrdered ==
  \A e \in Fixes, f \in Fixes :
    DeviceOf[e] = DeviceOf[f] /\ ~FixWins(e, f) /\ ~FixWins(f, e) => e = f

LEMMA CandidateTold ==
  ASSUME IsFiniteSet(Fixes), NEW d \in Device, Candidates(d) # {}
  PROVE  /\ NewestCandidate(d) \in Candidates(d)
         /\ \A f \in Candidates(d) : ~FixWins(f, NewestCandidate(d))
  <1>1. Candidates(d) \in SUBSET Fixes
    BY DEF Candidates
  <1>2. \E e \in Candidates(d) : \A f \in Candidates(d) : ~FixWins(f, e)
    BY <1>1, NewestExists
  <1> QED
    BY <1>2 DEF NewestCandidate

\* An object the scan window shows was uploaded.
LEMMA WindowStamp ==
  ASSUME TypeOK, NEW o \in Object, InWindow(o)
  PROVE  modified[o] \in Stamp
  BY BoundAssumption DEF TypeOK, InWindow, Stamp

\* The audit of the believed positions agrees when they are the newest.
LEMMA PositionTold ==
  ASSUME TypeOK, IsFiniteSet(Fixes), FixesAreOrdered, NewestFixBelieved
  PROVE  LatestIsTold
  <1> SUFFICES ASSUME AtRest, faults = 0, NEW d \in Device, Candidates(d) # {}
               PROVE  LET e == NewestCandidate(d)
                      IN \/ LatestVerdict(e) \in {"match", "dev-newer"}
                         \/ /\ FixAt[store[LatestKey(d)]] = FixAt[e]
                            /\ FixWins(store[LatestKey(d)], e)
    BY DEF LatestIsTold
  <1> DEFINE e == NewestCandidate(d)
             f == store[LatestKey(d)]
  <1>1. e \in Fixes /\ DeviceOf[e] = d /\ InWindow(e) /\ Has(AuditReceipt(e))
    BY CandidateTold DEF Candidates
  <1> HIDE DEF e
  <1>2. modified[e] \in Stamp
    BY <1>1, WindowStamp, ObjectAssumption DEF Object
  <1>3. Has(LatestKey(d)) /\ ~FixWins(e, f)
    BY <1>1, <1>2 DEF NewestFixBelieved, Receipted, AuditReceipt
  <1>4. f \in Fixes /\ DeviceOf[f] = d
    BY <1>3 DEF TypeOK, StoreTyped
  <1>5. /\ FixAt[e] \in Nat /\ FixAt[f] \in Nat
        /\ FixSeq[e] \in Nat /\ FixSeq[f] \in Nat
    BY <1>1, <1>4, ObjectAssumption, MappingAssumption
  <1>6. CASE f = e
    BY <1>1, <1>3, <1>6 DEF LatestVerdict, e
  <1>7. CASE f # e
    <2>1. FixWins(f, e)
      BY <1>1, <1>3, <1>4, <1>7 DEF FixesAreOrdered
    <2>2. CASE FixAt[f] > FixAt[e]
      BY <1>1, <1>3, <1>7, <2>2 DEF LatestVerdict, e
    <2>3. CASE FixAt[f] = FixAt[e]
      BY <2>1, <2>3 DEF e
    <2> QED
      BY <2>1, <2>2, <2>3 DEF FixWins
  <1> QED
    BY <1>6, <1>7

\* PositionsAreNewest: while passes do not overlap and no call has failed, the
\* newest receipted fix of a device is believed, only newer ones replace it,
\* and the audit says so.
THEOREM PositionsAreBelieved ==
  ASSUME NEW p, Pass = {p}, IsFiniteSet(Fixes), FixesAreOrdered
  PROVE  Spec => PositionsAreNewest
  <1>1. TypeOK /\ PositionsInv => NewestFixBelieved /\ LatestIsTold
    BY NewestIsBelieved, PositionTold
  <1>2. /\ TypeOK /\ PositionsInv /\ TypeOK' /\ PositionsInv' /\ [Next]_vars
        => NewestFixBelieved' /\ LatestIsTold' /\ BelievedMonotone
    <2>1. TypeOK' /\ PositionsInv' => NewestFixBelieved' /\ LatestIsTold'
      BY <1>1, PTL
    <2>2. TypeOK /\ PositionsInv /\ [Next]_vars => BelievedMonotone
      BY PositionsMove
    <2> QED
      BY <2>1, <2>2
  <1>3. Spec => []PositionsInv
    BY PositionsInvariant
  <1> QED
    BY <1>2, <1>3, TypeCorrect, PTL DEF Spec, PositionsAreNewest

-----------------------------------------------------------------------------
(* Receipts and provisionals. *)

\* A receipt names the capture its object is filed under.
ReceiptsNameTheirCapture ==
  \A o \in Object, t \in Stamp :
    Receipted(o, t) => store[ReceiptKey(o, t)] = ReceiptDoc(o)

LEMMA ReceiptsNamed ==
  ASSUME NEW p \in Pass, TypeOK, ReceiptsNameTheirCapture,
         Step(p) \/ Fault(p) \/ Crash(p)
  PROVE  ReceiptsNameTheirCapture'
  <1> SUFFICES ASSUME NEW o \in Object, NEW t \in Stamp, Receipted(o, t)'
               PROVE  store'[ReceiptKey(o, t)] = ReceiptDoc(o)
    BY DEF ReceiptsNameTheirCapture
  <1>1. CASE Lands(p)
    <2>1. CASE pass[p].at = "receipt"
      <3> DEFINE k == ReceiptKey(pass[p].item.o, pass[p].item.t)
      <3>1. Put(k, ReceiptDoc(pass[p].item.o))
        BY <1>1, <2>1 DEF Lands, At, Item
      <3>2. CASE ReceiptKey(o, t) = k
        <4>1. o = pass[p].item.o
          BY <3>2 DEF ReceiptKey
        <4>2. store'[k] = ReceiptDoc(pass[p].item.o)
          BY <3>1 DEF Put
        <4> QED
          BY <3>2, <4>1, <4>2
      <3>3. CASE ReceiptKey(o, t) # k
        BY <3>1, <3>3 DEF Put, Receipted, Has, ReceiptsNameTheirCapture
      <3> QED
        BY <3>2, <3>3
    <2>2. CASE pass[p].at # "receipt"
      <3>1. /\ Has(ReceiptKey(o, t))' = Has(ReceiptKey(o, t))
            /\ Has(ReceiptKey(o, t)) =>
                 store'[ReceiptKey(o, t)] = store[ReceiptKey(o, t)]
        BY <1>1, <2>2, KeyParts DEF Lands, At, Put, Delete, Has
      <3> QED
        BY <3>1 DEF Receipted, ReceiptsNameTheirCapture
    <2> QED
      BY <2>1, <2>2
  <1>2. CASE UNCHANGED store
    BY <1>2 DEF Receipted, Has, ReceiptsNameTheirCapture
  <1> QED
    BY <1>1, <1>2, StepKinds DEF GoesOn

LEMMA ReceiptsNameInvariant == Spec => []ReceiptsNameTheirCapture
  <1>1. Init => ReceiptsNameTheirCapture
    BY DEF Init, LedgerInit, ReceiptsNameTheirCapture, Receipted, Has
  <1>2. TypeOK /\ ReceiptsNameTheirCapture /\ [Next]_vars
          => ReceiptsNameTheirCapture'
    <2> SUFFICES ASSUME TypeOK, ReceiptsNameTheirCapture, [Next]_vars
                 PROVE  ReceiptsNameTheirCapture'
      OBVIOUS
    <2>1. CASE \E p \in Pass : Step(p) \/ Fault(p) \/ Crash(p)
      BY <2>1, ReceiptsNamed
    <2>2. CASE UNCHANGED <<store, index, pass, faults>>
      BY <2>2 DEF ReceiptsNameTheirCapture, Receipted, Has
    <2> QED
      BY <2>1, <2>2, Outside
  <1> QED
    BY <1>1, <1>2, TypeCorrect, PTL DEF Spec

\* A segment has its provisional, or the marker of its promotion.
Shown(s) == Has(LiveKey(s)) \/ Has(PromotedKey(s))

\* The pass is between removing a provisional and leaving the marker.
Moving(b, s) == b.at \in {"retire", "mark"} /\ SegmentOf[b.item.o] = s

\* What the pass in hand has shown of its segment.
Shows(b) ==
  /\ b.at = "receipt" /\ b.item.o \in Partial \ Rejected => Shown(b.item.o)
  /\ b.at = "provisional" /\ b.landed => Has(LiveKey(b.item.o))
  /\ b.at = "mark" /\ b.landed => Has(PromotedKey(SegmentOf[b.item.o]))

ShownInv ==
  faults = 0 => \A p \in Pass :
    /\ Shows(pass[p])
    /\ \A s \in Partial \ Rejected, t \in Stamp :
         Receipted(s, t) => Shown(s) \/ Moving(pass[p], s)

\* How a pass that no call fails goes on from state b to c.
Follows(b, c) ==
  /\ b.at = "retire" => c.at = "mark" /\ c.item = b.item
  /\ b.at = "mark" => b.landed
  /\ c.at = "receipt" /\ c.item.o \in Partial \ Rejected =>
       /\ c.item = b.item
       /\ (b.at = "provisional" /\ b.landed) \/ Has(PromotedKey(b.item.o))
  /\ c.at \in {"provisional", "mark"} => ~c.landed

LEMMA FollowsElsewhere ==
  ASSUME NEW b, NEW c, b.at \notin {"retire", "mark"},
         c.at \notin {"receipt", "provisional", "mark"}
  PROVE  Follows(b, c)
  BY DEF Follows

LEMMA ShownMoves ==
  ASSUME TypeOK, NEW p \in Pass, Step(p) \/ Fault(p) \/ Crash(p), faults' = 0
  PROVE  /\ faults = 0
         /\ \/ Lands(p)
            \/ UNCHANGED store /\ Follows(pass[p], pass'[p])
  <1> USE DEF At, Item
  <1>a. /\ PassTyped(pass[p]) /\ DOMAIN pass[p] = PassField
        /\ p \in DOMAIN pass
    BY DEF TypeOK, PassTyped, BatchTyped
  <1>b. pass[p].at \in ItemLabel =>
          Holds(pass[p].at, pass[p].item.o, pass[p].doc)
    BY <1>a DEF PassTyped, InHandTyped
  <1>c. faults = 0 /\ (Lands(p) \/ UNCHANGED store)
    BY NotedMoves
  <1>d. ~Fault(p) /\ ~Crash(p)
    BY <1>c DEF Fault, Crash
  <1>e. SUFFICES ASSUME ~Lands(p), UNCHANGED store
                 PROVE  Follows(pass[p], pass'[p])
    BY <1>c
  <1>f. \A l : /\ Move(p, l).at = l /\ ~Move(p, l).landed
               /\ Move(p, l).item = pass[p].item
    BY <1>a, MoveShape
  <1>g. Settle(p).at = "pick" /\ Finish(p).at = "pick"
    BY <1>a, PickShape
  <1>h. ASSUME NEW l, NEW k, NEW d, NEW r, Write(p, l, k, d, r), pass[p].landed
        PROVE  pass[p].at = l /\ pass'[p] = r
    BY <1>a, <1>h DEF Write
  <1>i. ASSUME \/ WriteBlob(p) \/ WriteProvenance(p) \/ WriteReceipt(p)
               \/ Promote(p) \/ Retire(p) \/ MarkPromoted(p)
               \/ WriteProvisional(p) \/ WriteFirstLook(p) \/ WriteInbox(p)
               \/ WriteBelieved(p)
        PROVE  pass[p].landed
    BY <1>a, <1>e, <1>i
    DEF WriteBlob, WriteProvenance, WriteReceipt, Promote, Retire,
        MarkPromoted, WriteProvisional, WriteFirstLook, WriteInbox,
        WriteBelieved, Write, Remove, Lands
  <1>1. CASE WriteBlob(p) \/ WriteReceipt(p) \/ Promote(p)
    <2>1. /\ pass[p].at \in {"blob", "receipt", "promote"}
          /\ \/ \E l \in {"sightings", "seal", "retire"} : pass'[p] = Move(p, l)
             \/ pass'[p] = Finish(p)
      BY <1>1, <1>h, <1>i DEF WriteBlob, WriteReceipt, Promote
    <2> QED
      BY <1>f, <1>g, <2>1, FollowsElsewhere
  <1>2. CASE MarkPromoted(p)
    <2>1. pass[p].landed /\ pass[p].at = "mark" /\ pass'[p] = Finish(p)
      BY <1>2, <1>h, <1>i DEF MarkPromoted
    <2> QED
      BY <1>g, <2>1 DEF Follows
  <1>3. CASE Retire(p)
    <2>1. pass[p].at = "retire" /\ pass'[p] = Move(p, "mark")
      BY <1>a, <1>3, <1>i DEF Retire, Remove
    <2> QED
      BY <1>f, <2>1 DEF Follows
  <1>4. CASE WriteProvisional(p)
    <2>1. /\ pass[p].landed /\ pass[p].at = "provisional"
          /\ pass'[p] = Move(p, "receipt")
      BY <1>4, <1>h, <1>i DEF WriteProvisional
    <2> QED
      BY <1>f, <2>1 DEF Follows
  <1>5. CASE WriteProvenance(p) \/ WriteFirstLook(p) \/ WriteInbox(p)
    <2>1. /\ pass[p].at \in {"provenance", "firstlook", "inbox"}
          /\ \/ pass'[p] = Move(p, "receipt")
             \/ pass'[p] = [Move(p, "receipt") EXCEPT
                              !.noted = NoteFix(@, Item(p))]
      BY <1>5, <1>h, <1>i DEF WriteProvenance, WriteFirstLook, WriteInbox
    <2>2. pass'[p].at = "receipt" /\ pass'[p].item = pass[p].item
      BY <1>a, <1>f, <2>1 DEF Move, PassField
    <2>3. pass[p].item.o \notin Partial
      BY <1>b, <2>1, ObjectAssumption DEF Holds, Label, ItemLabel
    <2> QED
      BY <2>1, <2>2, <2>3 DEF Follows
  <1>6. CASE WriteBelieved(p)
    <2>1. /\ pass[p].at = "believe"
          /\ pass'[p] = [Move(p, "reduce") EXCEPT !.doc = NoDoc,
                           !.noted = @ \ {pass[p].doc}]
      BY <1>6, <1>h, <1>i DEF WriteBelieved
    <2>2. pass'[p].at = "reduce"
      BY <1>a, <2>1 DEF Move, PassField
    <2> QED
      BY <2>1, <2>2, FollowsElsewhere
  <1>7. CASE Begin(p) \/ List(p) \/ End(p)
    <2>1. /\ pass[p].at \in {"idle", "list", "reduce"}
          /\ pass'[p].at \in {"idle", "list", "scan"}
      <3>1. CASE Begin(p) \/ List(p)
        BY <1>a, <3>1 DEF Begin, List, IdlePass
      <3>2. CASE End(p)
        BY <1>a, <3>2 DEF End, IdlePass
      <3> QED
        BY <1>7, <3>1, <3>2
    <2> QED
      BY <2>1, FollowsElsewhere
  <1>8. CASE Scan(p)
    <2>1. pass[p].at = "scan" /\ pass'[p].at = "scan"
      BY <1>a, <1>8 DEF Scan, Scanned, PassField
    <2> QED
      BY <2>1, FollowsElsewhere
  <1>9. CASE Take(p)
    <2>1. PICK it \in Newest(Eligible(p)) :
            pass'[p] = [Move(p, EntryLabel(it.o)) EXCEPT !.item = it,
                          !.doc = NoDoc, !.checks = @ \ {it}]
      BY <1>a, <1>9 DEF Take
    <2>2. /\ pass[p].at = "pick"
          /\ pass'[p].at \in {"hash", "partial", "final", "event"}
      BY <1>a, <1>9, <2>1 DEF Take, Move, EntryLabel, PassField
    <2> QED
      BY <2>2, FollowsElsewhere
  <1>10. CASE Drop(p)
    <2>1. /\ pass[p].at \in {"hash", "partial", "final", "event"}
          /\ pass'[p] = Settle(p)
      BY <1>a, <1>10 DEF Drop
    <2> QED
      BY <1>g, <2>1, FollowsElsewhere
  <1>11. CASE ReadBelieved(p)
    <2>1. PICK e \in pass[p].noted :
            \/ pass'[p] = [Move(p, "believe") EXCEPT !.doc = e]
            \/ pass'[p] = [pass[p] EXCEPT !.noted = @ \ {e}]
      BY <1>a, <1>11 DEF ReadBelieved
    <2>2. pass[p].at = "reduce" /\ pass'[p].at \in {"reduce", "believe"}
      BY <1>a, <1>11, <2>1 DEF ReadBelieved, Move, PassField
    <2> QED
      BY <2>2, FollowsElsewhere
  <1>12. CASE ReadProvisional(p)
    <2>1. \/ Carry(p, "adopt", store[LiveKey(SegmentOf[Item(p)])])
          \/ pass'[p] = Finish(p)
      BY <1>a, <1>12 DEF ReadProvisional
    <2>2. pass[p].at = "seal" /\ pass'[p].at \in {"adopt", "pick"}
      BY <1>a, <1>g, <1>12, <2>1, CarryShape DEF ReadProvisional
    <2> QED
      BY <2>2, FollowsElsewhere
  <1>13. CASE ScanEnd(p) \/ BatchEnd(p) \/ CheckFirstLook(p)
    <2>1. /\ pass[p].at \in {"scan", "pick", "adopt"}
          /\ \E l \in {"pick", "reduce", "retire", "promote"} :
               \E d : Carry(p, l, d)
      BY <1>13 DEF ScanEnd, BatchEnd, CheckFirstLook, Goto
    <2>2. pass'[p].at \in {"pick", "reduce", "retire", "promote"}
      BY <1>a, <2>1, CarryShape
    <2> QED
      BY <2>1, <2>2, FollowsElsewhere
  <1>14. CASE Identify(p) \/ ReadSightings(p) \/ DownloadFinal(p)
              \/ DownloadEvent(p)
    <2>1. /\ pass[p].at \in {"hash", "sightings", "final", "event"}
          /\ \E l \in {"receipt", "blob", "sightings", "provenance",
                       "firstlook", "inbox"} : \E d : Carry(p, l, d)
      BY <1>14
      DEF Identify, ReadSightings, DownloadFinal, DownloadEvent, Goto
    <2>2. /\ pass'[p].at \notin {"provisional", "mark"}
          /\ pass'[p].item = pass[p].item
      BY <1>a, <2>1, CarryShape
    <2>3. pass[p].item.o \notin Partial
      BY <1>b, <2>1, ObjectAssumption DEF Holds, Label, ItemLabel
    <2> QED
      BY <2>1, <2>2, <2>3 DEF Follows
  <1>15. CASE DownloadPartial(p)
    <2>1. /\ pass[p].at = "partial"
          /\ Carry(p, IF Item(p) \in Rejected THEN "receipt" ELSE "raced",
                   modified[Item(p)])
      BY <1>15 DEF DownloadPartial
    <2>2. /\ pass'[p].item = pass[p].item
          /\ pass'[p].at = IF Item(p) \in Rejected THEN "receipt" ELSE "raced"
      BY <1>a, <2>1, CarryShape
    <2> QED
      BY <2>1, <2>2 DEF Follows
  <1>16. CASE CheckPromoted(p)
    <2>1. /\ pass[p].at = "raced"
          /\ Carry(p, IF Has(PromotedKey(Item(p)))
                      THEN "receipt" ELSE "provisional", pass[p].doc)
      BY <1>16 DEF CheckPromoted, Goto
    <2>2. /\ pass'[p].item = pass[p].item /\ ~pass'[p].landed
          /\ pass'[p].at = IF Has(PromotedKey(Item(p)))
                           THEN "receipt" ELSE "provisional"
      BY <1>a, <2>1, CarryShape
    <2> QED
      BY <2>1, <2>2 DEF Follows
  <1> QED
    BY <1>d, <1>1, <1>2, <1>3, <1>4, <1>5, <1>6, <1>7, <1>8, <1>9, <1>10,
       <1>11, <1>12, <1>13, <1>14, <1>15, <1>16
    DEF Step

LEMMA ShownStep ==
  ASSUME NEW p, Pass = {p}, TypeOK, ShownInv,
         Step(p) \/ Fault(p) \/ Crash(p)
  PROVE  ShownInv'
  <1> SUFFICES ASSUME faults' = 0
               PROVE  /\ Shows(pass[p])'
                      /\ \A s \in Partial \ Rejected, t \in Stamp :
                           Receipted(s, t)' => (Shown(s) \/ Moving(pass[p], s))'
    BY DEF ShownInv
  <1> DEFINE b == pass[p]
             c == pass'[p]
  <1>a. /\ DOMAIN pass[p] = PassField
        /\ b.at = "receipt" => b.item.o \in Object
    BY DEF TypeOK, PassTyped, BatchTyped, InHandTyped, ItemLabel, Label,
           ItemRecord
  <1>b. faults = 0 /\ (Lands(p) \/ (UNCHANGED store /\ Follows(b, c)))
    BY ShownMoves
  <1>c. /\ Shows(b)
        /\ \A s \in Partial \ Rejected, t \in Stamp :
             Receipted(s, t) => Shown(s) \/ Moving(b, s)
    BY <1>b DEF ShownInv
  <1>1. CASE Lands(p)
    <2>1. c.at = b.at /\ c.item = b.item /\ c.landed /\ ~b.landed
      BY <1>a, <1>1 DEF Lands, PassField
    <2>2. \A s : (Shown(s) \/ Moving(b, s)) => (Shown(s) \/ Moving(pass[p], s))'
      <3>1. CASE b.at = "retire"
        <4>1. Delete(LiveKey(SegmentOf[b.item.o]))
          BY <1>1, <3>1 DEF Lands, At, Item
        <4>2. \A s : SegmentOf[b.item.o] # s =>
                /\ Has(LiveKey(s))' = Has(LiveKey(s))
                /\ Has(PromotedKey(s))' = Has(PromotedKey(s))
          BY <4>1 DEF Delete, Has, LiveKey, PromotedKey
        <4> QED
          BY <2>1, <3>1, <4>2 DEF Shown, Moving
      <3>2. CASE b.at # "retire"
        <4>1. \A s : /\ Has(LiveKey(s)) => Has(LiveKey(s))'
                     /\ Has(PromotedKey(s)) => Has(PromotedKey(s))'
          BY <1>1, <3>2 DEF Lands, At, Put, Has
        <4> QED
          BY <2>1, <4>1 DEF Shown, Moving
      <3> QED
        BY <3>1, <3>2
    <2>3. Shows(pass[p])'
      <3>1. b.at = "provisional" => Has(LiveKey(b.item.o))'
        BY <1>1, <2>1 DEF Lands, At, Item, Put, Has
      <3>2. b.at = "mark" => Has(PromotedKey(SegmentOf[b.item.o]))'
        BY <1>1, <2>1 DEF Lands, At, Item, Put, Has
      <3>3. b.at = "receipt" /\ b.item.o \in Partial \ Rejected =>
              Shown(pass[p].item.o)'
        BY <1>c, <2>1, <2>2 DEF Shows, Moving
      <3> QED
        BY <2>1, <3>1, <3>2, <3>3 DEF Shows
    <2>4. ASSUME NEW s \in Partial \ Rejected, NEW t \in Stamp, Receipted(s, t)'
          PROVE  Shown(s) \/ Moving(b, s)
      <3>1. CASE Receipted(s, t)
        BY <1>c, <3>1
      <3>2. CASE ~Receipted(s, t)
        <4>1. WriteReceipt(p) /\ s = b.item.o
          BY <2>4, <3>2, ReceiptSource DEF Item, Object
        <4>2. b.at = "receipt"
          BY <4>1 DEF WriteReceipt, Write, At
        <4> QED
          BY <1>c, <4>1, <4>2 DEF Shows
      <3> QED
        BY <3>1, <3>2
    <2> QED
      BY <2>2, <2>3, <2>4
  <1>2. CASE UNCHANGED store /\ Follows(b, c)
    <2>1. \A s : /\ Shown(s)' = Shown(s) /\ Has(LiveKey(s))' = Has(LiveKey(s))
                 /\ Has(PromotedKey(s))' = Has(PromotedKey(s))
      BY <1>2 DEF Shown, Has
    <2>2. Shows(pass[p])'
      BY <1>2, <1>c, <2>1 DEF Shows, Follows, Shown
    <2>3. ASSUME NEW s \in Partial \ Rejected, NEW t \in Stamp, Receipted(s, t)'
          PROVE  (Shown(s) \/ Moving(pass[p], s))'
      <3>1. Shown(s) \/ Moving(b, s)
        BY <1>2, <1>c, <2>3 DEF Receipted, Has
      <3>2. CASE Shown(s)
        BY <2>1, <3>2
      <3>3. CASE Moving(b, s) /\ b.at = "retire"
        BY <1>2, <3>3 DEF Follows, Moving
      <3>4. CASE Moving(b, s) /\ b.at = "mark"
        BY <1>2, <1>c, <2>1, <3>4 DEF Follows, Moving, Shows, Shown
      <3> QED
        BY <3>1, <3>2, <3>3, <3>4 DEF Moving
    <2> QED
      BY <2>2, <2>3
  <1> QED
    BY <1>b, <1>1, <1>2

LEMMA ShownInvariant ==
  ASSUME NEW p, Pass = {p}
  PROVE  Spec => []ShownInv
  <1>1. Init => ShownInv
    BY DEF Init, LedgerInit, ShownInv, Shows, Receipted, Has, IdlePass
  <1>2. TypeOK /\ ShownInv /\ [Next]_vars => ShownInv'
    <2> SUFFICES ASSUME TypeOK, ShownInv, [Next]_vars PROVE ShownInv'
      OBVIOUS
    <2>1. CASE Step(p) \/ Fault(p) \/ Crash(p)
      BY <2>1, ShownStep
    <2>2. CASE UNCHANGED <<store, index, pass, faults>>
      BY <2>2 DEF ShownInv, Shows, Shown, Moving, Receipted, Has
    <2> QED
      BY <2>1, <2>2, Outside
  <1> QED
    BY <1>1, <1>2, TypeCorrect, PTL DEF Spec

-----------------------------------------------------------------------------
(* The verdicts. *)

\* Between passes the audit reports nothing of a receipted object, as far as
\* no call has failed.
LEMMA NothingReported ==
  ASSUME NEW p, Pass = {p}, TypeOK, ReceiptBacked, ReceiptsNameTheirCapture,
         ShownInv, IndexIsStore, AtRest, faults = 0,
         NEW o \in Object, NEW age \in Age, NEW reachable \in BOOLEAN,
         InWindow(o), Has(AuditReceipt(o))
  PROVE  Verdict(o, age, reachable) \in {"matched", "legacy"}
  <1>1. modified[o] \in Stamp /\ Receipted(o, modified[o])
    BY WindowStamp DEF AuditReceipt, Receipted
  <1>2. Performed(o) /\ store[AuditReceipt(o)] = ReceiptDoc(o)
    BY <1>1 DEF ReceiptBacked, ReceiptsNameTheirCapture, AuditReceipt
  <1>3. index = DOMAIN store
    BY DEF IndexIsStore
  <1>4. CASE o \in Audio
    <2>1. CASE o \in Grandfathered
      BY <1>2, <1>4, <2>1, ObjectAssumption
      DEF Verdict, CheckAudio, ReceiptDoc
    <2>2. CASE o \notin Grandfathered
      <3>1. Has(BlobKey(o)) /\ Has(ProvenanceKey(CaptureOf[o]))
        BY <1>2, <1>4, <2>2 DEF Performed
      <3>2. ReceiptDoc(o) = CaptureOf[o]
        BY <1>4, <2>2, ObjectAssumption DEF ReceiptDoc
      <3>3. {BlobKey(o), ProvenanceKey(store[AuditReceipt(o)])}
              \subseteq DOMAIN store
        BY <1>2, <3>1, <3>2 DEF Has
      <3> QED
        BY <1>3, <1>4, <3>3 DEF Verdict, CheckAudio, Missing
    <2> QED
      BY <2>1, <2>2
  <1>5. CASE o \in Partial
    <2>1. o \notin Rejected => Shown(o)
      BY <1>1, <1>5 DEF ShownInv, Moving, AtRest, At
    <2> QED
      BY <1>5, <2>1, ObjectAssumption DEF Verdict, CheckPartial, Shown
  <1>6. CASE o \in Final
    <2>1. CASE o \in Rejected
      BY <1>2, <1>6, <2>1, ObjectAssumption
      DEF Verdict, CheckFinal, ReceiptDoc
    <2>2. CASE o \notin Rejected
      <3>1. Has(FirstLookKey(CaptureOf[o]))
        BY <1>2, <1>6, <2>2 DEF Performed
      <3>2. ReceiptDoc(o) = CaptureOf[o]
        BY <1>6, <2>2, ObjectAssumption DEF ReceiptDoc
      <3> QED
        BY <1>2, <1>6, <3>1, <3>2, ObjectAssumption
        DEF Verdict, CheckFinal, Missing, Has
    <2> QED
      BY <2>1, <2>2
  <1>7. CASE o \in Event
    BY <1>7, ObjectAssumption DEF Verdict, CheckEvent
  <1> QED
    BY <1>4, <1>5, <1>6, <1>7 DEF Object

\* ShadowAgrees: of a loop whose passes do not overlap and whose calls have
\* not failed the audit reports no receipted object; and whatever has failed,
\* what it passes as matched has been performed.
THEOREM AuditAgrees ==
  ASSUME NEW p, Pass = {p}
  PROVE  Spec => []ShadowAgrees
  <1>1. TypeOK /\ ReceiptBacked /\ ReceiptsNameTheirCapture /\ ShownInv
          /\ IndexIsStore => ShadowAgrees
    <2> SUFFICES ASSUME TypeOK, ReceiptBacked, ReceiptsNameTheirCapture,
                        ShownInv, IndexIsStore, AtRest,
                        NEW o \in Object, NEW age \in Age,
                        NEW reachable \in BOOLEAN,
                        InWindow(o), Has(AuditReceipt(o))
                 PROVE  /\ faults = 0 => Verdict(o, age, reachable)
                                           \in {"matched", "legacy"}
                        /\ Performed(o)
      BY DEF ShadowAgrees
    <2>1. Performed(o)
      BY WindowStamp DEF ReceiptBacked, Receipted, AuditReceipt
    <2>2. faults = 0 => Verdict(o, age, reachable) \in {"matched", "legacy"}
      BY NothingReported
    <2> QED
      BY <2>1, <2>2
  <1>2. /\ Spec => []TypeOK
        /\ Spec => []ReceiptBacked
        /\ Spec => []ReceiptsNameTheirCapture
        /\ Spec => []ShownInv
        /\ Spec => []IndexIsStore
    BY TypeCorrect, ReceiptsAreBacked, ReceiptsNameInvariant, ShownInvariant,
       IndexIsTheStore
  <1> QED
    BY <1>1, <1>2, PTL
=============================================================================
