------------------------- MODULE ServerIngestProofs -------------------------
(***************************************************************************)
(* What the server takes in and answers is kept, and the phone's batch     *)
(* transcript is never replaced by a live one, for every upload, scene,    *)
(* limit and interleaving of both loops, requests, failed calls and        *)
(* crashes.                                                                *)
(*                                                                         *)
(* The invariant says of every item in hand what its step vouches for      *)
(* (Told), so that a receipt, written last, inherits it; and that an item  *)
(* is of a kind its source takes (Suits), so that the step which files a   *)
(* batch transcript and the one which promotes a live one are never in     *)
(* hand at the same time.                                                  *)
(*                                                                         *)
(* And the store the artifacts go to, for every scene of its writers.  The *)
(* invariant holds one scene fast: there nobody writes the bucket beside a *)
(* migration, so its object is still what it last saw; and a key that is   *)
(* deleted from the bucket is in one writer's hands.                       *)
(***************************************************************************)
EXTENDS ServerIngest, ServerStore, FiniteSetTheorems, SequenceTheorems, TLAPS

-----------------------------------------------------------------------------
(* The parts of the invariant, of the values of the variables. *)

\* What a source performs.
TakenBy(source) ==
  CASE source = "local-transcripts" -> {"live", "final"}
    [] source = "device-events"     -> {"fix", "invalid"}
    [] OTHER                        -> {"audio", "adopted"}

Suits(source, o) == o.key \in DOMAIN Upload /\ UploadKindOf(o.key) \in TakenBy(source)

\* The steps of an item, by its kind.
StepsOf(kind) ==
  CASE kind = "audio" -> {"bytes", "provenance", "receipt", "promote?", "promote", "drop", "mark"}
    [] kind = "live"  -> {"promoted?", "live", "receipt"}
    [] kind = "final" -> {"batch", "receipt"}
    [] kind = "fix"   -> {"believe", "inbox", "receipt"}
    [] OTHER          -> {"receipt"}

\* The text of a live partial is somewhere.
LiveTold(segment, look, prov, prom) ==
  \/ segment \in prov \cup prom
  \/ \E x \in DOMAIN Upload : /\ UploadKindOf(x) = "audio" /\ SegmentAt(x) = segment
                             /\ look[Content(x)] # "none"

\* What a receipt for this object stands for (IngestIsReceipted).
Worth(k, B, P, look, prov, prom, box) ==
  CASE UploadKindOf(k) = "audio" -> Content(k) \in B /\ P[Content(k)] # {}
    [] UploadKindOf(k) = "final" -> look[Content(k)] = "batch"
    [] UploadKindOf(k) = "fix"   -> k \in box
    [] UploadKindOf(k) = "live"  -> LiveTold(SegmentAt(k), look, prov, prom)
    [] OTHER -> TRUE

\* What an item in hand vouches for at its step.
Told(i, B, P, look, prov, prom, box) ==
  /\ i = [key |-> i.key, at |-> i.at, step |-> i.step, had |-> i.had]
  /\ i.step \in StepsOf(UploadKindOf(i.key))
  /\ i.step = "provenance" =>
       Content(i.key) \in B /\ (i.had # {} => P[Content(i.key)] # {})
  /\ i.step \in {"receipt", "promote?", "promote", "drop", "mark"} =>
       Worth(i.key, B, P, look, prov, prom, box)
  /\ i.step = "promote" => look[Content(i.key)] # "batch"
  /\ i.step \in {"drop", "mark"} => look[Content(i.key)] # "none"

\* A loop that sleeps has nothing in hand; one at work has what its source takes.
LoopFits(l, state) ==
  /\ state = [turn |-> state.turn, queue |-> state.queue, hands |-> state.hands]
  /\ state.turn \in 0..Len(Sources(l))
  /\ state.turn = 0 => state.queue = {} /\ state.hands = {}
  /\ \A o \in state.queue \cup state.hands : Suits(Sources(l)[state.turn], o)

\* A request whose bytes are stored, and one that is answered.
PostTold(c, post, B, P) ==
  /\ post = [step |-> post.step, had |-> post.had]
  /\ post.step \in {"provenance", "answered"} => c \in B
  /\ post.step = "answered" => P[c] # {}

\* Nothing that is on file is lost.
FiledGrows(B, P, look, prov, prom, box, B1, P1, look1, prov1, prom1, box1) ==
  /\ B \subseteq B1 /\ box \subseteq box1
  /\ \A c \in Contents : P[c] # {} => P1[c] # {}
  /\ \A c \in Contents : look[c] # "none" => look1[c] # "none"
  /\ \A c \in Contents : look[c] = "batch" => look1[c] = "batch"
  /\ \A k \in DOMAIN Upload :
       LiveTold(SegmentAt(k), look, prov, prom) => LiveTold(SegmentAt(k), look1, prov1, prom1)

-----------------------------------------------------------------------------
(* The inductive invariant. *)

IngestTyped ==
  /\ \A o \in shelf : o.key \in DOMAIN Upload
  /\ \A source \in SourceName : \A o \in seen[source] : o.key \in DOMAIN Upload
  /\ seen = [source \in SourceName |-> seen[source]]
  /\ DOMAIN coming \subseteq DOMAIN Upload
  /\ folder \subseteq {k \in DOMAIN Upload : UploadKindOf(k) = "audio"}
  /\ DOMAIN posting \subseteq Contents
  /\ provenance = [c \in Contents |-> provenance[c]]
  /\ firstLook \in [Contents -> {"none", "live", "batch"}]
  /\ loop = [l \in DOMAIN loop |-> loop[l]]
  /\ posting = [c \in DOMAIN posting |-> posting[c]]

LoopsFit == \A l \in DOMAIN loop : LoopFits(l, loop[l])

HandsTold ==
  \A l \in DOMAIN loop : \A i \in loop[l].hands :
    Told(i, blobs, provenance, firstLook, provisional, promoted, inbox)

\* Only the third source of the capture loop promotes.
PromotesLast ==
  \A l \in DOMAIN loop : \A i \in loop[l].hands :
    i.step \in {"promote?", "promote"} => l = "capture" /\ loop[l].turn = 3

ReceiptsHold ==
  \A r \in ingested :
    /\ r.key \in DOMAIN Upload
    /\ Worth(r.key, blobs, provenance, firstLook, provisional, promoted, inbox)

PostsTold == \A c \in DOMAIN posting : PostTold(c, posting[c], blobs, provenance)

\* What has provenance has its bytes.
StoriesHaveBytes == \A c \in Contents : provenance[c] # {} => c \in blobs

\* Nothing that is on file is lost in this step.
Grows == FiledGrows(blobs, provenance, firstLook, provisional, promoted, inbox,
                    blobs', provenance', firstLook', provisional', promoted', inbox')

\* An item in hand is replaced by another, and what that one vouches for.
Moves(l, i, j) == loop' = [loop EXCEPT ![l].hands = (loop[l].hands \ {i}) \cup {j}]
ToldNext(j) == Told(j, blobs', provenance', firstLook', provisional', promoted', inbox')

\* What is on file still is what it may be.
StillTyped ==
  /\ firstLook' \in [Contents -> {"none", "live", "batch"}]
  /\ provenance' = [c \in Contents |-> provenance'[c]]

\* Only the step that files a batch transcript makes one the first look.
NoBatchBut(i) ==
  \A c \in Contents : firstLook'[c] = "batch" => firstLook[c] = "batch" \/ i.step = "batch"

IngestInv ==
  /\ IngestTyped /\ LoopsFit /\ HandsTold /\ PromotesLast
  /\ ReceiptsHold /\ PostsTold /\ StoriesHaveBytes

-----------------------------------------------------------------------------
(* Lemmas about the sources and the parts. *)

\* The sources of a loop by their turn: only the third of the capture loop is
\* the phone's bucket, only its first the transcripts.
LEMMA SourceOfTurn ==
  ASSUME NEW l, NEW turn \in 1..Len(Sources(l))
  PROVE  /\ Sources(l)[turn] \in SourceName
         /\ Sources(l)[turn] = "capture-bucket" => l = "capture" /\ turn = 3
         /\ Sources(l)[turn] = "local-transcripts" => l = "capture" /\ turn = 1
<1>1. CASE l = "capture"
  <2>1. Sources(l) = <<"local-transcripts", "device-events", "capture-bucket">>
    BY <1>1 DEF Sources
  <2>2. Len(Sources(l)) = 3
    BY <2>1
  <2>3. turn = 1 \/ turn = 2 \/ turn = 3
    BY <2>2
  <2> QED
    BY <1>1, <2>1, <2>3 DEF SourceName, Recordings
<1>2. CASE l # "capture"
  <2>1. Sources(l) = <<"audio-drive">>
    BY <1>2 DEF Sources
  <2>2. turn = 1
    BY <2>1
  <2> QED
    BY <2>1, <2>2 DEF SourceName, Recordings
<1> QED
  BY <1>1, <1>2

\* What a receipt stands for stays while nothing on file is lost.
LEMMA WorthGrows ==
  ASSUME Grows, NEW k \in DOMAIN Upload,
         Worth(k, blobs, provenance, firstLook, provisional, promoted, inbox)
  PROVE  Worth(k, blobs', provenance', firstLook', provisional', promoted', inbox')
<1>1. Content(k) \in Contents
  BY DEF Contents
<1> QED
  BY <1>1 DEF Grows, FiledGrows, Worth

\* So does what an item in hand vouches for, if nobody files a batch transcript
\* over what is about to be promoted.
LEMMA ToldGrows ==
  ASSUME Grows, NEW i, i.key \in DOMAIN Upload,
         Told(i, blobs, provenance, firstLook, provisional, promoted, inbox),
         i.step = "promote" =>
           (firstLook'[Content(i.key)] = "batch" => firstLook[Content(i.key)] = "batch")
  PROVE  Told(i, blobs', provenance', firstLook', provisional', promoted', inbox')
<1>1. Content(i.key) \in Contents
  BY DEF Contents
<1>2. Worth(i.key, blobs, provenance, firstLook, provisional, promoted, inbox) =>
        Worth(i.key, blobs', provenance', firstLook', provisional', promoted', inbox')
  BY WorthGrows
<1> QED
  BY <1>1, <1>2 DEF Grows, FiledGrows, Told

\* An item in hand is of a kind its source takes, and its loop is at work.
LEMMA HandSuits ==
  ASSUME IngestInv, NEW l \in DOMAIN loop, NEW i \in loop[l].hands
  PROVE  /\ loop[l].turn \in 1..Len(Sources(l))
         /\ SourceOf(l) \in SourceName
         /\ i.key \in DOMAIN Upload /\ Content(i.key) \in Contents
         /\ UploadKindOf(i.key) \in TakenBy(SourceOf(l))
         /\ i.step = "batch" => l = "capture" /\ loop[l].turn = 1
<1>1. LoopFits(l, loop[l])
  BY DEF IngestInv, LoopsFit
<1>2. Len(Sources(l)) \in Nat
  BY DEF Sources
<1>3. loop[l].turn \in 1..Len(Sources(l))
  BY <1>1, <1>2 DEF LoopFits
<1>4. i.key \in DOMAIN Upload /\ UploadKindOf(i.key) \in TakenBy(SourceOf(l))
  BY <1>1 DEF LoopFits, Suits, SourceOf
<1>5. ASSUME i.step = "batch" PROVE SourceOf(l) = "local-transcripts"
  <2>1. UploadKindOf(i.key) = "final"
    BY <1>5 DEF IngestInv, HandsTold, Told, StepsOf
  <2> QED
    BY <1>4, <2>1 DEF TakenBy
<1> QED
  BY <1>3, <1>4, <1>5, SourceOfTurn DEF SourceOf, Contents

\* An item in hand goes on: it is replaced by what its next step vouches for,
\* or is done, and nothing on file is lost.
LEMMA ItemAdvances ==
  ASSUME IngestInv, NEW l \in DOMAIN loop, NEW i \in loop[l].hands, NEW H,
         loop' = [loop EXCEPT ![l].hands = H],
         \A j \in H : \/ j \in loop[l].hands
                     \/ /\ j.key = i.key
                        /\ Told(j, blobs', provenance', firstLook', provisional', promoted', inbox')
                        /\ j.step \in {"promote?", "promote"} =>
                             l = "capture" /\ loop[l].turn = 3,
         Grows,
         firstLook' \in [Contents -> {"none", "live", "batch"}],
         provenance' = [c \in Contents |-> provenance'[c]],
         \A c \in Contents : firstLook'[c] = "batch" => firstLook[c] = "batch" \/ i.step = "batch",
         \A r \in ingested' : \/ r \in ingested
                              \/ /\ r.key = i.key
                                 /\ Worth(i.key, blobs', provenance', firstLook', provisional',
                                          promoted', inbox'),
         StoriesHaveBytes',
         UNCHANGED <<shelf, coming, folder, seen, posting>>
  PROVE  IngestInv'
<1>1. DOMAIN loop' = DOMAIN loop /\ IngestTyped'
  BY DEF IngestInv, IngestTyped
<1>2. \A m \in DOMAIN loop : m # l => loop'[m] = loop[m]
  BY DEF IngestInv, IngestTyped
<1>3. loop'[l] = [loop[l] EXCEPT !.hands = H]
  BY DEF IngestInv, IngestTyped
<1>4. loop'[l] = [turn |-> loop[l].turn, queue |-> loop[l].queue, hands |-> H]
  BY <1>3 DEF IngestInv, LoopsFit, LoopFits
<1>5. LoopsFit'
  <2> SUFFICES ASSUME NEW m \in DOMAIN loop PROVE LoopFits(m, loop'[m])
    BY <1>1 DEF LoopsFit
  <2>1. CASE m # l
    BY <1>2, <2>1 DEF IngestInv, LoopsFit
  <2>2. CASE m = l
    <3>1. LoopFits(l, loop[l]) /\ loop[l].turn # 0
      BY HandSuits DEF IngestInv, LoopsFit
    <3>2. \A j \in H : Suits(Sources(l)[loop[l].turn], j)
      BY <3>1 DEF LoopFits, Suits
    <3> QED
      BY <1>4, <2>2, <3>1, <3>2 DEF LoopFits
  <2> QED
    BY <2>1, <2>2
<1>6. ASSUME NEW m \in DOMAIN loop, NEW j \in loop[m].hands
      PROVE  Told(j, blobs', provenance', firstLook', provisional', promoted', inbox')
  <2>1. Told(j, blobs, provenance, firstLook, provisional, promoted, inbox)
    BY <1>6 DEF IngestInv, HandsTold
  <2>2. j.key \in DOMAIN Upload /\ Content(j.key) \in Contents
    BY <1>6, HandSuits
  <2>3. ~(j.step = "promote" /\ i.step = "batch")
    BY <1>6, HandSuits DEF IngestInv, PromotesLast
  <2> QED
    BY <2>1, <2>2, <2>3, ToldGrows
<1>7. HandsTold'
  <2> SUFFICES ASSUME NEW m \in DOMAIN loop, NEW j \in loop'[m].hands
               PROVE  Told(j, blobs', provenance', firstLook', provisional', promoted', inbox')
    BY <1>1 DEF HandsTold
  <2>1. CASE m # l
    BY <1>2, <1>6, <2>1
  <2>2. CASE m = l
    <3>1. j \in H
      BY <1>4, <2>2
    <3>2. CASE j \in loop[l].hands
      BY <1>6, <3>2
    <3> QED
      BY <3>1, <3>2
  <2> QED
    BY <2>1, <2>2
<1>8. PromotesLast'
  <2> SUFFICES ASSUME NEW m \in DOMAIN loop, NEW j \in loop'[m].hands,
                      j.step \in {"promote?", "promote"}
               PROVE  m = "capture" /\ loop'[m].turn = 3
    BY <1>1 DEF PromotesLast
  <2>1. loop'[m].turn = loop[m].turn
    BY <1>2, <1>4
  <2>2. j \in loop[m].hands \/ (m = l /\ j \in H)
    BY <1>2, <1>4
  <2>3. CASE j \in loop[m].hands
    BY <2>1, <2>3 DEF PromotesLast, IngestInv
  <2>4. CASE m = l /\ j \in H
    <3>1. l = "capture" /\ loop[l].turn = 3
      BY <2>4 DEF PromotesLast, IngestInv
    <3> QED
      BY <2>1, <2>4, <3>1
  <2> QED
    BY <2>2, <2>3, <2>4
<1>9. ReceiptsHold'
  <2>1. i.key \in DOMAIN Upload
    BY HandSuits
  <2>2. \A r \in ingested : /\ r.key \in DOMAIN Upload
                           /\ Worth(r.key, blobs', provenance', firstLook', provisional',
                                    promoted', inbox')
    BY WorthGrows DEF IngestInv, ReceiptsHold
  <2> QED
    BY <2>1, <2>2 DEF ReceiptsHold
<1>10. PostsTold'
  <2> SUFFICES ASSUME NEW c \in DOMAIN posting PROVE PostTold(c, posting[c], blobs', provenance')
    BY DEF PostsTold
  <2>1. PostTold(c, posting[c], blobs, provenance) /\ c \in Contents
    BY DEF IngestInv, IngestTyped, PostsTold
  <2> QED
    BY <2>1 DEF PostTold, Grows, FiledGrows
<1> QED
  BY <1>1, <1>5, <1>7, <1>8, <1>9, <1>10 DEF IngestInv

\* A step that files nothing loses nothing.
LEMMA FiledStays ==
  ASSUME UNCHANGED filed
  PROVE  Grows
BY DEF filed, Grows, FiledGrows

\* Go and Finish as one assignment of the items in hand.
LEMMA GoAndFinish ==
  ASSUME NEW l, NEW i, NEW step
  PROVE  /\ Go(l, i, step) <=> loop' = [loop EXCEPT ![l].hands =
                (loop[l].hands \ {i}) \cup {[i EXCEPT !.step = step]}]
         /\ Finish(l, i) <=> loop' = [loop EXCEPT ![l].hands = loop[l].hands \ {i}]
BY DEF Go, Finish

\* The next step of an item, field by field.
LEMMA NextOfItem ==
  ASSUME IngestInv, NEW l \in DOMAIN loop, NEW i \in loop[l].hands, NEW step
  PROVE  [i EXCEPT !.step = step] =
           [key |-> i.key, at |-> i.at, step |-> step, had |-> i.had]
BY DEF IngestInv, HandsTold, Told

\* An item that finishes, with nothing filed by it but its receipt.
LEMMA ItemFinishes ==
  ASSUME IngestInv, NEW l \in DOMAIN loop, NEW i \in loop[l].hands,
         Finish(l, i), UNCHANGED <<filed, shelf, coming, folder, seen, posting>>,
         \/ UNCHANGED ingested
         \/ i.step = "receipt" /\ ingested' = ingested \cup {Receipt(SourceOf(l), i)}
  PROVE  IngestInv'
<1> DEFINE H == loop[l].hands \ {i}
<1>1. Grows
  BY FiledStays
<1>2. loop' = [loop EXCEPT ![l].hands = H]
  BY GoAndFinish
<1>3. StoriesHaveBytes' /\ firstLook' = firstLook /\ provenance' = provenance
  BY DEF filed, StoriesHaveBytes, IngestInv
<1>4. firstLook' \in [Contents -> {"none", "live", "batch"}]
      /\ provenance' = [c \in Contents |-> provenance'[c]]
  BY <1>3 DEF IngestInv, IngestTyped
<1>5. i.step = "receipt" =>
        Worth(i.key, blobs', provenance', firstLook', provisional', promoted', inbox')
  BY DEF filed, IngestInv, HandsTold, Told
<1>6. \A r \in ingested' : \/ r \in ingested
                           \/ /\ r.key = i.key
                              /\ Worth(i.key, blobs', provenance', firstLook', provisional',
                                       promoted', inbox')
  BY <1>5 DEF Receipt
<1>7. \A j \in H : j \in loop[l].hands
  OBVIOUS
<1>8. UNCHANGED <<shelf, coming, folder, seen, posting>>
  OBVIOUS
<1>9. \A c \in Contents : firstLook'[c] = "batch" => firstLook[c] = "batch" \/ i.step = "batch"
  BY <1>3
<1> HIDE DEF H
<1> QED
  BY <1>1, <1>2, <1>3, <1>4, <1>6, <1>7, <1>8, <1>9, ItemAdvances

\* An item that goes on, with nothing filed by it but its receipt.
LEMMA ItemGoesOn ==
  ASSUME IngestInv, NEW l \in DOMAIN loop, NEW i \in loop[l].hands, NEW step,
         Go(l, i, step), UNCHANGED <<filed, shelf, coming, folder, seen, posting>>,
         \/ UNCHANGED ingested
         \/ i.step = "receipt" /\ ingested' = ingested \cup {Receipt(SourceOf(l), i)},
         Told([key |-> i.key, at |-> i.at, step |-> step, had |-> i.had],
              blobs, provenance, firstLook, provisional, promoted, inbox),
         step \in {"promote?", "promote"} => l = "capture" /\ loop[l].turn = 3
  PROVE  IngestInv'
<1> DEFINE j == [key |-> i.key, at |-> i.at, step |-> step, had |-> i.had]
           H == (loop[l].hands \ {i}) \cup {j}
<1>1. Grows
  BY FiledStays
<1>2. loop' = [loop EXCEPT ![l].hands = H]
  <2>1. [i EXCEPT !.step = step] = j
    BY NextOfItem
  <2> QED
    BY <2>1, GoAndFinish
<1>3. StoriesHaveBytes' /\ firstLook' = firstLook /\ provenance' = provenance
  BY DEF filed, StoriesHaveBytes, IngestInv
<1>4. firstLook' \in [Contents -> {"none", "live", "batch"}]
      /\ provenance' = [c \in Contents |-> provenance'[c]]
  BY <1>3 DEF IngestInv, IngestTyped
<1>5. i.step = "receipt" =>
        Worth(i.key, blobs', provenance', firstLook', provisional', promoted', inbox')
  BY DEF filed, IngestInv, HandsTold, Told
<1>6. \A r \in ingested' : \/ r \in ingested
                           \/ /\ r.key = i.key
                              /\ Worth(i.key, blobs', provenance', firstLook', provisional',
                                       promoted', inbox')
  BY <1>5 DEF Receipt
<1>7. Told(j, blobs', provenance', firstLook', provisional', promoted', inbox')
  BY DEF filed
<1>8. j.key = i.key /\ j.step = step
  OBVIOUS
<1>9. \A h \in H : \/ h \in loop[l].hands
                  \/ /\ h.key = i.key
                     /\ Told(h, blobs', provenance', firstLook', provisional', promoted', inbox')
                     /\ h.step \in {"promote?", "promote"} =>
                          l = "capture" /\ loop[l].turn = 3
  BY <1>7, <1>8
<1> HIDE DEF H, j
<1> QED
  BY <1>1, <1>2, <1>3, <1>4, <1>6, <1>9, ItemAdvances

-----------------------------------------------------------------------------
(* The steps of an item. *)

\* The steps that only look, or write the receipt.
LEMMA LookingKeeps ==
  ASSUME IngestInv, NEW l \in DOMAIN loop, NEW i \in loop[l].hands,
         WriteReceiptOf(l, i) \/ LookForProvisional(l, i) \/ LookForMark(l, i),
         UNCHANGED <<shelf, coming, folder, seen, posting>>
  PROVE  IngestInv'
<1>1. Told(i, blobs, provenance, firstLook, provisional, promoted, inbox)
  BY DEF IngestInv, HandsTold
<1>2. i.key \in DOMAIN Upload /\ Content(i.key) \in Contents
  BY HandSuits
<1> DEFINE J(step) == [key |-> i.key, at |-> i.at, step |-> step, had |-> i.had]
<1>3. CASE WriteReceiptOf(l, i)
  <2>1. i.step = "receipt" /\ ingested' = ingested \cup {Receipt(SourceOf(l), i)} /\ UNCHANGED filed
    BY <1>3 DEF WriteReceiptOf
  <2>2. CASE SourceOf(l) = "capture-bucket" /\ UploadKindOf(i.key) = "audio"
    <3>1. Go(l, i, "promote?")
      BY <1>3, <2>2 DEF WriteReceiptOf
    <3>2. l = "capture" /\ loop[l].turn = 3
      BY <2>2, HandSuits, SourceOfTurn DEF SourceOf
    <3>3. Told(J("promote?"), blobs, provenance, firstLook, provisional, promoted, inbox)
      BY <1>1, <2>1, <2>2 DEF Told, StepsOf
    <3> QED
      BY <2>1, <3>1, <3>2, <3>3, ItemGoesOn
  <2>3. CASE ~(SourceOf(l) = "capture-bucket" /\ UploadKindOf(i.key) = "audio")
    <3>1. Finish(l, i)
      BY <1>3, <2>3 DEF WriteReceiptOf
    <3> QED
      BY <2>1, <3>1, ItemFinishes
  <2> QED
    BY <2>2, <2>3
<1>4. CASE LookForProvisional(l, i)
  <2>1. i.step = "promote?" /\ UNCHANGED <<ingested, filed>>
    BY <1>4 DEF LookForProvisional
  <2>2. UploadKindOf(i.key) = "audio"
    BY <1>1, <2>1 DEF Told, StepsOf
  <2>3. l = "capture" /\ loop[l].turn = 3
    BY <2>1 DEF IngestInv, PromotesLast
  <2>4. \/ Finish(l, i)
        \/ firstLook[Content(i.key)] = "none" /\ Go(l, i, "promote")
        \/ firstLook[Content(i.key)] # "none" /\ Go(l, i, "drop")
    BY <1>4 DEF LookForProvisional
  <2>5. CASE Finish(l, i)
    BY <2>1, <2>5, ItemFinishes
  <2>6. CASE firstLook[Content(i.key)] = "none" /\ Go(l, i, "promote")
    <3>1. Told(J("promote"), blobs, provenance, firstLook, provisional, promoted, inbox)
      BY <1>1, <2>1, <2>2, <2>6 DEF Told, StepsOf
    <3> QED
      BY <2>1, <2>3, <2>6, <3>1, ItemGoesOn
  <2>7. CASE firstLook[Content(i.key)] # "none" /\ Go(l, i, "drop")
    <3>1. Told(J("drop"), blobs, provenance, firstLook, provisional, promoted, inbox)
      BY <1>1, <2>1, <2>2, <2>7 DEF Told, StepsOf
    <3> QED
      BY <2>1, <2>7, <3>1, ItemGoesOn
  <2> QED
    BY <2>4, <2>5, <2>6, <2>7
<1>5. CASE LookForMark(l, i)
  <2>1. i.step = "promoted?" /\ UNCHANGED <<ingested, filed>>
    BY <1>5 DEF LookForMark
  <2>2. UploadKindOf(i.key) = "live"
    BY <1>1, <2>1 DEF Told, StepsOf
  <2>3. CASE SegmentAt(i.key) \in promoted
    <3>1. Go(l, i, "receipt")
      BY <1>5, <2>3 DEF LookForMark
    <3>2. Worth(i.key, blobs, provenance, firstLook, provisional, promoted, inbox)
      BY <2>2, <2>3 DEF Worth, LiveTold
    <3>3. Told(J("receipt"), blobs, provenance, firstLook, provisional, promoted, inbox)
      BY <1>1, <2>1, <2>2, <3>2 DEF Told, StepsOf
    <3> QED
      BY <2>1, <3>1, <3>3, ItemGoesOn
  <2>4. CASE SegmentAt(i.key) \notin promoted
    <3>1. Go(l, i, "live")
      BY <1>5, <2>4 DEF LookForMark
    <3>2. Told(J("live"), blobs, provenance, firstLook, provisional, promoted, inbox)
      BY <1>1, <2>1, <2>2 DEF Told, StepsOf
    <3> QED
      BY <2>1, <3>1, <3>2, ItemGoesOn
  <2> QED
    BY <2>3, <2>4
<1> QED
  BY <1>3, <1>4, <1>5

\* The item at another step.
AtStep(i, step, had) == [key |-> i.key, at |-> i.at, step |-> step, had |-> had]

\* A step that files something, and no receipt: the rest follows from what the
\* item vouches for afterwards.
LEMMA FilingKeeps ==
  ASSUME IngestInv, NEW l \in DOMAIN loop, NEW i \in loop[l].hands, NEW step, NEW had,
         Moves(l, i, AtStep(i, step, had)), ToldNext(AtStep(i, step, had)),
         step \notin {"promote?", "promote"},
         Grows, StillTyped, NoBatchBut(i), StoriesHaveBytes', UNCHANGED ingested,
         UNCHANGED <<shelf, coming, folder, seen, posting>>
  PROVE  IngestInv'
<1> DEFINE j == AtStep(i, step, had)
           H == (loop[l].hands \ {i}) \cup {j}
<1>1. loop' = [loop EXCEPT ![l].hands = H]
  BY DEF Moves
<1>2. Told(j, blobs', provenance', firstLook', provisional', promoted', inbox')
  BY DEF ToldNext
<1>3. j.key = i.key /\ j.step = step
  BY DEF AtStep
<1>4. \A h \in H : \/ h \in loop[l].hands
                  \/ /\ h.key = i.key
                     /\ Told(h, blobs', provenance', firstLook', provisional', promoted', inbox')
                     /\ h.step \in {"promote?", "promote"} =>
                          l = "capture" /\ loop[l].turn = 3
  BY <1>2, <1>3
<1>5. \A r \in ingested' : \/ r \in ingested
                           \/ /\ r.key = i.key
                              /\ Worth(i.key, blobs', provenance', firstLook', provisional',
                                       promoted', inbox')
  OBVIOUS
<1>6. /\ firstLook' \in [Contents -> {"none", "live", "batch"}]
      /\ provenance' = [c \in Contents |-> provenance'[c]]
      /\ \A c \in Contents : firstLook'[c] = "batch" => firstLook[c] = "batch" \/ i.step = "batch"
  BY DEF StillTyped, NoBatchBut
<1> HIDE DEF H, j
<1> QED
  BY <1>1, <1>4, <1>5, <1>6, ItemAdvances

\* A step that goes on, in the form of FilingKeeps.
LEMMA GoesTo ==
  ASSUME IngestInv, NEW l \in DOMAIN loop, NEW i \in loop[l].hands, NEW step, Go(l, i, step)
  PROVE  Moves(l, i, AtStep(i, step, i.had))
<1>1. [i EXCEPT !.step = step] = AtStep(i, step, i.had)
  BY NextOfItem DEF AtStep
<1> QED
  BY <1>1, GoAndFinish DEF Moves

\* The steps that store a recording and its sighting.
LEMMA StoringKeeps ==
  ASSUME IngestInv, NEW l \in DOMAIN loop, NEW i \in loop[l].hands,
         StoreBytes(l, i) \/ WriteProvenance(l, i),
         UNCHANGED <<shelf, coming, folder, seen, posting>>
  PROVE  IngestInv'
<1>1. Told(i, blobs, provenance, firstLook, provisional, promoted, inbox)
  BY DEF IngestInv, HandsTold
<1>2. i.key \in DOMAIN Upload /\ Content(i.key) \in Contents
  BY HandSuits
<1>3. firstLook \in [Contents -> {"none", "live", "batch"}] /\ StoriesHaveBytes
      /\ provenance = [c \in Contents |-> provenance[c]]
  BY DEF IngestInv, IngestTyped
<1>4. CASE StoreBytes(l, i)
  <2> DEFINE had == provenance[Content(i.key)]
  <2>1. i.step = "bytes" /\ blobs' = blobs \cup {Content(i.key)}
        /\ UNCHANGED <<ingested, provenance, firstLook, provisional, promoted, inbox>>
    BY <1>4 DEF StoreBytes
  <2>2. [i EXCEPT !.step = "provenance", !.had = had] = AtStep(i, "provenance", had)
    <3>1. i = [key |-> i.key, at |-> i.at, step |-> i.step, had |-> i.had]
      BY <1>1 DEF Told
    <3> HIDE DEF had
    <3>2. [i EXCEPT !.step = "provenance", !.had = had] =
            [[i EXCEPT !.step = "provenance"] EXCEPT !.had = had]
      BY <3>1
    <3>3. [i EXCEPT !.step = "provenance"] = AtStep(i, "provenance", i.had)
      BY NextOfItem DEF AtStep
    <3>4. [AtStep(i, "provenance", i.had) EXCEPT !.had = had] = AtStep(i, "provenance", had)
      BY DEF AtStep
    <3> QED
      BY <3>2, <3>3, <3>4
  <2>3. Moves(l, i, AtStep(i, "provenance", had))
    BY <1>4, <2>2 DEF StoreBytes, Moves
  <2>4. UploadKindOf(i.key) = "audio"
    BY <1>1, <2>1 DEF Told, StepsOf
  <2>5. ToldNext(AtStep(i, "provenance", had))
    BY <2>1, <2>4 DEF ToldNext, Told, StepsOf, AtStep
  <2>6. Grows
    BY <2>1 DEF Grows, FiledGrows
  <2>7. StoriesHaveBytes'
    BY <1>3, <2>1 DEF StoriesHaveBytes
  <2>8. StillTyped /\ NoBatchBut(i) /\ UNCHANGED ingested
    BY <1>3, <2>1, <2>3, <2>5, <2>6, <2>7 DEF StillTyped, NoBatchBut
  <2> HIDE DEF had
  <2> QED
    BY <1>3, <2>1, <2>3, <2>5, <2>6, <2>7, <2>8, FilingKeeps
<1>5. CASE WriteProvenance(l, i)
  <2> DEFINE c == Content(i.key)
             more == i.had \cup {<<SourceOf(l), i.key>>}
  <2>1. i.step = "provenance" /\ Go(l, i, "receipt")
        /\ UNCHANGED <<ingested, blobs, firstLook, provisional, promoted, inbox>>
    BY <1>5 DEF WriteProvenance
  <2>2. UploadKindOf(i.key) = "audio" /\ c \in blobs /\ (i.had # {} => provenance[c] # {})
    BY <1>1, <2>1 DEF Told, StepsOf
  <2>3. provenance' = provenance \/ provenance' = [provenance EXCEPT ![c] = more]
    BY <1>5 DEF WriteProvenance
  <2>4. provenance'[c] # {}
    <3>1. CASE <<SourceOf(l), i.key>> \in i.had
      BY <1>5, <2>2, <3>1 DEF WriteProvenance
    <3>2. CASE <<SourceOf(l), i.key>> \notin i.had
      <4>1. provenance' = [provenance EXCEPT ![c] = more]
        BY <1>5, <3>2 DEF WriteProvenance
      <4>2. provenance'[c] = more
        BY <1>2, <1>3, <4>1
      <4> QED
        BY <4>2
    <3> QED
      BY <3>1, <3>2
  <2>5. /\ provenance' = [d \in Contents |-> provenance'[d]]
        /\ \A d \in Contents : d # c => provenance'[d] = provenance[d]
    BY <1>3, <2>3
  <2>6. Grows
    BY <2>1, <2>4, <2>5 DEF Grows, FiledGrows
  <2>7. ToldNext(AtStep(i, "receipt", i.had))
    BY <1>1, <2>1, <2>2, <2>4 DEF ToldNext, Told, StepsOf, AtStep, Worth
  <2>8. StoriesHaveBytes'
    BY <1>3, <2>1, <2>2, <2>5 DEF StoriesHaveBytes
  <2>9. Moves(l, i, AtStep(i, "receipt", i.had))
    BY <2>1, GoesTo
  <2>10. StillTyped /\ NoBatchBut(i) /\ UNCHANGED ingested
    BY <1>3, <2>1, <2>5, <2>6, <2>7, <2>8, <2>9 DEF StillTyped, NoBatchBut
  <2> HIDE DEF c, more
  <2> QED
    BY <1>3, <2>1, <2>5, <2>6, <2>7, <2>8, <2>9, <2>10, FilingKeeps
<1> QED
  BY <1>4, <1>5

\* The steps that promote a provisional live transcript.
LEMMA PromotingKeeps ==
  ASSUME IngestInv, NEW l \in DOMAIN loop, NEW i \in loop[l].hands,
         Promote(l, i) \/ DropProvisional(l, i) \/ MarkPromoted(l, i),
         UNCHANGED <<shelf, coming, folder, seen, posting>>
  PROVE  IngestInv'
<1>1. Told(i, blobs, provenance, firstLook, provisional, promoted, inbox)
  BY DEF IngestInv, HandsTold
<1>2. i.key \in DOMAIN Upload /\ Content(i.key) \in Contents
  BY HandSuits
<1>3. firstLook \in [Contents -> {"none", "live", "batch"}] /\ StoriesHaveBytes
      /\ provenance = [c \in Contents |-> provenance[c]]
  BY DEF IngestInv, IngestTyped
<1>4. i.step \in {"promote", "drop", "mark"}
  BY DEF Promote, DropProvisional, MarkPromoted
<1>5. UploadKindOf(i.key) = "audio" /\ Content(i.key) \in blobs /\ provenance[Content(i.key)] # {}
  BY <1>1, <1>4 DEF Told, StepsOf, Worth
<1>6. UNCHANGED <<ingested, blobs, provenance, inbox>>
  BY DEF Promote, DropProvisional, MarkPromoted
<1>7. StoriesHaveBytes' /\ provenance' = [c \in Contents |-> provenance'[c]]
  BY <1>3, <1>6 DEF StoriesHaveBytes
<1>8. CASE Promote(l, i)
  <2>1. firstLook' = [firstLook EXCEPT ![Content(i.key)] = "live"] /\ Go(l, i, "drop")
        /\ UNCHANGED <<provisional, promoted>> /\ i.step = "promote"
    BY <1>8 DEF Promote
  <2>2. firstLook[Content(i.key)] # "batch"
    BY <1>1, <2>1 DEF Told
  <2>3. /\ firstLook' \in [Contents -> {"none", "live", "batch"}]
        /\ firstLook'[Content(i.key)] = "live"
        /\ \A c \in Contents : c # Content(i.key) => firstLook'[c] = firstLook[c]
    BY <1>2, <1>3, <2>1
  <2>4. \A c \in Contents : /\ firstLook[c] # "none" => firstLook'[c] # "none"
                            /\ firstLook[c] = "batch" <=> firstLook'[c] = "batch"
    BY <2>2, <2>3
  <2>5. Grows
    <3>1. \A x \in DOMAIN Upload : Content(x) \in Contents
      BY DEF Contents
    <3> QED
      BY <1>6, <2>1, <2>4, <3>1 DEF Grows, FiledGrows, LiveTold
  <2>6. ToldNext(AtStep(i, "drop", i.had))
    BY <1>5, <1>6, <2>3 DEF ToldNext, Told, StepsOf, AtStep, Worth
  <2>7. Moves(l, i, AtStep(i, "drop", i.had))
    BY <2>1, GoesTo
  <2>8. StillTyped /\ NoBatchBut(i) /\ UNCHANGED ingested
    BY <1>6, <1>7, <2>3, <2>4, <2>5, <2>6, <2>7 DEF StillTyped, NoBatchBut
  <2> QED
    BY <1>6, <1>7, <2>3, <2>4, <2>5, <2>6, <2>7, <2>8, FilingKeeps
<1>9. CASE DropProvisional(l, i)
  <2>1. provisional' = provisional \ {SegmentAt(i.key)} /\ Go(l, i, "mark")
        /\ UNCHANGED <<firstLook, promoted>> /\ i.step = "drop"
    BY <1>9 DEF DropProvisional
  <2>2. firstLook[Content(i.key)] # "none"
    BY <1>1, <2>1 DEF Told
  <2>3. Grows
    BY <1>2, <1>5, <1>6, <2>1, <2>2 DEF Grows, FiledGrows, LiveTold
  <2>4. ToldNext(AtStep(i, "mark", i.had))
    BY <1>5, <1>6, <2>1, <2>2 DEF ToldNext, Told, StepsOf, AtStep, Worth
  <2>5. Moves(l, i, AtStep(i, "mark", i.had))
    BY <2>1, GoesTo
  <2>6. StillTyped /\ NoBatchBut(i) /\ UNCHANGED ingested
    BY <1>3, <1>6, <1>7, <2>1, <2>3, <2>4, <2>5 DEF StillTyped, NoBatchBut
  <2> QED
    BY <1>3, <1>6, <1>7, <2>1, <2>3, <2>4, <2>5, <2>6, FilingKeeps
<1>10. CASE MarkPromoted(l, i)
  <2> DEFINE H == loop[l].hands \ {i}
  <2>1. promoted' = promoted \cup {SegmentAt(i.key)} /\ Finish(l, i)
        /\ UNCHANGED <<firstLook, provisional>>
    BY <1>10 DEF MarkPromoted
  <2>2. Grows
    BY <1>6, <2>1 DEF Grows, FiledGrows, LiveTold
  <2>3. loop' = [loop EXCEPT ![l].hands = H]
    BY <2>1, GoAndFinish
  <2>4. \A j \in H : j \in loop[l].hands
    OBVIOUS
  <2>5. UNCHANGED <<shelf, coming, folder, seen, posting>> /\ \A r \in ingested' : r \in ingested
    BY <1>6
  <2> HIDE DEF H
  <2> QED
    BY <1>3, <1>6, <1>7, <2>1, <2>2, <2>3, <2>4, <2>5, ItemAdvances
<1> QED
  BY <1>8, <1>9, <1>10

\* The steps that file a partial, a batch transcript or a fix.
LEMMA FilingTextsKeeps ==
  ASSUME IngestInv, NEW l \in DOMAIN loop, NEW i \in loop[l].hands,
         FileProvisional(l, i) \/ FileBatch(l, i) \/ Believe(l, i) \/ FillInbox(l, i),
         UNCHANGED <<shelf, coming, folder, seen, posting>>
  PROVE  IngestInv'
<1>1. Told(i, blobs, provenance, firstLook, provisional, promoted, inbox)
  BY DEF IngestInv, HandsTold
<1>2. i.key \in DOMAIN Upload /\ Content(i.key) \in Contents
  BY HandSuits
<1>3. firstLook \in [Contents -> {"none", "live", "batch"}] /\ StoriesHaveBytes
      /\ provenance = [c \in Contents |-> provenance[c]]
  BY DEF IngestInv, IngestTyped
<1>4. UNCHANGED <<ingested, blobs, provenance, promoted>>
  BY DEF FileProvisional, FileBatch, Believe, FillInbox
<1>5. StoriesHaveBytes' /\ provenance' = [c \in Contents |-> provenance'[c]]
  BY <1>3, <1>4 DEF StoriesHaveBytes
<1>6. CASE FileProvisional(l, i)
  <2>1. i.step = "live" /\ provisional' = provisional \cup {SegmentAt(i.key)}
        /\ Go(l, i, "receipt") /\ UNCHANGED <<firstLook, inbox>>
    BY <1>6 DEF FileProvisional
  <2>2. UploadKindOf(i.key) = "live"
    BY <1>1, <2>1 DEF Told, StepsOf
  <2>3. Grows
    BY <1>4, <2>1 DEF Grows, FiledGrows, LiveTold
  <2>4. ToldNext(AtStep(i, "receipt", i.had))
    BY <2>1, <2>2 DEF ToldNext, Told, StepsOf, AtStep, Worth, LiveTold
  <2>5. Moves(l, i, AtStep(i, "receipt", i.had))
    BY <2>1, GoesTo
  <2>6. StillTyped /\ NoBatchBut(i) /\ UNCHANGED ingested
    BY <1>3, <1>4, <1>5, <2>1, <2>3, <2>4, <2>5 DEF StillTyped, NoBatchBut
  <2> QED
    BY <1>3, <1>4, <1>5, <2>1, <2>3, <2>4, <2>5, <2>6, FilingKeeps
<1>7. CASE FileBatch(l, i)
  <2>1. i.step = "batch" /\ firstLook' = [firstLook EXCEPT ![Content(i.key)] = "batch"]
        /\ Go(l, i, "receipt") /\ UNCHANGED <<provisional, inbox>>
    BY <1>7 DEF FileBatch
  <2>2. UploadKindOf(i.key) = "final"
    BY <1>1, <2>1 DEF Told, StepsOf
  <2>3. /\ firstLook' \in [Contents -> {"none", "live", "batch"}]
        /\ firstLook'[Content(i.key)] = "batch"
        /\ \A c \in Contents : c # Content(i.key) => firstLook'[c] = firstLook[c]
    BY <1>2, <1>3, <2>1
  <2>4. Grows
    <3>1. \A x \in DOMAIN Upload : Content(x) \in Contents
      BY DEF Contents
    <3>2. \A c \in Contents : /\ firstLook[c] # "none" => firstLook'[c] # "none"
                              /\ firstLook[c] = "batch" => firstLook'[c] = "batch"
      BY <2>3
    <3> QED
      BY <1>4, <2>1, <3>1, <3>2 DEF Grows, FiledGrows, LiveTold
  <2>5. ToldNext(AtStep(i, "receipt", i.had))
    BY <2>2, <2>3 DEF ToldNext, Told, StepsOf, AtStep, Worth
  <2>6. Moves(l, i, AtStep(i, "receipt", i.had))
    BY <2>1, GoesTo
  <2>7. StillTyped /\ NoBatchBut(i) /\ UNCHANGED ingested
    BY <1>4, <1>5, <2>1, <2>3, <2>4, <2>5, <2>6 DEF StillTyped, NoBatchBut
  <2> QED
    BY <1>4, <1>5, <2>1, <2>3, <2>4, <2>5, <2>6, <2>7, FilingKeeps
<1>8. CASE Believe(l, i)
  <2>1. i.step = "believe" /\ Go(l, i, "inbox") /\ UNCHANGED <<firstLook, provisional, inbox>>
    BY <1>8 DEF Believe
  <2>2. UploadKindOf(i.key) = "fix"
    BY <1>1, <2>1 DEF Told, StepsOf
  <2>3. Grows
    BY <1>4, <2>1 DEF Grows, FiledGrows
  <2>4. ToldNext(AtStep(i, "inbox", i.had))
    BY <2>2 DEF ToldNext, Told, StepsOf, AtStep
  <2>5. Moves(l, i, AtStep(i, "inbox", i.had))
    BY <2>1, GoesTo
  <2>6. StillTyped /\ NoBatchBut(i) /\ UNCHANGED ingested
    BY <1>3, <1>4, <1>5, <2>1, <2>3, <2>4, <2>5 DEF StillTyped, NoBatchBut
  <2> QED
    BY <1>3, <1>4, <1>5, <2>1, <2>3, <2>4, <2>5, <2>6, FilingKeeps
<1>9. CASE FillInbox(l, i)
  <2>1. i.step = "inbox" /\ inbox' = inbox \cup {i.key} /\ Go(l, i, "receipt")
        /\ UNCHANGED <<firstLook, provisional>>
    BY <1>9 DEF FillInbox
  <2>2. UploadKindOf(i.key) = "fix"
    BY <1>1, <2>1 DEF Told, StepsOf
  <2>3. Grows
    BY <1>4, <2>1 DEF Grows, FiledGrows
  <2>4. ToldNext(AtStep(i, "receipt", i.had))
    BY <2>1, <2>2 DEF ToldNext, Told, StepsOf, AtStep, Worth
  <2>5. Moves(l, i, AtStep(i, "receipt", i.had))
    BY <2>1, GoesTo
  <2>6. StillTyped /\ NoBatchBut(i) /\ UNCHANGED ingested
    BY <1>3, <1>4, <1>5, <2>1, <2>3, <2>4, <2>5 DEF StillTyped, NoBatchBut
  <2> QED
    BY <1>3, <1>4, <1>5, <2>1, <2>3, <2>4, <2>5, <2>6, FilingKeeps
<1> QED
  BY <1>6, <1>7, <1>8, <1>9

\* Every step of an item in hand.
LEMMA ItemStepKeeps ==
  ASSUME IngestInv, NEW l \in DOMAIN loop, NEW i \in loop[l].hands, ItemStep(l, i)
  PROVE  IngestInv'
BY LookingKeeps, StoringKeeps, PromotingKeeps, FilingTextsKeeps DEF ItemStep

-----------------------------------------------------------------------------
(* Discovery, and taking an object of the queue in hand. *)

\* What a source discovers is of the kinds it takes, and known.
LEMMA FreshSuits ==
  ASSUME IngestInv, NEW source \in SourceName, source # "audio-drive"
  PROVE  /\ \A o \in Fresh(source) : Suits(source, o)
         /\ \A o \in Kept(source) : o.key \in DOMAIN Upload
<1>1. \A o \in Merged(source) : o \in shelf \/ o \in seen[source]
  BY DEF Merged, Listing, NewestOf
<1>2. \A o \in Merged(source) : o.key \in DOMAIN Upload
  BY <1>1 DEF IngestInv, IngestTyped
<1>3. \A o \in Kept(source) : o \in Merged(source) /\ Maps(source, o)
  BY DEF Kept, Unreceipted
<1>4. \A o \in Fresh(source) : o \in Merged(source) /\ Maps(source, o) /\ Ingestable(source, o)
  BY DEF Fresh, NewestOf, Unreceipted
<1>5. ASSUME NEW o, Maps(source, o), Ingestable(source, o)
      PROVE  UploadKindOf(o.key) \in TakenBy(source)
  BY <1>5 DEF Maps, Ingestable, TakenBy, SourceName, Recordings
<1> QED
  BY <1>2, <1>3, <1>4, <1>5 DEF Suits

\* The turn goes round.
LEMMA TurnGoesRound ==
  ASSUME NEW l, NEW turn \in 0..Len(Sources(l))
  PROVE  (turn + 1) % (Len(Sources(l)) + 1) \in 0..Len(Sources(l))
<1>1. Len(Sources(l)) \in {1, 3}
  BY DEF Sources
<1> DEFINE n == Len(Sources(l))
<1>2. n \in {1, 3} /\ turn \in 0..n
  BY <1>1
<1> HIDE DEF n
<1>3. CASE n = 1
  BY <1>2, <1>3
<1>4. CASE n = 3
  BY <1>2, <1>4
<1>5. (turn + 1) % (n + 1) \in 0..n
  BY <1>2, <1>3, <1>4
<1> QED
  BY <1>5 DEF n

\* A loop that has nothing in hand comes to another state that fits it.
LEMMA LoopTurns ==
  ASSUME IngestInv, NEW l \in DOMAIN loop, NEW state,
         loop' = [loop EXCEPT ![l] = state], LoopFits(l, state),
         \A i \in state.hands :
           /\ Told(i, blobs, provenance, firstLook, provisional, promoted, inbox)
           /\ i.step \in {"promote?", "promote"} => l = "capture" /\ state.turn = 3,
         UNCHANGED <<shelf, coming, folder, ingested, filed, posting>>,
         seen' = [source \in SourceName |-> seen'[source]],
         \A source \in SourceName : \A o \in seen'[source] : o.key \in DOMAIN Upload
  PROVE  IngestInv'
<1>1. DOMAIN loop' = DOMAIN loop /\ loop' = [m \in DOMAIN loop' |-> loop'[m]]
  BY DEF IngestInv, IngestTyped
<1>2. loop'[l] = state /\ \A m \in DOMAIN loop : m # l => loop'[m] = loop[m]
  BY DEF IngestInv, IngestTyped
<1>3. IngestTyped'
  BY <1>1 DEF IngestInv, IngestTyped, filed
<1>4. LoopsFit'
  BY <1>1, <1>2 DEF IngestInv, LoopsFit
<1>5. HandsTold'
  BY <1>1, <1>2 DEF IngestInv, HandsTold, filed
<1>6. PromotesLast'
  BY <1>1, <1>2 DEF IngestInv, PromotesLast
<1>7. ReceiptsHold' /\ PostsTold' /\ StoriesHaveBytes'
  BY DEF IngestInv, ReceiptsHold, PostsTold, StoriesHaveBytes, filed
<1> QED
  BY <1>3, <1>4, <1>5, <1>6, <1>7 DEF IngestInv

\* The next source of a pass, or the end of it.
LEMMA NextSourceKeeps ==
  ASSUME IngestInv, NEW l \in DOMAIN loop, NextSource(l)
  PROVE  IngestInv'
<1> DEFINE turn == (loop[l].turn + 1) % (Len(Sources(l)) + 1)
           source == Sources(l)[turn]
           At(queue) == [turn |-> turn, hands |-> {}, queue |-> queue]
<1>1. turn \in 0..Len(Sources(l))
  BY TurnGoesRound DEF IngestInv, LoopsFit, LoopFits
<1>2. UNCHANGED <<shelf, coming, folder, ingested, filed, posting>>
  BY DEF NextSource
<1>3. seen = [src \in SourceName |-> seen[src]]
      /\ \A src \in SourceName : \A o \in seen[src] : o.key \in DOMAIN Upload
  BY DEF IngestInv, IngestTyped
<1>4. turn # 0 => source \in SourceName
  <2>1. Len(Sources(l)) \in Nat
    BY DEF Sources
  <2> HIDE DEF turn
  <2> QED
    BY <1>1, <2>1, SourceOfTurn
<1>5. \/ turn = 0 /\ loop' = [loop EXCEPT ![l] = Asleep] /\ UNCHANGED seen
      \/ /\ turn # 0 /\ source = "audio-drive" /\ UNCHANGED seen
         /\ loop' = [loop EXCEPT ![l] = At({[key |-> k, at |-> 0] : k \in folder})]
      \/ /\ turn # 0 /\ source # "audio-drive"
         /\ loop' = [loop EXCEPT ![l] = At(Fresh(source))]
         /\ seen' = [seen EXCEPT ![source] = Kept(source)]
  BY DEF NextSource
<1> HIDE DEF turn, source
<1>6. ASSUME NEW queue, turn # 0, \A o \in queue : Suits(Sources(l)[turn], o)
      PROVE  LoopFits(l, At(queue))
  BY <1>1, <1>6 DEF LoopFits
<1>7. CASE turn = 0 /\ loop' = [loop EXCEPT ![l] = Asleep] /\ UNCHANGED seen
  <2>1. LoopFits(l, Asleep)
    BY <1>1, <1>7 DEF LoopFits, Asleep
  <2>2. Asleep.hands = {}
    BY DEF Asleep
  <2> QED
    BY <1>2, <1>3, <1>7, <2>1, <2>2, LoopTurns
<1>8. CASE /\ turn # 0 /\ source = "audio-drive" /\ UNCHANGED seen
           /\ loop' = [loop EXCEPT ![l] = At({[key |-> k, at |-> 0] : k \in folder})]
  <2> DEFINE queue == {[key |-> k, at |-> 0] : k \in folder}
  <2>1. \A o \in queue : Suits(source, o)
    BY <1>8 DEF IngestInv, IngestTyped, Suits, TakenBy
  <2> HIDE DEF queue
  <2>2. LoopFits(l, At(queue))
    BY <1>6, <1>8, <2>1 DEF source
  <2>3. At(queue).hands = {}
    OBVIOUS
  <2>4. loop' = [loop EXCEPT ![l] = At(queue)]
    BY <1>8 DEF queue
  <2> HIDE DEF At
  <2> QED
    BY <1>2, <1>3, <1>8, <2>2, <2>3, <2>4, LoopTurns
<1>9. CASE /\ turn # 0 /\ source # "audio-drive"
           /\ loop' = [loop EXCEPT ![l] = At(Fresh(source))]
           /\ seen' = [seen EXCEPT ![source] = Kept(source)]
  <2>1. LoopFits(l, At(Fresh(source)))
    BY <1>4, <1>6, <1>9, FreshSuits DEF source
  <2>2. At(Fresh(source)).hands = {}
    OBVIOUS
  <2>3. seen' = [src \in SourceName |-> seen'[src]]
        /\ \A src \in SourceName : \A o \in seen'[src] : o.key \in DOMAIN Upload
    BY <1>3, <1>4, <1>9, FreshSuits
  <2> HIDE DEF At
  <2> QED
    BY <1>2, <1>9, <2>1, <2>2, <2>3, LoopTurns
<1> QED
  BY <1>5, <1>7, <1>8, <1>9

\* An object of the queue is taken in hand, or passed over for its receipt.
LEMMA BeginKeeps ==
  ASSUME IngestInv, NEW l \in DOMAIN loop, Begin(l)
  PROVE  IngestInv'
<1>1. PICK o \in loop[l].queue :
        loop' = [loop EXCEPT ![l] =
          [turn |-> @.turn, queue |-> @.queue \ {o},
           hands |-> IF Receipt(SourceOf(l), o) \in ingested THEN @.hands
                     ELSE @.hands \cup {Item(o)}]]
  BY DEF Begin
<1> DEFINE H == IF Receipt(SourceOf(l), o) \in ingested THEN loop[l].hands
                ELSE loop[l].hands \cup {Item(o)}
           state == [turn |-> loop[l].turn, queue |-> loop[l].queue \ {o}, hands |-> H]
<1>2. LoopFits(l, loop[l]) /\ loop[l].turn # 0
      /\ UNCHANGED <<shelf, coming, folder, seen, ingested, filed, posting>>
  BY DEF IngestInv, LoopsFit, Begin
<1>3. Suits(SourceOf(l), o)
  BY <1>2 DEF LoopFits, SourceOf
<1>4. loop' = [loop EXCEPT ![l] = state]
  BY <1>1
<1>5. /\ Item(o).key = o.key
      /\ Item(o).step \notin {"promote?", "promote"}
      /\ Told(Item(o), blobs, provenance, firstLook, provisional, promoted, inbox)
  <2>1. UploadKindOf(o.key) \in {"audio", "adopted", "live", "final", "fix", "invalid"}
    BY <1>3 DEF Suits, TakenBy
  <2>2. UploadKindOf(o.key) = "audio" => FirstWrite(o) = "bytes"
    BY DEF FirstWrite
  <2>3. UploadKindOf(o.key) = "live" => FirstWrite(o) = "promoted?"
    BY DEF FirstWrite
  <2>4. UploadKindOf(o.key) = "final" => FirstWrite(o) = "batch"
    BY DEF FirstWrite
  <2>5. UploadKindOf(o.key) = "fix" => FirstWrite(o) = "believe"
    BY DEF FirstWrite
  <2>6. UploadKindOf(o.key) \in {"adopted", "invalid"} => FirstWrite(o) = "receipt"
    BY DEF FirstWrite
  <2> QED
    BY <2>1, <2>2, <2>3, <2>4, <2>5, <2>6 DEF Item, Told, StepsOf, Worth
<1>6. Suits(SourceOf(l), Item(o))
  BY <1>3, <1>5 DEF Suits
<1>7. LoopFits(l, state)
  BY <1>2, <1>6 DEF LoopFits, SourceOf
<1>8. \A i \in H :
        /\ Told(i, blobs, provenance, firstLook, provisional, promoted, inbox)
        /\ i.step \in {"promote?", "promote"} => l = "capture" /\ loop[l].turn = 3
  BY <1>5 DEF IngestInv, HandsTold, PromotesLast
<1>9. state.hands = H /\ state.turn = loop[l].turn
  OBVIOUS
<1>10. seen' = [source \in SourceName |-> seen'[source]]
       /\ \A source \in SourceName : \A x \in seen'[source] : x.key \in DOMAIN Upload
  BY <1>2 DEF IngestInv, IngestTyped
<1> HIDE DEF state, H
<1> QED
  BY <1>2, <1>4, <1>7, <1>8, <1>9, <1>10, LoopTurns

-----------------------------------------------------------------------------
(* Requests, failed calls, crashes and uploads. *)

\* A step that touches no loop and no receipt, and loses nothing on file.
LEMMA BesideLoops ==
  ASSUME IngestInv, Grows, UNCHANGED <<firstLook, loop, ingested>>,
         provenance' = [c \in Contents |-> provenance'[c]], StoriesHaveBytes', PostsTold',
         posting' = [c \in DOMAIN posting |-> posting'[c]],
         UNCHANGED <<shelf, coming, folder, seen>>
  PROVE  IngestInv'
<1>1. IngestTyped'
  BY DEF IngestInv, IngestTyped
<1>2. LoopsFit' /\ PromotesLast'
  BY DEF IngestInv, LoopsFit, PromotesLast
<1>3. HandsTold'
  <2> SUFFICES ASSUME NEW l \in DOMAIN loop, NEW i \in loop[l].hands
               PROVE  Told(i, blobs', provenance', firstLook', provisional', promoted', inbox')
    BY DEF HandsTold
  <2>1. i.key \in DOMAIN Upload
    BY HandSuits
  <2>2. Told(i, blobs, provenance, firstLook, provisional, promoted, inbox)
    BY DEF IngestInv, HandsTold
  <2> QED
    BY <2>1, <2>2, ToldGrows
<1>4. ReceiptsHold'
  BY WorthGrows DEF IngestInv, ReceiptsHold
<1> QED
  BY <1>1, <1>2, <1>3, <1>4 DEF IngestInv

\* One request comes to another step.
LEMMA OnePost ==
  ASSUME IngestInv, NEW c \in DOMAIN posting, NEW post, Grows,
         posting' = [posting EXCEPT ![c] = post], PostTold(c, post, blobs', provenance')
  PROVE  PostsTold' /\ posting' = [d \in DOMAIN posting |-> posting'[d]]
<1>1. /\ DOMAIN posting' = DOMAIN posting /\ posting' = [d \in DOMAIN posting |-> posting'[d]]
      /\ posting'[c] = post
      /\ \A d \in DOMAIN posting : d # c => posting'[d] = posting[d]
  BY DEF IngestInv, IngestTyped
<1>2. ASSUME NEW d \in DOMAIN posting, d # c PROVE PostTold(d, posting[d], blobs', provenance')
  <2>1. PostTold(d, posting[d], blobs, provenance) /\ d \in Contents
    BY DEF IngestInv, IngestTyped, PostsTold
  <2> QED
    BY <2>1 DEF PostTold, Grows, FiledGrows
<1> QED
  BY <1>1, <1>2 DEF PostsTold

\* A request arrives, stores its bytes, then its story.
LEMMA PostStepKeeps ==
  ASSUME IngestInv, NEW c \in DOMAIN posting, PostStep(c)
  PROVE  IngestInv'
<1>1. UNCHANGED <<firstLook, provisional, promoted, inbox, loop, ingested>>
      /\ UNCHANGED <<shelf, coming, folder, seen>>
  BY DEF PostStep, PostArrives, PostBytes, PostProvenance, filed
<1>2. /\ c \in Contents /\ PostTold(c, posting[c], blobs, provenance)
      /\ StoriesHaveBytes /\ provenance = [d \in Contents |-> provenance[d]]
  BY DEF IngestInv, IngestTyped, PostsTold
<1>3. CASE PostArrives(c)
  <2> DEFINE post == [step |-> IF provenance[c] = {} THEN "bytes" ELSE "provenance",
                      had |-> provenance[c]]
  <2>1. posting' = [posting EXCEPT ![c] = post] /\ UNCHANGED filed
    BY <1>3 DEF PostArrives
  <2>2. Grows
    BY <2>1, FiledStays
  <2>3. PostTold(c, post, blobs', provenance')
    BY <1>2, <2>1 DEF PostTold, filed, StoriesHaveBytes
  <2>4. StoriesHaveBytes' /\ provenance' = [d \in Contents |-> provenance'[d]]
    BY <1>2, <2>1 DEF StoriesHaveBytes, filed
  <2> HIDE DEF post
  <2>5. PostsTold' /\ posting' = [d \in DOMAIN posting |-> posting'[d]]
    BY <2>1, <2>2, <2>3, OnePost
  <2> QED
    BY <1>1, <2>2, <2>4, <2>5, BesideLoops
<1>4. CASE PostBytes(c)
  <2> DEFINE post == [step |-> "provenance", had |-> posting[c].had]
  <2>1. blobs' = blobs \cup {c} /\ UNCHANGED provenance
    BY <1>4 DEF PostBytes
  <2>2. posting' = [posting EXCEPT ![c] = post]
    <3>1. posting' = [posting EXCEPT ![c].step = "provenance"]
      BY <1>4 DEF PostBytes
    <3>2. posting = [d \in DOMAIN posting |-> posting[d]]
          /\ posting[c] = [step |-> posting[c].step, had |-> posting[c].had]
      BY <1>2 DEF PostTold, IngestInv, IngestTyped
    <3>3. posting' = [posting EXCEPT ![c] = [posting[c] EXCEPT !.step = "provenance"]]
      BY <3>1, <3>2
    <3>4. [posting[c] EXCEPT !.step = "provenance"] = post
      BY <3>2
    <3> QED
      BY <3>3, <3>4
  <2>3. Grows
    BY <1>1, <2>1 DEF Grows, FiledGrows
  <2>4. PostTold(c, post, blobs', provenance')
    BY <2>1 DEF PostTold
  <2>5. StoriesHaveBytes' /\ provenance' = [d \in Contents |-> provenance'[d]]
    BY <1>2, <2>1 DEF StoriesHaveBytes
  <2> HIDE DEF post
  <2>6. PostsTold' /\ posting' = [d \in DOMAIN posting |-> posting'[d]]
    BY <2>2, <2>3, <2>4, OnePost
  <2> QED
    BY <1>1, <2>3, <2>5, <2>6, BesideLoops
<1>5. CASE PostProvenance(c)
  <2> DEFINE post == [step |-> "answered", had |-> posting[c].had]
             more == posting[c].had \cup {<<"http", c>>}
  <2>1. provenance' = [provenance EXCEPT ![c] = more] /\ UNCHANGED blobs
    BY <1>5 DEF PostProvenance
  <2>2. posting' = [posting EXCEPT ![c] = post]
    <3>1. posting' = [posting EXCEPT ![c].step = "answered"]
      BY <1>5 DEF PostProvenance
    <3>2. posting = [d \in DOMAIN posting |-> posting[d]]
          /\ posting[c] = [step |-> posting[c].step, had |-> posting[c].had]
      BY <1>2 DEF PostTold, IngestInv, IngestTyped
    <3>3. posting' = [posting EXCEPT ![c] = [posting[c] EXCEPT !.step = "answered"]]
      BY <3>1, <3>2
    <3>4. [posting[c] EXCEPT !.step = "answered"] = post
      BY <3>2
    <3> QED
      BY <3>3, <3>4
  <2>3. c \in blobs
    BY <1>2, <1>5 DEF PostProvenance, PostTold
  <2>4. /\ provenance' = [d \in Contents |-> provenance'[d]]
        /\ provenance'[c] = more
        /\ \A d \in Contents : d # c => provenance'[d] = provenance[d]
    BY <1>2, <2>1
  <2>5. provenance'[c] # {}
    BY <2>4
  <2>6. Grows
    BY <1>1, <2>1, <2>4, <2>5 DEF Grows, FiledGrows
  <2>7. PostTold(c, post, blobs', provenance')
    BY <2>1, <2>3, <2>5 DEF PostTold
  <2>8. StoriesHaveBytes'
    BY <1>2, <2>1, <2>3, <2>4 DEF StoriesHaveBytes
  <2> HIDE DEF post, more
  <2>9. PostsTold' /\ posting' = [d \in DOMAIN posting |-> posting'[d]]
    BY <2>2, <2>6, <2>7, OnePost
  <2> QED
    BY <1>1, <2>4, <2>6, <2>8, <2>9, BesideLoops
<1> QED
  BY <1>3, <1>4, <1>5 DEF PostStep

\* A failed call gives up an item or refuses a request, and takes nothing back.
LEMMA CallFailsKeeps ==
  ASSUME IngestInv, CallFails, UNCHANGED <<shelf, coming, folder, seen, ingested>>
  PROVE  IngestInv'
<1>1. Grows /\ UNCHANGED filed
  BY FiledStays DEF CallFails
<1>2. StoriesHaveBytes' /\ provenance' = [c \in Contents |-> provenance'[c]]
      /\ firstLook' = firstLook
  BY <1>1 DEF IngestInv, IngestTyped, StoriesHaveBytes, filed
<1>3. ASSUME NEW l \in DOMAIN loop, NEW i \in loop[l].hands, Finish(l, i), UNCHANGED posting
      PROVE  IngestInv'
  BY <1>1, <1>3, ItemFinishes
<1>4. ASSUME NEW c \in DOMAIN posting, posting' = [posting EXCEPT ![c] = NoPost("refused")],
             UNCHANGED loop
      PROVE  IngestInv'
  <2>1. PostTold(c, NoPost("refused"), blobs', provenance')
    BY DEF PostTold, NoPost
  <2>2. PostsTold' /\ posting' = [d \in DOMAIN posting |-> posting'[d]]
    BY <1>1, <1>4, <2>1, OnePost
  <2> QED
    BY <1>1, <1>2, <1>4, <2>2, BesideLoops
<1> QED
  BY <1>3, <1>4 DEF CallFails

\* A crash puts both loops to sleep and refuses the requests under way.
LEMMA ServerDiesKeeps ==
  ASSUME IngestInv, ServerDies, UNCHANGED <<shelf, coming, folder, seen, ingested>>
  PROVE  IngestInv'
<1>1. UNCHANGED filed /\ loop' = [l \in DOMAIN loop |-> Asleep]
      /\ posting' = [c \in DOMAIN posting |->
           IF posting[c].step \in {"bytes", "provenance"} THEN NoPost("refused") ELSE posting[c]]
  BY DEF ServerDies
<1>2. IngestTyped'
  BY <1>1 DEF IngestInv, IngestTyped, filed
<1>3. LoopsFit'
  <2>1. \A l : LoopFits(l, Asleep)
    <3>1. \A l : Len(Sources(l)) \in Nat
      BY DEF Sources
    <3> QED
      BY <3>1 DEF LoopFits, Asleep
  <2> QED
    BY <1>1, <2>1 DEF LoopsFit
<1>4. HandsTold' /\ PromotesLast'
  BY <1>1 DEF HandsTold, PromotesLast, Asleep
<1>5. ReceiptsHold' /\ StoriesHaveBytes'
  BY <1>1 DEF IngestInv, ReceiptsHold, StoriesHaveBytes, filed
<1>6. PostsTold'
  <2>1. \A c : PostTold(c, NoPost("refused"), blobs', provenance')
    BY DEF PostTold, NoPost
  <2>2. \A c \in DOMAIN posting : PostTold(c, posting[c], blobs', provenance')
    BY <1>1 DEF IngestInv, PostsTold, PostTold, filed
  <2> QED
    BY <1>1, <2>1, <2>2 DEF PostsTold
<1> QED
  BY <1>2, <1>3, <1>4, <1>5, <1>6 DEF IngestInv

\* The phone uploads beside it all.
LEMMA PhoneUploadsKeeps ==
  ASSUME IngestInv, NEW k \in DOMAIN coming, PhoneUploads(k)
  PROVE  IngestInv'
<1>1. UNCHANGED <<folder, seen, ingested, filed, loop, posting>> /\ DOMAIN coming' = DOMAIN coming
  BY DEF PhoneUploads
<1>2. \A o \in shelf' : o \in shelf \/ o.key = k
  BY DEF PhoneUploads
<1>3. IngestTyped'
  BY <1>1, <1>2 DEF IngestInv, IngestTyped, filed
<1>4. LoopsFit' /\ HandsTold' /\ PromotesLast' /\ ReceiptsHold' /\ PostsTold' /\ StoriesHaveBytes'
  BY <1>1 DEF IngestInv, LoopsFit, HandsTold, PromotesLast, ReceiptsHold, PostsTold,
              StoriesHaveBytes, filed
<1> QED
  BY <1>3, <1>4 DEF IngestInv

-----------------------------------------------------------------------------
(* The invariant, and what follows from it. *)

LEMMA IngestInvInit ==
  ASSUME NEW s \in IngestScenes, IngestStart(s)
  PROVE  IngestInv
<1>1. IngestTyped
  BY IngestScenesAssumption DEF IngestStart, IngestTyped
<1>2. LoopsFit
  <2>1. \A l : Len(Sources(l)) \in Nat
    BY DEF Sources
  <2>2. \A l : LoopFits(l, Asleep)
    BY <2>1 DEF LoopFits, Asleep
  <2> QED
    BY <2>2 DEF IngestStart, LoopsFit
<1>3. HandsTold /\ PromotesLast
  BY DEF IngestStart, HandsTold, PromotesLast, Asleep
<1>4. ReceiptsHold /\ StoriesHaveBytes
  BY DEF IngestStart, ReceiptsHold, StoriesHaveBytes
<1>5. PostsTold
  BY DEF IngestStart, PostsTold, PostTold, NoPost
<1> QED
  BY <1>1, <1>2, <1>3, <1>4, <1>5 DEF IngestInv

LEMMA IngestInvStep ==
  ASSUME IngestInv, [IngestNext]_ingestVars
  PROVE  IngestInv'
<1>1. ASSUME NEW l \in DOMAIN loop, LoopStep(l) PROVE IngestInv'
  BY <1>1, NextSourceKeeps, BeginKeeps, ItemStepKeeps DEF LoopStep
<1>2. ASSUME NEW c \in DOMAIN posting, PostStep(c) PROVE IngestInv'
  BY <1>2, PostStepKeeps
<1>3. CASE (CallFails \/ ServerDies) /\ UNCHANGED <<shelf, coming, folder, seen, ingested>>
  BY <1>3, CallFailsKeeps, ServerDiesKeeps
<1>4. ASSUME NEW k \in DOMAIN coming, PhoneUploads(k) PROVE IngestInv'
  BY <1>4, PhoneUploadsKeeps
<1>5. CASE UNCHANGED ingestVars
  BY <1>5 DEF ingestVars, IngestInv, IngestTyped, LoopsFit, HandsTold, PromotesLast,
              ReceiptsHold, PostsTold, StoriesHaveBytes
<1> QED
  BY <1>1, <1>2, <1>3, <1>4, <1>5 DEF IngestNext

LEMMA IngestInvHolds == IngestSpec => []IngestInv
<1>1. (\E s \in IngestScenes : IngestStart(s)) => IngestInv
  BY IngestInvInit
<1>2. IngestInv /\ [IngestNext]_ingestVars => IngestInv'
  BY IngestInvStep
<1> QED
  BY <1>1, <1>2, PTL DEF IngestSpec

\* What a receipt stands for is on file, and what a request was answered for
\* has its bytes and its story, whatever failed, crashed or ran beside it.
THEOREM IngestKeeps == IngestSpec => []IngestIsSound
<1>1. IngestInv => IngestIsSound
  <2> SUFFICES ASSUME IngestInv PROVE IngestIsReceipted /\ PostIsKept
    BY DEF IngestIsSound
  <2>1. IngestIsReceipted
    BY DEF IngestInv, ReceiptsHold, Worth, LiveTold, IngestIsReceipted
  <2>2. PostIsKept
    BY DEF IngestInv, PostsTold, PostTold, PostIsKept
  <2> QED
    BY <2>1, <2>2
<1> QED
  BY <1>1, IngestInvHolds, PTL

\* Only the promotion and the filing of a batch transcript touch a first look.
LEMMA FirstLookOnly ==
  ASSUME IngestNext
  PROVE  \/ UNCHANGED firstLook
         \/ \E l \in DOMAIN loop : \E i \in loop[l].hands : Promote(l, i) \/ FileBatch(l, i)
<1>1. ASSUME NEW l \in DOMAIN loop, LoopStep(l)
      PROVE  \/ UNCHANGED firstLook
             \/ \E i \in loop[l].hands : Promote(l, i) \/ FileBatch(l, i)
  <2>1. CASE NextSource(l) \/ Begin(l)
    BY <2>1 DEF NextSource, Begin, filed
  <2>2. ASSUME NEW i \in loop[l].hands, ItemStep(l, i)
        PROVE  UNCHANGED firstLook \/ Promote(l, i) \/ FileBatch(l, i)
    BY <2>2 DEF ItemStep, StoreBytes, WriteProvenance, WriteReceiptOf, LookForProvisional,
                DropProvisional, MarkPromoted, LookForMark, FileProvisional, Believe, FillInbox,
                filed
  <2> QED
    BY <1>1, <2>1, <2>2 DEF LoopStep
<1>2. ASSUME NEW c \in DOMAIN posting, PostStep(c) PROVE UNCHANGED firstLook
  BY <1>2 DEF PostStep, PostArrives, PostBytes, PostProvenance, filed
<1>3. (CallFails \/ ServerDies) => UNCHANGED firstLook
  BY DEF CallFails, ServerDies, filed
<1>4. ASSUME NEW k \in DOMAIN coming, PhoneUploads(k) PROVE UNCHANGED firstLook
  BY <1>4 DEF PhoneUploads, filed
<1> QED
  BY <1>1, <1>2, <1>3, <1>4 DEF IngestNext

\* The phone's batch transcript is never replaced: what is at the promotion saw
\* no first look, and no batch transcript was filed since.
THEOREM BatchIsNeverReplaced == IngestSpec => BatchStands
<1>1. IngestInv /\ [IngestNext]_ingestVars =>
        [\A c \in Contents : firstLook[c] = "batch" => firstLook'[c] = "batch"]_firstLook
  <2> SUFFICES ASSUME IngestInv, IngestNext, NEW c \in Contents, firstLook[c] = "batch"
               PROVE  firstLook'[c] = "batch"
    BY DEF ingestVars
  <2>1. firstLook \in [Contents -> {"none", "live", "batch"}]
    BY DEF IngestInv, IngestTyped
  <2>2. ASSUME NEW l \in DOMAIN loop, NEW i \in loop[l].hands, Promote(l, i)
        PROVE  firstLook'[c] = "batch"
    <3>1. firstLook[Content(i.key)] # "batch"
      BY <2>2 DEF Promote, IngestInv, HandsTold, Told
    <3> QED
      BY <2>1, <2>2, <3>1 DEF Promote
  <2>3. ASSUME NEW l \in DOMAIN loop, NEW i \in loop[l].hands, FileBatch(l, i)
        PROVE  firstLook'[c] = "batch"
    BY <2>1, <2>3 DEF FileBatch
  <2> QED
    BY <2>2, <2>3, FirstLookOnly
<1> QED
  BY <1>1, IngestInvHolds, PTL DEF IngestSpec, BatchStands

-----------------------------------------------------------------------------
(* The invariant of the store, for the scene a behaviour started with.     *)

Part(v, n) == {<<v, i>> : i \in 1..n}

MayHold(s, k) == {{}} \cup {Whole(v) : v \in VersionsOf(s, k)}

Deleted(s, k) == \E w \in DOMAIN s.ops : \E o \in OpsOf(s, w) : o.op = "delete" /\ o.key = k

ContentsFit(s) ==
  /\ DOMAIN disk = DOMAIN s.disk /\ DOMAIN cloud = DOMAIN s.disk
  /\ DOMAIN vouched = DOMAIN s.disk /\ listed \subseteq DOMAIN s.disk
  /\ \A k \in DOMAIN s.disk : disk[k] \in MayHold(s, k) /\ cloud[k] \in MayHold(s, k)

\* A writer in the middle of an operation.
AtWork(w) == writer[w].scratch # {} \/ writer[w].at # "start"

WriterFits(s, w) ==
  /\ DOMAIN writer[w] = {"ops", "scratch", "at"}
  /\ writer[w].ops \in Seq(Operation(DOMAIN s.disk))
  /\ \A i \in 1..Len(writer[w].ops) : writer[w].ops[i] \in OpsOf(s, w)
  /\ writer[w].at \in {"start", "register", "unregister"}
  /\ AtWork(w) => Busy(w)
  /\ Scratch(w) # {} =>
       Op(w).op = "put" /\ \E n \in 1..Version[Op(w).version] : Scratch(w) = Part(Op(w).version, n)
  /\ writer[w].at = "register" =>
       Op(w).op = "put" /\ Op(w).where = "bucket" /\ cloud[Op(w).key] # {}
  /\ writer[w].at = "unregister" =>
       /\ Op(w).op = "delete" /\ Op(w).where = "bucket"
       /\ cloud[Op(w).key] = {} /\ vouched[Op(w).key].op = "deleting"
  /\ AtWork(w) /\ AllIn(s, "bucket") /\ Deleted(s, Op(w).key) =>
       vouched[Op(w).key].op \in {"unknown", "deleting"}

WritersFit(s) ==
  DOMAIN writer = DOMAIN s.ops /\ \A w \in DOMAIN writer : WriterFits(s, w)

VouchFits(s, k) ==
  /\ DOMAIN vouched[k] = {"op", "where"}
  /\ vouched[k].op \in {"unknown", "deleting", "put", "delete"}
  /\ vouched[k].op \in {"put", "delete"} =>
       vouched[k].where \in {"local", "bucket"} /\ AllIn(s, vouched[k].where)
  /\ vouched[k].op \in {"delete", "deleting"} => Deleted(s, k)
  /\ vouched[k].op = "put" => IsStored(k, vouched[k].where)
  /\ vouched[k].op = "delete" => IsMissing(k, vouched[k].where)
  /\ k \in listed => cloud[k] # {} \/ (vouched[k].op = "deleting" /\ ~AllIn(s, "local"))

Moving == move.at \notin {"idle", "start"}

MoveFits(s) ==
  /\ DOMAIN move = {"at", "todo", "scanned", "key", "bytes", "worked", "failures", "sampled",
                    "mismatches"}
  /\ move.at \in {"idle", "start", "next", "refresh", "upload", "done"}
  /\ move.at # "idle" => s.move = "start" /\ AllIn(s, "local")
  /\ Moving =>
       /\ move.scanned \subseteq DOMAIN s.disk /\ DOMAIN move.worked = DOMAIN s.disk
       /\ move.todo \subseteq move.scanned
       /\ \A k \in move.scanned :
            \/ k \in move.todo \cup move.failures
            \/ move.at \in {"refresh", "upload"} /\ k = move.key
            \/ k \in listed /\ cloud[k] = move.worked[k]
  /\ move.at = "done" => move.todo = {}
  /\ move.at \in {"refresh", "upload"} => move.key \in move.scanned /\ move.key \notin move.todo
  /\ move.at = "refresh" => cloud[move.key] = move.bytes /\ move.bytes # {}

StoreFits(s) ==
  /\ ContentsFit(s) /\ WritersFit(s) /\ MoveFits(s)
  /\ \A k \in DOMAIN s.disk : VouchFits(s, k)

StoreInv == \E s \in StoreScenes : StoreFits(s)

-----------------------------------------------------------------------------
(* What the scenes and the invariant say of one operation.                 *)

LEMMA PartSize ==
  ASSUME NEW v, NEW n \in Nat
  PROVE  IsFiniteSet(Part(v, n)) /\ Cardinality(Part(v, n)) = n
<1> DEFINE f == [i \in 1..n |-> <<v, i>>]
<1>1. f \in Bijection(1..n, Part(v, n))
  BY DEF Bijection, Injection, Surjection, IsInjective, Part
<1>2. IsFiniteSet(1..n) /\ Cardinality(1..n) = n
  BY FS_Interval
<1>3. ExistsBijection(1..n, Part(v, n))
  BY <1>1, Zenon DEF ExistsBijection
<1>4. QED
  BY <1>2, <1>3, FS_Bijection

LEMMA WholeIsPart ==
  ASSUME NEW v
  PROVE  Whole(v) = Part(v, Version[v])
BY DEF Whole, Part

\* Two whole artifacts of one size, of a key whose versions differ in size.
LEMMA WholeSize ==
  ASSUME NEW v \in DOMAIN Version
  PROVE  SizeOf(Whole(v)) = Version[v] /\ Whole(v) # {} /\ SizeOf({}) = 0
<1>1. SizeOf(Whole(v)) = Version[v]
  BY PartSize, WholeIsPart, StoreAssumption DEF SizeOf
<1>2. SizeOf({}) = 0
  BY FS_EmptySet DEF SizeOf
<1>3. QED
  BY <1>1, <1>2, StoreAssumption

LEMMA SceneFacts ==
  ASSUME NEW s \in StoreScenes
  PROVE  /\ \A k \in DOMAIN s.disk : s.disk[k] = {} \/ \E v \in DOMAIN Version : s.disk[k] = Whole(v)
         /\ \A w \in DOMAIN s.ops :
              /\ s.ops[w] \in Seq(Operation(DOMAIN s.disk))
              /\ \A o \in OpsOf(s, w) : o.op = "put" => o.version \in DOMAIN Version
         /\ \/ s.move = "idle" /\ AllIn(s, "bucket")
            \/ s.move \in {"idle", "start"} /\ AllIn(s, "local")
         /\ \A w, x \in DOMAIN s.ops : \A o \in OpsOf(s, w), q \in OpsOf(s, x) :
              o.op = "delete" /\ o.where = "bucket" /\ o.key = q.key => w = x
         /\ s.move # "idle" => \A k \in DOMAIN s.disk : \A u, v \in VersionsOf(s, k) :
                                 Version[u] = Version[v] => u = v
BY StoreScenesAssumption, Zenon

LEMMA HeadIs ==
  ASSUME NEW S, NEW q \in Seq(S), q # <<>>
  PROVE  /\ Len(q) \in Nat \ {0} /\ Head(q) = q[1] /\ q[1] \in S
         /\ Tail(q) \in Seq(S) /\ Len(Tail(q)) = Len(q) - 1
         /\ \A i \in 1..Len(Tail(q)) : Tail(q)[i] = q[i + 1]
<1>1. Len(q) \in Nat \ {0} /\ Head(q) = q[1] /\ q[1] \in S
  OBVIOUS
<1>2. Tail(q) \in Seq(S) /\ Len(Tail(q)) = Len(q) - 1
  BY HeadTailProperties
<1>3. \A i \in 1..Len(Tail(q)) : Tail(q)[i] = q[i + 1]
  BY HeadTailProperties
<1>4. QED
  BY <1>1, <1>2, <1>3

\* The operation a writer is at is one of the scene's, and so is what it says.
LEMMA OpIs ==
  ASSUME NEW s \in StoreScenes, WritersFit(s), NEW w \in DOMAIN writer, Busy(w)
  PROVE  /\ w \in DOMAIN s.ops /\ Op(w) \in OpsOf(s, w)
         /\ Op(w).op \in {"put", "delete"} /\ Op(w).key \in DOMAIN s.disk
         /\ Op(w).where \in {"local", "bucket"} /\ AllIn(s, Op(w).where)
         /\ Op(w).op = "put" =>
              Op(w).version \in DOMAIN Version /\ Op(w).version \in VersionsOf(s, Op(w).key)
         /\ Op(w).op = "delete" => Deleted(s, Op(w).key)
         /\ Tail(writer[w].ops) \in Seq(Operation(DOMAIN s.disk))
         /\ \A i \in 1..Len(Tail(writer[w].ops)) : Tail(writer[w].ops)[i] \in OpsOf(s, w)
<1> DEFINE O == Operation(DOMAIN s.disk)
<1>1. WriterFits(s, w) /\ w \in DOMAIN s.ops
  BY DEF WritersFit
<1>2. /\ writer[w].ops \in Seq(O)
      /\ \A i \in 1..Len(writer[w].ops) : writer[w].ops[i] \in OpsOf(s, w)
  BY <1>1, Zenon DEF WriterFits
<1>3. writer[w].ops # <<>>
  BY DEF Busy
<1> HIDE DEF O
<1>4. /\ Len(writer[w].ops) \in Nat \ {0} /\ Op(w) = writer[w].ops[1] /\ writer[w].ops[1] \in O
      /\ Tail(writer[w].ops) \in Seq(O) /\ Len(Tail(writer[w].ops)) = Len(writer[w].ops) - 1
      /\ \A i \in 1..Len(Tail(writer[w].ops)) : Tail(writer[w].ops)[i] = writer[w].ops[i + 1]
  <2>1. Op(w) = Head(writer[w].ops)
    BY DEF Op
  <2>2. QED
    BY <1>2, <1>3, <2>1, HeadIs
<1>5. Op(w) \in OpsOf(s, w)
  BY <1>2, <1>4
<1>6. /\ Op(w).op \in {"put", "delete"} /\ Op(w).key \in DOMAIN s.disk
      /\ Op(w).where \in {"local", "bucket"}
  BY <1>4 DEF O, Operation
<1>7. AllIn(s, Op(w).where)
  <2>1. AllIn(s, "bucket") \/ AllIn(s, "local")
    BY SceneFacts, Zenon
  <2>2. \A p : AllIn(s, p) => Op(w).where = p
    BY <1>1, <1>5, Zenon DEF AllIn
  <2>3. QED
    BY <2>1, <2>2, Zenon
<1>8. Op(w).op = "put" => Op(w).version \in DOMAIN Version
  BY <1>1, <1>5, SceneFacts, Zenon
<1>9. Op(w).op = "put" => Op(w).version \in VersionsOf(s, Op(w).key)
  BY <1>1, <1>5, <1>8, Zenon DEF VersionsOf
<1>10. Op(w).op = "delete" => Deleted(s, Op(w).key)
  BY <1>1, <1>5, Zenon DEF Deleted
<1>11. \A i \in 1..Len(Tail(writer[w].ops)) : Tail(writer[w].ops)[i] \in OpsOf(s, w)
  <2> TAKE i \in 1..Len(Tail(writer[w].ops))
  <2>1. i + 1 \in 1..Len(writer[w].ops)
    BY <1>4
  <2>2. QED
    BY <1>2, <1>4, <2>1
<1>12. QED
  BY <1>1, <1>4, <1>5, <1>6, <1>7, <1>8, <1>9, <1>10, <1>11 DEF O

\* What is all in one place is not in the other, once there is an operation.
LEMMA OnePlace ==
  ASSUME NEW s \in StoreScenes, NEW w \in DOMAIN s.ops, NEW o \in OpsOf(s, w), NEW p, AllIn(s, p)
  PROVE  o.where = p
BY Zenon DEF AllIn

LEMMA DeletedInOne ==
  ASSUME NEW s \in StoreScenes, NEW k, Deleted(s, k), AllIn(s, "local")
  PROVE  ~AllIn(s, "bucket")
<1> SUFFICES ASSUME AllIn(s, "bucket") PROVE FALSE
  OBVIOUS
<1> PICK w \in DOMAIN s.ops : \E o \in OpsOf(s, w) : o.op = "delete" /\ o.key = k
  BY Zenon DEF Deleted
<1> PICK o \in OpsOf(s, w) : o.op = "delete" /\ o.key = k
  OBVIOUS
<1>1. o.where = "local" /\ o.where = "bucket"
  BY OnePlace, Zenon
<1> QED
  BY <1>1

\* A key that is deleted from the bucket is nobody else's.
LEMMA OneWriter ==
  ASSUME NEW s \in StoreScenes, WritersFit(s), NEW w \in DOMAIN writer, NEW x \in DOMAIN writer,
         Busy(w), Busy(x), Op(w).key = Op(x).key, AllIn(s, "bucket"), Deleted(s, Op(w).key)
  PROVE  w = x
<1>1. /\ w \in DOMAIN s.ops /\ Op(w) \in OpsOf(s, w)
      /\ x \in DOMAIN s.ops /\ Op(x) \in OpsOf(s, x)
  BY OpIs
<1> PICK y \in DOMAIN s.ops : \E o \in OpsOf(s, y) : o.op = "delete" /\ o.key = Op(w).key
  BY Zenon DEF Deleted
<1> PICK o \in OpsOf(s, y) : o.op = "delete" /\ o.key = Op(w).key
  OBVIOUS
<1>2. o.where = "bucket"
  BY OnePlace, Zenon
<1>3. y = w
  BY <1>1, <1>2, SceneFacts, Zenon
<1>4. y = x
  BY <1>1, <1>2, SceneFacts, Zenon
<1> QED
  BY <1>3, <1>4

\* A writer has its version whole before it puts it anywhere.
LEMMA WrittenIsWhole ==
  ASSUME NEW s \in StoreScenes, WritersFit(s), NEW w \in DOMAIN writer, Written(w)
  PROVE  /\ Scratch(w) = Whole(Op(w).version) /\ Scratch(w) # {}
         /\ Scratch(w) \in MayHold(s, Op(w).key)
<1>1. Busy(w) /\ Op(w).op = "put" /\ SizeOf(Scratch(w)) = Version[Op(w).version]
  BY DEF Written
<1>2. Op(w).version \in DOMAIN Version /\ Op(w).version \in VersionsOf(s, Op(w).key)
  BY <1>1, OpIs
<1>3. Scratch(w) # {}
  BY <1>1, <1>2, WholeSize, StoreAssumption
<1>4. PICK n \in 1..Version[Op(w).version] : Scratch(w) = Part(Op(w).version, n)
  BY <1>3, Zenon DEF WritersFit, WriterFits
<1>5. n = Version[Op(w).version]
  <2>1. n \in Nat
    BY <1>2, StoreAssumption
  <2>2. Cardinality(Part(Op(w).version, n)) = n
    BY <2>1, PartSize
  <2>3. QED
    BY <1>1, <1>4, <2>2 DEF SizeOf
<1>6. Scratch(w) = Whole(Op(w).version)
  BY <1>4, <1>5, WholeIsPart
<1>7. QED
  BY <1>2, <1>3, <1>6 DEF MayHold

-----------------------------------------------------------------------------
(* What a step leaves of the other writers, the other keys and the move.   *)

LEMMA FreshWriter ==
  ASSUME NEW s \in StoreScenes, WritersFit(s), NEW w \in DOMAIN writer, NEW q,
         q = writer[w].ops \/ (Busy(w) /\ q = Tail(writer[w].ops)) \/ q = <<>>,
         writer'[w] = [ops |-> q, scratch |-> {}, at |-> "start"]
  PROVE  WriterFits(s, w)'
<1> DEFINE O == Operation(DOMAIN s.disk)
<1>1. WriterFits(s, w)
  BY DEF WritersFit
<1>2. q \in Seq(O) /\ \A i \in 1..Len(q) : q[i] \in OpsOf(s, w)
  <2>1. CASE q = writer[w].ops
    BY <1>1, <2>1, Zenon DEF WriterFits
  <2>2. CASE Busy(w) /\ q = Tail(writer[w].ops)
    BY <2>2, OpIs
  <2>3. CASE q = <<>>
    BY <2>3
  <2>4. QED
    BY <2>1, <2>2, <2>3
<1>3. /\ DOMAIN writer'[w] = {"ops", "scratch", "at"}
      /\ writer'[w].ops = q /\ writer'[w].scratch = {} /\ writer'[w].at = "start"
  OBVIOUS
<1>4. ~AtWork(w)' /\ Scratch(w)' = {}
  BY <1>3 DEF AtWork, Scratch
<1> HIDE DEF O
<1>5. QED
  BY <1>2, <1>3, <1>4 DEF WriterFits, O

LEMMA SameWriter ==
  ASSUME NEW s, NEW x, WriterFits(s, x), writer'[x] = writer[x],
         writer[x].at = "register" => cloud'[Op(x).key] # {},
         writer[x].at = "unregister" =>
           cloud'[Op(x).key] = {} /\ vouched'[Op(x).key].op = "deleting",
         AtWork(x) /\ AllIn(s, "bucket") /\ Deleted(s, Op(x).key) =>
           vouched'[Op(x).key].op \in {"unknown", "deleting"}
  PROVE  WriterFits(s, x)'
<1>1. /\ Op(x)' = Op(x) /\ Scratch(x)' = Scratch(x)
      /\ Busy(x)' = Busy(x) /\ AtWork(x)' = AtWork(x)
  BY DEF Op, Scratch, Busy, AtWork
<1>2. QED
  BY <1>1 DEF WriterFits

\* A step of one writer, at its key, leaves the others as they fit.
LEMMA OtherWriter ==
  ASSUME NEW s \in StoreScenes, WritersFit(s), NEW w \in DOMAIN writer, NEW x \in DOMAIN writer,
         w # x, Busy(w), writer'[x] = writer[x],
         \A k \in DOMAIN s.disk \ {Op(w).key} : cloud'[k] = cloud[k] /\ vouched'[k] = vouched[k],
         ~AllIn(s, "bucket") => cloud'[Op(w).key] = cloud[Op(w).key],
         cloud'[Op(w).key] = {} => cloud[Op(w).key] = {} \/ Deleted(s, Op(w).key)
  PROVE  WriterFits(s, x)'
<1>1. WriterFits(s, x)
  BY DEF WritersFit
<1>2. CASE ~Busy(x)
  <2>1. ~AtWork(x) /\ writer[x].at = "start"
    BY <1>1, <1>2 DEF WriterFits, AtWork
  <2>2. QED
    BY <1>1, <2>1, SameWriter
<1>3. CASE Busy(x)
  <2>1. Op(x).key \in DOMAIN s.disk /\ AllIn(s, Op(x).where)
        /\ (Op(x).op = "delete" => Deleted(s, Op(x).key))
    BY <1>3, OpIs
  <2>2. CASE Op(x).key # Op(w).key
    <3>1. cloud'[Op(x).key] = cloud[Op(x).key] /\ vouched'[Op(x).key] = vouched[Op(x).key]
      BY <2>1, <2>2
    <3>2. /\ writer[x].at = "register" => cloud'[Op(x).key] # {}
          /\ writer[x].at = "unregister" =>
               cloud'[Op(x).key] = {} /\ vouched'[Op(x).key].op = "deleting"
          /\ AtWork(x) /\ AllIn(s, "bucket") /\ Deleted(s, Op(x).key) =>
               vouched'[Op(x).key].op \in {"unknown", "deleting"}
      BY <1>1, <3>1 DEF WriterFits
    <3>3. QED
      BY <1>1, <3>2, SameWriter
  <2>3. CASE Op(x).key = Op(w).key
    <3>1. ~(AllIn(s, "bucket") /\ Deleted(s, Op(w).key))
      BY <1>3, <2>3, OneWriter, Zenon
    <3>2. writer[x].at = "register" => cloud'[Op(x).key] # {}
      BY <1>1, <2>1, <2>3, <3>1 DEF WriterFits
    <3>3. writer[x].at # "unregister"
      BY <1>1, <2>1, <2>3, <3>1 DEF WriterFits
    <3>4. QED
      BY <1>1, <2>3, <3>1, <3>2, <3>3, SameWriter
  <2>4. QED
    BY <2>2, <2>3
<1>4. QED
  BY <1>2, <1>3

LEMMA SameKey ==
  ASSUME NEW s, NEW k, VouchFits(s, k), vouched'[k] = vouched[k], disk'[k] = disk[k],
         cloud'[k] = cloud[k], (k \in listed') <=> (k \in listed)
  PROVE  VouchFits(s, k)'
BY DEF VouchFits, IsStored, IsMissing

LEMMA MoveStays ==
  ASSUME NEW s, MoveFits(s), move' = move,
         move.at = "idle" \/ (cloud' = cloud /\ listed' = listed)
  PROVE  MoveFits(s)'
<1>1. CASE move.at = "idle"
  BY <1>1 DEF MoveFits, Moving
<1>2. CASE cloud' = cloud /\ listed' = listed
  BY <1>2 DEF MoveFits, Moving
<1>3. QED
  BY <1>1, <1>2

\* There is no migration beside a writer of the bucket.
LEMMA NoMoveBeside ==
  ASSUME NEW s \in StoreScenes, WritersFit(s), MoveFits(s), NEW w \in DOMAIN writer, Busy(w),
         Op(w).where = "bucket"
  PROVE  move.at = "idle" /\ ~AllIn(s, "local") /\ AllIn(s, "bucket")
<1>1. w \in DOMAIN s.ops /\ Op(w) \in OpsOf(s, w) /\ AllIn(s, "bucket")
  BY OpIs
<1>2. ~AllIn(s, "local")
  BY <1>1, OnePlace
<1>3. QED
  BY <1>1, <1>2 DEF MoveFits

\* A key that is touched vouches for nothing any more.
LEMMA TouchFits ==
  ASSUME NEW s \in StoreScenes, StoreFits(s), NEW w \in DOMAIN writer, Busy(w), Touch(w),
         disk' = disk, cloud' = cloud, listed' = listed
  PROVE  /\ ContentsFit(s)' /\ \A k \in DOMAIN s.disk : VouchFits(s, k)'
         /\ vouched'[Op(w).key].op \in {"unknown", "deleting"}
         /\ \A k \in DOMAIN s.disk \ {Op(w).key} : vouched'[k] = vouched[k]
<1> DEFINE key == Op(w).key
<1>1. ContentsFit(s) /\ WritersFit(s) /\ \A k \in DOMAIN s.disk : VouchFits(s, k)
  BY DEF StoreFits
<1>2. key \in DOMAIN s.disk /\ (Op(w).op = "delete" => Deleted(s, key))
  BY <1>1, OpIs
<1>3. DOMAIN vouched = DOMAIN s.disk /\ DOMAIN vouched[key] = {"op", "where"}
  BY <1>1, <1>2 DEF ContentsFit, VouchFits
<1>4. DOMAIN vouched' = DOMAIN vouched /\ \A k \in DOMAIN vouched \ {key} : vouched'[k] = vouched[k]
  BY DEF Touch
<1>5. /\ DOMAIN vouched'[key] = {"op", "where"}
      /\ vouched'[key].op = IF Op(w).op = "delete" \/ vouched[key].op = "deleting"
                            THEN "deleting" ELSE "unknown"
  BY <1>2, <1>3 DEF Touch
<1>6. ContentsFit(s)'
  BY <1>1, <1>4 DEF ContentsFit
<1>7. ASSUME NEW k \in DOMAIN s.disk, k = key
      PROVE  VouchFits(s, k)'
  <2>1. VouchFits(s, k)
    BY <1>1
  <2>2. k \in listed => cloud[k] # {} \/ (vouched'[k].op = "deleting" /\ ~AllIn(s, "local"))
    BY <1>5, <1>7, <2>1 DEF VouchFits
  <2>3. vouched'[k].op = "deleting" => Deleted(s, k)
    BY <1>2, <1>5, <1>7, <2>1 DEF VouchFits
  <2>4. vouched'[k].op \in {"unknown", "deleting"} /\ DOMAIN vouched'[k] = {"op", "where"}
    BY <1>5, <1>7
  <2>5. QED
    BY <2>2, <2>3, <2>4 DEF VouchFits
<1>8. ASSUME NEW k \in DOMAIN s.disk
      PROVE  VouchFits(s, k)'
  <2>1. CASE k = key
    BY <1>7, <2>1
  <2>2. CASE k # key
    <3>1. vouched'[k] = vouched[k] /\ VouchFits(s, k)
      BY <1>1, <1>3, <1>4, <2>2
    <3>2. QED
      BY <3>1, SameKey
  <2>3. QED
    BY <2>1, <2>2
<1>9. QED
  BY <1>3, <1>4, <1>5, <1>6, <1>8

-----------------------------------------------------------------------------
(* Each step of a writer, at its key, keeps the invariant.                 *)

LEMMA KeyStep ==
  ASSUME NEW s \in StoreScenes, StoreFits(s), NEW w \in DOMAIN writer, Busy(w),
         NEW key, key = Op(w).key,
         DOMAIN writer' = DOMAIN writer, \A x \in DOMAIN writer \ {w} : writer'[x] = writer[x],
         DOMAIN disk' = DOMAIN disk, DOMAIN cloud' = DOMAIN cloud, DOMAIN vouched' = DOMAIN vouched,
         \A k \in DOMAIN s.disk \ {key} :
           /\ disk'[k] = disk[k] /\ cloud'[k] = cloud[k] /\ vouched'[k] = vouched[k]
           /\ (k \in listed') <=> (k \in listed),
         listed' \subseteq listed \cup {key},
         disk'[key] \in MayHold(s, key), cloud'[key] \in MayHold(s, key),
         ~AllIn(s, "bucket") => cloud'[key] = cloud[key],
         cloud'[key] = {} => cloud[key] = {} \/ Deleted(s, key),
         move' = move, move.at = "idle" \/ (cloud' = cloud /\ listed' = listed),
         WriterFits(s, w)', VouchFits(s, key)'
  PROVE  StoreFits(s)'
<1>1. ContentsFit(s) /\ WritersFit(s) /\ MoveFits(s) /\ \A k \in DOMAIN s.disk : VouchFits(s, k)
  BY DEF StoreFits
<1>2. key \in DOMAIN s.disk
  BY <1>1, OpIs
<1>3. ContentsFit(s)'
  <2>1. \A k \in DOMAIN s.disk : disk'[k] \in MayHold(s, k) /\ cloud'[k] \in MayHold(s, k)
    BY <1>1 DEF ContentsFit
  <2>2. QED
    BY <1>1, <1>2, <2>1 DEF ContentsFit
<1>4. WritersFit(s)'
  <2>1. ASSUME NEW x \in DOMAIN writer, x # w
        PROVE  WriterFits(s, x)'
    <3>1. w # x /\ writer'[x] = writer[x]
      BY <2>1
    <3>2. \A k \in DOMAIN s.disk \ {Op(w).key} : cloud'[k] = cloud[k] /\ vouched'[k] = vouched[k]
      OBVIOUS
    <3>3. /\ ~AllIn(s, "bucket") => cloud'[Op(w).key] = cloud[Op(w).key]
          /\ cloud'[Op(w).key] = {} => cloud[Op(w).key] = {} \/ Deleted(s, Op(w).key)
      OBVIOUS
    <3>4. QED
      BY <1>1, <3>1, <3>2, <3>3, OtherWriter
  <2>2. \A x \in DOMAIN writer : WriterFits(s, x)'
    BY <2>1
  <2>3. QED
    BY <1>1, <2>2 DEF WritersFit
<1>5. ASSUME NEW k \in DOMAIN s.disk
      PROVE  VouchFits(s, k)'
  <2>1. CASE k # key
    BY <1>1, <2>1, SameKey
  <2>2. QED
    BY <2>1
<1>6. MoveFits(s)'
  BY <1>1, MoveStays
<1>7. QED
  BY <1>3, <1>4, <1>5, <1>6 DEF StoreFits

LEMMA WritePartFits ==
  ASSUME NEW s \in StoreScenes, StoreFits(s), NEW w \in DOMAIN writer, WritePart(w), move' = move
  PROVE  StoreFits(s)'
<1> DEFINE v == Op(w).version
           key == Op(w).key
           next == Scratch(w) \cup {<<v, SizeOf(Scratch(w)) + 1>>}
<1>1. ContentsFit(s) /\ WritersFit(s) /\ MoveFits(s) /\ WriterFits(s, w)
  BY DEF StoreFits, WritersFit
<1>2. Busy(w) /\ writer[w].at = "start" /\ Op(w).op = "put" /\ Touch(w)
      /\ disk' = disk /\ cloud' = cloud /\ listed' = listed
  BY DEF WritePart
<1>3. v \in DOMAIN Version /\ Version[v] \in Nat \ {0} /\ key \in DOMAIN s.disk
  BY <1>1, <1>2, OpIs, StoreAssumption
<1>4. \E n \in 1..Version[v] : next = Part(v, n)
  <2>1. SizeOf(Scratch(w)) < Version[v]
    BY DEF WritePart
  <2>2. CASE Scratch(w) = {}
    <3>1. next = {<<v, 1>>}
      BY <2>2, FS_EmptySet DEF SizeOf
    <3>2. Part(v, 1) = {<<v, 1>>}
      BY DEF Part
    <3>3. QED
      BY <1>3, <3>1, <3>2
  <2>3. CASE Scratch(w) # {}
    <3> PICK n \in 1..Version[v] : Scratch(w) = Part(v, n)
      BY <1>1, <2>3, Zenon DEF WriterFits
    <3>1. n \in Nat
      BY <1>3
    <3>2. SizeOf(Scratch(w)) = n
      BY <3>1, PartSize DEF SizeOf
    <3>3. next = Part(v, n + 1)
      BY <3>1, <3>2 DEF Part
    <3>4. n + 1 \in 1..Version[v]
      BY <1>3, <2>1, <3>2
    <3>5. QED
      BY <3>3, <3>4
  <2>4. QED
    BY <2>2, <2>3
<1> HIDE DEF next
<1>5. /\ writer' = [writer EXCEPT ![w] = [@ EXCEPT !.scratch = next]]
      /\ DOMAIN writer[w] = {"ops", "scratch", "at"}
  BY <1>1 DEF WritePart, WriterFits, next, Scratch
<1>6. /\ DOMAIN writer' = DOMAIN writer /\ \A x \in DOMAIN writer \ {w} : writer'[x] = writer[x]
      /\ DOMAIN writer'[w] = {"ops", "scratch", "at"} /\ writer'[w].ops = writer[w].ops
      /\ writer'[w].scratch = next /\ writer'[w].at = "start"
  BY <1>2, <1>5
<1>7. /\ ContentsFit(s)' /\ \A k \in DOMAIN s.disk : VouchFits(s, k)'
      /\ vouched'[key].op \in {"unknown", "deleting"}
      /\ \A k \in DOMAIN s.disk \ {key} : vouched'[k] = vouched[k]
  BY <1>2, TouchFits
<1>8. WriterFits(s, w)'
  <2>1. Op(w)' = Op(w) /\ Busy(w)' /\ Scratch(w)' = next
    BY <1>2, <1>6 DEF Op, Busy, Scratch
  <2>2. /\ writer[w].ops \in Seq(Operation(DOMAIN s.disk))
        /\ \A i \in 1..Len(writer[w].ops) : writer[w].ops[i] \in OpsOf(s, w)
    BY <1>1, Zenon DEF WriterFits
  <2>3. vouched'[Op(w)'.key].op \in {"unknown", "deleting"}
    BY <1>7, <2>1
  <2>4. Op(w)'.op = "put" /\ \E n \in 1..Version[Op(w)'.version] : next = Part(Op(w)'.version, n)
    BY <1>2, <1>4, <2>1
  <2>5. QED
    BY <1>6, <2>1, <2>2, <2>3, <2>4 DEF WriterFits
<1>9. WritersFit(s)'
  <2>1. ASSUME NEW x \in DOMAIN writer, x # w
        PROVE  WriterFits(s, x)'
    <3>1. w # x /\ writer'[x] = writer[x]
      BY <1>6, <2>1
    <3>2. QED
      BY <1>1, <1>2, <1>7, <3>1, OtherWriter
  <2>2. \A x \in DOMAIN writer : WriterFits(s, x)'
    BY <1>8, <2>1
  <2>3. QED
    BY <1>1, <1>6, <2>2 DEF WritersFit
<1>10. MoveFits(s)'
  BY <1>1, <1>2, MoveStays
<1>11. QED
  BY <1>7, <1>9, <1>10 DEF StoreFits

\* The writer that returns has the next operation before it, and the key is as
\* it left it.
LEMMA ReturnsIs ==
  ASSUME NEW s \in StoreScenes, StoreFits(s), NEW w \in DOMAIN writer, Busy(w), Returns(w)
  PROVE  /\ DOMAIN writer' = DOMAIN writer
         /\ \A x \in DOMAIN writer \ {w} : writer'[x] = writer[x]
         /\ WriterFits(s, w)'
         /\ DOMAIN vouched' = DOMAIN vouched
         /\ vouched'[Op(w).key] = [op |-> Op(w).op, where |-> Op(w).where]
         /\ \A k \in DOMAIN vouched \ {Op(w).key} : vouched'[k] = vouched[k]
<1>1. ContentsFit(s) /\ WritersFit(s)
  BY DEF StoreFits
<1>2. Op(w).key \in DOMAIN vouched
  BY <1>1, OpIs DEF ContentsFit
<1>3. /\ DOMAIN writer' = DOMAIN writer
      /\ \A x \in DOMAIN writer \ {w} : writer'[x] = writer[x]
      /\ writer'[w] = [ops |-> Tail(writer[w].ops), scratch |-> {}, at |-> "start"]
  BY DEF Returns
<1>4. WriterFits(s, w)'
  BY <1>1, <1>3, FreshWriter
<1>5. /\ DOMAIN vouched' = DOMAIN vouched
      /\ vouched'[Op(w).key] = [op |-> Op(w).op, where |-> Op(w).where]
      /\ \A k \in DOMAIN vouched \ {Op(w).key} : vouched'[k] = vouched[k]
  BY <1>2 DEF Returns
<1>6. QED
  BY <1>3, <1>4, <1>5

LEMMA RenameFits ==
  ASSUME NEW s \in StoreScenes, StoreFits(s), NEW w \in DOMAIN writer, Rename(w), move' = move
  PROVE  StoreFits(s)'
<1>1. ContentsFit(s) /\ WritersFit(s) /\ Busy(w) /\ Written(w) /\ Returns(w)
  BY DEF StoreFits, Rename, Written
<1>2. PICK key \in DOMAIN s.disk : key = Op(w).key
  BY <1>1, OpIs
<1>3. /\ DOMAIN writer' = DOMAIN writer /\ \A x \in DOMAIN writer \ {w} : writer'[x] = writer[x]
      /\ WriterFits(s, w)' /\ DOMAIN vouched' = DOMAIN vouched
      /\ vouched'[key] = [op |-> Op(w).op, where |-> Op(w).where]
      /\ \A k \in DOMAIN vouched \ {key} : vouched'[k] = vouched[k]
  BY <1>1, <1>2, ReturnsIs
<1>4. Scratch(w) # {} /\ Scratch(w) \in MayHold(s, key)
  BY <1>1, <1>2, WrittenIsWhole
<1>5. /\ cloud' = cloud /\ listed' = listed /\ DOMAIN disk = DOMAIN s.disk
      /\ DOMAIN disk' = DOMAIN disk /\ disk'[key] = Scratch(w)
      /\ \A k \in DOMAIN s.disk \ {key} : disk'[k] = disk[k]
      /\ DOMAIN vouched = DOMAIN s.disk /\ cloud[key] \in MayHold(s, key)
  BY <1>1, <1>2 DEF Rename, ContentsFit
<1>6. VouchFits(s, key)'
  <2>1. Op(w).op = "put" /\ Op(w).where = "local" /\ AllIn(s, "local")
    BY <1>1, OpIs DEF Written, Rename
  <2>2. vouched'[key].op = "put" /\ vouched'[key].where = "local"
        /\ DOMAIN vouched'[key] = {"op", "where"}
    BY <1>3, <2>1
  <2>3. key \in listed => cloud[key] # {}
    BY <2>1 DEF StoreFits, VouchFits
  <2>4. QED
    BY <1>4, <1>5, <2>1, <2>2, <2>3 DEF VouchFits, IsStored
<1>7. QED
  BY <1>1, <1>2, <1>3, <1>4, <1>5, <1>6, KeyStep

LEMMA PutObjectFits ==
  ASSUME NEW s \in StoreScenes, StoreFits(s), NEW w \in DOMAIN writer, PutObject(w), move' = move
  PROVE  StoreFits(s)'
<1>1. /\ ContentsFit(s) /\ WritersFit(s) /\ MoveFits(s) /\ WriterFits(s, w)
      /\ Busy(w) /\ Written(w) /\ Op(w).op = "put" /\ Op(w).where = "bucket"
  BY DEF StoreFits, PutObject, Written, WritersFit
<1>2. PICK key \in DOMAIN s.disk : key = Op(w).key
  BY <1>1, OpIs
<1>3. move.at = "idle" /\ AllIn(s, "bucket") /\ ~AllIn(s, "local")
  BY <1>1, NoMoveBeside
<1>4. Scratch(w) # {} /\ Scratch(w) \in MayHold(s, key) /\ AtWork(w)
  <2>1. Scratch(w) # {} /\ Scratch(w) \in MayHold(s, key)
    BY <1>1, <1>2, WrittenIsWhole
  <2>2. QED
    BY <2>1 DEF AtWork, Scratch
<1>5. /\ disk' = disk /\ listed' = listed /\ vouched' = vouched
      /\ DOMAIN cloud' = DOMAIN cloud /\ cloud'[key] = Scratch(w)
      /\ \A k \in DOMAIN s.disk \ {key} : cloud'[k] = cloud[k]
      /\ disk[key] \in MayHold(s, key)
      /\ writer' = [writer EXCEPT ![w] = [@ EXCEPT !.at = "register"]]
  BY <1>1, <1>2 DEF PutObject, To, ContentsFit
<1>6. /\ DOMAIN writer' = DOMAIN writer /\ \A x \in DOMAIN writer \ {w} : writer'[x] = writer[x]
      /\ DOMAIN writer'[w] = {"ops", "scratch", "at"} /\ writer'[w].ops = writer[w].ops
      /\ writer'[w].scratch = writer[w].scratch /\ writer'[w].at = "register"
  BY <1>1, <1>5 DEF WriterFits
<1>7. WriterFits(s, w)'
  <2>1. Op(w)' = Op(w) /\ Busy(w)' /\ Scratch(w)' = Scratch(w)
    BY <1>1, <1>6 DEF Op, Busy, Scratch
  <2>2. QED
    BY <1>1, <1>2, <1>4, <1>5, <1>6, <2>1 DEF WriterFits
<1>8. VouchFits(s, key)'
  <2>1. VouchFits(s, key)
    BY DEF StoreFits
  <2>2. vouched[key].op # "delete"
    <3>1. vouched[key].op = "delete" => Deleted(s, key)
      BY <2>1 DEF VouchFits
    <3>2. Deleted(s, key) => vouched[key].op \in {"unknown", "deleting"}
      BY <1>1, <1>2, <1>3, <1>4 DEF WriterFits
    <3>3. QED
      BY <3>1, <3>2
  <2>3. QED
    BY <1>4, <1>5, <2>1, <2>2 DEF VouchFits, IsStored
<1>9. QED
  BY <1>1, <1>2, <1>3, <1>4, <1>5, <1>6, <1>7, <1>8, KeyStep

LEMMA RegisterFits ==
  ASSUME NEW s \in StoreScenes, StoreFits(s), NEW w \in DOMAIN writer, Register(w), move' = move
  PROVE  StoreFits(s)'
<1>1. /\ ContentsFit(s) /\ WritersFit(s) /\ MoveFits(s) /\ WriterFits(s, w)
      /\ Busy(w) /\ Returns(w) /\ writer[w].at = "register"
  BY DEF StoreFits, Register, WritersFit
<1>2. PICK key \in DOMAIN s.disk : key = Op(w).key
  BY <1>1, OpIs
<1>3. Op(w).op = "put" /\ Op(w).where = "bucket" /\ cloud[key] # {}
  BY <1>1, <1>2 DEF WriterFits
<1>4. move.at = "idle" /\ AllIn(s, "bucket")
  BY <1>1, <1>3, NoMoveBeside
<1>5. /\ DOMAIN writer' = DOMAIN writer /\ \A x \in DOMAIN writer \ {w} : writer'[x] = writer[x]
      /\ WriterFits(s, w)' /\ DOMAIN vouched' = DOMAIN vouched
      /\ vouched'[key] = [op |-> Op(w).op, where |-> Op(w).where]
      /\ \A k \in DOMAIN vouched \ {key} : vouched'[k] = vouched[k]
  BY <1>1, <1>2, ReturnsIs
<1>6. /\ disk' = disk /\ cloud' = cloud /\ listed' = listed \cup {key}
      /\ DOMAIN vouched = DOMAIN s.disk
      /\ disk[key] \in MayHold(s, key) /\ cloud[key] \in MayHold(s, key)
  BY <1>1, <1>2 DEF Register, ContentsFit
<1>7. VouchFits(s, key)'
  BY <1>3, <1>4, <1>5, <1>6 DEF VouchFits, IsStored
<1>8. QED
  BY <1>1, <1>2, <1>4, <1>5, <1>6, <1>7, KeyStep

LEMMA DeleteFits ==
  ASSUME NEW s \in StoreScenes, StoreFits(s), NEW w \in DOMAIN writer, Delete(w), move' = move
  PROVE  StoreFits(s)'
<1>1. /\ ContentsFit(s) /\ WritersFit(s) /\ MoveFits(s) /\ WriterFits(s, w)
      /\ Busy(w) /\ Op(w).op = "delete" /\ writer[w].at = "start" /\ listed' = listed
  BY DEF StoreFits, Delete, WritersFit
<1>2. PICK key \in DOMAIN s.disk : key = Op(w).key
  BY <1>1, OpIs
<1>3. /\ Deleted(s, key) /\ AllIn(s, Op(w).where) /\ VouchFits(s, key)
      /\ DOMAIN disk = DOMAIN s.disk /\ DOMAIN cloud = DOMAIN s.disk
      /\ DOMAIN vouched = DOMAIN s.disk /\ {} \in MayHold(s, key)
      /\ disk[key] \in MayHold(s, key) /\ cloud[key] \in MayHold(s, key)
  BY <1>1, <1>2, OpIs DEF StoreFits, ContentsFit, MayHold
<1>4. CASE Op(w).where = "local"
  <2>1. disk' = [disk EXCEPT ![Op(w).key] = {}] /\ Returns(w) /\ cloud' = cloud
    BY <1>4 DEF Delete
  <2>2. /\ DOMAIN writer' = DOMAIN writer
        /\ \A x \in DOMAIN writer \ {w} : writer'[x] = writer[x]
        /\ WriterFits(s, w)' /\ DOMAIN vouched' = DOMAIN vouched
        /\ vouched'[key] = [op |-> Op(w).op, where |-> Op(w).where]
        /\ \A k \in DOMAIN vouched \ {key} : vouched'[k] = vouched[k]
    BY <1>1, <1>2, <2>1, ReturnsIs
  <2>3. /\ DOMAIN disk' = DOMAIN disk /\ disk'[key] = {}
        /\ \A k \in DOMAIN s.disk \ {key} : disk'[k] = disk[k]
    BY <1>2, <1>3, <2>1
  <2>4. VouchFits(s, key)'
    BY <1>1, <1>3, <1>4, <2>1, <2>2, <2>3 DEF VouchFits, IsMissing
  <2>5. QED
    BY <1>1, <1>2, <1>3, <2>1, <2>2, <2>3, <2>4, KeyStep
<1>5. CASE Op(w).where = "bucket"
  <2>1. /\ cloud' = [cloud EXCEPT ![key] = {}] /\ disk' = disk /\ To(w, "unregister") /\ Touch(w)
    BY <1>2, <1>5 DEF Delete
  <2>2. move.at = "idle" /\ AllIn(s, "bucket") /\ ~AllIn(s, "local")
    BY <1>1, <1>5, NoMoveBeside
  <2>3. /\ DOMAIN cloud' = DOMAIN cloud /\ cloud'[key] = {}
        /\ \A k \in DOMAIN s.disk \ {key} : cloud'[k] = cloud[k]
    BY <1>2, <1>3, <2>1
  <2>4. /\ DOMAIN vouched' = DOMAIN vouched
        /\ \A k \in DOMAIN vouched \ {key} : vouched'[k] = vouched[k]
        /\ DOMAIN vouched'[key] = {"op", "where"} /\ vouched'[key].op = "deleting"
    BY <1>1, <1>2, <1>3, <2>1 DEF Touch, VouchFits
  <2>5. /\ DOMAIN writer' = DOMAIN writer
        /\ \A x \in DOMAIN writer \ {w} : writer'[x] = writer[x]
        /\ DOMAIN writer'[w] = {"ops", "scratch", "at"} /\ writer'[w].ops = writer[w].ops
        /\ writer'[w].scratch = writer[w].scratch /\ writer'[w].at = "unregister"
    BY <1>1, <2>1 DEF To, WriterFits
  <2>6. WriterFits(s, w)'
    <3>1. Op(w)' = Op(w) /\ Busy(w)' /\ Scratch(w)' = Scratch(w)
      BY <1>1, <2>5 DEF Op, Busy, Scratch
    <3>2. Scratch(w) = {}
      BY <1>1 DEF WriterFits
    <3>3. QED
      BY <1>1, <1>2, <1>5, <2>3, <2>4, <2>5, <3>1, <3>2 DEF WriterFits
  <2>7. VouchFits(s, key)'
    BY <1>3, <2>2, <2>4 DEF VouchFits
  <2>8. QED
    BY <1>1, <1>2, <1>3, <2>1, <2>2, <2>3, <2>4, <2>5, <2>6, <2>7, KeyStep
<1>6. QED
  BY <1>1, <1>4, <1>5, OpIs

LEMMA UnregisterFits ==
  ASSUME NEW s \in StoreScenes, StoreFits(s), NEW w \in DOMAIN writer, Unregister(w), move' = move
  PROVE  StoreFits(s)'
<1>1. /\ ContentsFit(s) /\ WritersFit(s) /\ MoveFits(s) /\ WriterFits(s, w)
      /\ Busy(w) /\ Returns(w) /\ writer[w].at = "unregister"
  BY DEF StoreFits, Unregister, WritersFit
<1>2. PICK key \in DOMAIN s.disk : key = Op(w).key
  BY <1>1, OpIs
<1>3. Op(w).op = "delete" /\ Op(w).where = "bucket" /\ cloud[key] = {} /\ Deleted(s, key)
  BY <1>1, <1>2, OpIs DEF WriterFits
<1>4. move.at = "idle" /\ AllIn(s, "bucket")
  BY <1>1, <1>3, NoMoveBeside
<1>5. /\ DOMAIN writer' = DOMAIN writer /\ \A x \in DOMAIN writer \ {w} : writer'[x] = writer[x]
      /\ WriterFits(s, w)' /\ DOMAIN vouched' = DOMAIN vouched
      /\ vouched'[key] = [op |-> Op(w).op, where |-> Op(w).where]
      /\ \A k \in DOMAIN vouched \ {key} : vouched'[k] = vouched[k]
  BY <1>1, <1>2, ReturnsIs
<1>6. /\ disk' = disk /\ cloud' = cloud /\ listed' = listed \ {key}
      /\ DOMAIN vouched = DOMAIN s.disk
      /\ disk[key] \in MayHold(s, key) /\ cloud[key] \in MayHold(s, key)
  BY <1>1, <1>2 DEF Unregister, ContentsFit
<1>7. VouchFits(s, key)'
  BY <1>3, <1>4, <1>5, <1>6 DEF VouchFits, IsMissing
<1>8. QED
  BY <1>1, <1>2, <1>3, <1>4, <1>5, <1>6, <1>7, KeyStep

\* A call that fails leaves no scratch, and its key unknown.
LEMMA OperationFailsFits ==
  ASSUME NEW s \in StoreScenes, StoreFits(s), NEW w \in DOMAIN writer, OperationFails(w)
  PROVE  StoreFits(s)'
<1>1. /\ ContentsFit(s) /\ WritersFit(s) /\ MoveFits(s) /\ Busy(w) /\ Touch(w)
      /\ disk' = disk /\ cloud' = cloud /\ listed' = listed /\ move' = move
  BY DEF StoreFits, OperationFails
<1>2. PICK again \in BOOLEAN : writer' = [writer EXCEPT ![w] =
         [ops |-> IF again THEN @.ops ELSE Tail(@.ops), scratch |-> {}, at |-> "start"]]
  BY DEF OperationFails
<1>3. /\ ContentsFit(s)' /\ \A k \in DOMAIN s.disk : VouchFits(s, k)'
      /\ \A k \in DOMAIN s.disk \ {Op(w).key} : vouched'[k] = vouched[k]
  BY <1>1, TouchFits
<1>4. WriterFits(s, w)'
  <2> DEFINE q == IF again THEN writer[w].ops ELSE Tail(writer[w].ops)
  <2>1. writer'[w] = [ops |-> q, scratch |-> {}, at |-> "start"]
    BY <1>2
  <2>2. q = writer[w].ops \/ (Busy(w) /\ q = Tail(writer[w].ops)) \/ q = <<>>
    BY <1>1
  <2> HIDE DEF q
  <2>3. \E p : /\ p = writer[w].ops \/ (Busy(w) /\ p = Tail(writer[w].ops)) \/ p = <<>>
               /\ writer'[w] = [ops |-> p, scratch |-> {}, at |-> "start"]
    BY <2>1, <2>2
  <2>4. PICK p : /\ p = writer[w].ops \/ (Busy(w) /\ p = Tail(writer[w].ops)) \/ p = <<>>
                 /\ writer'[w] = [ops |-> p, scratch |-> {}, at |-> "start"]
    BY <2>3
  <2>5. QED
    BY <1>1, <2>4, FreshWriter
<1>5. WritersFit(s)'
  <2>1. ASSUME NEW x \in DOMAIN writer, x # w
        PROVE  WriterFits(s, x)'
    <3>1. w # x /\ writer'[x] = writer[x]
      BY <1>2, <2>1
    <3>2. QED
      BY <1>1, <1>3, <3>1, OtherWriter
  <2>2. \A x \in DOMAIN writer : WriterFits(s, x)'
    BY <1>4, <2>1
  <2>3. DOMAIN writer' = DOMAIN writer
    BY <1>2
  <2>4. QED
    BY <1>1, <2>2, <2>3 DEF WritersFit
<1>6. MoveFits(s)'
  BY <1>1, MoveStays
<1>7. QED
  BY <1>3, <1>5, <1>6 DEF StoreFits

-----------------------------------------------------------------------------
(* The migration, and the death of the process.                            *)

\* A step of the migration that leaves the bucket alone.
LEMMA MoveOnly ==
  ASSUME NEW s \in StoreScenes, StoreFits(s), MoveFits(s)',
         disk' = disk, cloud' = cloud, listed' = listed, writer' = writer, vouched' = vouched
  PROVE  StoreFits(s)'
<1>1. ContentsFit(s)'
  BY DEF StoreFits, ContentsFit
<1>2. WritersFit(s)'
  <2>1. ASSUME NEW x \in DOMAIN writer
        PROVE  WriterFits(s, x)'
    <3>1. WriterFits(s, x)
      BY DEF StoreFits, WritersFit
    <3>2. QED
      BY <3>1 DEF WriterFits, Op, Scratch, Busy, AtWork
  <2>2. QED
    BY <2>1 DEF StoreFits, WritersFit
<1>3. \A k \in DOMAIN s.disk : VouchFits(s, k)'
  BY SameKey DEF StoreFits
<1>4. QED
  BY <1>1, <1>2, <1>3 DEF StoreFits

\* One that writes or lists the object of one key: nobody writes the bucket then.
LEMMA MoveUp ==
  ASSUME NEW s \in StoreScenes, StoreFits(s), MoveFits(s)', NEW key \in DOMAIN s.disk,
         AllIn(s, "local"),
         disk' = disk, writer' = writer, vouched' = vouched,
         DOMAIN cloud' = DOMAIN cloud, \A k \in DOMAIN s.disk \ {key} : cloud'[k] = cloud[k],
         cloud'[key] \in MayHold(s, key), cloud'[key] # {},
         listed' = listed \/ listed' = listed \cup {key}
  PROVE  StoreFits(s)'
<1>1. ContentsFit(s) /\ WritersFit(s) /\ \A k \in DOMAIN s.disk : VouchFits(s, k)
  BY DEF StoreFits
<1>2. ContentsFit(s)'
  BY <1>1 DEF ContentsFit
<1>3. WritersFit(s)'
  <2>1. ASSUME NEW x \in DOMAIN writer
        PROVE  WriterFits(s, x)'
    <3>1. WriterFits(s, x)
      BY <1>1 DEF WritersFit
    <3>2. writer[x].at = "start"
      <4>1. writer[x].at # "start" => Busy(x) /\ Op(x).where = "bucket"
        BY <3>1 DEF WriterFits, AtWork
      <4>2. Busy(x) => Op(x).where = "local"
        BY <1>1, OpIs, OnePlace
      <4>3. QED
        BY <4>1, <4>2
    <3>3. AtWork(x) /\ AllIn(s, "bucket") /\ Deleted(s, Op(x).key) =>
            vouched'[Op(x).key].op \in {"unknown", "deleting"}
      BY <3>1 DEF WriterFits
    <3>4. QED
      BY <3>1, <3>2, <3>3, SameWriter
  <2>2. QED
    BY <1>1, <2>1 DEF WritersFit
<1>4. ASSUME NEW k \in DOMAIN s.disk
      PROVE  VouchFits(s, k)'
  <2>1. CASE k # key
    BY <1>1, <2>1, SameKey
  <2>2. CASE k = key
    <3>1. VouchFits(s, k)
      BY <1>1
    <3>2. vouched[k].op = "delete" => vouched[k].where # "bucket"
      BY <3>1, DeletedInOne DEF VouchFits
    <3>3. QED
      BY <2>2, <3>1, <3>2 DEF VouchFits, IsStored, IsMissing
  <2>3. QED
    BY <2>1, <2>2
<1>5. QED
  BY <1>2, <1>3, <1>4 DEF StoreFits

MoveFields == {"at", "todo", "scanned", "key", "bytes", "worked", "failures", "sampled",
               "mismatches"}

\* What there is of a key with the size of the file is the file.
LEMMA SameSize ==
  ASSUME NEW s \in StoreScenes, ContentsFit(s), s.move # "idle", NEW k \in DOMAIN s.disk,
         disk[k] # {}, SizeOf(cloud[k]) = SizeOf(disk[k])
  PROVE  cloud[k] = disk[k]
<1>1. disk[k] \in MayHold(s, k) /\ cloud[k] \in MayHold(s, k)
  BY DEF ContentsFit
<1>2. PICK v \in VersionsOf(s, k) : disk[k] = Whole(v)
  BY <1>1 DEF MayHold
<1>3. v \in DOMAIN Version
  BY DEF VersionsOf
<1>4. cloud[k] # {}
  BY <1>2, <1>3, WholeSize, StoreAssumption
<1>5. PICK u \in VersionsOf(s, k) : cloud[k] = Whole(u)
  BY <1>1, <1>4 DEF MayHold
<1>6. u \in DOMAIN Version
  BY DEF VersionsOf
<1>7. Version[u] = Version[v]
  BY <1>2, <1>3, <1>5, <1>6, WholeSize
<1>8. u = v
  BY <1>7, SceneFacts, Zenon
<1>9. QED
  BY <1>2, <1>5, <1>8

LEMMA ListTreeFits ==
  ASSUME NEW s \in StoreScenes, StoreFits(s), ListTree
  PROVE  MoveFits(s)'
<1>1. MoveFits(s) /\ DOMAIN disk = DOMAIN s.disk
  BY DEF StoreFits, ContentsFit
<1>2. move.at = "start"
  BY DEF ListTree, AtMove
<1> DEFINE there == {k \in Keys : disk[k] # {}}
           none == [k \in Keys |-> {}]
<1>3. move' = [at |-> "next", todo |-> there, scanned |-> there, key |-> "none",
               bytes |-> {}, worked |-> none, failures |-> {}, sampled |-> {}, mismatches |-> {}]
  BY DEF ListTree
<1>4. there \subseteq DOMAIN s.disk /\ DOMAIN none = DOMAIN s.disk
  BY <1>1 DEF Keys
<1> HIDE DEF there, none
<1>5. /\ move'.at = "next" /\ move'.todo = there /\ move'.scanned = there
      /\ move'.worked = none /\ DOMAIN move' = MoveFields
  BY <1>3 DEF MoveFields
<1>6. QED
  BY <1>1, <1>2, <1>4, <1>5 DEF MoveFits, Moving, MoveFields

LEMMA CompareFits ==
  ASSUME NEW s \in StoreScenes, StoreFits(s), Compare
  PROVE  MoveFits(s)'
<1>1. ContentsFit(s) /\ MoveFits(s) /\ move.at = "next" /\ cloud' = cloud /\ listed' = listed
  BY DEF StoreFits, Compare, AtMove
<1>2. PICK k \in move.todo :
        LET step == IF disk[k] = {} THEN "vanished"
                    ELSE IF SizeOf(cloud[k]) = SizeOf(disk[k]) THEN "refresh" ELSE "upload"
        IN move' = [move EXCEPT !.key = k, !.todo = @ \ {k}, !.bytes = disk[k],
             !.at = IF step = "vanished" THEN "next" ELSE step,
             !.failures = IF step = "vanished" THEN @ \cup {k} ELSE @]
  BY DEF Compare
<1>3. /\ DOMAIN move = MoveFields /\ s.move = "start" /\ AllIn(s, "local") /\ Moving
      /\ k \in DOMAIN s.disk /\ k \in move.scanned
  BY <1>1 DEF MoveFits, Moving, MoveFields
<1>4. /\ DOMAIN move' = DOMAIN move /\ move'.key = k /\ move'.todo = move.todo \ {k}
      /\ move'.bytes = disk[k] /\ move'.scanned = move.scanned /\ move'.worked = move.worked
  BY <1>2, <1>3 DEF MoveFields
<1>5. \/ disk[k] = {} /\ move'.at = "next" /\ move'.failures = move.failures \cup {k}
      \/ /\ disk[k] # {} /\ move'.failures = move.failures
         /\ \/ move'.at = "refresh" /\ SizeOf(cloud[k]) = SizeOf(disk[k])
            \/ move'.at = "upload"
  BY <1>2, <1>3 DEF MoveFields
<1>6. move'.at = "refresh" => cloud[k] = disk[k] /\ disk[k] # {}
  BY <1>1, <1>3, <1>5, SameSize
<1>7. QED
  BY <1>1, <1>3, <1>4, <1>5, <1>6 DEF MoveFits, Moving, MoveFields

LEMMA RefreshFits ==
  ASSUME NEW s \in StoreScenes, StoreFits(s), Refresh
  PROVE  MoveFits(s)' /\ move.key \in DOMAIN s.disk /\ cloud[move.key] # {} /\ AllIn(s, "local")
<1>1. ContentsFit(s) /\ MoveFits(s) /\ move.at = "refresh" /\ cloud' = cloud
      /\ listed' = listed \cup {move.key} /\ move' = Moved
  BY DEF StoreFits, Refresh, AtMove
<1>2. /\ DOMAIN move = MoveFields /\ s.move = "start" /\ AllIn(s, "local") /\ Moving
      /\ move.key \in move.scanned /\ move.scanned \subseteq DOMAIN s.disk
      /\ DOMAIN move.worked = DOMAIN s.disk
      /\ cloud[move.key] = move.bytes /\ move.bytes # {}
  BY <1>1 DEF MoveFits, Moving, MoveFields
<1>3. /\ DOMAIN move' = DOMAIN move /\ move'.at = "next" /\ move'.todo = move.todo
      /\ move'.scanned = move.scanned /\ move'.failures = move.failures
      /\ move'.worked = [move.worked EXCEPT ![move.key] = move.bytes]
  BY <1>1, <1>2 DEF Moved, MoveFields
<1>4. /\ DOMAIN move'.worked = DOMAIN s.disk /\ move'.worked[move.key] = move.bytes
      /\ \A k \in DOMAIN s.disk \ {move.key} : move'.worked[k] = move.worked[k]
  BY <1>2, <1>3
<1>5. MoveFits(s)'
  BY <1>1, <1>2, <1>3, <1>4 DEF MoveFits, Moving, MoveFields
<1>6. QED
  BY <1>2, <1>5

LEMMA CopyUpFits ==
  ASSUME NEW s \in StoreScenes, StoreFits(s), CopyUp
  PROVE  /\ MoveFits(s)' /\ move.key \in DOMAIN s.disk /\ AllIn(s, "local")
         /\ \/ cloud' = cloud
            \/ disk[move.key] # {} /\ cloud' = [cloud EXCEPT ![move.key] = disk[move.key]]
<1>1. ContentsFit(s) /\ MoveFits(s) /\ move.at = "upload" /\ listed' = listed
  BY DEF StoreFits, CopyUp, AtMove
<1>2. /\ DOMAIN move = MoveFields /\ s.move = "start" /\ AllIn(s, "local") /\ Moving
      /\ move.key \in move.scanned /\ move.scanned \subseteq DOMAIN s.disk
  BY <1>1 DEF MoveFits, Moving, MoveFields
<1>3. CASE disk[move.key] = {}
  <2>1. move' = [move EXCEPT !.at = "next", !.failures = @ \cup {move.key}] /\ cloud' = cloud
    BY <1>3 DEF CopyUp
  <2>2. /\ DOMAIN move' = DOMAIN move /\ move'.at = "next" /\ move'.todo = move.todo
        /\ move'.scanned = move.scanned /\ move'.failures = move.failures \cup {move.key}
        /\ move'.worked = move.worked
    BY <1>2, <2>1 DEF MoveFields
  <2>3. MoveFits(s)'
    BY <1>1, <1>2, <2>1, <2>2 DEF MoveFits, Moving, MoveFields
  <2>4. QED
    BY <1>2, <2>1, <2>3
<1>4. CASE disk[move.key] # {}
  <2>1. /\ cloud' = [cloud EXCEPT ![move.key] = disk[move.key]]
        /\ move' = [move EXCEPT !.at = "refresh", !.bytes = disk[move.key]]
    BY <1>4 DEF CopyUp
  <2>2. /\ DOMAIN move' = DOMAIN move /\ move'.at = "refresh" /\ move'.todo = move.todo
        /\ move'.scanned = move.scanned /\ move'.failures = move.failures
        /\ move'.worked = move.worked /\ move'.key = move.key /\ move'.bytes = disk[move.key]
    BY <1>2, <2>1 DEF MoveFields
  <2>3. /\ cloud'[move.key] = disk[move.key]
        /\ \A k \in DOMAIN s.disk \ {move.key} : cloud'[k] = cloud[k]
    BY <1>1, <1>2, <2>1 DEF ContentsFit
  <2>4. MoveFits(s)'
    BY <1>1, <1>2, <1>4, <2>2, <2>3 DEF MoveFits, Moving, MoveFields
  <2>5. QED
    BY <1>2, <1>4, <2>1, <2>4
<1>5. QED
  BY <1>3, <1>4

LEMMA MoveStepFits ==
  ASSUME NEW s \in StoreScenes, StoreFits(s), MoveStep
  PROVE  StoreFits(s)'
<1>1. /\ disk' = disk /\ writer' = writer /\ vouched' = vouched
      /\ ContentsFit(s) /\ MoveFits(s)
  BY DEF MoveStep, StoreFits
<1>2. CASE ListTree
  BY <1>1, <1>2, ListTreeFits, MoveOnly DEF ListTree
<1>3. CASE Compare
  BY <1>1, <1>3, CompareFits, MoveOnly DEF Compare
<1>4. CASE Refresh
  <2>1. /\ MoveFits(s)' /\ move.key \in DOMAIN s.disk /\ cloud[move.key] # {}
        /\ AllIn(s, "local")
    BY <1>4, RefreshFits
  <2>2. PICK key \in DOMAIN s.disk : key = move.key
    BY <2>1
  <2>3. /\ cloud' = cloud /\ listed' = listed \cup {key} /\ cloud'[key] \in MayHold(s, key)
    BY <1>1, <1>4, <2>2 DEF Refresh, ContentsFit
  <2>4. QED
    BY <1>1, <2>1, <2>2, <2>3, MoveUp
<1>5. CASE CopyUp
  <2>1. /\ MoveFits(s)' /\ move.key \in DOMAIN s.disk /\ AllIn(s, "local") /\ listed' = listed
        /\ \/ cloud' = cloud
           \/ disk[move.key] # {} /\ cloud' = [cloud EXCEPT ![move.key] = disk[move.key]]
    BY <1>5, CopyUpFits DEF CopyUp
  <2>2. CASE cloud' = cloud
    BY <1>1, <2>1, <2>2, MoveOnly
  <2>3. CASE disk[move.key] # {} /\ cloud' = [cloud EXCEPT ![move.key] = disk[move.key]]
    <3>1. PICK key \in DOMAIN s.disk : key = move.key
      BY <2>1
    <3>2. /\ DOMAIN cloud' = DOMAIN cloud /\ \A k \in DOMAIN s.disk \ {key} : cloud'[k] = cloud[k]
          /\ cloud'[key] \in MayHold(s, key) /\ cloud'[key] # {}
      BY <1>1, <2>3, <3>1 DEF ContentsFit
    <3>3. QED
      BY <1>1, <2>1, <3>2, MoveUp
  <2>4. QED
    BY <2>1, <2>2, <2>3
<1>6. CASE Verify
  <2>1. PICK k \in move.scanned \ move.sampled :
          move' = [move EXCEPT !.sampled = @ \cup {k},
            !.mismatches = IF disk[k] # {} /\ cloud[k] = disk[k] THEN @ ELSE @ \cup {k}]
    BY <1>6 DEF Verify
  <2>2. move.at = "next" /\ cloud' = cloud /\ listed' = listed /\ DOMAIN move = MoveFields
    BY <1>1, <1>6 DEF Verify, AtMove, MoveFits, MoveFields
  <2>3. /\ DOMAIN move' = DOMAIN move /\ move'.at = "next" /\ move'.todo = move.todo
        /\ move'.scanned = move.scanned /\ move'.failures = move.failures
        /\ move'.worked = move.worked
    BY <2>1, <2>2 DEF MoveFields
  <2>4. MoveFits(s)'
    BY <1>1, <2>2, <2>3 DEF MoveFits, Moving, MoveFields
  <2>5. QED
    BY <1>1, <2>2, <2>4, MoveOnly
<1>7. CASE Summarize
  <2>1. /\ move.at = "next" /\ move.todo = {} /\ cloud' = cloud /\ listed' = listed
        /\ DOMAIN move = MoveFields /\ move' = [move EXCEPT !.at = "done"]
    BY <1>1, <1>7 DEF Summarize, AtMove, MoveFits, MoveFields
  <2>2. /\ DOMAIN move' = DOMAIN move /\ move'.at = "done" /\ move'.todo = move.todo
        /\ move'.scanned = move.scanned /\ move'.failures = move.failures
        /\ move'.worked = move.worked
    BY <2>1 DEF MoveFields
  <2>3. MoveFits(s)'
    BY <1>1, <2>1, <2>2 DEF MoveFits, Moving, MoveFields
  <2>4. QED
    BY <1>1, <2>1, <2>3, MoveOnly
<1>8. CASE RunAgain
  <2>1. /\ move.at = "done" /\ cloud' = cloud /\ listed' = listed
        /\ DOMAIN move = MoveFields /\ move' = [move EXCEPT !.at = "start"]
    BY <1>1, <1>8 DEF RunAgain, AtMove, MoveFits, MoveFields
  <2>2. DOMAIN move' = DOMAIN move /\ move'.at = "start"
    BY <2>1 DEF MoveFields
  <2>3. MoveFits(s)'
    BY <1>1, <2>1, <2>2 DEF MoveFits, Moving, MoveFields
  <2>4. QED
    BY <1>1, <2>1, <2>3, MoveOnly
<1>9. QED
  BY <1>2, <1>3, <1>4, <1>5, <1>6, <1>7, <1>8 DEF MoveStep

LEMMA MoveFailsFits ==
  ASSUME NEW s \in StoreScenes, StoreFits(s), MoveFails
  PROVE  StoreFits(s)'
<1>1. /\ move.at \in {"refresh", "upload"} /\ MoveFits(s)
      /\ disk' = disk /\ cloud' = cloud /\ listed' = listed /\ writer' = writer
      /\ vouched' = vouched
      /\ move' = [move EXCEPT !.at = "next", !.failures = @ \cup {move.key}]
  BY DEF MoveFails, StoreFits
<1>2. DOMAIN move = MoveFields
  BY <1>1 DEF MoveFits, MoveFields
<1>3. /\ DOMAIN move' = DOMAIN move /\ move'.at = "next" /\ move'.todo = move.todo
      /\ move'.scanned = move.scanned /\ move'.failures = move.failures \cup {move.key}
      /\ move'.worked = move.worked
  BY <1>1, <1>2 DEF MoveFields
<1>4. MoveFits(s)'
  BY <1>1, <1>2, <1>3 DEF MoveFits, Moving, MoveFields
<1>5. QED
  BY <1>1, <1>4, MoveOnly

LEMMA ProcessEndsFits ==
  ASSUME NEW s \in StoreScenes, StoreFits(s), ProcessEnds
  PROVE  StoreFits(s)'
<1>1. /\ ContentsFit(s) /\ WritersFit(s) /\ MoveFits(s) /\ \A k \in DOMAIN s.disk : VouchFits(s, k)
      /\ disk' = disk /\ cloud' = cloud /\ listed' = listed /\ vouched' = vouched
      /\ writer' = [w \in DOMAIN writer |->
           [ops |-> IF Busy(w) THEN Tail(writer[w].ops) ELSE <<>>, scratch |-> {}, at |-> "start"]]
      /\ move' = IF move.at \in {"idle", "done"} THEN move ELSE [move EXCEPT !.at = "start"]
  BY DEF StoreFits, ProcessEnds
<1>2. ContentsFit(s)'
  BY <1>1 DEF ContentsFit
<1>3. WritersFit(s)'
  <2>1. ASSUME NEW w \in DOMAIN writer
        PROVE  WriterFits(s, w)'
    <3> DEFINE q == IF Busy(w) THEN Tail(writer[w].ops) ELSE <<>>
    <3>1. writer'[w] = [ops |-> q, scratch |-> {}, at |-> "start"]
      BY <1>1
    <3>2. q = writer[w].ops \/ (Busy(w) /\ q = Tail(writer[w].ops)) \/ q = <<>>
      OBVIOUS
    <3> HIDE DEF q
    <3>3. \E p : /\ p = writer[w].ops \/ (Busy(w) /\ p = Tail(writer[w].ops)) \/ p = <<>>
                 /\ writer'[w] = [ops |-> p, scratch |-> {}, at |-> "start"]
      BY <3>1, <3>2
    <3>4. PICK p : /\ p = writer[w].ops \/ (Busy(w) /\ p = Tail(writer[w].ops)) \/ p = <<>>
                   /\ writer'[w] = [ops |-> p, scratch |-> {}, at |-> "start"]
      BY <3>3
    <3>5. QED
      BY <1>1, <3>4, FreshWriter
  <2>2. DOMAIN writer' = DOMAIN writer
    BY <1>1
  <2>3. QED
    BY <1>1, <2>1, <2>2 DEF WritersFit
<1>4. MoveFits(s)'
  <2>1. CASE move' = move
    BY <1>1, <2>1, MoveStays
  <2>2. CASE move.at \notin {"idle", "done"} /\ move' = [move EXCEPT !.at = "start"]
    <3>1. DOMAIN move = MoveFields
      BY <1>1 DEF MoveFits, MoveFields
    <3>2. DOMAIN move' = DOMAIN move /\ move'.at = "start"
      BY <2>2, <3>1 DEF MoveFields
    <3>3. QED
      BY <1>1, <2>2, <3>2 DEF MoveFits, Moving
  <2>3. QED
    BY <1>1, <2>1, <2>2
<1>5. \A k \in DOMAIN s.disk : VouchFits(s, k)'
  BY <1>1, SameKey
<1>6. QED
  BY <1>2, <1>3, <1>4, <1>5 DEF StoreFits

LEMMA StoreStartFits ==
  ASSUME NEW s \in StoreScenes, StoreStart(s)
  PROVE  StoreFits(s)
<1>1. ContentsFit(s)
  <2>1. \A k \in DOMAIN s.disk : s.disk[k] \in MayHold(s, k)
    <3> TAKE k \in DOMAIN s.disk
    <3>1. s.disk[k] = {} \/ \E v \in DOMAIN Version : s.disk[k] = Whole(v)
      BY SceneFacts
    <3>2. \A v \in DOMAIN Version : s.disk[k] = Whole(v) => v \in VersionsOf(s, k)
      BY DEF VersionsOf
    <3>3. QED
      BY <3>1, <3>2 DEF MayHold
  <2>2. \A k \in DOMAIN s.disk : {} \in MayHold(s, k)
    BY DEF MayHold
  <2>3. QED
    BY <2>1, <2>2 DEF StoreStart, ContentsFit
<1>2. WritersFit(s)
  <2>1. DOMAIN writer = DOMAIN s.ops
    BY DEF StoreStart
  <2>2. ASSUME NEW w \in DOMAIN s.ops
        PROVE  WriterFits(s, w)
    <3>1. writer[w] = [ops |-> s.ops[w], scratch |-> {}, at |-> "start"]
      BY DEF StoreStart
    <3>2. s.ops[w] \in Seq(Operation(DOMAIN s.disk))
      BY SceneFacts
    <3>3. \A i \in 1..Len(s.ops[w]) : s.ops[w][i] \in OpsOf(s, w)
      BY <3>2 DEF OpsOf
    <3>4. /\ DOMAIN writer[w] = {"ops", "scratch", "at"} /\ writer[w].ops = s.ops[w]
          /\ writer[w].at = "start" /\ Scratch(w) = {} /\ ~AtWork(w)
      BY <3>1 DEF Scratch, AtWork
    <3>5. QED
      BY <3>2, <3>3, <3>4 DEF WriterFits
  <2>3. QED
    BY <2>1, <2>2 DEF WritersFit
<1>3. MoveFits(s)
  <2>1. DOMAIN move = MoveFields /\ move.at = s.move
    BY DEF StoreStart, MoveFields
  <2>2. s.move \in {"idle", "start"} /\ (s.move = "start" => AllIn(s, "local"))
    BY SceneFacts
  <2>3. QED
    BY <2>1, <2>2 DEF MoveFits, Moving, MoveFields
<1>4. \A k \in DOMAIN s.disk : VouchFits(s, k)
  BY DEF StoreStart, VouchFits
<1>5. QED
  BY <1>1, <1>2, <1>3, <1>4 DEF StoreFits

LEMMA StoreNextFits ==
  ASSUME NEW s \in StoreScenes, StoreFits(s), [StoreNext]_storeVars
  PROVE  StoreFits(s)'
<1>1. ASSUME NEW w \in DOMAIN writer, WriterStep(w)
      PROVE  StoreFits(s)'
  BY <1>1, WritePartFits, RenameFits, PutObjectFits, RegisterFits, DeleteFits, UnregisterFits
     DEF WriterStep
<1>2. ASSUME NEW w \in DOMAIN writer, OperationFails(w)
      PROVE  StoreFits(s)'
  BY <1>2, OperationFailsFits
<1>3. CASE UNCHANGED storeVars
  <2>1. MoveFits(s)'
    BY <1>3, MoveStays DEF StoreFits, storeVars
  <2>2. QED
    BY <1>3, <2>1, MoveOnly DEF storeVars
<1>4. QED
  BY <1>1, <1>2, <1>3, MoveStepFits, MoveFailsFits, ProcessEndsFits DEF StoreNext

LEMMA FitsIsSound ==
  ASSUME NEW s \in StoreScenes, StoreFits(s)
  PROVE  StoreIsSound
<1>1. ContentsFit(s) /\ MoveFits(s) /\ \A k \in DOMAIN s.disk : VouchFits(s, k)
  BY DEF StoreFits
<1>2. ASSUME NEW k, NEW c \in MayHold(s, k)
      PROVE  IsWhole(c)
  BY DEF MayHold, VersionsOf, IsWhole
<1>3. StoreIsHonest
  <2> SUFFICES ASSUME NEW k \in DOMAIN s.disk
               PROVE  /\ IsWhole(disk[k]) /\ IsWhole(cloud[k])
                      /\ k \in listed => cloud[k] # {} \/ vouched[k].op = "deleting"
                      /\ vouched[k].op = "put" => IsStored(k, vouched[k].where)
                      /\ vouched[k].op = "delete" => IsMissing(k, vouched[k].where)
    BY <1>1 DEF StoreIsHonest, Keys, ContentsFit
  <2>1. IsWhole(disk[k]) /\ IsWhole(cloud[k])
    BY <1>1, <1>2 DEF ContentsFit
  <2>2. QED
    BY <1>1, <2>1 DEF VouchFits
<1>4. MigratedIsWhole
  BY <1>1 DEF MigratedIsWhole, MoveFits, Moving, AtMove
<1>5. QED
  BY <1>3, <1>4 DEF StoreIsSound

\* Whatever the writers do at once, whichever calls fail and whenever the
\* process dies: no reader sees a torn or a mixed artifact, the index lists
\* only what is there, what a put or a delete returned holds, and a migration
\* that reports neither a failure nor a mismatch has everything in the bucket
\* (lib/ArtifactStore, lib/MigrateArtifacts).
THEOREM StoreHolds == StoreSpec => []StoreIsSound
<1>1. (\E s \in StoreScenes : StoreStart(s)) => StoreInv
  BY StoreStartFits DEF StoreInv
<1>2. StoreInv /\ [StoreNext]_storeVars => StoreInv'
  BY StoreNextFits DEF StoreInv
<1>3. StoreInv => StoreIsSound
  BY FitsIsSound DEF StoreInv
<1>4. QED
  BY <1>1, <1>2, <1>3, PTL DEF StoreSpec
=============================================================================
