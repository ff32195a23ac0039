------------------------- MODULE NormalizeStageProofs -------------------------
(***************************************************************************)
(* What media-normalize guarantees, for every shelf of captures, every set *)
(* of scenes and budget of deaths, failed calls and bad outputs: what is   *)
(* called completed is complete, the shadow audit agrees, and the cron     *)
(* alone pays for no more assemblies than the cap.  And what the archive   *)
(* sweep does, for every catalog: its receipts are only of what it copied. *)
(***************************************************************************)
EXTENDS NormalizeStage, ArchiveSweep, FiniteSetTheorems, SequenceTheorems, TLAPS

-----------------------------------------------------------------------------
WorkField == {"at", "settled", "manifest", "receipt", "job"}
Spoken == {"image", "opaque"}

Bought(c, id, as) == id \in DOMAIN as /\ as[id].capture = c
Ended(c, id, as)  == Bought(c, id, as) /\ as[id].state = "completed"
Again(c, as) == \E i, j \in DOMAIN as : i # j /\ Bought(c, i, as) /\ Bought(c, j, as)

\* A receipt names assemblies of its capture, at most as many as the cap.
ReceiptFits(c, r, as) ==
  /\ DOMAIN r = {"phase", "assembly", "previous"}
  /\ r.phase \in {"none", "legacy", "chunks", "completed"}
  /\ r.previous \in Seq(Nat) /\ Len(r.previous) + 1 <= MaxChunkAttempts
  /\ r.phase # "none" => Bought(c, r.assembly, as)
  /\ r.phase = "completed" => Ended(c, r.assembly, as)
  /\ r.phase = "legacy" => r.previous = << >>

Whole(st) == st.names = Grid /\ st.empty = {}
Covered(st) == Grid \subseteq st.names \ st.empty

\* A manifest is of the capture's own bytes, or of chunks that are there
\* unless another assembly was paid for.
ManifestFits(c, k, m, r, as, st) ==
  /\ m \in {"none", "whole", "chunks"}
  /\ m = "whole" => k = "direct"
  /\ m = "chunks" => r.phase # "none"
  /\ m = "chunks" /\ k # "bare" =>
       (\E id \in DOMAIN as : Ended(c, id, as)) /\ (Covered(st) \/ Again(c, as))
  /\ r.phase = "completed" /\ k # "healable" => m # "none"
  /\ k \in Spoken => m = "none" /\ r.phase = "none"

WorkFits(c, k, w, m, r, as, st) ==
  /\ DOMAIN w = WorkField
  /\ w.at \in WorkPoint
  /\ k \in Spoken => w.at \in {"idle", "manifest?", "receipt?"}
  /\ w.at = "whole!" => k = "direct"
  /\ w.at \in {"poll", "list", "chunks!", "finish!"} =>
       /\ ReceiptFits(c, w.receipt, as) /\ w.receipt.phase # "none"
       /\ r.phase # "none"
  /\ w.at \in {"list", "chunks!", "finish!"} => Ended(c, w.receipt.assembly, as)
  /\ w.at = "chunks!" => Whole(st) \/ Again(c, as)
  /\ w.at = "finish!" => m # "none"
  /\ w.at \in {"create", "receipt!"} =>
       /\ DOMAIN w.job = {"phase", "assembly", "previous"}
       /\ w.job.phase = "chunks" 
       /\ w.job.previous \in Seq(Nat) /\ Len(w.job.previous) + 1 <= MaxChunkAttempts
  /\ w.at = "receipt!" => Bought(c, w.job.assembly, as)

NormInv ==
  /\ DOMAIN kind = Shelved /\ DOMAIN manifest = Shelved /\ DOMAIN receipt = Shelved
  /\ DOMAIN stored = Shelved
  /\ assemblies \in Seq([capture : Shelved, state : {"running", "completed", "failed"}])
  /\ \A c \in Shelved :
       /\ DOMAIN stored[c] = {"names", "empty"}
       /\ ReceiptFits(c, receipt[c], assemblies)
       /\ ManifestFits(c, kind[c], manifest[c], receipt[c], assemblies, stored[c])
  /\ \A p \in Passes : DOMAIN item[p] = Shelved /\ \A c \in Shelved :
       WorkFits(c, kind[c], item[p][c], manifest[c], receipt[c], assemblies, stored[c])


-----------------------------------------------------------------------------
Assembly == [capture : Shelved, state : {"running", "completed", "failed"}]

\* What a step leaves of a capture: manifests stay, receipts stay, and what was
\* bought or has ended did; a stored chunk changes only by one assembly of two.
Later(c) ==
  /\ kind'[c] = kind[c]
  /\ manifest[c] # "none" => manifest'[c] # "none"
  /\ receipt[c].phase # "none" => receipt'[c].phase # "none"
  /\ \A id : Bought(c, id, assemblies) => Bought(c, id, assemblies')
  /\ \A id : Ended(c, id, assemblies) => Ended(c, id, assemblies')
  /\ \/ stored'[c] = stored[c]
     \/ (\E id \in DOMAIN assemblies : Ended(c, id, assemblies)) => Again(c, assemblies')

LEMMA AgainStays ==
  ASSUME NEW c, Later(c), Again(c, assemblies)
  PROVE  Again(c, assemblies')
<1>1. PICK i, j \in DOMAIN assemblies : i # j /\ Bought(c, i, assemblies) /\ Bought(c, j, assemblies)
  BY DEF Again
<1>2. Bought(c, i, assemblies') /\ Bought(c, j, assemblies')
  BY <1>1 DEF Later
<1> QED
  BY <1>1, <1>2 DEF Again, Bought

LEMMA ReceiptStays ==
  ASSUME NEW c, Later(c), NEW r, ReceiptFits(c, r, assemblies)
  PROVE  ReceiptFits(c, r, assemblies')
  BY DEF Later, ReceiptFits

LEMMA ManifestStays ==
  ASSUME NEW c, Later(c), manifest'[c] = manifest[c], receipt'[c] = receipt[c],
         ManifestFits(c, kind[c], manifest[c], receipt[c], assemblies, stored[c])
  PROVE  ManifestFits(c, kind'[c], manifest'[c], receipt'[c], assemblies', stored'[c])
<1>1. ASSUME manifest[c] = "chunks", kind[c] # "bare"
      PROVE  /\ \E id \in DOMAIN assemblies' : Ended(c, id, assemblies')
             /\ Covered(stored'[c]) \/ Again(c, assemblies')
  <2>1. PICK id \in DOMAIN assemblies : Ended(c, id, assemblies)
    BY <1>1 DEF ManifestFits
  <2>2. Ended(c, id, assemblies')
    BY <2>1 DEF Later
  <2>3. Covered(stored[c]) \/ Again(c, assemblies)
    BY <1>1 DEF ManifestFits
  <2> QED
    BY <2>1, <2>2, <2>3, AgainStays DEF Later, Ended, Bought
<1> QED
  BY <1>1 DEF ManifestFits, Later

LEMMA WorkStays ==
  ASSUME NEW c, Later(c), NEW w,
         WorkFits(c, kind[c], w, manifest[c], receipt[c], assemblies, stored[c])
  PROVE  WorkFits(c, kind'[c], w, manifest'[c], receipt'[c], assemblies', stored'[c])
<1>1. ReceiptFits(c, w.receipt, assemblies) => ReceiptFits(c, w.receipt, assemblies')
  BY ReceiptStays
<1>2. Ended(c, w.receipt.assembly, assemblies) => Ended(c, w.receipt.assembly, assemblies')
  BY DEF Later
<1>3. Bought(c, w.job.assembly, assemblies) => Bought(c, w.job.assembly, assemblies')
  BY DEF Later
<1>4. w.at = "chunks!" => Whole(stored'[c]) \/ Again(c, assemblies')
  <2>1. w.at = "chunks!" => \E id \in DOMAIN assemblies : Ended(c, id, assemblies)
    BY DEF WorkFits, Ended, Bought
  <2> QED
    BY <2>1, AgainStays DEF WorkFits, Later
<1> QED
  BY <1>1, <1>2, <1>3, <1>4 DEF WorkFits, Later

\* The bucket and the vendor, beside what is under way.
Kept ==
  /\ DOMAIN kind = Shelved /\ DOMAIN manifest = Shelved /\ DOMAIN receipt = Shelved
  /\ DOMAIN stored = Shelved
  /\ assemblies \in Seq(Assembly)
  /\ \A c \in Shelved : DOMAIN stored[c] = {"names", "empty"}

CaptureFits(c) ==
  /\ ReceiptFits(c, receipt[c], assemblies)
  /\ ManifestFits(c, kind[c], manifest[c], receipt[c], assemblies, stored[c])

Fits(c, w) ==
  WorkFits(c, kind[c], w, manifest[c], receipt[c], assemblies, stored[c])

LEMMA NormParts ==
  NormInv <=> /\ Kept
              /\ \A c \in Shelved : CaptureFits(c)
              /\ \A p \in Passes : DOMAIN item[p] = Shelved /\ \A c \in Shelved : Fits(c, item[p][c])
  BY DEF NormInv, Kept, CaptureFits, Fits, Assembly

\* A step of one capture's work.
LEMMA Worked ==
  ASSUME NormInv, NEW p \in Passes, NEW c \in Shelved, NEW w, Set(p, c, w), Kept',
         \A d \in Shelved : Later(d),
         \A d \in Shelved \ {c} : manifest'[d] = manifest[d] /\ receipt'[d] = receipt[d],
         CaptureFits(c)',
         WorkFits(c, kind'[c], w, manifest'[c], receipt'[c], assemblies', stored'[c])
  PROVE  NormInv'
<1>1. \A d \in Shelved \ {c} : CaptureFits(d)'
  <2> TAKE d \in Shelved \ {c}
  <2>1. CaptureFits(d)
    BY NormParts
  <2> QED
    BY <2>1, ReceiptStays, ManifestStays DEF CaptureFits
<1>2. \A q \in Passes : DOMAIN item[q] = Shelved
  BY NormParts
<1>3. /\ Passes' = Passes /\ \A q \in Passes : DOMAIN item'[q] = Shelved
      /\ item'[p][c] = w
      /\ \A q \in Passes : \A d \in Shelved : q # p \/ d # c => item'[q][d] = item[q][d]
  BY <1>2 DEF Set, Passes
<1>4. \A q \in Passes : \A d \in Shelved : Fits(d, item[q][d])'
  <2> TAKE q \in Passes
  <2> TAKE d \in Shelved
  <2>1. CASE q = p /\ d = c
    BY <2>1, <1>3 DEF Fits
  <2>2. CASE q # p \/ d # c
    <3>1. Fits(d, item[q][d]) /\ item'[q][d] = item[q][d] /\ Later(d)
      BY <2>2, <1>3, NormParts
    <3>2. WorkFits(d, kind'[d], item[q][d], manifest'[d], receipt'[d], assemblies', stored'[d])
      BY <3>1, WorkStays DEF Fits
    <3> QED
      BY <3>1, <3>2 DEF Fits
  <2> QED
    BY <2>1, <2>2
<1>5. \A d \in Shelved : CaptureFits(d)'
  BY <1>1
<1>6. \A q \in Passes' : DOMAIN item'[q] = Shelved /\ \A d \in Shelved : Fits(d, item[q][d])'
  BY <1>3, <1>4
<1> QED
  BY <1>5, <1>6 DEF NormInv, Kept, CaptureFits, Fits, Assembly

\* Nothing but the work moves.
LEMMA StillLater ==
  ASSUME UNCHANGED <<kind, manifest, receipt, stored, assemblies>>
  PROVE  \A c \in Shelved : Later(c)
  BY DEF Later

LEMMA WorkMoves ==
  ASSUME NormInv, NEW p \in Passes, NEW c \in Shelved, NEW w, Set(p, c, w), Fits(c, w),
         UNCHANGED <<kind, manifest, receipt, stored, assemblies>>
  PROVE  NormInv'
<1>1. Kept /\ CaptureFits(c)
  BY NormParts
<1>2. Kept' /\ CaptureFits(c)'
  BY <1>1 DEF Kept, CaptureFits
<1>3. WorkFits(c, kind'[c], w, manifest'[c], receipt'[c], assemblies', stored'[c])
  BY DEF Fits
<1>4. \A d \in Shelved : Later(d)
  BY StillLater
<1> QED
  BY <1>2, <1>3, <1>4, Worked

LEMMA NoWorkFits == \A c \in Shelved : Fits(c, NoWork)
<1>1. DOMAIN NoWork = WorkField /\ NoWork.at = "idle"
  BY DEF NoWork, WorkField
<1> QED
  BY <1>1 DEF Fits, WorkFits, WorkPoint

LEMMA WorkIs ==
  ASSUME NormInv, NEW p \in Passes, NEW c \in Shelved
  PROVE  /\ Fits(c, item[p][c]) /\ DOMAIN item[p][c] = WorkField
         /\ CaptureFits(c) /\ Kept
<1>1. Fits(c, item[p][c]) /\ CaptureFits(c) /\ Kept
  BY NormParts
<1> QED
  BY <1>1 DEF Fits, WorkFits

-----------------------------------------------------------------------------
(* The steps of the work. *)

LEMMA ReadManifestKeeps ==
  ASSUME NormInv, NEW p \in Passes, NEW c \in Shelved, ReadManifest(p, c) PROVE NormInv'
<1> DEFINE w == [item[p][c] EXCEPT !.at = "receipt?", !.manifest = manifest[c]]
<1>1. DOMAIN w = WorkField /\ w.at = "receipt?"
  BY WorkIs DEF WorkField
<1>2. Set(p, c, w) /\ UNCHANGED <<kind, manifest, receipt, stored, assemblies>>
  BY DEF ReadManifest, OnlyWork, BucketStays
<1> HIDE DEF w
<1>3. Fits(c, w)
  BY <1>1 DEF Fits, WorkFits, WorkPoint
<1> QED
  BY <1>2, <1>3, WorkMoves

LEMMA ReadReceiptKeeps ==
  ASSUME NormInv, NEW p \in Passes, NEW c \in Shelved, ReadReceipt(p, c) PROVE NormInv'
<1> DEFINE v == item[p][c]
           next == FirstStep(c, v.settled, v.manifest, receipt[c])
           w == [v EXCEPT !.at = next, !.receipt = receipt[c], !.job = Job("chunks", 0, << >>)]
<1>1. UNCHANGED <<kind, manifest, receipt, stored, assemblies>>
  BY DEF ReadReceipt, OnlyWork, BucketStays
<1>2. CASE next = "idle"
  <2>1. Set(p, c, NoWork)
    BY <1>2 DEF ReadReceipt, Done
  <2> QED
    BY <1>1, <2>1, WorkMoves, NoWorkFits
<1>3. CASE next # "idle"
  <2>1. Set(p, c, w)
    BY <1>3 DEF ReadReceipt
  <2>2. /\ DOMAIN w = WorkField /\ w.at = next /\ w.receipt = receipt[c]
        /\ w.job = Job("chunks", 0, << >>)
    BY WorkIs DEF WorkField
  <2>3. CaptureFits(c)
    BY WorkIs
  <2>4. /\ kind[c] \notin Spoken
        /\ next \in {"heads", "whole!", "create", "list", "poll"}
        /\ next = "whole!" => kind[c] = "direct"
        /\ next \in {"list", "poll"} => receipt[c].phase # "none"
        /\ next = "list" => receipt[c].phase = "completed"
    BY <1>3 DEF FirstStep, JobStep, Spoken
  <2>5. /\ DOMAIN w.job = {"phase", "assembly", "previous"} /\ w.job.phase = "chunks"
        /\ w.job.previous = << >>
    BY <2>2 DEF Job
  <2>6. << >> \in Seq(Nat) /\ Len(<< >>) + 1 <= MaxChunkAttempts
    BY DEF MaxChunkAttempts
  <2>7. next = "list" => Ended(c, receipt[c].assembly, assemblies)
    BY <2>3, <2>4 DEF CaptureFits, ReceiptFits
  <2> HIDE DEF w, next
  <2>8. Fits(c, w)
    BY <2>2, <2>3, <2>4, <2>5, <2>6, <2>7 DEF Fits, WorkFits, WorkPoint, CaptureFits
  <2> QED
    BY <1>1, <2>1, <2>8, WorkMoves
<1> QED
  BY <1>2, <1>3

\* A work that only moves on, to where what it holds is enough.
LEMMA MovesTo ==
  ASSUME NormInv, NEW p \in Passes, NEW c \in Shelved, NEW l, Move(p, c, l)
  PROVE  \E w : /\ Set(p, c, w) /\ DOMAIN w = WorkField /\ w.at = l
                /\ w.receipt = item[p][c].receipt
<1> DEFINE w == [item[p][c] EXCEPT !.at = l]
<1>1. /\ DOMAIN w = WorkField /\ w.at = l /\ w.receipt = item[p][c].receipt /\ Set(p, c, w)
  BY WorkIs DEF Move, WorkField
<1> QED
  BY <1>1

LEMMA CheckHeadsKeeps ==
  ASSUME NormInv, NEW p \in Passes, NEW c \in Shelved, CheckHeads(p, c) PROVE NormInv'
<1>1. UNCHANGED <<kind, manifest, receipt, stored, assemblies>>
  BY DEF CheckHeads, OnlyWork, BucketStays
<1>2. CASE Done(p, c)
  BY <1>1, <1>2, WorkMoves, NoWorkFits DEF Done
<1>3. CASE Move(p, c, "settle!")
  <2>1. PICK w : Set(p, c, w) /\ DOMAIN w = WorkField /\ w.at = "settle!"
    BY <1>3, MovesTo
  <2>2. kind[c] \notin Spoken
    BY WorkIs DEF CheckHeads, Holds, Fits, WorkFits
  <2>3. Fits(c, w)
    BY <2>1, <2>2 DEF Fits, WorkFits, WorkPoint
  <2> QED
    BY <1>1, <2>1, <2>3, WorkMoves
<1> QED
  BY <1>2, <1>3 DEF CheckHeads

LEMMA SettleKeeps ==
  ASSUME NormInv, NEW p \in Passes, NEW c \in Shelved, Settle(p, c) PROVE NormInv'
<1>1. UNCHANGED <<kind, manifest, receipt, stored, assemblies>> /\ Set(p, c, NoWork)
  BY DEF Settle, Done
<1> QED
  BY <1>1, WorkMoves, NoWorkFits

\* What is created next: the receipt's chain with one more.
LEMMA CreateNext ==
  ASSUME NormInv, NEW p \in Passes, NEW c \in Shelved, NEW prev \in Seq(Nat),
         Len(prev) + 1 <= MaxChunkAttempts, kind[c] \notin Spoken,
         Set(p, c, [item[p][c] EXCEPT !.at = "create", !.job = Job("chunks", 0, prev)]),
         UNCHANGED <<kind, manifest, receipt, stored, assemblies>>
  PROVE  NormInv'
<1> DEFINE w == [item[p][c] EXCEPT !.at = "create", !.job = Job("chunks", 0, prev)]
<1>1. DOMAIN w = WorkField /\ w.at = "create" /\ w.job = Job("chunks", 0, prev)
  BY WorkIs DEF WorkField
<1>2. Set(p, c, w)
  OBVIOUS
<1> HIDE DEF w
<1>3. /\ DOMAIN w.job = {"phase", "assembly", "previous"} /\ w.job.phase = "chunks"
      /\ w.job.previous = prev
  BY <1>1 DEF Job
<1>4. Fits(c, w)
  BY <1>1, <1>3 DEF Fits, WorkFits, WorkPoint
<1> QED
  BY <1>2, <1>4, WorkMoves

LEMMA PollKeeps ==
  ASSUME NormInv, NEW p \in Passes, NEW c \in Shelved, PollAssembly(p, c) PROVE NormInv'
<1> DEFINE v == item[p][c]
           r == v.receipt
<1>1. UNCHANGED <<kind, manifest, receipt, stored, assemblies>>
  BY DEF PollAssembly, OnlyWork, BucketStays
<1>2. /\ v.at = "poll" /\ kind[c] \notin Spoken /\ r.phase # "none" /\ receipt[c].phase # "none"
      /\ ReceiptFits(c, r, assemblies) /\ assemblies \in Seq(Assembly)
  BY WorkIs DEF PollAssembly, Holds, Fits, WorkFits, Kept
<1>3. r.assembly \in DOMAIN assemblies /\ Bought(c, r.assembly, assemblies)
  BY <1>2 DEF ReceiptFits, Bought
<1>4. CASE assemblies[r.assembly].state # "completed"
  <2>1. Done(p, c)
    BY <1>4 DEF PollAssembly
  <2> QED
    BY <1>1, <2>1, WorkMoves, NoWorkFits DEF Done
<1>5. CASE assemblies[r.assembly].state = "completed" /\ r.phase = "legacy"
  <2>1. Set(p, c, [v EXCEPT !.at = "create", !.job = Job("chunks", 0, <<r.assembly>>)])
    BY <1>5 DEF PollAssembly
  <2>2. <<r.assembly>> \in Seq(Nat) /\ Len(<<r.assembly>>) + 1 <= MaxChunkAttempts
    BY <1>2, <1>3 DEF MaxChunkAttempts
  <2> QED
    BY <1>1, <1>2, <2>1, <2>2, CreateNext
<1>6. CASE assemblies[r.assembly].state = "completed" /\ r.phase # "legacy"
  <2>1. Move(p, c, "list")
    BY <1>6 DEF PollAssembly
  <2>2. PICK w : Set(p, c, w) /\ DOMAIN w = WorkField /\ w.at = "list" /\ w.receipt = r
    BY <2>1, MovesTo
  <2>3. Ended(c, r.assembly, assemblies)
    BY <1>3, <1>6 DEF Ended
  <2>4. Fits(c, w)
    BY <1>2, <2>2, <2>3 DEF Fits, WorkFits, WorkPoint
  <2> QED
    BY <1>1, <2>2, <2>4, WorkMoves
<1> QED
  BY <1>4, <1>5, <1>6

LEMMA ListKeeps ==
  ASSUME NormInv, NEW p \in Passes, NEW c \in Shelved, ListChunks(p, c) PROVE NormInv'
<1> DEFINE v == item[p][c]
           r == v.receipt
<1>1. UNCHANGED <<kind, manifest, receipt, stored, assemblies>>
  BY DEF ListChunks, OnlyWork, BucketStays
<1>2. /\ v.at = "list" /\ kind[c] \notin Spoken /\ r.phase # "none" /\ receipt[c].phase # "none"
      /\ ReceiptFits(c, r, assemblies) /\ Ended(c, r.assembly, assemblies)
      /\ assemblies \in Seq(Assembly)
  BY WorkIs DEF ListChunks, Holds, Fits, WorkFits, Kept
<1>3. CASE Usable(c)
  <2>1. Move(p, c, "chunks!")
    BY <1>3 DEF ListChunks
  <2>2. PICK w : Set(p, c, w) /\ DOMAIN w = WorkField /\ w.at = "chunks!" /\ w.receipt = r
    BY <2>1, MovesTo
  <2>3. Whole(stored[c])
    BY <1>3 DEF Usable, Whole
  <2>4. Fits(c, w)
    BY <1>2, <2>2, <2>3 DEF Fits, WorkFits, WorkPoint
  <2> QED
    BY <1>1, <2>2, <2>4, WorkMoves
<1>4. CASE Done(p, c)
  BY <1>1, <1>4, WorkMoves, NoWorkFits DEF Done
<1>5. CASE ~Usable(c) /\ ~Done(p, c)
  <2>1. /\ Set(p, c, [v EXCEPT !.at = "create",
                        !.job = Job("chunks", 0, Append(r.previous, r.assembly))])
        /\ ~(Attempts(r) >= MaxChunkAttempts)
    BY <1>5 DEF ListChunks
  <2>2. r.previous \in Seq(Nat) /\ r.assembly \in Nat /\ Len(r.previous) \in Nat
    BY <1>2 DEF ReceiptFits, Ended, Bought
  <2>3. Append(r.previous, r.assembly) \in Seq(Nat) /\ Len(Append(r.previous, r.assembly)) = Len(r.previous) + 1
    BY <2>2
  <2>4. Len(Append(r.previous, r.assembly)) + 1 <= MaxChunkAttempts
    BY <2>1, <2>2, <2>3 DEF Attempts, MaxChunkAttempts
  <2> QED
    BY <1>1, <1>2, <2>1, <2>3, <2>4, CreateNext
<1> QED
  BY <1>3, <1>4, <1>5

LEMMA WholeKeeps ==
  ASSUME NormInv, NEW p \in Passes, NEW c \in Shelved, WriteWhole(p, c) PROVE NormInv'
<1>1. /\ manifest' = [manifest EXCEPT ![c] = "whole"] /\ Set(p, c, NoWork)
      /\ UNCHANGED <<kind, receipt, stored, assemblies>>
  BY DEF WriteWhole, Done
<1>2. kind[c] = "direct" /\ Kept /\ CaptureFits(c)
  BY WorkIs DEF WriteWhole, Holds, Fits, WorkFits
<1>3. manifest'[c] = "whole" /\ \A d \in Shelved \ {c} : manifest'[d] = manifest[d]
  BY <1>1, <1>2 DEF Kept
<1>4. Kept'
  BY <1>1, <1>2 DEF Kept
<1>5. \A d \in Shelved : Later(d)
  BY <1>1, <1>3 DEF Later
<1>6. CaptureFits(c)'
  BY <1>1, <1>2, <1>3 DEF CaptureFits, ManifestFits, Spoken
<1>7. WorkFits(c, kind'[c], NoWork, manifest'[c], receipt'[c], assemblies', stored'[c])
  BY <1>5, NoWorkFits, WorkStays DEF Fits
<1> QED
  BY <1>1, <1>3, <1>4, <1>5, <1>6, <1>7, Worked

LEMMA ChunksKeeps ==
  ASSUME NormInv, NEW p \in Passes, NEW c \in Shelved, WriteChunks(p, c) PROVE NormInv'
<1> DEFINE v == item[p][c]
<1>1. /\ manifest' = [manifest EXCEPT ![c] = "chunks"]
      /\ UNCHANGED <<kind, receipt, stored, assemblies>>
  BY DEF WriteChunks
<1>2. /\ v.at = "chunks!" /\ kind[c] \notin Spoken /\ v.receipt.phase # "none"
      /\ receipt[c].phase # "none" /\ ReceiptFits(c, v.receipt, assemblies)
      /\ Ended(c, v.receipt.assembly, assemblies) /\ (Whole(stored[c]) \/ Again(c, assemblies))
      /\ Kept /\ CaptureFits(c)
  BY WorkIs DEF WriteChunks, Holds, Fits, WorkFits
<1>3. manifest'[c] = "chunks" /\ \A d \in Shelved \ {c} : manifest'[d] = manifest[d]
  BY <1>1, <1>2 DEF Kept
<1>4. Kept'
  BY <1>1, <1>2 DEF Kept
<1>5. \A d \in Shelved : Later(d)
  BY <1>1, <1>3 DEF Later
<1>6. CaptureFits(c)'
  <2>1. Whole(stored[c]) => Covered(stored[c])
    BY DEF Whole, Covered
  <2>2. \E id \in DOMAIN assemblies : Ended(c, id, assemblies)
    BY <1>2 DEF Ended, Bought
  <2> QED
    BY <1>1, <1>2, <1>3, <2>1, <2>2 DEF CaptureFits, ManifestFits
<1>7. CASE v.receipt.phase = "completed"
  <2>1. Set(p, c, NoWork)
    BY <1>7 DEF WriteChunks, Done
  <2>2. WorkFits(c, kind'[c], NoWork, manifest'[c], receipt'[c], assemblies', stored'[c])
    BY <1>5, NoWorkFits, WorkStays DEF Fits
  <2> QED
    BY <1>1, <1>3, <1>4, <1>5, <1>6, <2>1, <2>2, Worked
<1>8. CASE v.receipt.phase # "completed"
  <2>1. PICK w : Set(p, c, w) /\ DOMAIN w = WorkField /\ w.at = "finish!" /\ w.receipt = v.receipt
    BY <1>8, MovesTo DEF WriteChunks
  <2>2. WorkFits(c, kind'[c], w, manifest'[c], receipt'[c], assemblies', stored'[c])
    BY <1>1, <1>2, <1>3, <2>1 DEF WorkFits, WorkPoint
  <2> QED
    BY <1>1, <1>3, <1>4, <1>5, <1>6, <2>1, <2>2, Worked
<1> QED
  BY <1>7, <1>8

\* One assembly more.
LEMMA Created ==
  ASSUME NormInv, NEW c \in Shelved,
         assemblies' = Append(assemblies, [capture |-> c, state |-> "running"]),
         BucketStays
  PROVE  /\ Kept' /\ \A d \in Shelved : Later(d)
         /\ Len(assemblies) + 1 \in DOMAIN assemblies'
         /\ Bought(c, Len(assemblies) + 1, assemblies')
         /\ \A d \in Shelved : CaptureFits(d)'
<1> DEFINE a == [capture |-> c, state |-> "running"]
<1>1. Kept /\ assemblies \in Seq(Assembly) /\ a \in Assembly /\ a.capture = c
  BY NormParts DEF Kept, Assembly
<1>2. /\ assemblies' = Append(assemblies, a)
      /\ UNCHANGED <<kind, manifest, receipt, stored>>
  BY DEF BucketStays
<1> HIDE DEF a
<1>3. /\ assemblies' \in Seq(Assembly) /\ Len(assemblies) \in Nat /\ DOMAIN assemblies = 1..Len(assemblies)
      /\ DOMAIN assemblies' = 1..(Len(assemblies) + 1)
      /\ \A i \in DOMAIN assemblies : assemblies'[i] = assemblies[i]
      /\ assemblies'[Len(assemblies) + 1] = a
  BY <1>1, <1>2
<1>4. Len(assemblies) + 1 \in DOMAIN assemblies' /\ Bought(c, Len(assemblies) + 1, assemblies')
  BY <1>1, <1>3 DEF Bought
<1>5. DOMAIN assemblies \subseteq DOMAIN assemblies'
  BY <1>3
<1>6. \A d \in Shelved : Later(d)
  BY <1>2, <1>3, <1>5 DEF Later, Bought, Ended
<1>7. Kept'
  BY <1>1, <1>2, <1>3 DEF Kept
<1>8. \A d \in Shelved : CaptureFits(d)'
  <2> TAKE d \in Shelved
  <2>1. CaptureFits(d) /\ Later(d)
    BY <1>6, NormParts
  <2> QED
    BY <1>2, <2>1, ReceiptStays, ManifestStays DEF CaptureFits
<1> QED
  BY <1>4, <1>6, <1>7, <1>8

LEMMA CreateKeeps ==
  ASSUME NormInv, NEW p \in Passes, NEW c \in Shelved, CreateAssembly(p, c) PROVE NormInv'
<1> DEFINE v == item[p][c]
           w == [v EXCEPT !.at = "receipt!", !.job.assembly = Len(assemblies) + 1]
<1>1. /\ assemblies' = Append(assemblies, [capture |-> c, state |-> "running"])
      /\ BucketStays /\ Set(p, c, w)
  BY DEF CreateAssembly
<1>2. /\ v.at = "create" /\ kind[c] \notin Spoken /\ DOMAIN v = WorkField
      /\ DOMAIN v.job = {"phase", "assembly", "previous"} /\ v.job.phase = "chunks"
      /\ v.job.previous \in Seq(Nat) /\ Len(v.job.previous) + 1 <= MaxChunkAttempts
  BY WorkIs DEF CreateAssembly, Holds, Fits, WorkFits
<1>3. DOMAIN w = WorkField /\ w.at = "receipt!" /\ w.job = [v.job EXCEPT !.assembly = Len(assemblies) + 1]
  BY <1>2 DEF WorkField
<1> HIDE DEF w
<1>4. /\ DOMAIN w.job = {"phase", "assembly", "previous"} /\ w.job.phase = "chunks"
      /\ w.job.previous = v.job.previous /\ w.job.assembly = Len(assemblies) + 1
  BY <1>2, <1>3
<1>5. /\ Kept' /\ \A d \in Shelved : Later(d)
      /\ Bought(c, Len(assemblies) + 1, assemblies')
      /\ \A d \in Shelved : CaptureFits(d)'
  BY <1>1, Created
<1>6. UNCHANGED <<kind, manifest, receipt, stored>>
  BY <1>1 DEF BucketStays
<1>7. WorkFits(c, kind'[c], w, manifest'[c], receipt'[c], assemblies', stored'[c])
  BY <1>2, <1>3, <1>4, <1>5, <1>6 DEF WorkFits, WorkPoint
<1> QED
  BY <1>1, <1>5, <1>6, <1>7, Worked

LEMMA LostKeeps ==
  ASSUME NormInv, NEW p \in Passes, NEW c \in Shelved, CreateLost(p, c) PROVE NormInv'
<1>1. /\ assemblies' = Append(assemblies, [capture |-> c, state |-> "running"])
      /\ BucketStays /\ Set(p, c, NoWork)
  BY DEF CreateLost, Done
<1>2. /\ Kept' /\ \A d \in Shelved : Later(d) /\ CaptureFits(d)'
  BY <1>1, Created
<1>3. UNCHANGED <<kind, manifest, receipt, stored>>
  BY <1>1 DEF BucketStays
<1>4. WorkFits(c, kind'[c], NoWork, manifest'[c], receipt'[c], assemblies', stored'[c])
  BY <1>2, NoWorkFits, WorkStays DEF Fits
<1> QED
  BY <1>1, <1>2, <1>3, <1>4, Worked

\* A receipt of the work is written over the one there.
LEMMA ReceiptRewritten ==
  ASSUME NormInv, NEW p \in Passes, NEW c \in Shelved, NEW r, Set(p, c, NoWork),
         ReceiptFits(c, r, assemblies), r.phase # "none", kind[c] \notin Spoken,
         r.phase = "completed" => manifest[c] # "none",
         receipt' = [receipt EXCEPT ![c] = r],
         UNCHANGED <<kind, manifest, stored, assemblies>>
  PROVE  NormInv'
<1>1. Kept /\ CaptureFits(c)
  BY NormParts
<1>2. receipt'[c] = r /\ \A d \in Shelved \ {c} : receipt'[d] = receipt[d]
  BY <1>1 DEF Kept
<1>3. Kept'
  BY <1>1 DEF Kept
<1>4. \A d \in Shelved : Later(d)
  BY <1>2 DEF Later
<1>5. CaptureFits(c)'
  BY <1>1, <1>2 DEF CaptureFits, ManifestFits
<1>6. WorkFits(c, kind'[c], NoWork, manifest'[c], receipt'[c], assemblies', stored'[c])
  BY <1>4, NoWorkFits, WorkStays DEF Fits
<1> QED
  BY <1>2, <1>3, <1>4, <1>5, <1>6, Worked

LEMMA WriteReceiptKeeps ==
  ASSUME NormInv, NEW p \in Passes, NEW c \in Shelved, WriteReceipt(p, c) PROVE NormInv'
<1> DEFINE j == item[p][c].job
<1>1. /\ receipt' = [receipt EXCEPT ![c] = j] /\ Set(p, c, NoWork)
      /\ UNCHANGED <<kind, manifest, stored, assemblies>>
  BY DEF WriteReceipt, Done
<1>2. /\ kind[c] \notin Spoken /\ DOMAIN j = {"phase", "assembly", "previous"} /\ j.phase = "chunks"
      /\ j.previous \in Seq(Nat) /\ Len(j.previous) + 1 <= MaxChunkAttempts
      /\ Bought(c, j.assembly, assemblies)
  BY WorkIs DEF WriteReceipt, Holds, Fits, WorkFits
<1> HIDE DEF j
<1>3. ReceiptFits(c, j, assemblies)
  BY <1>2 DEF ReceiptFits
<1> QED
  BY <1>1, <1>2, <1>3, ReceiptRewritten

LEMMA FinishReceiptKeeps ==
  ASSUME NormInv, NEW p \in Passes, NEW c \in Shelved, FinishReceipt(p, c) PROVE NormInv'
<1> DEFINE v == item[p][c]
           r == [v.receipt EXCEPT !.phase = "completed"]
<1>1. /\ receipt' = [receipt EXCEPT ![c] = r] /\ Set(p, c, NoWork)
      /\ UNCHANGED <<kind, manifest, stored, assemblies>>
  BY DEF FinishReceipt, Done
<1>2. /\ kind[c] \notin Spoken /\ ReceiptFits(c, v.receipt, assemblies) /\ v.receipt.phase # "none"
      /\ Ended(c, v.receipt.assembly, assemblies) /\ manifest[c] # "none"
  BY WorkIs DEF FinishReceipt, Holds, Fits, WorkFits
<1>3. /\ DOMAIN r = {"phase", "assembly", "previous"} /\ r.phase = "completed"
      /\ r.assembly = v.receipt.assembly /\ r.previous = v.receipt.previous
  BY <1>2 DEF ReceiptFits
<1> HIDE DEF r
<1>4. ReceiptFits(c, r, assemblies)
  BY <1>2, <1>3 DEF ReceiptFits, Ended
<1> QED
  BY <1>1, <1>2, <1>3, <1>4, ReceiptRewritten

-----------------------------------------------------------------------------
(* Passes and the vendor. *)

\* A pass is taken anew or ends: its captures begin or rest.
LEMMA PassAnew ==
  ASSUME NormInv, NEW p \in Passes, NEW ws, item' = [item EXCEPT ![p] = ws],
         DOMAIN ws = Shelved, \A c \in Shelved : Fits(c, ws[c]),
         UNCHANGED <<kind, manifest, receipt, stored, assemblies>>
  PROVE  NormInv'
<1>1. Kept /\ (\A c \in Shelved : CaptureFits(c)) /\ \A q \in Passes : DOMAIN item[q] = Shelved
  BY NormParts
<1>2. Kept' /\ \A c \in Shelved : CaptureFits(c)'
  BY <1>1 DEF Kept, CaptureFits
<1>3. Passes' = Passes /\ item'[p] = ws /\ \A q \in Passes \ {p} : item'[q] = item[q]
  BY DEF Passes
<1>4. \A c \in Shelved : \A w : Fits(c, w) =>
        WorkFits(c, kind'[c], w, manifest'[c], receipt'[c], assemblies', stored'[c])
  BY StillLater, WorkStays DEF Fits
<1>5. \A q \in Passes : DOMAIN item'[q] = Shelved /\ \A c \in Shelved : Fits(c, item[q][c])'
  <2> TAKE q \in Passes
  <2>1. CASE q = p
    BY <2>1, <1>3, <1>4 DEF Fits
  <2>2. CASE q # p
    <3>1. \A c \in Shelved : Fits(c, item[q][c])
      BY NormParts
    <3> QED
      BY <2>2, <3>1, <1>1, <1>3, <1>4 DEF Fits
  <2> QED
    BY <2>1, <2>2
<1> QED
  BY <1>2, <1>3, <1>5 DEF NormInv, Kept, CaptureFits, Fits, Assembly

LEMMA TakeKeeps ==
  ASSUME NormInv, NEW p \in Passes, NEW chosen, Take(p, chosen), BucketStays,
         UNCHANGED assemblies
  PROVE  NormInv'
<1> DEFINE ws == [c \in Shelved |-> IF c \in chosen
                    THEN [NoWork EXCEPT !.at = "manifest?", !.settled = c \in settled]
                    ELSE NoWork]
<1>1. item' = [item EXCEPT ![p] = ws] /\ DOMAIN ws = Shelved
  BY DEF Take
<1>2. \A c \in Shelved : Fits(c, [NoWork EXCEPT !.at = "manifest?", !.settled = c \in settled])
  <2> TAKE c \in Shelved
  <2> DEFINE w == [NoWork EXCEPT !.at = "manifest?", !.settled = c \in settled]
  <2>1. DOMAIN w = WorkField /\ w.at = "manifest?"
    BY DEF NoWork, WorkField
  <2> HIDE DEF w
  <2>2. Fits(c, w)
    BY <2>1 DEF Fits, WorkFits, WorkPoint
  <2> QED
    BY <2>2 DEF w
<1>3. \A c \in Shelved : Fits(c, ws[c])
  BY <1>2, NoWorkFits
<1>4. UNCHANGED <<kind, manifest, receipt, stored, assemblies>>
  BY DEF BucketStays
<1> HIDE DEF ws
<1> QED
  BY <1>1, <1>3, <1>4, PassAnew

LEMMA DiesKeeps ==
  ASSUME NormInv, NEW p \in Passes, PassDies(p) PROVE NormInv'
<1> DEFINE ws == [c \in Shelved |-> NoWork]
<1>1. /\ item' = [item EXCEPT ![p] = ws] /\ DOMAIN ws = Shelved
      /\ UNCHANGED <<kind, manifest, receipt, stored, assemblies>>
  BY DEF PassDies, BucketStays
<1>2. \A c \in Shelved : Fits(c, ws[c])
  BY NoWorkFits
<1> HIDE DEF ws
<1> QED
  BY <1>1, <1>2, PassAnew

LEMMA ThrowKeeps ==
  ASSUME NormInv, NEW p \in Passes, NEW c \in Shelved, ChunkThrows(p, c) PROVE NormInv'
<1> DEFINE ws == [d \in Shelved |-> NoWork]
<1>1. /\ item' = [item EXCEPT ![p] = ws] /\ DOMAIN ws = Shelved
      /\ UNCHANGED <<kind, manifest, receipt, stored, assemblies>>
  BY DEF ChunkThrows, BucketStays
<1>2. \A d \in Shelved : Fits(d, ws[d])
  BY NoWorkFits
<1> HIDE DEF ws
<1> QED
  BY <1>1, <1>2, PassAnew

LEMMA FailsKeeps ==
  ASSUME NormInv, NEW p \in Passes, NEW c \in Shelved, CallFails(p, c) PROVE NormInv'
<1>1. UNCHANGED <<kind, manifest, receipt, stored, assemblies>> /\ Set(p, c, NoWork)
  BY DEF CallFails, Done, BucketStays
<1> QED
  BY <1>1, WorkMoves, NoWorkFits

\* An assembly ends, and what it leaves under the prefix is of two when a
\* manifest was of another.
LEMMA OutputsKeep ==
  ASSUME NormInv, NEW id \in DOMAIN assemblies, assemblies[id].state = "running",
         NEW state \in {"completed", "failed"}, NEW names, NEW empty,
         Outputs(assemblies[id].capture, id, state, names, empty)
  PROVE  NormInv'
<1> DEFINE c == assemblies[id].capture
<1>1. /\ Kept /\ assemblies \in Seq(Assembly) /\ c \in Shelved
      /\ (\A d \in Shelved : CaptureFits(d)) /\ \A q \in Passes : DOMAIN item[q] = Shelved
  <2>1. Kept /\ (\A d \in Shelved : CaptureFits(d)) /\ \A q \in Passes : DOMAIN item[q] = Shelved
    BY NormParts
  <2>2. assemblies \in Seq(Assembly)
    BY <2>1 DEF Kept
  <2>3. assemblies[id] \in Assembly
    BY <2>2
  <2> QED
    BY <2>1, <2>2, <2>3 DEF Assembly
<1>2. /\ assemblies' = [assemblies EXCEPT ![id].state = state]
      /\ UNCHANGED <<kind, manifest, receipt, item>>
      /\ stored' = [stored EXCEPT ![c] =
           [names |-> stored[c].names \cup names, empty |-> (stored[c].empty \ names) \cup empty]]
  BY DEF Outputs
<1> DEFINE a == [assemblies[id] EXCEPT !.state = state]
<1>3. a \in Assembly /\ a.capture = c /\ a.state = state /\ assemblies' = [assemblies EXCEPT ![id] = a]
  <2>1. assemblies[id] \in Assembly
    BY <1>1
  <2> QED
    BY <2>1, <1>2 DEF Assembly
<1> DEFINE st == [names |-> stored[c].names \cup names, empty |-> (stored[c].empty \ names) \cup empty]
<1>4. DOMAIN st = {"names", "empty"} /\ stored' = [stored EXCEPT ![c] = st]
  BY <1>2
<1> HIDE DEF a, st
<1>5. /\ DOMAIN assemblies' = DOMAIN assemblies /\ assemblies'[id] = a
      /\ \A i \in DOMAIN assemblies \ {id} : assemblies'[i] = assemblies[i]
  BY <1>3
<1>6. assemblies' \in Seq(Assembly)
  <2>1. assemblies' \in [1 .. Len(assemblies) -> Assembly] /\ Len(assemblies) \in Nat
    BY <1>1, <1>3
  <2> QED
    BY <2>1
<1>7. /\ DOMAIN stored' = Shelved /\ \A d \in Shelved : DOMAIN stored'[d] = {"names", "empty"}
      /\ \A d \in Shelved \ {c} : stored'[d] = stored[d]
  BY <1>1, <1>4 DEF Kept
<1>8. Kept'
  BY <1>1, <1>2, <1>6, <1>7 DEF Kept
<1>9. \A d, i : Bought(d, i, assemblies) => Bought(d, i, assemblies')
  BY <1>3, <1>5 DEF Bought
<1>10. \A d, i : Ended(d, i, assemblies) => i # id /\ Ended(d, i, assemblies')
  BY <1>5, <1>9 DEF Ended, Bought
<1>11. (\E i \in DOMAIN assemblies : Ended(c, i, assemblies)) => Again(c, assemblies')
  <2> SUFFICES ASSUME NEW i \in DOMAIN assemblies, Ended(c, i, assemblies)
               PROVE  Again(c, assemblies')
    OBVIOUS
  <2>1. i # id /\ Bought(c, i, assemblies') /\ Bought(c, id, assemblies')
    BY <1>9, <1>10 DEF Ended, Bought
  <2> QED
    BY <2>1 DEF Again, Bought
<1>12. \A d \in Shelved : Later(d)
  BY <1>2, <1>7, <1>9, <1>10, <1>11 DEF Later
<1>13. \A d \in Shelved : CaptureFits(d)'
  BY <1>1, <1>2, <1>12, ReceiptStays, ManifestStays DEF CaptureFits
<1>14. \A q \in Passes : \A d \in Shelved : Fits(d, item[q][d])'
  <2> TAKE q \in Passes
  <2> TAKE d \in Shelved
  <2>1. Fits(d, item[q][d]) /\ Later(d) /\ item' = item
    BY <1>2, <1>12, NormParts
  <2>2. WorkFits(d, kind'[d], item[q][d], manifest'[d], receipt'[d], assemblies', stored'[d])
    BY <2>1, WorkStays DEF Fits
  <2> QED
    BY <2>1, <2>2 DEF Fits
<1>15. Passes' = Passes /\ \A q \in Passes : DOMAIN item'[q] = Shelved
  BY <1>1, <1>2 DEF Passes
<1> QED
  BY <1>8, <1>13, <1>14, <1>15 DEF NormInv, Kept, CaptureFits, Fits, Assembly

LEMMA NormKeeps == NormInv /\ [NormNext]_normVars => NormInv'
<1> SUFFICES ASSUME NormInv, [NormNext]_normVars PROVE NormInv'
  OBVIOUS
<1>1. CASE UNCHANGED normVars
  BY <1>1 DEF normVars, NormInv, Passes
<1>2. ASSUME NEW p \in Passes, CronPass(p) \/ NamedPass(p) PROVE NormInv'
  <2>1. PICK chosen : Take(p, chosen) /\ BucketStays /\ UNCHANGED assemblies
    BY <1>2 DEF CronPass, NamedPass, OnlyWork
  <2> QED
    BY <2>1, TakeKeeps
<1>3. ASSUME NEW p \in Passes, NEW c \in Shelved, WorkStep(p, c) PROVE NormInv'
  BY <1>3, ReadManifestKeeps, ReadReceiptKeeps, CheckHeadsKeeps, SettleKeeps, WholeKeeps,
     PollKeeps, ListKeeps, CreateKeeps, WriteReceiptKeeps, ChunksKeeps, FinishReceiptKeeps
     DEF WorkStep
<1>4. ASSUME NEW id \in DOMAIN assemblies,
             VendorCompletes(id) \/ VendorSpoils(id) \/ VendorFails(id)
      PROVE  NormInv'
  <2>1. /\ assemblies[id].state = "running"
        /\ \E state \in {"completed", "failed"} : \E names, empty :
             Outputs(assemblies[id].capture, id, state, names, empty)
    BY <1>4 DEF VendorCompletes, VendorSpoils, VendorFails
  <2> QED
    BY <2>1, OutputsKeep
<1> QED
  BY <1>1, <1>2, <1>3, <1>4, DiesKeeps, ThrowKeeps, FailsKeeps, LostKeeps DEF NormNext

-----------------------------------------------------------------------------
(* What one pass alone pays for. *)

Trouble == [deaths : Nat, fails : Nat, spoils : Nat, cuts : Nat]

Links(r) == IF r.phase = "none" THEN 0 ELSE Len(r.previous) + 1
Pending(w) == IF w.at = "receipt!" THEN 1 ELSE 0

\* The work is on the receipt that is there, and creates the next of its chain.
LoneFits(w, r) ==
  /\ w.at \in {"poll", "list", "chunks!", "finish!", "create", "receipt!"} => w.receipt = r
  /\ w.at \in {"create", "receipt!"} => Len(w.job.previous) = Links(r)

Tallied(s, c) ==
  /\ LoneFits(item[1][c], receipt[c])
  /\ Cardinality(Paid(c)) <=
       Links(receipt[c]) + Pending(item[1][c]) + (Wounds(s.trouble) - Wounds(trouble))

SpendInv ==
  Passes = {1} =>
    \E s \in NormScenes :
      /\ s.kind = kind /\ s.passes = Passes /\ trouble \in Trouble
      /\ \A c \in Shelved : Tallied(s, c)

LEMMA PendingIs ==
  ASSUME NEW w
  PROVE  /\ w.at = "receipt!" => Pending(w) = 1
         /\ w.at # "receipt!" => Pending(w) = 0
         /\ Pending(w) \in {0, 1}
  BY DEF Pending

LEMMA LinksIs ==
  ASSUME NEW c, NEW r, NEW as, ReceiptFits(c, r, as)
  PROVE  Links(r) \in 0 .. MaxChunkAttempts
<1>1. Len(r.previous) \in Nat /\ Len(r.previous) + 1 <= MaxChunkAttempts
  BY DEF ReceiptFits
<1> QED
  BY <1>1 DEF Links, MaxChunkAttempts

LEMMA WoundsIs ==
  ASSUME NEW t \in Trouble
  PROVE  Wounds(t) \in Nat /\ Wounds(t) = t.deaths + t.fails + t.cuts
  BY DEF Wounds, Trouble

\* A bound is spent.
LEMMA Costs ==
  ASSUME trouble \in Trouble, NEW k \in {"deaths", "fails", "spoils", "cuts"}, Cost(k)
  PROVE  /\ trouble' \in Trouble
         /\ k = "spoils" => Wounds(trouble') = Wounds(trouble)
         /\ k # "spoils" => Wounds(trouble') = Wounds(trouble) - 1
<1>1. /\ trouble' = [trouble EXCEPT ![k] = trouble[k] - 1] /\ trouble[k] > 0
      /\ DOMAIN trouble = {"deaths", "fails", "spoils", "cuts"}
      /\ trouble.deaths \in Nat /\ trouble.fails \in Nat /\ trouble.spoils \in Nat
      /\ trouble.cuts \in Nat
  BY DEF Cost, Trouble
<1>2. trouble' \in Trouble
  BY <1>1 DEF Trouble
<1>3. /\ Wounds(trouble) = trouble.deaths + trouble.fails + trouble.cuts
      /\ Wounds(trouble') = trouble'.deaths + trouble'.fails + trouble'.cuts
  BY <1>2, WoundsIs
<1>4. /\ trouble'.deaths = IF k = "deaths" THEN trouble.deaths - 1 ELSE trouble.deaths
      /\ trouble'.fails = IF k = "fails" THEN trouble.fails - 1 ELSE trouble.fails
      /\ trouble'.cuts = IF k = "cuts" THEN trouble.cuts - 1 ELSE trouble.cuts
  BY <1>1
<1> QED
  BY <1>1, <1>2, <1>3, <1>4

LEMMA PaidIs ==
  ASSUME assemblies \in Seq(Assembly), NEW c
  PROVE  IsFiniteSet(Paid(c)) /\ Cardinality(Paid(c)) \in Nat
<1>1. DOMAIN assemblies = 1..Len(assemblies) /\ Len(assemblies) \in Nat
  OBVIOUS
<1>2. IsFiniteSet(DOMAIN assemblies)
  BY <1>1, FS_Interval
<1>3. Paid(c) \subseteq DOMAIN assemblies
  BY DEF Paid
<1> QED
  BY <1>2, <1>3, FS_Subset, FS_CardinalityType

LEMMA PaidMore ==
  ASSUME assemblies \in Seq(Assembly), NEW c \in Shelved,
         assemblies' = Append(assemblies, [capture |-> c, state |-> "running"])
  PROVE  /\ Cardinality(Paid(c)') = Cardinality(Paid(c)) + 1
         /\ \A d : d # c => Paid(d)' = Paid(d)
<1> DEFINE a == [capture |-> c, state |-> "running"]
           n == Len(assemblies) + 1
<1>1. a.capture = c /\ a \in Assembly /\ assemblies' = Append(assemblies, a)
  BY DEF Assembly
<1> HIDE DEF a
<1>2. /\ Len(assemblies) \in Nat /\ DOMAIN assemblies = 1..Len(assemblies)
      /\ DOMAIN assemblies' = 1..n /\ assemblies'[n] = a
      /\ \A i \in DOMAIN assemblies : assemblies'[i] = assemblies[i]
  BY <1>1
<1>3. DOMAIN assemblies' = DOMAIN assemblies \cup {n} /\ n \notin DOMAIN assemblies
  BY <1>2
<1> HIDE DEF n
<1>4. Paid(c)' = Paid(c) \cup {n} /\ n \notin Paid(c) /\ \A d : d # c => Paid(d)' = Paid(d)
  BY <1>1, <1>2, <1>3 DEF Paid
<1> QED
  BY <1>4, PaidIs, FS_AddElement

\* A step of one capture's work leaves the others' tallies.
LEMMA TallyWorked ==
  ASSUME NormInv, Passes = {1}, trouble \in Trouble, trouble' \in Trouble,
         Wounds(trouble') <= Wounds(trouble),
         NEW s \in NormScenes, \A d \in Shelved : Tallied(s, d),
         NEW c \in Shelved, NEW w, Set(1, c, w),
         \A d \in Shelved \ {c} : receipt'[d] = receipt[d] /\ Paid(d)' = Paid(d),
         LoneFits(w, receipt'[c]),
         Cardinality(Paid(c)') <=
           Links(receipt'[c]) + Pending(w) + (Wounds(s.trouble) - Wounds(trouble'))
  PROVE  \A d \in Shelved : Tallied(s, d)'
<1> TAKE d \in Shelved
<1>1. /\ item'[1][c] = w /\ \A e \in Shelved \ {c} : item'[1][e] = item[1][e]
  BY NormParts DEF Set, Passes
<1>2. CASE d = c
  BY <1>1, <1>2 DEF Tallied
<1>3. CASE d # c
  <2>1. /\ item'[1][d] = item[1][d] /\ receipt'[d] = receipt[d] /\ Paid(d)' = Paid(d)
    BY <1>1, <1>3
  <2>2. Links(receipt[d]) \in Nat
    BY NormParts, LinksIs DEF CaptureFits, MaxChunkAttempts
  <2>3. s.trouble \in Trouble
    BY NormScenesAssumption DEF Trouble
  <2>4. Wounds(s.trouble) \in Nat /\ Wounds(trouble) \in Nat /\ Wounds(trouble') \in Nat
    BY <2>3, WoundsIs
  <2>5. Cardinality(Paid(d)) \in Nat /\ Pending(item[1][d]) \in {0, 1}
    BY NormParts, PaidIs, PendingIs DEF Kept
  <2>6. Tallied(s, d)
    OBVIOUS
  <2>7. Cardinality(Paid(d)) <=
          Links(receipt[d]) + Pending(item[1][d]) + (Wounds(s.trouble) - Wounds(trouble'))
    BY <2>2, <2>4, <2>5, <2>6 DEF Tallied
  <2> QED
    BY <2>1, <2>6, <2>7 DEF Tallied
<1> QED
  BY <1>2, <1>3

LEMMA Numbers ==
  ASSUME NormInv, trouble \in Trouble, NEW s \in NormScenes, NEW c \in Shelved
  PROVE  /\ Links(receipt[c]) \in 0 .. 3 /\ Cardinality(Paid(c)) \in Nat
         /\ Wounds(s.trouble) \in Nat /\ Wounds(trouble) \in Nat
<1>1. s.trouble \in Trouble
  BY NormScenesAssumption DEF Trouble
<1> QED
  BY <1>1, NormParts, LinksIs, PaidIs, WoundsIs DEF CaptureFits, Kept, MaxChunkAttempts

\* Work that neither creates nor writes a receipt.
LEMMA TallyMoves ==
  ASSUME NormInv, Passes = {1}, trouble \in Trouble, UNCHANGED <<receipt, assemblies, trouble>>,
         NEW s \in NormScenes, \A d \in Shelved : Tallied(s, d),
         NEW c \in Shelved, NEW w, Set(1, c, w), item[1][c].at # "receipt!",
         LoneFits(w, receipt[c])
  PROVE  \A d \in Shelved : Tallied(s, d)'
<1>1. \A d : Paid(d)' = Paid(d)
  BY DEF Paid
<1>2. /\ Pending(item[1][c]) = 0 /\ Pending(w) \in {0, 1}
  BY PendingIs
<1>3. Cardinality(Paid(c)') <=
        Links(receipt'[c]) + Pending(w) + (Wounds(s.trouble) - Wounds(trouble'))
  BY <1>1, <1>2, Numbers DEF Tallied
<1>4. Wounds(trouble') <= Wounds(trouble) /\ trouble' \in Trouble
  BY WoundsIs
<1> QED
  BY <1>1, <1>3, <1>4, TallyWorked

LEMMA RestLone ==
  ASSUME NEW w, NEW r,
         w.at \notin {"poll", "list", "chunks!", "finish!", "create", "receipt!"}
  PROVE  LoneFits(w, r)
  BY DEF LoneFits

LEMMA NoWorkAt == NoWork.at = "idle"
  BY DEF NoWork

LEMMA OneStep ==
  ASSUME NormInv, Passes = {1}, trouble \in Trouble,
         NEW s \in NormScenes, \A d \in Shelved : Tallied(s, d),
         NEW c \in Shelved, WorkStep(1, c)
  PROVE  trouble' \in Trouble /\ \A d \in Shelved : Tallied(s, d)'
<1> DEFINE v == item[1][c]
<1>1. /\ 1 \in Passes /\ LoneFits(v, receipt[c]) /\ trouble' = trouble
  BY DEF Tallied, WorkStep, ReadManifest, ReadReceipt, CheckHeads, Settle, WriteWhole,
     PollAssembly, ListChunks, CreateAssembly, WriteReceipt, WriteChunks, FinishReceipt,
     OnlyWork
<1>2. /\ Fits(c, v) /\ DOMAIN v = WorkField /\ CaptureFits(c) /\ Kept
  BY <1>1, WorkIs
<1>3. \A w : Set(1, c, w) /\ UNCHANGED <<receipt, assemblies>> /\ v.at # "receipt!" /\ LoneFits(w, receipt[c])
        => \A d \in Shelved : Tallied(s, d)'
  BY <1>1, TallyMoves
<1>4. Done(1, c) /\ UNCHANGED <<receipt, assemblies>> /\ v.at # "receipt!" => \A d \in Shelved : Tallied(s, d)'
  BY <1>3, RestLone, NoWorkAt DEF Done
<1>5. CASE ReadManifest(1, c)
  <2> DEFINE w == [v EXCEPT !.at = "receipt?", !.manifest = manifest[c]]
  <2>1. w.at = "receipt?"
    BY <1>2 DEF WorkField
  <2>2. Set(1, c, w) /\ UNCHANGED <<receipt, assemblies>> /\ v.at # "receipt!"
    BY <1>5 DEF ReadManifest, OnlyWork, BucketStays, Holds
  <2> HIDE DEF w
  <2> QED
    BY <1>1, <1>3, <2>1, <2>2, RestLone
<1>6. CASE ReadReceipt(1, c)
  <2> DEFINE next == FirstStep(c, v.settled, v.manifest, receipt[c])
             w == [v EXCEPT !.at = next, !.receipt = receipt[c], !.job = Job("chunks", 0, << >>)]
  <2>1. UNCHANGED <<receipt, assemblies>> /\ v.at # "receipt!"
    BY <1>6 DEF ReadReceipt, OnlyWork, BucketStays, Holds
  <2>2. Done(1, c) \/ Set(1, c, w)
    BY <1>6 DEF ReadReceipt
  <2>3. w.at = next /\ w.receipt = receipt[c] /\ w.job = Job("chunks", 0, << >>)
    BY <1>2 DEF WorkField
  <2>4. w.job.previous = << >>
    BY <2>3 DEF Job
  <2>5. next # "receipt!" /\ (next = "create" => receipt[c].phase = "none")
    BY DEF FirstStep, JobStep
  <2>6. next = "create" => Len(w.job.previous) = Links(receipt[c])
    BY <2>4, <2>5 DEF Links
  <2> HIDE DEF w, next
  <2>7. LoneFits(w, receipt[c])
    BY <2>3, <2>5, <2>6 DEF LoneFits
  <2> QED
    BY <1>1, <1>3, <1>4, <2>1, <2>2, <2>7
<1>7. CASE CheckHeads(1, c)
  <2>1. UNCHANGED <<receipt, assemblies>> /\ v.at # "receipt!"
    BY <1>7 DEF CheckHeads, OnlyWork, BucketStays, Holds
  <2>2. CASE Move(1, c, "settle!")
    <3>1. PICK w : Set(1, c, w) /\ w.at = "settle!"
      BY <1>1, <2>2, MovesTo
    <3> QED
      BY <1>1, <1>3, <2>1, <3>1, RestLone
  <2> QED
    BY <1>1, <1>4, <1>7, <2>1, <2>2 DEF CheckHeads
<1>8. CASE Settle(1, c) \/ WriteWhole(1, c)
  <2>1. UNCHANGED <<receipt, assemblies>> /\ v.at # "receipt!" /\ Done(1, c)
    BY <1>8 DEF Settle, WriteWhole, Holds
  <2> QED
    BY <1>1, <1>4, <2>1
<1>9. CASE PollAssembly(1, c)
  <2>1. UNCHANGED <<receipt, assemblies>> /\ v.at = "poll"
    BY <1>9 DEF PollAssembly, OnlyWork, BucketStays, Holds
  <2>2. v.receipt = receipt[c] /\ receipt[c].phase # "none"
    BY <1>1, <1>2, <2>1 DEF LoneFits, Fits, WorkFits
  <2>3. CASE Done(1, c)
    BY <1>1, <1>4, <2>1, <2>3
  <2>4. CASE Move(1, c, "list")
    <3>1. PICK w : Set(1, c, w) /\ w.at = "list" /\ w.receipt = v.receipt
      BY <1>1, <2>4, MovesTo
    <3>2. LoneFits(w, receipt[c])
      BY <2>2, <3>1 DEF LoneFits
    <3> QED
      BY <1>1, <1>3, <2>1, <3>1, <3>2
  <2>5. CASE ~Done(1, c) /\ ~Move(1, c, "list")
    <3> DEFINE w == [v EXCEPT !.at = "create", !.job = Job("chunks", 0, <<v.receipt.assembly>>)]
    <3>1. Set(1, c, w) /\ receipt[c].phase = "legacy"
      BY <1>9, <2>2, <2>5 DEF PollAssembly
    <3>2. w.at = "create" /\ w.receipt = receipt[c] /\ w.job = Job("chunks", 0, <<v.receipt.assembly>>)
      BY <1>2, <2>2 DEF WorkField
    <3>3. w.job.previous = <<v.receipt.assembly>>
      BY <3>2 DEF Job
    <3>4. Links(receipt[c]) = 1
      BY <1>2, <3>1 DEF Links, CaptureFits, ReceiptFits
    <3> HIDE DEF w
    <3>5. LoneFits(w, receipt[c])
      BY <3>2, <3>3, <3>4 DEF LoneFits
    <3> QED
      BY <1>1, <1>3, <2>1, <3>1, <3>5
  <2> QED
    BY <2>3, <2>4, <2>5
<1>10. CASE ListChunks(1, c)
  <2>1. UNCHANGED <<receipt, assemblies>> /\ v.at = "list"
    BY <1>10 DEF ListChunks, OnlyWork, BucketStays, Holds
  <2>2. v.receipt = receipt[c] /\ receipt[c].phase # "none"
    BY <1>1, <1>2, <2>1 DEF LoneFits, Fits, WorkFits
  <2>3. CASE Done(1, c)
    BY <1>1, <1>4, <2>1, <2>3
  <2>4. CASE Move(1, c, "chunks!")
    <3>1. PICK w : Set(1, c, w) /\ w.at = "chunks!" /\ w.receipt = v.receipt
      BY <1>1, <2>4, MovesTo
    <3>2. LoneFits(w, receipt[c])
      BY <2>2, <3>1 DEF LoneFits
    <3> QED
      BY <1>1, <1>3, <2>1, <3>1, <3>2
  <2>5. CASE ~Done(1, c) /\ ~Move(1, c, "chunks!")
    <3> DEFINE prev == Append(v.receipt.previous, v.receipt.assembly)
               w == [v EXCEPT !.at = "create", !.job = Job("chunks", 0, prev)]
    <3>1. Set(1, c, w)
      BY <1>10, <2>5 DEF ListChunks
    <3>2. w.at = "create" /\ w.receipt = receipt[c] /\ w.job = Job("chunks", 0, prev)
      BY <1>2, <2>2 DEF WorkField
    <3>3. /\ receipt[c].previous \in Seq(Nat) /\ receipt[c].assembly \in Nat
      BY <1>2, <2>2 DEF CaptureFits, ReceiptFits, Bought, Kept
    <3>4. Len(prev) = Len(receipt[c].previous) + 1
      BY <2>2, <3>3
    <3> HIDE DEF w, prev
    <3>5. w.job.previous = prev
      BY <3>2 DEF Job
    <3>6. Len(prev) = Links(receipt[c])
      BY <2>2, <3>4 DEF Links
    <3>7. LoneFits(w, receipt[c])
      BY <3>2, <3>5, <3>6 DEF LoneFits
    <3> QED
      BY <1>1, <1>3, <2>1, <3>1, <3>7
  <2> QED
    BY <2>3, <2>4, <2>5
<1>11. CASE WriteChunks(1, c)
  <2>1. UNCHANGED <<receipt, assemblies>> /\ v.at = "chunks!"
    BY <1>11 DEF WriteChunks, Holds
  <2>2. CASE Done(1, c)
    BY <1>1, <1>4, <2>1, <2>2
  <2>3. CASE Move(1, c, "finish!")
    <3>1. PICK w : Set(1, c, w) /\ w.at = "finish!" /\ w.receipt = v.receipt
      BY <1>1, <2>3, MovesTo
    <3>2. LoneFits(w, receipt[c])
      BY <1>1, <2>1, <3>1 DEF LoneFits
    <3> QED
      BY <1>1, <1>3, <2>1, <3>1, <3>2
  <2> QED
    BY <1>11, <2>2, <2>3 DEF WriteChunks
<1>12. CASE CreateAssembly(1, c)
  <2> DEFINE w == [v EXCEPT !.at = "receipt!", !.job.assembly = Len(assemblies) + 1]
  <2>1. /\ assemblies' = Append(assemblies, [capture |-> c, state |-> "running"])
        /\ UNCHANGED receipt /\ Set(1, c, w) /\ v.at = "create"
    BY <1>12 DEF CreateAssembly, BucketStays, Holds
  <2>2. v.receipt = receipt[c] /\ Len(v.job.previous) = Links(receipt[c])
    BY <1>1, <2>1 DEF LoneFits
  <2>3. DOMAIN v.job = {"phase", "assembly", "previous"}
    BY <1>2, <2>1 DEF Fits, WorkFits
  <2>4. w.at = "receipt!" /\ w.receipt = receipt[c] /\ w.job = [v.job EXCEPT !.assembly = Len(assemblies) + 1]
    BY <1>2, <2>2 DEF WorkField
  <2> HIDE DEF w
  <2>5. w.job.previous = v.job.previous
    BY <2>3, <2>4
  <2>6. LoneFits(w, receipt'[c])
    BY <2>1, <2>2, <2>4, <2>5 DEF LoneFits
  <2>7. /\ Cardinality(Paid(c)') = Cardinality(Paid(c)) + 1
        /\ \A d : d # c => Paid(d)' = Paid(d)
    BY <1>2, <2>1, PaidMore DEF Kept
  <2>8. Pending(w) = 1 /\ Pending(v) = 0
    BY <2>1, <2>4, PendingIs
  <2>9. Tallied(s, c)
    OBVIOUS
  <2>10. Cardinality(Paid(c)') <=
          Links(receipt'[c]) + Pending(w) + (Wounds(s.trouble) - Wounds(trouble'))
    BY <1>1, <2>1, <2>7, <2>8, <2>9, Numbers DEF Tallied
  <2>11. Wounds(trouble') <= Wounds(trouble) /\ trouble' \in Trouble
    BY <1>1, WoundsIs
  <2> QED
    BY <2>1, <2>6, <2>7, <2>10, <2>11, TallyWorked
<1>13. CASE WriteReceipt(1, c)
  <2> DEFINE j == v.job
  <2>1. /\ receipt' = [receipt EXCEPT ![c] = j] /\ Set(1, c, NoWork)
        /\ UNCHANGED assemblies /\ v.at = "receipt!"
    BY <1>13 DEF WriteReceipt, Done, Holds
  <2>2. j.phase = "chunks" /\ Len(j.previous) = Links(receipt[c])
    BY <1>1, <1>2, <2>1 DEF LoneFits, Fits, WorkFits
  <2>3. receipt'[c] = j /\ \A d \in Shelved \ {c} : receipt'[d] = receipt[d]
    BY <1>2, <2>1 DEF Kept
  <2> HIDE DEF j
  <2>4. Links(receipt'[c]) = Links(receipt[c]) + 1
    BY <2>2, <2>3 DEF Links
  <2>5. \A d : Paid(d)' = Paid(d)
    BY <2>1 DEF Paid
  <2>6. Pending(v) = 1 /\ Pending(NoWork) = 0
    BY <2>1, PendingIs, NoWorkAt
  <2>7. Tallied(s, c)
    OBVIOUS
  <2>8. Cardinality(Paid(c)') <=
          Links(receipt'[c]) + Pending(NoWork) + (Wounds(s.trouble) - Wounds(trouble'))
    BY <1>1, <2>4, <2>5, <2>6, <2>7, Numbers DEF Tallied
  <2>9. Wounds(trouble') <= Wounds(trouble) /\ trouble' \in Trouble
    BY <1>1, WoundsIs
  <2> QED
    BY <2>1, <2>3, <2>5, <2>8, <2>9, TallyWorked, RestLone, NoWorkAt
<1>14. CASE FinishReceipt(1, c)
  <2> DEFINE r == [v.receipt EXCEPT !.phase = "completed"]
  <2>1. /\ receipt' = [receipt EXCEPT ![c] = r] /\ Set(1, c, NoWork)
        /\ UNCHANGED assemblies /\ v.at = "finish!"
    BY <1>14 DEF FinishReceipt, Done, Holds
  <2>2. /\ v.receipt = receipt[c] /\ receipt[c].phase # "none"
        /\ DOMAIN v.receipt = {"phase", "assembly", "previous"}
    BY <1>1, <1>2, <2>1 DEF LoneFits, Fits, WorkFits, ReceiptFits
  <2>3. receipt'[c] = r /\ \A d \in Shelved \ {c} : receipt'[d] = receipt[d]
    BY <1>2, <2>1 DEF Kept
  <2>4. r.phase = "completed" /\ r.previous = receipt[c].previous
    BY <2>2
  <2> HIDE DEF r
  <2>5. Links(receipt'[c]) = Links(receipt[c])
    BY <2>2, <2>3, <2>4 DEF Links
  <2>6. \A d : Paid(d)' = Paid(d)
    BY <2>1 DEF Paid
  <2>7. Pending(v) = 0 /\ Pending(NoWork) = 0
    BY <2>1, PendingIs, NoWorkAt
  <2>8. Tallied(s, c)
    OBVIOUS
  <2>9. Cardinality(Paid(c)') <=
          Links(receipt'[c]) + Pending(NoWork) + (Wounds(s.trouble) - Wounds(trouble'))
    BY <1>1, <2>5, <2>6, <2>7, <2>8, Numbers DEF Tallied
  <2>10. Wounds(trouble') <= Wounds(trouble) /\ trouble' \in Trouble
    BY <1>1, WoundsIs
  <2> QED
    BY <2>1, <2>3, <2>6, <2>9, <2>10, TallyWorked, RestLone, NoWorkAt
<1> QED
  BY <1>1, <1>5, <1>6, <1>7, <1>8, <1>9, <1>10, <1>11, <1>12, <1>13, <1>14 DEF WorkStep

\* The pass is taken anew or dies: nothing of it is left, and a death or a cut
\* pays for an assembly whose receipt was to come.
LEMMA TallyAnew ==
  ASSUME NormInv, Passes = {1}, trouble \in Trouble, trouble' \in Trouble,
         UNCHANGED <<receipt, assemblies>>,
         NEW s \in NormScenes, \A d \in Shelved : Tallied(s, d),
         NEW ws, item' = [item EXCEPT ![1] = ws],
         \A c \in Shelved : ws[c].at \in {"idle", "manifest?"},
         \/ Wounds(trouble') = Wounds(trouble) - 1
         \/ Wounds(trouble') = Wounds(trouble) /\ \A c \in Shelved : item[1][c].at # "receipt!"
  PROVE  \A d \in Shelved : Tallied(s, d)'
<1> TAKE c \in Shelved
<1>1. item'[1] = ws
  BY DEF Passes
<1>2. Pending(ws[c]) = 0 /\ LoneFits(ws[c], receipt[c])
  BY PendingIs, RestLone
<1>3. Paid(c)' = Paid(c)
  BY DEF Paid
<1>4. Tallied(s, c)
  OBVIOUS
<1>5. Pending(item[1][c]) \in {0, 1} /\ (item[1][c].at # "receipt!" => Pending(item[1][c]) = 0)
  BY PendingIs
<1>6. Wounds(trouble') \in Nat
  BY WoundsIs
<1>7. Cardinality(Paid(c)) <= Links(receipt[c]) + 0 + (Wounds(s.trouble) - Wounds(trouble'))
  BY <1>4, <1>5, <1>6, Numbers DEF Tallied
<1> QED
  BY <1>1, <1>2, <1>3, <1>7 DEF Tallied

LEMMA OtherStep ==
  ASSUME NormInv, Passes = {1}, trouble \in Trouble,
         NEW s \in NormScenes, \A d \in Shelved : Tallied(s, d),
         \/ CronPass(1) \/ NamedPass(1) \/ PassDies(1)
         \/ \E c \in Shelved : ChunkThrows(1, c) \/ CallFails(1, c) \/ CreateLost(1, c)
         \/ \E id \in DOMAIN assemblies : VendorCompletes(id) \/ VendorSpoils(id) \/ VendorFails(id)
         \/ UNCHANGED normVars
  PROVE  trouble' \in Trouble /\ \A d \in Shelved : Tallied(s, d)'
<1>1. CASE CronPass(1) \/ NamedPass(1)
  <2>1. PICK chosen : Take(1, chosen) /\ Census(1) /\ UNCHANGED <<receipt, assemblies, trouble>>
    BY <1>1 DEF CronPass, NamedPass, OnlyWork, BucketStays
  <2> DEFINE ws == [c \in Shelved |-> IF c \in chosen
                     THEN [NoWork EXCEPT !.at = "manifest?", !.settled = c \in settled]
                     ELSE NoWork]
  <2>2. item' = [item EXCEPT ![1] = ws]
    BY <2>1 DEF Take
  <2>3. \A c \in Shelved : ws[c].at \in {"idle", "manifest?"}
    BY DEF NoWork
  <2>4. \A c \in Shelved : item[1][c].at # "receipt!"
    BY <2>1 DEF Census, Holds
  <2> HIDE DEF ws
  <2> QED
    BY <2>1, <2>2, <2>3, <2>4, TallyAnew
<1>2. CASE PassDies(1)
  <2> DEFINE ws == [c \in Shelved |-> NoWork]
  <2>1. item' = [item EXCEPT ![1] = ws] /\ UNCHANGED <<receipt, assemblies>> /\ Cost("deaths")
    BY <1>2 DEF PassDies, BucketStays
  <2>2. \A c \in Shelved : ws[c].at \in {"idle", "manifest?"}
    BY NoWorkAt
  <2>3. trouble' \in Trouble /\ Wounds(trouble') = Wounds(trouble) - 1
    BY <2>1, Costs
  <2> HIDE DEF ws
  <2> QED
    BY <2>1, <2>2, <2>3, TallyAnew
<1>3. ASSUME NEW c \in Shelved, CallFails(1, c) PROVE trouble' \in Trouble /\ \A d \in Shelved : Tallied(s, d)'
  <2>1. Set(1, c, NoWork) /\ UNCHANGED <<receipt, assemblies>> /\ Cost("fails")
    BY <1>3 DEF CallFails, BucketStays, Done
  <2>2. trouble' \in Trouble /\ Wounds(trouble') = Wounds(trouble) - 1
    BY <2>1, Costs
  <2>3. \A d : Paid(d)' = Paid(d)
    BY <2>1 DEF Paid
  <2>4. Pending(item[1][c]) \in {0, 1} /\ Pending(NoWork) = 0
    BY PendingIs, NoWorkAt
  <2>5. Tallied(s, c)
    OBVIOUS
  <2>6. Wounds(trouble') <= Wounds(trouble)
    BY <2>2, WoundsIs
  <2>8. Cardinality(Paid(c)) <=
          Links(receipt[c]) + Pending(item[1][c]) + (Wounds(s.trouble) - Wounds(trouble))
    BY <2>5 DEF Tallied
  <2>9. /\ Links(receipt[c]) \in Nat /\ Cardinality(Paid(c)) \in Nat
        /\ Wounds(s.trouble) \in Nat /\ Wounds(trouble) \in Nat
    BY Numbers
  <2>7. Cardinality(Paid(c)') <=
          Links(receipt'[c]) + Pending(NoWork) + (Wounds(s.trouble) - Wounds(trouble'))
    BY <2>1, <2>2, <2>3, <2>4, <2>8, <2>9
  <2> QED
    BY <2>1, <2>2, <2>3, <2>6, <2>7, TallyWorked, RestLone, NoWorkAt
<1>4. ASSUME NEW c \in Shelved, CreateLost(1, c) PROVE trouble' \in Trouble /\ \A d \in Shelved : Tallied(s, d)'
  <2>1. /\ Set(1, c, NoWork) /\ UNCHANGED receipt /\ Cost("fails") /\ item[1][c].at = "create"
        /\ assemblies' = Append(assemblies, [capture |-> c, state |-> "running"])
    BY <1>4 DEF CreateLost, BucketStays, Done, Holds
  <2>2. trouble' \in Trouble /\ Wounds(trouble') = Wounds(trouble) - 1
    BY <2>1, Costs
  <2>3. /\ Cardinality(Paid(c)') = Cardinality(Paid(c)) + 1
        /\ \A d : d # c => Paid(d)' = Paid(d)
    BY <2>1, PaidMore, NormParts DEF Kept
  <2>4. Pending(item[1][c]) = 0 /\ Pending(NoWork) = 0
    BY <2>1, PendingIs, NoWorkAt
  <2>5. Tallied(s, c)
    OBVIOUS
  <2>6. Wounds(trouble') <= Wounds(trouble)
    BY <2>2, WoundsIs
  <2>8. Cardinality(Paid(c)) <=
          Links(receipt[c]) + Pending(item[1][c]) + (Wounds(s.trouble) - Wounds(trouble))
    BY <2>5 DEF Tallied
  <2>9. /\ Links(receipt[c]) \in Nat /\ Cardinality(Paid(c)) \in Nat
        /\ Wounds(s.trouble) \in Nat /\ Wounds(trouble) \in Nat
    BY Numbers
  <2>7. Cardinality(Paid(c)') <=
          Links(receipt'[c]) + Pending(NoWork) + (Wounds(s.trouble) - Wounds(trouble'))
    BY <2>1, <2>2, <2>3, <2>4, <2>8, <2>9
  <2> QED
    BY <2>1, <2>2, <2>3, <2>6, <2>7, TallyWorked, RestLone, NoWorkAt
<1>5. ASSUME NEW id \in DOMAIN assemblies, VendorCompletes(id) \/ VendorSpoils(id) \/ VendorFails(id)
      PROVE  trouble' \in Trouble /\ \A d \in Shelved : Tallied(s, d)'
  <2>1. /\ UNCHANGED <<receipt, item>>
        /\ \E st : assemblies' = [assemblies EXCEPT ![id].state = st]
        /\ UNCHANGED trouble \/ Cost("spoils")
    BY <1>5 DEF VendorCompletes, VendorSpoils, VendorFails, Outputs
  <2>2. trouble' \in Trouble /\ Wounds(trouble') = Wounds(trouble)
    BY <2>1, Costs
  <2>3. PICK st : assemblies' = [assemblies EXCEPT ![id].state = st]
    BY <2>1
  <2> DEFINE a == [assemblies[id] EXCEPT !.state = st]
  <2>4. a.capture = assemblies[id].capture /\ assemblies' = [assemblies EXCEPT ![id] = a]
    <3>1. assemblies[id] \in Assembly
      BY NormParts DEF Kept
    <3> QED
      BY <2>3, <3>1 DEF Assembly
  <2> HIDE DEF a
  <2>5. \A d : Paid(d)' = Paid(d)
    BY <2>4 DEF Paid
  <2> QED
    BY <2>1, <2>2, <2>5 DEF Tallied
<1>6. CASE UNCHANGED normVars
  <2>1. UNCHANGED <<receipt, assemblies, item, trouble>>
    BY <1>6 DEF normVars
  <2>2. \A d : Paid(d)' = Paid(d)
    BY <2>1 DEF Paid
  <2> QED
    BY <2>1, <2>2 DEF Tallied
<1>7. ASSUME NEW c \in Shelved, ChunkThrows(1, c) PROVE trouble' \in Trouble /\ \A d \in Shelved : Tallied(s, d)'
  <2> DEFINE ws == [d \in Shelved |-> NoWork]
  <2>1. /\ item' = [item EXCEPT ![1] = ws] /\ UNCHANGED <<receipt, assemblies>>
        /\ IF \E d \in Shelved : item[1][d].at = "receipt!" THEN Cost("cuts") ELSE UNCHANGED trouble
    BY <1>7 DEF ChunkThrows, BucketStays, Holds
  <2>2. \A d \in Shelved : ws[d].at \in {"idle", "manifest?"}
    BY NoWorkAt
  <2>3. /\ trouble' \in Trouble
        /\ \/ Wounds(trouble') = Wounds(trouble) - 1
           \/ Wounds(trouble') = Wounds(trouble) /\ \A d \in Shelved : item[1][d].at # "receipt!"
    BY <2>1, Costs
  <2> HIDE DEF ws
  <2> QED
    BY <2>1, <2>2, <2>3, TallyAnew
<1> QED
  BY <1>1, <1>2, <1>3, <1>4, <1>5, <1>6, <1>7

LEMMA PassesStay ==
  ASSUME [NormNext]_normVars
  PROVE  Passes' = Passes /\ kind' = kind
<1>1. CASE UNCHANGED normVars
  BY <1>1 DEF normVars, Passes
<1>2. ASSUME NEW p, CronPass(p) \/ NamedPass(p) \/ PassDies(p) PROVE Passes' = Passes /\ kind' = kind
  BY <1>2 DEF CronPass, NamedPass, PassDies, Take, OnlyWork, BucketStays, Passes
<1>3. ASSUME NEW p, NEW c, WorkStep(p, c) \/ CallFails(p, c) \/ CreateLost(p, c)
      PROVE  Passes' = Passes /\ kind' = kind
  <2>1. kind' = kind
    BY <1>3 DEF WorkStep, CallFails, CreateLost, ReadManifest, ReadReceipt, CheckHeads, Settle,
       WriteWhole, PollAssembly, ListChunks, CreateAssembly, WriteReceipt, WriteChunks,
       FinishReceipt, OnlyWork, BucketStays
  <2>2. \E w : Set(p, c, w)
    BY <1>3 DEF WorkStep, CallFails, CreateLost, ReadManifest, ReadReceipt, CheckHeads, Settle,
       WriteWhole, PollAssembly, ListChunks, CreateAssembly, WriteReceipt, WriteChunks,
       FinishReceipt, Move, Done
  <2> QED
    BY <2>1, <2>2 DEF Set, Passes
<1>4. ASSUME NEW id, VendorCompletes(id) \/ VendorSpoils(id) \/ VendorFails(id)
      PROVE  Passes' = Passes /\ kind' = kind
  BY <1>4 DEF VendorCompletes, VendorSpoils, VendorFails, Outputs, Passes
<1>5. ASSUME NEW p, NEW c, ChunkThrows(p, c) PROVE Passes' = Passes /\ kind' = kind
  BY <1>5 DEF ChunkThrows, BucketStays, Passes
<1> QED
  BY <1>1, <1>2, <1>3, <1>4, <1>5 DEF NormNext

LEMMA SpendKeeps ==
  NormInv /\ SpendInv /\ [NormNext]_normVars => SpendInv'
<1> SUFFICES ASSUME NormInv, SpendInv, [NormNext]_normVars, Passes' = {1}
             PROVE  \E s \in NormScenes :
                      /\ s.kind = kind' /\ s.passes = Passes' /\ trouble' \in Trouble
                      /\ \A c \in Shelved : Tallied(s, c)'
  BY DEF SpendInv
<1>1. Passes' = Passes /\ kind' = kind
  BY PassesStay
<1>2. PICK s \in NormScenes :
        /\ s.kind = kind /\ s.passes = Passes /\ trouble \in Trouble
        /\ \A c \in Shelved : Tallied(s, c)
  BY <1>1 DEF SpendInv
<1>3. Passes = {1}
  BY <1>1
<1>4. trouble' \in Trouble /\ \A c \in Shelved : Tallied(s, c)'
  <2>1. CASE \E c \in Shelved : WorkStep(1, c)
    BY <1>2, <1>3, <2>1, OneStep
  <2>2. CASE ~\E c \in Shelved : WorkStep(1, c)
    <3>1. \/ CronPass(1) \/ NamedPass(1) \/ PassDies(1)
          \/ \E c \in Shelved : ChunkThrows(1, c) \/ CallFails(1, c) \/ CreateLost(1, c)
          \/ \E id \in DOMAIN assemblies : VendorCompletes(id) \/ VendorSpoils(id) \/ VendorFails(id)
          \/ UNCHANGED normVars
      BY <1>3, <2>2 DEF NormNext
    <3> QED
      BY <1>2, <1>3, <3>1, OtherStep
  <2> QED
    BY <2>1, <2>2
<1> QED
  BY <1>1, <1>2, <1>4

-----------------------------------------------------------------------------
(* How it begins, and what follows. *)

LEMMA ShelfFinite == IsFiniteSet(Shelved)
<1>1. Shelf \in Seq(ToSet(Shelf))
  BY ShelfAssumption
<1>2. DOMAIN Shelf = 1..Len(Shelf) /\ Len(Shelf) \in Nat
  BY <1>1
<1>3. IsFiniteSet(DOMAIN Shelf)
  BY <1>2, FS_Interval
<1>4. Shelf \in Surjection(DOMAIN Shelf, Shelved)
  BY <1>1, <1>2 DEF Surjection, Shelved, ToSet
<1> QED
  BY <1>3, <1>4, FS_Surjection

LEMMA JobIs ==
  ASSUME NEW phase, NEW id, NEW previous
  PROVE  /\ DOMAIN Job(phase, id, previous) = {"phase", "assembly", "previous"}
         /\ Job(phase, id, previous).phase = phase
         /\ Job(phase, id, previous).assembly = id
         /\ Job(phase, id, previous).previous = previous
  BY DEF Job

LEMMA StoredIs == \A k : DOMAIN StoredOf(k) = {"names", "empty"}
<1>1. \A x : DOMAIN [names |-> x, empty |-> {}] = {"names", "empty"}
  OBVIOUS
<1> QED
  BY <1>1, Zenon DEF StoredOf

LEMMA RowIsSeq ==
  ASSUME NEW S, NEW m \in Nat, NEW f \in [1 .. m -> S]
  PROVE  f \in Seq(S) /\ DOMAIN f = 1 .. m
  OBVIOUS

LEMMA NormBegins == NormInit => NormInv /\ SpendInv
<1> SUFFICES ASSUME NEW s \in NormScenes, NormStart(s) PROVE NormInv /\ SpendInv
  BY DEF NormInit
<1> DEFINE old == {c \in Shelved :
                    s.kind[c] \in {"legacy", "unsized-legacy", "healable", "bare"}}
           n == Cardinality(old)
<1>1. n \in Nat
  BY ShelfFinite, FS_Subset, FS_CardinalityType
<1>2. PICK bought \in Bijection(1 .. n, old) :
        /\ kind = s.kind
        /\ manifest = [c \in Shelved |-> IF s.kind[c] = "bare" THEN "chunks" ELSE "none"]
        /\ assemblies = [i \in 1 .. n |-> [capture |-> bought[i], state |-> "completed"]]
        /\ receipt = [c \in Shelved |-> ReceiptOf(s.kind[c],
             IF c \in old THEN CHOOSE i \in DOMAIN bought : bought[i] = c ELSE 0)]
        /\ stored = [c \in Shelved |-> StoredOf(s.kind[c])]
        /\ item = [p \in s.passes |-> [c \in Shelved |-> NoWork]]
        /\ trouble = s.trouble
  BY DEF NormStart
<1>3. /\ bought \in [1 .. n -> old]
      /\ \A i, j \in 1 .. n : bought[i] = bought[j] => i = j
      /\ \A c \in old : \E i \in 1 .. n : bought[i] = c
  BY DEF Bijection, Injection, Surjection, IsInjective
<1>4. s.kind \in [Shelved -> CaptureKind] /\ s.trouble \in Trouble
  BY NormScenesAssumption DEF Trouble
<1>5. \A i \in 1 .. n : assemblies[i].capture = bought[i] /\ assemblies[i].state = "completed"
  BY <1>2
<1>6. assemblies \in Seq(Assembly) /\ DOMAIN assemblies = 1 .. n
  <2>1. \A i \in 1 .. n : bought[i] \in Shelved
    BY <1>3
  <2>2. assemblies \in [1 .. n -> Assembly]
    BY <1>2, <2>1 DEF Assembly
  <2> QED
    <3> HIDE DEF n
    <3> QED
      BY <1>1, <2>2, RowIsSeq
<1> DEFINE id(c) == IF c \in old THEN CHOOSE i \in DOMAIN bought : bought[i] = c ELSE 0
<1>7. \A c \in Shelved : receipt[c] = ReceiptOf(s.kind[c], id(c)) /\ stored[c] = StoredOf(s.kind[c])
  BY <1>2
<1>8. \A c \in old : id(c) \in 1 .. n /\ bought[id(c)] = c
  BY <1>3
<1> HIDE DEF id
<1>9. \A c \in old : Ended(c, id(c), assemblies)
  BY <1>5, <1>6, <1>8 DEF Ended, Bought
<1>10. \A c \in Shelved : c \notin old => ReceiptOf(s.kind[c], id(c)) = NoJob
  BY DEF ReceiptOf
<1>11. \A c \in Shelved :
         /\ s.kind[c] \in {"legacy", "unsized-legacy"} => receipt[c] = Job("legacy", id(c), << >>)
         /\ s.kind[c] \in {"healable", "bare"} => receipt[c] = Job("completed", id(c), << >>)
         /\ c \notin old => receipt[c] = NoJob
  <2>2. \A k, i : k \in {"legacy", "unsized-legacy"} => ReceiptOf(k, i) = Job("legacy", i, << >>)
    BY DEF ReceiptOf
  <2>3. \A k, i : k \in {"healable", "bare"} => ReceiptOf(k, i) = Job("completed", i, << >>)
    BY DEF ReceiptOf
  <2> HIDE DEF old
  <2> QED
    BY <1>7, <1>10, <2>2, <2>3
<1>12. << >> \in Seq(Nat) /\ Len(<< >>) = 0
  OBVIOUS
<1> HIDE DEF old
<1>13. \A c \in Shelved : c \in old <=> s.kind[c] \in {"legacy", "unsized-legacy", "healable", "bare"}
  BY DEF old
<1>none. NoJob = Job("none", 0, << >>)
  BY DEF NoJob, Job
<1>fields. \A c \in Shelved :
         /\ DOMAIN receipt[c] = {"phase", "assembly", "previous"} /\ receipt[c].previous = << >>
         /\ s.kind[c] \in {"legacy", "unsized-legacy"} => receipt[c].phase = "legacy" /\ receipt[c].assembly = id(c)
         /\ s.kind[c] \in {"healable", "bare"} => receipt[c].phase = "completed" /\ receipt[c].assembly = id(c)
         /\ c \notin old => receipt[c].phase = "none"
  BY <1>11, <1>13, <1>none, JobIs
<1>14. \A c \in Shelved : ReceiptFits(c, receipt[c], assemblies)
  <2> TAKE c \in Shelved
  <2> DEFINE r == receipt[c]
  <2>4. DOMAIN r = {"phase", "assembly", "previous"} /\ r.previous = << >>
    BY <1>fields
  <2>3. r.previous \in Seq(Nat) /\ Len(r.previous) + 1 <= MaxChunkAttempts
    <3> HIDE DEF r
    <3>1. Len(r.previous) = 0 /\ r.previous \in Seq(Nat)
      BY <2>4, <1>12
    <3> QED
      BY <3>1 DEF MaxChunkAttempts
  <2>1. CASE c \in old
    <3>1. r.phase \in {"legacy", "completed"} /\ r.assembly = id(c)
      BY <2>1, <1>13, <1>fields
    <3>2. Ended(c, r.assembly, assemblies) /\ Bought(c, r.assembly, assemblies)
      BY <2>1, <3>1, <1>9 DEF Ended
    <3> HIDE DEF r
    <3>3. ReceiptFits(c, r, assemblies)
      BY <2>3, <2>4, <3>1, <3>2 DEF ReceiptFits
    <3> QED
      BY <3>3 DEF r
  <2>2. CASE c \notin old
    <3>1. r.phase = "none"
      BY <2>2, <1>fields
    <3> HIDE DEF r
    <3>2. ReceiptFits(c, r, assemblies)
      BY <2>3, <2>4, <3>1 DEF ReceiptFits
    <3> QED
      BY <3>2 DEF r
  <2> QED
    BY <2>1, <2>2
<1>15. \A c \in Shelved : manifest[c] = IF s.kind[c] = "bare" THEN "chunks" ELSE "none"
  BY <1>2
<1>16. \A c \in Shelved : ManifestFits(c, kind[c], manifest[c], receipt[c], assemblies, stored[c])
  <2> TAKE c \in Shelved
  <2>1. CASE s.kind[c] = "bare"
    BY <2>1, <1>2, <1>fields, <1>15 DEF ManifestFits, Spoken
  <2>2. CASE s.kind[c] = "healable"
    BY <2>2, <1>2, <1>fields, <1>15 DEF ManifestFits, Spoken
  <2>3. CASE s.kind[c] \in {"legacy", "unsized-legacy"}
    BY <2>3, <1>2, <1>fields, <1>15 DEF ManifestFits, Spoken
  <2>4. CASE c \notin old
    BY <2>4, <1>2, <1>fields, <1>13, <1>15 DEF ManifestFits
  <2> QED
    BY <2>1, <2>2, <2>3, <2>4, <1>13
<1>17. Kept
  <2>1. \A c \in Shelved : DOMAIN stored[c] = {"names", "empty"}
    BY <1>7, StoredIs
  <2> QED
    BY <1>2, <1>4, <1>6, <2>1 DEF Kept
<1>18. \A p \in Passes : DOMAIN item[p] = Shelved /\ \A c \in Shelved : item[p][c] = NoWork
  BY <1>2 DEF Passes
<1>19. NormInv
  BY <1>14, <1>16, <1>17, <1>18, NoWorkFits, NormParts DEF CaptureFits
<1>20. ASSUME Passes = {1}, NEW c \in Shelved PROVE Tallied(s, c)
  <2>1. item[1][c] = NoWork
    BY <1>18, <1>20
  <2>2. LoneFits(item[1][c], receipt[c]) /\ Pending(item[1][c]) = 0
    BY <2>1, RestLone, PendingIs, NoWorkAt
  <2>3. Cardinality(Paid(c)) <= Links(receipt[c])
    <3>1. CASE c \in old
      <4>1. Paid(c) = {id(c)}
        BY <3>1, <1>3, <1>5, <1>6, <1>8 DEF Paid
      <4>2. Cardinality(Paid(c)) = 1
        BY <4>1, FS_Singleton
      <4>3. receipt[c].phase # "none" /\ Len(receipt[c].previous) = 0
        BY <3>1, <1>12, <1>13, <1>fields
      <4> QED
        BY <4>2, <4>3 DEF Links
    <3>2. CASE c \notin old
      <4>1. Paid(c) = {}
        BY <3>2, <1>3, <1>5, <1>6 DEF Paid
      <4>2. Cardinality(Paid(c)) = 0
        BY <4>1, FS_EmptySet
      <4>3. receipt[c].phase = "none"
        BY <3>2, <1>fields
      <4> QED
        BY <4>2, <4>3 DEF Links
    <3> QED
      BY <3>1, <3>2
  <2>4. trouble = s.trouble /\ trouble \in Trouble
    BY <1>2, <1>4
  <2>5. Wounds(s.trouble) - Wounds(trouble) = 0
    BY <2>4, WoundsIs
  <2>6. Links(receipt[c]) \in Nat /\ Cardinality(Paid(c)) \in Nat
    BY <1>6, <1>14, LinksIs, PaidIs DEF MaxChunkAttempts
  <2>7. Cardinality(Paid(c)) <= Links(receipt[c]) + 0 + 0
    BY <2>3, <2>6
  <2> QED
    BY <2>2, <2>5, <2>7 DEF Tallied
<1>21. SpendInv
  <2>1. s.passes = Passes /\ s.kind = kind /\ trouble \in Trouble
    BY <1>2, <1>4 DEF Passes
  <2> QED
    BY <1>20, <2>1 DEF SpendInv
<1> QED
  BY <1>19, <1>21

LEMMA AgainPaid ==
  ASSUME NormInv, NEW c \in Shelved, Again(c, assemblies)
  PROVE  Cardinality(Paid(c)) > 1
<1>1. PICK i, j \in DOMAIN assemblies : i # j /\ i \in Paid(c) /\ j \in Paid(c)
  BY DEF Again, Bought, Paid
<1>2. IsFiniteSet(Paid(c)) /\ Cardinality(Paid(c)) \in Nat
  BY PaidIs, NormParts DEF Kept
<1>3. Cardinality({i, j}) = 2
  <2>1. Cardinality({i}) = 1 /\ IsFiniteSet({i})
    BY FS_Singleton
  <2>2. {i, j} = {i} \cup {j} /\ j \notin {i}
    BY <1>1
  <2> QED
    BY <2>1, <2>2, FS_AddElement
<1>4. {i, j} \subseteq Paid(c)
  BY <1>1
<1>5. Cardinality({i, j}) <= Cardinality(Paid(c))
  BY <1>2, <1>4, FS_Subset
<1> QED
  BY <1>2, <1>3, <1>5

LEMMA NormHolds == NormInv /\ SpendInv => NormalizeIsSound
<1> SUFFICES ASSUME NormInv, SpendInv PROVE NormalizeIsSound
  OBVIOUS
<1>1. \A c \in Shelved : CaptureFits(c)
  BY NormParts
<1>2. CompletedHasManifest
  BY <1>1 DEF CompletedHasManifest, CaptureFits, ManifestFits
<1>3. AuditAgrees
  <2> SUFFICES ASSUME NEW c \in Shelved
               PROVE  \/ AuditOf(c) \in
                           {"matched", "settled", "in-flight", "not-media", "error", "unprocessed"}
                      \/ AuditOf(c) = "manifest-chunk-missing" /\ Overwritten(c)
                      \/ AuditOf(c) = "receipt-completed-no-manifest" /\ kind[c] = "healable"
    BY DEF AuditAgrees
  <2>1. CASE c \in settled
    BY <2>1 DEF AuditOf
  <2>2. CASE c \notin settled /\ kind[c] \in Spoken
    <3>1. manifest[c] = "none" /\ receipt[c].phase = "none"
      BY <1>1, <2>2 DEF CaptureFits, ManifestFits
    <3> QED
      BY <2>2, <3>1 DEF AuditOf, Spoken
  <2>3. CASE c \notin settled /\ kind[c] \notin Spoken /\ manifest[c] = "none"
    <3>1. AuditOf(c) = AuditReceipt(c)
      BY <2>3 DEF AuditOf, Spoken
    <3>2. receipt[c].phase \in {"none", "legacy", "chunks", "completed"}
      BY <1>1 DEF CaptureFits, ReceiptFits
    <3>3. receipt[c].phase = "completed" => kind[c] = "healable"
      BY <1>1, <2>3 DEF CaptureFits, ManifestFits
    <3> QED
      BY <3>1, <3>2, <3>3 DEF AuditReceipt
  <2>4. CASE c \notin settled /\ kind[c] \notin Spoken /\ manifest[c] # "none"
    <3>1. AuditOf(c) = AuditManifest(c)
      BY <2>4 DEF AuditOf, Spoken
    <3>2. CASE kind[c] = "direct" /\ manifest[c] = "whole"
      BY <3>1, <3>2 DEF AuditManifest
    <3>3. CASE ~(kind[c] = "direct" /\ manifest[c] = "whole")
      <4>1. manifest[c] = "chunks" /\ receipt[c].phase # "none"
        BY <1>1, <2>4, <3>3 DEF CaptureFits, ManifestFits
      <4>2. Covered(stored[c]) \/ Overwritten(c)
        BY <1>1, <4>1, AgainPaid DEF CaptureFits, ManifestFits, Overwritten
      <4> QED
        BY <3>1, <3>3, <4>1, <4>2 DEF AuditManifest, Covered
    <3> QED
      BY <3>2, <3>3
  <2> QED
    BY <2>1, <2>2, <2>3, <2>4
<1>4. SpendBounded
  <2> SUFFICES ASSUME Passes = {1}, NEW c \in Shelved
               PROVE  \E s \in NormScenes :
                        /\ s.kind = kind /\ s.passes = Passes
                        /\ Cardinality(Paid(c)) <=
                             MaxChunkAttempts + Wounds(s.trouble) - Wounds(trouble)
    BY DEF SpendBounded
  <2>1. PICK s \in NormScenes :
          /\ s.kind = kind /\ s.passes = Passes /\ trouble \in Trouble
          /\ Tallied(s, c)
    BY DEF SpendInv
  <2>2. Links(receipt[c]) + Pending(item[1][c]) <= 3
    <3>1. CASE item[1][c].at = "receipt!"
      <4>1. Len(item[1][c].job.previous) = Links(receipt[c])
        BY <2>1, <3>1 DEF Tallied, LoneFits
      <4>2. 1 \in Passes
        OBVIOUS
      <4>3. item[1][c].job.previous \in Seq(Nat) /\ Len(item[1][c].job.previous) + 1 <= MaxChunkAttempts
        BY <3>1, <4>2, WorkIs DEF Fits, WorkFits
      <4>4. Pending(item[1][c]) = 1
        BY <3>1, PendingIs
      <4> QED
        BY <4>1, <4>3, <4>4, <2>1, Numbers DEF MaxChunkAttempts
    <3>2. CASE item[1][c].at # "receipt!"
      BY <2>1, <3>2, Numbers, PendingIs
    <3> QED
      BY <3>1, <3>2
  <2>3. Pending(item[1][c]) \in {0, 1}
    BY PendingIs
  <2>4. Cardinality(Paid(c)) <= MaxChunkAttempts + Wounds(s.trouble) - Wounds(trouble)
    BY <2>1, <2>2, <2>3, Numbers DEF Tallied, MaxChunkAttempts
  <2> QED
    BY <2>1, <2>4
<1> QED
  BY <1>2, <1>3, <1>4 DEF NormalizeIsSound

THEOREM NormalizeStands == NormSpec => []NormalizeIsSound
<1>1. NormInit => NormInv /\ SpendInv
  BY NormBegins
<1>2. NormInv /\ SpendInv /\ [NormNext]_normVars => NormInv' /\ SpendInv'
  BY NormKeeps, SpendKeeps
<1>3. NormInv /\ SpendInv => NormalizeIsSound
  BY NormHolds
<1> QED
  BY <1>1, <1>2, <1>3, PTL DEF NormSpec

-----------------------------------------------------------------------------
(* The archive sweep: a receipt is only of what was copied.                *)

Size == 0 .. MaxSize
Here(c, f) == tree[Ingest][c][f]

\* A part that was cleared away.
Cleared(c, f) == f = "part" /\ Here(c, f) = 0

\* What is in the bucket came from where captures are ingested.
BucketFollows ==
  \A c \in Captured, f \in File : Archive(c)[f] <= Here(c, f) \/ Here(c, f) = 0

ReceiptsEarned ==
  \A s \in Store, c \in Captured, f \in File :
    receipts[s][c].sizes[f] > 0 => InArchive(c, f, receipts[s][c].sizes[f])

PassTyped(w) ==
  /\ DOMAIN w = {"at", "todo", "listed", "known", "open", "uploads", "changed", "file", "bytes"}
  /\ w.at \in {"rest", "list", "receipt?", "verify", "head", "read", "put", "receipt!"}
  /\ w.todo \in Seq(Captured) /\ (w.at # "rest" => w.todo # << >>)
  /\ w.listed \in FileSizes /\ w.known.sizes \in FileSizes
  /\ (w.at \in {"rest", "list"} => w.uploads = {})
  /\ w.open \subseteq File /\ w.uploads \subseteq File /\ w.file \in File /\ w.bytes \in Size

\* What a pass knows of the capture it is at, c: a file it has yet to look at is
\* there at the size listed, or was brought up to date since; what it is to
\* upload was overtaken; and what it has looked at is archived.
Knows(p, w, c) ==
  /\ \A f \in File : w.listed[f] > 0 =>
       \/ f \in w.open \cup w.uploads \/ (w.at = "head" /\ f = w.file)
       \/ InArchive(c, f, w.listed[f])
  /\ \A f \in File : w.listed[f] <= Here(c, f) \/ Here(c, f) = 0 \/ InArchive(c, f, w.listed[f])
  /\ p # Server => \A f \in w.open :
       \/ w.listed[f] = Archive(c)[f] \/ Cleared(c, f)
       \/ IF aligned THEN f = "provenance" ELSE Archive(c)[f] = Here(c, f)
  /\ aligned => \A f \in w.uploads : Cleared(c, f) \/ f = "provenance"
  /\ p # Server => \A f \in w.uploads : Archive(c)[f] = Here(c, f) \/ Cleared(c, f)
  /\ w.at \notin {"receipt?"} => \A f \in File :
       w.known.sizes[f] > 0 => InArchive(c, f, w.known.sizes[f])
  /\ w.at = "head" =>
       /\ p = Server
       /\ w.listed[w.file] = Here(c, w.file) \/ Cleared(c, w.file) \/ w.file = "provenance"
  /\ w.at = "put" =>
       /\ aligned => w.file = "provenance"
       /\ w.bytes > 0 /\ w.file \in w.uploads
       /\ w.bytes = Here(c, w.file) \/ Cleared(c, w.file)
  /\ w.at = "receipt!" => w.open = {} /\ w.uploads = {}
  /\ w.at \in {"receipt?", "verify", "head"} /\ p = Server => w.uploads = {}
  /\ w.at \in {"read", "put"} =>
       IF p = Server THEN \E f \in File : w.uploads = {f} ELSE w.open = {}

PassFitsHere(p) ==
  /\ PassTyped(sweep[p])
  /\ ~In(p, "rest") /\ ~In(p, "list") => Knows(p, sweep[p], Item(p))

ArchTyped ==
  /\ aligned \in BOOLEAN /\ DOMAIN sweep \subseteq {1, 2, 3}
  /\ tree \in [Store -> [Captured -> FileSizes]]
  /\ receipts \in [Store -> [Captured -> [state : {"none", "corrupt", "ok"}, sizes : FileSizes]]]
  /\ rotation \in Nat
  /\ DOMAIN archLeft = {"grows", "vanishes", "deaths", "fails"}
  /\ \A k \in DOMAIN archLeft : archLeft[k] \in Nat

ArchInv ==
  /\ ArchTyped /\ BucketFollows /\ ReceiptsEarned
  /\ \A p \in DOMAIN sweep : PassFitsHere(p)

\* No pass holds what was read of the provenance and is yet to be copied; and no
\* pass copies from the bucket to the bucket what is appended to elsewhere.
LeftAlone(c) ==
  \A p \in DOMAIN sweep :
    \/ In(p, "rest") \/ In(p, "list") \/ Item(p) # c
    \/ (aligned \/ p = Server) /\ ~(In(p, "put") /\ sweep[p].file = "provenance")

GrowsApart ==
  \A c \in Captured :
    tree'[Ingest][c]["provenance"] > tree[Ingest][c]["provenance"] => LeftAlone(c)

LEMMA CensusFinite == IsFiniteSet(Captured)
<1> DEFINE f == [i \in DOMAIN Catalog |-> Catalog[i]]
<1>1. DOMAIN Catalog = 1 .. Len(Catalog) /\ Len(Catalog) \in Nat
  BY ArchiveAssumption
<1>2. f \in Surjection(DOMAIN Catalog, Captured)
  BY DEF Surjection, Captured
<1>3. IsFiniteSet(DOMAIN Catalog)
  BY <1>1, FS_Interval
<1> HIDE DEF f
<1> QED
  BY <1>2, <1>3, FS_Surjection

\* What is selected is of the census.
LEMMA SelectionOf ==
  ASSUME NEW S \in SUBSET Captured, NEW q \in InIdOrder(S)
  PROVE  q \in Seq(Captured)
<1>1. IsFiniteSet(S)
  BY CensusFinite, FS_Subset
<1>2. Cardinality(S) \in Nat
  BY <1>1, FS_CardinalityType
<1>3. q \in [1 .. Cardinality(S) -> S]
  BY DEF InIdOrder
<1> QED
  BY <1>2, <1>3

LEMMA TailOf ==
  ASSUME NEW q \in Seq(Captured), q # << >>
  PROVE  Tail(q) \in Seq(Captured) /\ Head(q) \in Captured
OBVIOUS

LEMMA OverTyped ==
  ASSUME NEW q \in Seq(Captured)
  PROVE  PassTyped(Over(q)) /\ Over(q).at \in {"rest", "list"}
<1>1. Nothing \in FileSizes /\ "blob" \in File /\ 0 \in Size
  BY ArchiveAssumption DEF Nothing, FileSizes, File, Size
<1>2. CASE q = << >>
  BY <1>1, <1>2 DEF Over, AtRest, NoReceipt, PassTyped
<1>3. CASE q # << >>
  <2>1. Over(q) = [AtRest EXCEPT !.at = "list", !.todo = q]
    BY <1>3 DEF Over
  <2>2. /\ DOMAIN Over(q) = DOMAIN AtRest /\ Over(q).at = "list" /\ Over(q).todo = q
        /\ Over(q).listed = Nothing /\ Over(q).known = NoReceipt /\ Over(q).open = {}
        /\ Over(q).uploads = {} /\ Over(q).file = "blob" /\ Over(q).bytes = 0
    BY <2>1 DEF AtRest
  <2>3. DOMAIN AtRest = {"at", "todo", "listed", "known", "open", "uploads", "changed", "file",
                         "bytes"}
    BY DEF AtRest
  <2> QED
    BY <1>1, <1>3, <2>2, <2>3 DEF PassTyped, NoReceipt
<1> QED
  BY <1>2, <1>3

\* What a step does to a capture, seen by a pass that is at it.
EnvFits(c) ==
  /\ aligned' = aligned
  /\ \A f \in File :
       /\ Cleared(c, f) => Cleared(c, f)'
       /\ Here(c, f)' = Here(c, f) \/ Cleared(c, f)'
       /\ \/ Archive(c)[f]' = Archive(c)[f] \/ Cleared(c, f)'
          \/ ~aligned /\ Archive(c)[f]' = Here(c, f)'
       /\ \A n \in Nat : InArchive(c, f, n) => InArchive(c, f, n)'

LEMMA KnowsStill ==
  ASSUME NEW p, NEW w, NEW c \in Captured, PassTyped(w), Knows(p, w, c), EnvFits(c)
  PROVE  Knows(p, w, c)'
<1>1. \A f \in File : w.listed[f] \in Nat /\ w.known.sizes[f] \in Nat
  BY ArchiveAssumption DEF PassTyped, FileSizes
<1>2. aligned' = aligned
  BY DEF EnvFits
<1>3. ASSUME NEW f \in File
      PROVE  /\ Cleared(c, f) => Cleared(c, f)'
             /\ Here(c, f)' = Here(c, f) \/ Cleared(c, f)'
             /\ \/ Archive(c)[f]' = Archive(c)[f] \/ Cleared(c, f)'
                \/ ~aligned /\ Archive(c)[f]' = Here(c, f)'
             /\ \A n \in Nat : InArchive(c, f, n) => InArchive(c, f, n)'
  BY DEF EnvFits
<1>4. \A f \in File : w.listed[f] > 0 =>
        \/ f \in w.open \cup w.uploads \/ (w.at = "head" /\ f = w.file)
        \/ InArchive(c, f, w.listed[f])'
  BY <1>1, <1>3 DEF Knows
<1>5. \A f \in File :
        w.listed[f] <= Here(c, f)' \/ Here(c, f)' = 0 \/ InArchive(c, f, w.listed[f])'
  <2> TAKE f \in File
  <2>1. w.listed[f] <= Here(c, f) \/ Here(c, f) = 0 \/ InArchive(c, f, w.listed[f])
    BY DEF Knows
  <2>2. Cleared(c, f)' => Here(c, f)' = 0
    BY DEF Cleared
  <2> QED
    BY <1>1, <1>3, <2>1, <2>2
<1>6. p # Server => \A f \in w.open :
        \/ w.listed[f] = Archive(c)[f]' \/ Cleared(c, f)'
        \/ IF aligned THEN f = "provenance" ELSE Archive(c)[f]' = Here(c, f)'
  <2> SUFFICES ASSUME p # Server, NEW f \in w.open
               PROVE  \/ w.listed[f] = Archive(c)[f]' \/ Cleared(c, f)'
                      \/ IF aligned THEN f = "provenance" ELSE Archive(c)[f]' = Here(c, f)'
    OBVIOUS
  <2>1. f \in File
    BY DEF PassTyped
  <2>2. \/ w.listed[f] = Archive(c)[f] \/ Cleared(c, f)
        \/ IF aligned THEN f = "provenance" ELSE Archive(c)[f] = Here(c, f)
    BY DEF Knows
  <2> QED
    BY <1>3, <2>1, <2>2
<1>7. aligned => \A f \in w.uploads : Cleared(c, f)' \/ f = "provenance"
  BY <1>3 DEF Knows, PassTyped
<1>8. p # Server => \A f \in w.uploads : Archive(c)[f]' = Here(c, f)' \/ Cleared(c, f)'
  <2> SUFFICES ASSUME p # Server, NEW f \in w.uploads
               PROVE  Archive(c)[f]' = Here(c, f)' \/ Cleared(c, f)'
    OBVIOUS
  <2>1. f \in File /\ (Archive(c)[f] = Here(c, f) \/ Cleared(c, f))
    BY DEF PassTyped, Knows
  <2> QED
    BY <1>3, <2>1
<1>9. w.at # "receipt?" => \A f \in File :
        w.known.sizes[f] > 0 => InArchive(c, f, w.known.sizes[f])'
  BY <1>1, <1>3 DEF Knows
<1>10. w.at = "head" =>
         /\ p = Server
         /\ w.listed[w.file] = Here(c, w.file)' \/ Cleared(c, w.file)' \/ w.file = "provenance"
  <2>1. w.file \in File
    BY DEF PassTyped
  <2> QED
    BY <1>3, <2>1 DEF Knows
<1>11. w.at = "put" => w.bytes = Here(c, w.file)' \/ Cleared(c, w.file)'
  <2>1. w.file \in File
    BY DEF PassTyped
  <2> QED
    BY <1>3, <2>1 DEF Knows
<1> QED
  BY <1>2, <1>4, <1>5, <1>6, <1>7, <1>8, <1>9, <1>10, <1>11 DEF Knows

\* A sighting is appended to a provenance that no pass holds.
LEMMA KnowsGrown ==
  ASSUME NEW p, NEW w, NEW c \in Captured, PassTyped(w), Knows(p, w, c), aligned' = aligned,
         \A f \in File : Here(c, f) \in Nat /\ Archive(c)[f] \in Nat,
         aligned => \A f \in File : Archive(c)[f]' = Here(c, f)',
         ~aligned => \A f \in File : Archive(c)[f]' = Archive(c)[f],
         \A f \in File : f # "provenance" => Here(c, f)' = Here(c, f) /\ Archive(c)[f]' = Archive(c)[f],
         Here(c, "provenance") > 0, Here(c, "provenance")' = Here(c, "provenance") + 1,
         \A f \in File, n \in Nat : InArchive(c, f, n) => InArchive(c, f, n)',
         aligned \/ p = Server, ~(w.at = "put" /\ w.file = "provenance")
  PROVE  Knows(p, w, c)'
<1>1. \A f \in File : w.listed[f] \in Nat /\ w.known.sizes[f] \in Nat
  BY ArchiveAssumption DEF PassTyped, FileSizes
<1>2. \A f \in File : Cleared(c, f) <=> Cleared(c, f)'
  BY DEF Cleared
<1>3. \A f \in File : w.listed[f] > 0 =>
        \/ f \in w.open \cup w.uploads \/ (w.at = "head" /\ f = w.file)
        \/ InArchive(c, f, w.listed[f])'
  BY <1>1 DEF Knows
<1>4. \A f \in File :
        w.listed[f] <= Here(c, f)' \/ Here(c, f)' = 0 \/ InArchive(c, f, w.listed[f])'
  <2> TAKE f \in File
  <2>1. w.listed[f] <= Here(c, f) \/ Here(c, f) = 0 \/ InArchive(c, f, w.listed[f])
    BY DEF Knows
  <2> QED
    BY <1>1, <2>1
<1>5. p # Server => \A f \in w.open :
        \/ w.listed[f] = Archive(c)[f]' \/ Cleared(c, f)'
        \/ IF aligned THEN f = "provenance" ELSE Archive(c)[f]' = Here(c, f)'
  <2> SUFFICES ASSUME p # Server, NEW f \in w.open, f # "provenance"
               PROVE  w.listed[f] = Archive(c)[f]' \/ Cleared(c, f)'
    OBVIOUS
  <2>1. f \in File
    BY DEF PassTyped
  <2> QED
    BY <1>2, <2>1 DEF Knows
<1>6. aligned => \A f \in w.uploads : Cleared(c, f)' \/ f = "provenance"
  BY <1>2 DEF Knows, PassTyped
<1>7. p # Server => \A f \in w.uploads : Archive(c)[f]' = Here(c, f)' \/ Cleared(c, f)'
  BY DEF PassTyped
<1>8. w.at # "receipt?" => \A f \in File :
        w.known.sizes[f] > 0 => InArchive(c, f, w.known.sizes[f])'
  BY <1>1 DEF Knows
<1>9. w.at = "head" =>
         /\ p = Server
         /\ w.listed[w.file] = Here(c, w.file)' \/ Cleared(c, w.file)' \/ w.file = "provenance"
  <2>1. w.file \in File
    BY DEF PassTyped
  <2> QED
    BY <1>2, <2>1 DEF Knows
<1>10. w.at = "put" => w.bytes = Here(c, w.file)' \/ Cleared(c, w.file)'
  <2>1. w.file \in File
    BY DEF PassTyped
  <2> QED
    BY <1>2, <2>1 DEF Knows
<1> QED
  BY <1>3, <1>4, <1>5, <1>6, <1>7, <1>8, <1>9, <1>10 DEF Knows
LEMMA ItemIs ==
  ASSUME ArchInv, NEW p \in DOMAIN sweep, ~In(p, "rest")
  PROVE  /\ Item(p) \in Captured /\ PassTyped(sweep[p])
         /\ Tail(sweep[p].todo) \in Seq(Captured)
         /\ ~In(p, "list") => Knows(p, sweep[p], Item(p))
<1>1. PassFitsHere(p)
  BY DEF ArchInv
<1>2. sweep[p].todo \in Seq(Captured) /\ sweep[p].todo # << >>
  BY <1>1 DEF PassFitsHere, PassTyped, In
<1> QED
  BY <1>1, <1>2, TailOf DEF PassFitsHere, Item

\* A pass that does not move, while the capture it is at is dealt with fairly.
LEMMA PassStays ==
  ASSUME ArchInv, NEW x \in DOMAIN sweep, sweep'[x] = sweep[x],
         In(x, "rest") \/ In(x, "list") \/ \A c \in Captured : c = Item(x) => EnvFits(c)
  PROVE  PassFitsHere(x)'
<1>1. PassFitsHere(x)
  BY DEF ArchInv
<1>2. CASE In(x, "rest") \/ In(x, "list")
  BY <1>1, <1>2 DEF PassFitsHere, In, PassTyped
<1>3. CASE ~In(x, "rest") /\ ~In(x, "list")
  <2>1. Item(x) \in Captured /\ PassTyped(sweep[x]) /\ Knows(x, sweep[x], Item(x))
    BY <1>3, ItemIs
  <2>2. PICK c \in Captured, v \in {sweep[x]} : c = Item(x) /\ v = sweep[x]
    BY <2>1
  <2>3. EnvFits(c)
    BY <1>3, <2>2
  <2>4. Knows(x, v, c)'
    BY <2>1, <2>2, <2>3, KnowsStill
  <2>5. Item(x)' = c /\ sweep'[x] = v
    BY <2>2 DEF Item
  <2>6. Knows(x, sweep[x], Item(x))'
    BY <2>4, <2>5 DEF Knows
  <2> QED
    BY <1>1, <2>1, <2>6 DEF PassFitsHere, PassTyped
<1> QED
  BY <1>2, <1>3

\* A step of pass p, that leaves the others alone.
LEMMA PassMoves ==
  ASSUME ArchInv, NEW p \in DOMAIN sweep, NEW w, sweep' = [sweep EXCEPT ![p] = w],
         PassTyped(w), w.at \in {"rest", "list"} \/ Knows(p, w, Head(w.todo))',
         \A c \in Captured : EnvFits(c)
  PROVE  DOMAIN sweep' = DOMAIN sweep /\ \A x \in DOMAIN sweep : PassFitsHere(x)'
<1>1. DOMAIN sweep' = DOMAIN sweep
  OBVIOUS
<1>2. ASSUME NEW x \in DOMAIN sweep, x # p
      PROVE  PassFitsHere(x)'
  <2>1. sweep'[x] = sweep[x]
    BY <1>2
  <2> QED
    BY <2>1, PassStays
<1>3. PassFitsHere(p)'
  <2>1. sweep'[p] = w
    OBVIOUS
  <2>2. PassTyped(sweep[p])'
    BY <2>1 DEF PassTyped
  <2>3. ~In(p, "rest")' /\ ~In(p, "list")' => Knows(p, sweep[p], Item(p))'
    BY <2>1 DEF In, Item, Knows
  <2> QED
    BY <2>2, <2>3 DEF PassFitsHere
<1> QED
  BY <1>1, <1>2, <1>3

LEMMA StoresSame ==
  ASSUME UNCHANGED <<aligned, tree>>, NEW c
  PROVE  EnvFits(c)
BY DEF EnvFits, Cleared, Here, Archive, InArchive, Ingest

\* A step of a pass that leaves the stores and the receipts alone.
LEMMA SweepOnly ==
  ASSUME ArchInv, NEW p \in DOMAIN sweep, NEW w, sweep' = [sweep EXCEPT ![p] = w], StoresStay,
         PassTyped(w), w.at \in {"rest", "list"} \/ Knows(p, w, Head(w.todo)),
         rotation' \in Nat, archLeft' = archLeft \/ \E k \in DOMAIN archLeft : Pay(k)
  PROVE  ArchInv'
<1>1. aligned' = aligned /\ tree' = tree /\ receipts' = receipts
  BY DEF StoresStay
<1>2. w.at \in {"rest", "list"} \/ Knows(p, w, Head(w.todo))'
  BY <1>1 DEF Knows, Here, Archive, Cleared, InArchive, Ingest
<1>3. DOMAIN sweep' = DOMAIN sweep /\ \A x \in DOMAIN sweep : PassFitsHere(x)'
  BY <1>1, <1>2, StoresSame, PassMoves
<1>4. DOMAIN archLeft' = DOMAIN archLeft /\ \A k \in DOMAIN archLeft : archLeft'[k] \in Nat
  BY DEF Pay, ArchInv, ArchTyped
<1>5. ArchTyped'
  BY <1>1, <1>3, <1>4 DEF ArchTyped, ArchInv
<1>6. BucketFollows' /\ ReceiptsEarned'
  BY <1>1 DEF ArchInv, BucketFollows, ReceiptsEarned, Here, Archive, InArchive, Ingest
<1> QED
  BY <1>3, <1>5, <1>6 DEF ArchInv

LEMMA GoesOn ==
  ASSUME ArchInv, NEW p \in DOMAIN sweep, ~In(p, "rest"), NextCapture(p), StoresStay,
         rotation' = rotation, archLeft' = archLeft \/ \E k \in DOMAIN archLeft : Pay(k)
  PROVE  ArchInv'
<1>1. PICK q \in Seq(Captured) : q = Tail(sweep[p].todo)
  BY ItemIs
<1>2. PICK w : w = Over(q)
  OBVIOUS
<1>3. sweep' = [sweep EXCEPT ![p] = w]
  BY <1>1, <1>2 DEF NextCapture, Put
<1>4. PassTyped(w) /\ w.at \in {"rest", "list"}
  BY <1>2, OverTyped
<1>5. rotation' \in Nat
  BY DEF ArchInv, ArchTyped
<1> QED
  BY <1>3, <1>4, <1>5, SweepOnly

LEMMA BeginsFit ==
  ASSUME ArchInv, NEW p \in DOMAIN sweep, BeginSweep(p)
  PROVE  ArchInv'
<1> DEFINE new == {c \in Captured : ~Receipted(c)}
           old == {c \in Captured : Receipted(c)}
<1>1. PICK frontier \in InIdOrder(new), census \in InIdOrder(old) :
        LET taken == SubSeq(frontier, 1,
                       IF Len(frontier) < ArchLimit THEN Len(frontier) ELSE ArchLimit)
            n     == SliceSize(taken, census)
        IN /\ Put(p, Over(taken \o RoundRobin(rotation, n, census)))
           /\ rotation' = IF census = << >> THEN 0 ELSE (rotation + n) % Len(census)
  BY DEF BeginSweep
<1> DEFINE m == IF Len(frontier) < ArchLimit THEN Len(frontier) ELSE ArchLimit
           taken == SubSeq(frontier, 1, m)
           n == SliceSize(taken, census)
           slice == RoundRobin(rotation, n, census)
<1>2. new \in SUBSET Captured /\ old \in SUBSET Captured
  OBVIOUS
<1>3. frontier \in Seq(Captured) /\ census \in Seq(Captured)
  BY <1>2, SelectionOf
<1>4. rotation \in Nat
  BY DEF ArchInv, ArchTyped
<1> HIDE DEF new, old
<1>5. m \in Nat /\ m <= Len(frontier) /\ m <= ArchLimit
  BY <1>3, ArchiveAssumption
<1>6. taken \in Seq(Captured) /\ Len(taken) <= m
  <2>1. \A i \in 1 .. m : frontier[i] \in Captured
    BY <1>3, <1>5
  <2> HIDE DEF m
  <2> QED
    BY <1>5, <2>1, SubSeqProperties
<1> HIDE DEF m, taken
<1>7. n \in Nat /\ n <= Len(census)
  BY <1>3, <1>5, <1>6, ArchiveAssumption DEF SliceSize
<1> HIDE DEF n
<1>8. slice \in Seq(Captured)
  <2>1. \A i \in 1 .. n : ((rotation + i - 1) % Len(census)) + 1 \in 1 .. Len(census)
    <3> TAKE i \in 1 .. n
    <3>1. Len(census) \in Nat \ {0} /\ rotation + i - 1 \in Nat
      BY <1>3, <1>4, <1>7
    <3> QED
      BY <3>1
  <2>2. slice \in [1 .. n -> Captured]
    BY <1>3, <2>1 DEF RoundRobin
  <2> QED
    BY <1>7, <2>2
<1>9. rotation' \in Nat
  <2>1. rotation' = IF census = << >> THEN 0 ELSE (rotation + n) % Len(census)
    BY <1>1 DEF n, taken, m
  <2>2. CASE census = << >>
    BY <2>1, <2>2
  <2>3. CASE census # << >>
    <3>1. Len(census) \in Nat \ {0} /\ rotation + n \in Nat
      BY <1>3, <1>4, <1>7, <2>3
    <3> QED
      BY <2>1, <2>3, <3>1
  <2> QED
    BY <2>2, <2>3
<1>10. Put(p, Over(taken \o slice))
  BY <1>1 DEF n, taken, m
<1>11. PICK q \in Seq(Captured) : q = taken \o slice
  BY <1>6, <1>8, ConcatProperties
<1>12. PICK w : w = Over(q)
  OBVIOUS
<1>13. sweep' = [sweep EXCEPT ![p] = w] /\ PassTyped(w) /\ w.at \in {"rest", "list"}
  BY <1>10, <1>11, <1>12, OverTyped DEF Put
<1> QED
  BY <1>9, <1>13, SweepOnly DEF BeginSweep

LEMMA ServerBeginsFit ==
  ASSUME ArchInv, BeginServerSweep
  PROVE  ArchInv'
<1>1. PICK w : w = Over(Catalog)
  OBVIOUS
<1>2. sweep' = [sweep EXCEPT ![Server] = w] /\ PassTyped(w) /\ w.at \in {"rest", "list"}
  BY <1>1, OverTyped, ArchiveAssumption DEF BeginServerSweep, Put
<1>3. rotation' \in Nat /\ archLeft' = archLeft /\ StoresStay /\ Server \in DOMAIN sweep
  BY DEF BeginServerSweep, OnlySweep, ArchInv, ArchTyped
<1> QED
  BY <1>2, <1>3, SweepOnly
-----------------------------------------------------------------------------
(* One capture, step by step.                                              *)

\* What a pass that is at a capture may use.
LEMMA AtItem ==
  ASSUME ArchInv, NEW p \in DOMAIN sweep, ~In(p, "rest")
  PROVE  \E c \in Captured, w \in {sweep[p]} :
           /\ c = Item(p) /\ w = sweep[p] /\ PassTyped(w) /\ c = Head(w.todo)
           /\ Tree(p, c) \in FileSizes /\ Archive(c) \in FileSizes
           /\ \A f \in File : Here(c, f) \in Nat /\ Archive(c)[f] \in Nat
           /\ p = Server => \A f \in File : Tree(p, c)[f] = Here(c, f)
           /\ p # Server => \A f \in File : Tree(p, c)[f] = Archive(c)[f]
           /\ aligned => \A f \in File : Archive(c)[f] = Here(c, f)
           /\ w.at # "list" => Knows(p, w, c)
<1>1. Item(p) \in Captured /\ PassTyped(sweep[p]) /\ (~In(p, "list") => Knows(p, sweep[p], Item(p)))
  BY ItemIs
<1>2. PICK c \in Captured, w \in {sweep[p]} : c = Item(p) /\ w = sweep[p]
  BY <1>1
<1>3. tree["bucket"][c] \in FileSizes /\ tree["disk"][c] \in FileSizes
  BY DEF ArchInv, ArchTyped, Store
<1>4. Tree(p, c) \in FileSizes /\ Archive(c) \in FileSizes /\ tree[Ingest][c] \in FileSizes
  BY <1>3 DEF Tree, Home, Archive, Ingest
<1>5. \A f \in File : Here(c, f) \in Nat /\ Archive(c)[f] \in Nat
  BY <1>4, ArchiveAssumption DEF Here, FileSizes
<1>6. /\ p = Server => \A f \in File : Tree(p, c)[f] = Here(c, f)
      /\ p # Server => \A f \in File : Tree(p, c)[f] = Archive(c)[f]
      /\ aligned => \A f \in File : Archive(c)[f] = Here(c, f)
  BY DEF Tree, Home, Here, Archive, Ingest
<1> QED
  BY <1>1, <1>2, <1>4, <1>5, <1>6 DEF In, Item

\* The step of a pass that rewrites only what it knows.
LEMMA Rewrites ==
  ASSUME ArchInv, NEW p \in DOMAIN sweep, NEW w, Put(p, w), OnlySweep,
         PassTyped(w), w.at \in {"rest", "list"} \/ Knows(p, w, Head(w.todo))
  PROVE  ArchInv'
BY SweepOnly DEF Put, OnlySweep, ArchInv, ArchTyped

LEMMA ListFits ==
  ASSUME ArchInv, NEW p \in DOMAIN sweep, ListFiles(p)
  PROVE  ArchInv'
<1>1. In(p, "list") /\ ~In(p, "rest") /\ OnlySweep
  BY DEF ListFiles, In
<1>2. PICK c \in Captured, w \in {sweep[p]} :
           /\ c = Item(p) /\ w = sweep[p] /\ PassTyped(w) /\ c = Head(w.todo)
           /\ Tree(p, c) \in FileSizes /\ Archive(c) \in FileSizes
           /\ \A f \in File : Here(c, f) \in Nat /\ Archive(c)[f] \in Nat
           /\ p = Server => \A f \in File : Tree(p, c)[f] = Here(c, f)
           /\ p # Server => \A f \in File : Tree(p, c)[f] = Archive(c)[f]
  BY <1>1, AtItem
<1>3. CASE Listed(Tree(p, c)) = {}
  <2>1. NextCapture(p)
    BY <1>2, <1>3 DEF ListFiles
  <2> QED
    BY <1>1, <2>1, GoesOn DEF OnlySweep
<1>4. CASE Listed(Tree(p, c)) # {}
  <2>1. PICK v : v = [w EXCEPT !.at = "receipt?", !.listed = Tree(p, c), !.open = Listed(Tree(p, c))]
    OBVIOUS
  <2>2. Put(p, v)
    BY <1>2, <1>4, <2>1 DEF ListFiles
  <2>3. /\ DOMAIN v = DOMAIN w /\ v.at = "receipt?" /\ v.listed = Tree(p, c)
        /\ v.open = Listed(Tree(p, c)) /\ v.todo = w.todo /\ v.known = w.known
        /\ v.uploads = w.uploads /\ v.file = w.file /\ v.bytes = w.bytes
    BY <1>2, <2>1 DEF PassTyped
  <2>4. PassTyped(v)
    BY <1>1, <1>2, <2>3 DEF PassTyped, Listed, In
  <2>5. w.uploads = {}
    BY <1>1, <1>2 DEF PassTyped, In
  <2>6. Knows(p, v, c)
    <3>1. \A f \in File : v.listed[f] > 0 => f \in v.open
      BY <2>3 DEF Listed
    <3>2. \A f \in File : v.listed[f] <= Here(c, f) \/ Here(c, f) = 0
      BY <1>2, <2>3 DEF ArchInv, BucketFollows
    <3>3. p # Server => \A f \in v.open : v.listed[f] = Archive(c)[f]
      BY <1>2, <2>3 DEF Listed
    <3> QED
      BY <2>3, <2>5, <3>1, <3>2, <3>3 DEF Knows
  <2> QED
    BY <1>1, <1>2, <2>2, <2>3, <2>4, <2>6, Rewrites
<1> QED
  BY <1>3, <1>4
LEMMA ReadKnownFits ==
  ASSUME ArchInv, NEW p \in DOMAIN sweep, ReadKnown(p)
  PROVE  ArchInv'
<1>1. In(p, "receipt?") /\ ~In(p, "rest") /\ OnlySweep
  BY DEF ReadKnown, In
<1>2. PICK c \in Captured, w \in {sweep[p]} :
           /\ c = Item(p) /\ w = sweep[p] /\ PassTyped(w) /\ c = Head(w.todo)
           /\ w.at # "list" => Knows(p, w, c)
  BY <1>1, AtItem
<1> DEFINE r == receipts[Home(p)][c]
<1>3. w.at = "receipt?" /\ Knows(p, w, c)
  BY <1>1, <1>2 DEF In
<1>4. CASE r.state = "corrupt" /\ p # Server
  <2>1. NextCapture(p)
    BY <1>2, <1>4 DEF ReadKnown
  <2> QED
    BY <1>1, <2>1, GoesOn DEF OnlySweep
<1>5. CASE ~(r.state = "corrupt" /\ p # Server)
  <2>1. PICK v : v = [w EXCEPT !.at = "verify", !.known = r, !.changed = r.state # "ok"]
    OBVIOUS
  <2>2. Put(p, v)
    BY <1>2, <1>5, <2>1 DEF ReadKnown
  <2>3. /\ DOMAIN v = DOMAIN w /\ v.at = "verify" /\ v.listed = w.listed
        /\ v.open = w.open /\ v.todo = w.todo /\ v.known = r
        /\ v.uploads = w.uploads /\ v.file = w.file /\ v.bytes = w.bytes
    BY <1>2, <2>1 DEF PassTyped
  <2>4. Home(p) \in Store
    BY DEF Home, Ingest, Store
  <2>5. r.sizes \in FileSizes
    BY <2>4 DEF ArchInv, ArchTyped
  <2>6. \A f \in File : r.sizes[f] > 0 => InArchive(c, f, r.sizes[f])
    BY <2>4 DEF ArchInv, ReceiptsEarned
  <2> HIDE DEF r
  <2>7. PassTyped(v)
    BY <1>2, <1>3, <2>3, <2>5 DEF PassTyped
  <2>8. Knows(p, v, c)
    BY <1>3, <2>3, <2>6 DEF Knows
  <2> QED
    BY <1>1, <1>2, <2>2, <2>3, <2>7, <2>8, Rewrites
<1> QED
  BY <1>4, <1>5

LEMMA VerifyFits ==
  ASSUME ArchInv, NEW p \in DOMAIN sweep, VerifyFile(p)
  PROVE  ArchInv'
<1>1. In(p, "verify") /\ ~In(p, "rest") /\ OnlySweep /\ p # Server
  BY DEF VerifyFile, In
<1>2. PICK c \in Captured, w \in {sweep[p]} :
           /\ c = Item(p) /\ w = sweep[p] /\ PassTyped(w) /\ c = Head(w.todo)
           /\ \A f \in File : Here(c, f) \in Nat /\ Archive(c)[f] \in Nat
           /\ aligned => \A f \in File : Archive(c)[f] = Here(c, f)
           /\ w.at # "list" => Knows(p, w, c)
  BY <1>1, AtItem
<1>3. w.at = "verify" /\ Knows(p, w, c)
  BY <1>1, <1>2 DEF In
<1>4. PICK f \in w.open :
        Put(p, [w EXCEPT !.open = @ \ {f},
            !.changed = @ \/ ~Carried(w, f),
            !.uploads = IF Carried(w, f) \/ Archive(c)[f] = w.listed[f] THEN @ ELSE @ \cup {f}])
  BY <1>2 DEF VerifyFile
<1>5. PICK v : v = [w EXCEPT !.open = @ \ {f},
            !.changed = @ \/ ~Carried(w, f),
            !.uploads = IF Carried(w, f) \/ Archive(c)[f] = w.listed[f] THEN @ ELSE @ \cup {f}]
  OBVIOUS
<1>6. /\ DOMAIN v = DOMAIN w /\ v.at = "verify" /\ v.listed = w.listed
      /\ v.open = w.open \ {f} /\ v.todo = w.todo /\ v.known = w.known
      /\ v.uploads = IF Carried(w, f) \/ Archive(c)[f] = w.listed[f] THEN w.uploads
                     ELSE w.uploads \cup {f}
      /\ v.file = w.file /\ v.bytes = w.bytes
  BY <1>2, <1>3, <1>5 DEF PassTyped
<1>7. f \in File /\ w.listed[f] \in Nat
  BY <1>2, ArchiveAssumption DEF PassTyped, FileSizes
<1>8. PassTyped(v)
  BY <1>2, <1>3, <1>6, <1>7 DEF PassTyped
<1>9. CASE Carried(w, f) \/ Archive(c)[f] = w.listed[f]
  <2>1. w.listed[f] > 0 => InArchive(c, f, w.listed[f])
    <3>1. CASE Carried(w, f)
      BY <1>3, <1>7, <3>1 DEF Carried, Knows
    <3>2. CASE Archive(c)[f] = w.listed[f]
      BY <1>2, <1>7, <3>2 DEF InArchive
    <3> QED
      BY <1>9, <3>1, <3>2
  <2>2. v.uploads = w.uploads
    BY <1>6, <1>9
  <2>3. Knows(p, v, c)
    BY <1>1, <1>3, <1>6, <2>1, <2>2 DEF Knows
  <2> QED
    BY <1>1, <1>2, <1>4, <1>5, <1>6, <1>8, <2>3, Rewrites
<1>10. CASE ~Carried(w, f) /\ Archive(c)[f] # w.listed[f]
  <2>1. /\ Cleared(c, f) \/ Archive(c)[f] = Here(c, f)
        /\ aligned => Cleared(c, f) \/ f = "provenance"
    BY <1>1, <1>2, <1>3, <1>7, <1>10 DEF Knows
  <2>2. v.uploads = w.uploads \cup {f}
    BY <1>6, <1>10
  <2>3. Knows(p, v, c)
    BY <1>1, <1>3, <1>6, <1>7, <2>1, <2>2 DEF Knows
  <2> QED
    BY <1>1, <1>2, <1>4, <1>5, <1>6, <1>8, <2>3, Rewrites
<1> QED
  BY <1>9, <1>10

LEMMA StartFits ==
  ASSUME ArchInv, NEW p \in DOMAIN sweep, StartCopies(p)
  PROVE  ArchInv'
<1>1. In(p, "verify") /\ ~In(p, "rest") /\ OnlySweep
  BY DEF StartCopies, In
<1>2. PICK c \in Captured, w \in {sweep[p]} :
           /\ c = Item(p) /\ w = sweep[p] /\ PassTyped(w) /\ c = Head(w.todo)
           /\ w.at # "list" => Knows(p, w, c)
  BY <1>1, AtItem
<1>3. w.at = "verify" /\ Knows(p, w, c) /\ w.open = {}
  BY <1>1, <1>2 DEF In, StartCopies
<1>4. PICK v : v = [w EXCEPT !.at = IF w.uploads = {} THEN "receipt!" ELSE "read"]
  OBVIOUS
<1>5. Put(p, v)
  BY <1>2, <1>4 DEF StartCopies, To
<1>6. /\ DOMAIN v = DOMAIN w /\ v.at = (IF w.uploads = {} THEN "receipt!" ELSE "read")
      /\ v.listed = w.listed /\ v.open = w.open /\ v.todo = w.todo /\ v.known = w.known
      /\ v.uploads = w.uploads /\ v.file = w.file /\ v.bytes = w.bytes
  BY <1>2, <1>4 DEF PassTyped
<1>7. PassTyped(v)
  BY <1>2, <1>3, <1>6 DEF PassTyped
<1>8. p = Server => w.uploads = {}
  BY <1>3 DEF Knows
<1>9. Knows(p, v, c)
  BY <1>3, <1>6, <1>8 DEF Knows
<1> QED
  BY <1>1, <1>2, <1>5, <1>6, <1>7, <1>9, Rewrites

LEMMA SizeFits ==
  ASSUME ArchInv, SizeFile
  PROVE  ArchInv'
<1>1. Server \in DOMAIN sweep /\ In(Server, "verify") /\ ~In(Server, "rest") /\ OnlySweep
  BY DEF SizeFile, In
<1>2. PICK c \in Captured, w \in {sweep[Server]} :
           /\ c = Item(Server) /\ w = sweep[Server] /\ PassTyped(w) /\ c = Head(w.todo)
           /\ Tree(Server, c) \in FileSizes
           /\ \A f \in File : Here(c, f) \in Nat /\ Archive(c)[f] \in Nat
           /\ \A f \in File : Tree(Server, c)[f] = Here(c, f)
           /\ w.at # "list" => Knows(Server, w, c)
  BY <1>1, AtItem
<1>3. w.at = "verify" /\ Knows(Server, w, c)
  BY <1>1, <1>2 DEF In
<1>4. PICK f \in w.open :
       LET size == Tree(Server, c)[f]
           u == [w EXCEPT !.open = @ \ {f}, !.listed[f] = size]
       IN IF size = 0 THEN NextCapture(Server)
          ELSE Put(Server, IF Carried(u, f) THEN u
                           ELSE [u EXCEPT !.at = "head", !.changed = TRUE, !.file = f])
  BY <1>2 DEF SizeFile
<1>5. f \in File
  BY <1>2 DEF PassTyped
<1>6. CASE Tree(Server, c)[f] = 0
  <2>1. NextCapture(Server)
    BY <1>4, <1>6
  <2> QED
    BY <1>1, <2>1, GoesOn DEF OnlySweep
<1>7. CASE Tree(Server, c)[f] # 0
  <2>1. PICK u : u = [w EXCEPT !.open = @ \ {f}, !.listed[f] = Tree(Server, c)[f]]
    OBVIOUS
  <2>2. PICK v : v = IF Carried(u, f) THEN u
                     ELSE [u EXCEPT !.at = "head", !.changed = TRUE, !.file = f]
    OBVIOUS
  <2>3. Put(Server, v)
    BY <1>4, <1>7, <2>1, <2>2
  <2>4. /\ DOMAIN u = DOMAIN w /\ u.at = "verify" /\ u.open = w.open \ {f} /\ u.todo = w.todo
        /\ u.known = w.known /\ u.uploads = w.uploads /\ u.file = w.file /\ u.bytes = w.bytes
        /\ u.listed = [w.listed EXCEPT ![f] = Tree(Server, c)[f]]
    BY <1>2, <1>3, <2>1 DEF PassTyped
  <2>5. /\ u.listed \in FileSizes /\ u.listed[f] = Here(c, f)
        /\ \A g \in File \ {f} : u.listed[g] = w.listed[g]
    BY <1>2, <1>5, <2>4 DEF PassTyped, FileSizes
  <2>6. w.uploads = {}
    BY <1>3 DEF Knows
  <2>7. CASE Carried(u, f)
    <3>1. v = u /\ u.known.sizes[f] = u.listed[f]
      BY <2>2, <2>7 DEF Carried
    <3>2. u.listed[f] > 0 => InArchive(c, f, u.listed[f])
      BY <1>3, <1>5, <2>4, <3>1 DEF Knows
    <3>3. PassTyped(v)
      BY <1>2, <1>3, <2>4, <2>5, <3>1 DEF PassTyped
    <3>4. /\ v.at = "verify" /\ v.uploads = {} /\ v.open = w.open \ {f} /\ v.known = w.known
          /\ v.listed[f] = Here(c, f) /\ \A g \in File \ {f} : v.listed[g] = w.listed[g]
      BY <2>4, <2>5, <2>6, <3>1
    <3>5. \A g \in File : v.listed[g] > 0 => g \in v.open \/ InArchive(c, g, v.listed[g])
      <4> TAKE g \in File
      <4>1. CASE g = f
        BY <3>1, <3>2, <4>1
      <4>2. CASE g # f
        <5>1. w.listed[g] > 0 => g \in w.open \/ InArchive(c, g, w.listed[g])
          BY <1>3, <2>6 DEF Knows
        <5> QED
          BY <3>4, <4>2, <5>1
      <4> QED
        BY <4>1, <4>2
    <3>6. \A g \in File :
            v.listed[g] <= Here(c, g) \/ Here(c, g) = 0 \/ InArchive(c, g, v.listed[g])
      <4> TAKE g \in File
      <4>1. CASE g = f
        BY <1>2, <3>4, <4>1
      <4>2. CASE g # f
        BY <1>3, <3>4, <4>2 DEF Knows
      <4> QED
        BY <4>1, <4>2
    <3>7. \A g \in File : v.known.sizes[g] > 0 => InArchive(c, g, v.known.sizes[g])
      BY <1>3, <3>4 DEF Knows
    <3>8. Knows(Server, v, c)
      BY <3>4, <3>5, <3>6, <3>7 DEF Knows
    <3> QED
      BY <1>1, <1>2, <2>3, <2>4, <3>1, <3>3, <3>8, Rewrites
  <2>8. CASE ~Carried(u, f)
    <3>1. /\ DOMAIN v = DOMAIN w /\ v.at = "head" /\ v.open = w.open \ {f} /\ v.todo = w.todo
          /\ v.known = w.known /\ v.uploads = {} /\ v.file = f /\ v.bytes = w.bytes
          /\ v.listed = u.listed
      BY <1>2, <2>2, <2>4, <2>6, <2>8 DEF PassTyped
    <3>2. PassTyped(v)
      BY <1>2, <1>3, <1>5, <2>5, <3>1 DEF PassTyped
    <3>3. Knows(Server, v, c)
      BY <1>2, <1>3, <1>5, <2>5, <2>6, <3>1 DEF Knows
    <3> QED
      BY <1>1, <1>2, <2>3, <3>1, <3>2, <3>3, Rewrites
  <2> QED
    BY <2>7, <2>8
<1> QED
  BY <1>6, <1>7

LEMMA HeadFits ==
  ASSUME ArchInv, HeadFile
  PROVE  ArchInv'
<1>1. Server \in DOMAIN sweep /\ In(Server, "head") /\ ~In(Server, "rest") /\ OnlySweep
  BY DEF HeadFile, In
<1>2. PICK c \in Captured, w \in {sweep[Server]} :
           /\ c = Item(Server) /\ w = sweep[Server] /\ PassTyped(w) /\ c = Head(w.todo)
           /\ \A f \in File : Here(c, f) \in Nat /\ Archive(c)[f] \in Nat
           /\ aligned => \A f \in File : Archive(c)[f] = Here(c, f)
           /\ w.at # "list" => Knows(Server, w, c)
  BY <1>1, AtItem
<1>3. w.at = "head" /\ Knows(Server, w, c)
  BY <1>1, <1>2 DEF In
<1>4. w.file \in File /\ w.listed[w.file] \in Nat /\ w.uploads = {}
  BY <1>2, <1>3, ArchiveAssumption DEF PassTyped, FileSizes, Knows
<1>5. PICK v : v = IF Archive(c)[w.file] = w.listed[w.file] THEN [w EXCEPT !.at = "verify"]
                   ELSE [w EXCEPT !.at = "read", !.uploads = {w.file}]
  OBVIOUS
<1>6. Put(Server, v)
  BY <1>2, <1>5 DEF HeadFile
<1>7. CASE Archive(c)[w.file] = w.listed[w.file]
  <2>1. /\ DOMAIN v = DOMAIN w /\ v.at = "verify" /\ v.open = w.open /\ v.todo = w.todo
        /\ v.known = w.known /\ v.uploads = w.uploads /\ v.file = w.file /\ v.bytes = w.bytes
        /\ v.listed = w.listed
    BY <1>2, <1>5, <1>7 DEF PassTyped
  <2>2. PassTyped(v)
    BY <1>2, <1>3, <2>1 DEF PassTyped
  <2>3. InArchive(c, w.file, w.listed[w.file])
    BY <1>2, <1>4, <1>7 DEF InArchive
  <2>4. Knows(Server, v, c)
    BY <1>3, <1>4, <2>1, <2>3 DEF Knows
  <2> QED
    BY <1>1, <1>2, <1>6, <2>1, <2>2, <2>4, Rewrites
<1>8. CASE Archive(c)[w.file] # w.listed[w.file]
  <2>1. /\ DOMAIN v = DOMAIN w /\ v.at = "read" /\ v.open = w.open /\ v.todo = w.todo
        /\ v.known = w.known /\ v.uploads = {w.file} /\ v.file = w.file /\ v.bytes = w.bytes
        /\ v.listed = w.listed
    BY <1>2, <1>5, <1>8 DEF PassTyped
  <2>2. PassTyped(v)
    BY <1>2, <1>3, <1>4, <2>1 DEF PassTyped
  <2>3. aligned => Cleared(c, w.file) \/ w.file = "provenance"
    BY <1>2, <1>3, <1>4, <1>8 DEF Knows
  <2>4. Knows(Server, v, c)
    BY <1>3, <1>4, <2>1, <2>3 DEF Knows
  <2> QED
    BY <1>1, <1>2, <1>6, <2>1, <2>2, <2>4, Rewrites
<1> QED
  BY <1>7, <1>8

LEMMA ReadFits ==
  ASSUME ArchInv, NEW p \in DOMAIN sweep, ReadBytes(p)
  PROVE  ArchInv'
<1>1. In(p, "read") /\ ~In(p, "rest") /\ OnlySweep
  BY DEF ReadBytes, In
<1>2. PICK c \in Captured, w \in {sweep[p]} :
           /\ c = Item(p) /\ w = sweep[p] /\ PassTyped(w) /\ c = Head(w.todo)
           /\ Tree(p, c) \in FileSizes
           /\ \A f \in File : Here(c, f) \in Nat /\ Archive(c)[f] \in Nat
           /\ p = Server => \A f \in File : Tree(p, c)[f] = Here(c, f)
           /\ p # Server => \A f \in File : Tree(p, c)[f] = Archive(c)[f]
           /\ aligned => \A f \in File : Archive(c)[f] = Here(c, f)
           /\ w.at # "list" => Knows(p, w, c)
  BY <1>1, AtItem
<1>3. w.at = "read" /\ Knows(p, w, c)
  BY <1>1, <1>2 DEF In
<1>4. PICK f \in w.uploads :
        IF Tree(p, c)[f] = 0 THEN NextCapture(p)
        ELSE Put(p, [w EXCEPT !.at = "put", !.file = f, !.bytes = Tree(p, c)[f]])
  BY <1>2 DEF ReadBytes
<1>5. f \in File /\ Tree(p, c)[f] \in Size /\ Tree(p, c)[f] \in Nat
  BY <1>2, ArchiveAssumption DEF PassTyped, FileSizes, Size
<1>6. CASE Tree(p, c)[f] = 0
  <2>1. NextCapture(p)
    BY <1>4, <1>6
  <2> QED
    BY <1>1, <2>1, GoesOn DEF OnlySweep
<1>7. CASE Tree(p, c)[f] # 0
  <2>1. PICK v : v = [w EXCEPT !.at = "put", !.file = f, !.bytes = Tree(p, c)[f]]
    OBVIOUS
  <2>2. Put(p, v)
    BY <1>4, <1>7, <2>1
  <2>3. /\ DOMAIN v = DOMAIN w /\ v.at = "put" /\ v.open = w.open /\ v.todo = w.todo
        /\ v.known = w.known /\ v.uploads = w.uploads /\ v.file = f /\ v.bytes = Tree(p, c)[f]
        /\ v.listed = w.listed
    BY <1>2, <2>1 DEF PassTyped
  <2>4. PassTyped(v)
    BY <1>2, <1>3, <1>5, <2>3 DEF PassTyped
  <2>5. aligned => f = "provenance"
    <3> SUFFICES ASSUME aligned, f # "provenance" PROVE FALSE
      OBVIOUS
    <3>1. Here(c, f) = 0
      BY <1>3, <1>4 DEF Knows, Cleared
    <3> QED
      BY <1>2, <1>5, <1>7, <3>1
  <2>6. v.bytes = Here(c, f) \/ Cleared(c, f)
    <3>1. p # Server => Archive(c)[f] = Here(c, f) \/ Cleared(c, f)
      BY <1>3, <1>4 DEF Knows
    <3> QED
      BY <1>2, <1>5, <2>3, <3>1
  <2>7. Knows(p, v, c)
    BY <1>3, <1>4, <1>5, <1>7, <2>3, <2>5, <2>6 DEF Knows
  <2> QED
    BY <1>1, <1>2, <2>2, <2>3, <2>4, <2>7, Rewrites
<1> QED
  BY <1>6, <1>7

\* A copy brings the bucket up to what is there.
LEMMA CopyKeeps ==
  ASSUME ArchInv, NEW p \in DOMAIN sweep, CopyFile(p)
  PROVE  \A d \in Captured : EnvFits(d)
<1>1. In(p, "put") /\ ~In(p, "rest")
  BY DEF CopyFile, In
<1>2. PICK c \in Captured, w \in {sweep[p]} :
           /\ c = Item(p) /\ w = sweep[p] /\ PassTyped(w)
           /\ \A f \in File : Here(c, f) \in Nat /\ Archive(c)[f] \in Nat
           /\ aligned => \A f \in File : Archive(c)[f] = Here(c, f)
           /\ w.at # "list" => Knows(p, w, c)
  BY <1>1, AtItem
<1>3. w.at = "put" /\ Knows(p, w, c) /\ w.file \in File /\ w.bytes \in Nat
  BY <1>1, <1>2, ArchiveAssumption DEF In, PassTyped, Size
<1>4. /\ w.bytes > 0 /\ (w.bytes = Here(c, w.file) \/ Cleared(c, w.file))
      /\ aligned => w.file = "provenance"
  BY <1>3 DEF Knows
<1>5. aligned' = aligned /\ tree' = [tree EXCEPT !["bucket"][c][w.file] = w.bytes]
  BY <1>2 DEF CopyFile
<1>6. tree \in [Store -> [Captured -> FileSizes]] /\ "bucket" \in Store /\ "disk" \in Store
  BY DEF ArchInv, ArchTyped, Store
<1>7. aligned => w.bytes = Here(c, w.file)
  BY <1>4 DEF Cleared
<1>8. \A d \in Captured, f \in File : Here(d, f)' = Here(d, f)
  <2>1. CASE aligned
    <3>1. Ingest = "bucket" /\ Ingest' = "bucket" /\ w.bytes = tree["bucket"][c][w.file]
      BY <1>5, <1>7, <2>1 DEF Ingest, Here
    <3>2. tree' = tree
      BY <1>3, <1>5, <1>6, <3>1 DEF FileSizes
    <3> QED
      BY <3>1, <3>2 DEF Here
  <2>2. CASE ~aligned
    <3>1. Ingest = "disk" /\ Ingest' = "disk"
      BY <1>5, <2>2 DEF Ingest
    <3> QED
      BY <1>5, <1>6, <3>1 DEF Here
  <2> QED
    BY <2>1, <2>2
<1>9. Archive(c)[w.file]' = w.bytes
  BY <1>3, <1>5, <1>6 DEF Archive, FileSizes
<1>10. \A d \in Captured, f \in File : (d = c /\ f = w.file) \/ Archive(d)[f]' = Archive(d)[f]
  BY <1>3, <1>5, <1>6 DEF Archive, FileSizes
<1>11. \A d \in Captured, f \in File : Cleared(d, f)' <=> Cleared(d, f)
  BY <1>8 DEF Cleared
<1>12. \A n \in Nat : InArchive(c, w.file, n) => InArchive(c, w.file, n)'
  <2>1. CASE Cleared(c, w.file)
    BY <1>3, <1>8, <2>1 DEF Cleared, InArchive, Here
  <2>2. CASE ~Cleared(c, w.file)
    <3>1. w.bytes = Here(c, w.file)
      BY <1>4, <2>2
    <3>2. Archive(c)[w.file] <= w.bytes
      BY <1>3, <1>4, <3>1 DEF ArchInv, BucketFollows
    <3>3. \A n \in Nat : InArchive(c, w.file, n) => n <= Archive(c)[w.file]
      BY <2>2 DEF InArchive, Cleared, Here
    <3>4. \A n \in Nat : n <= w.bytes => InArchive(c, w.file, n)'
      BY <1>9 DEF InArchive
    <3> QED
      BY <1>2, <1>3, <3>2, <3>3, <3>4
  <2> QED
    BY <2>1, <2>2
<1>13. \A d \in Captured, f \in File, n \in Nat :
         (d = c /\ f = w.file) \/ (InArchive(d, f, n) => InArchive(d, f, n)')
  BY <1>8, <1>10 DEF InArchive, Here
<1>14. \A f \in File : f # w.file \/ Archive(c)[f]' = Here(c, f)' \/ Cleared(c, f)'
  BY <1>3, <1>4, <1>8, <1>9, <1>11
<1>15. aligned => \A f \in File : Archive(c)[f]' = Archive(c)[f]
  BY <1>2, <1>3, <1>7, <1>9, <1>10
<1> QED
  BY <1>4, <1>5, <1>8, <1>10, <1>11, <1>12, <1>13, <1>14, <1>15 DEF EnvFits

LEMMA CopyFits ==
  ASSUME ArchInv, NEW p \in DOMAIN sweep, CopyFile(p)
  PROVE  ArchInv'
<1>1. In(p, "put") /\ ~In(p, "rest")
  BY DEF CopyFile, In
<1>2. PICK c \in Captured, w \in {sweep[p]} :
           /\ c = Item(p) /\ w = sweep[p] /\ PassTyped(w) /\ c = Head(w.todo)
           /\ \A f \in File : Here(c, f) \in Nat /\ Archive(c)[f] \in Nat
           /\ w.at # "list" => Knows(p, w, c)
  BY <1>1, AtItem
<1>3. /\ w.at = "put" /\ Knows(p, w, c) /\ w.file \in File /\ w.bytes \in Nat /\ w.bytes \in Size
      /\ w.bytes \in 0 .. MaxSize /\ \A f \in File : w.listed[f] \in Nat
  BY <1>1, <1>2, ArchiveAssumption DEF In, PassTyped, Size, FileSizes
<1>4. /\ w.bytes > 0 /\ (w.bytes = Here(c, w.file) \/ Cleared(c, w.file))
      /\ aligned => w.file = "provenance"
  BY <1>3 DEF Knows
<1>5. /\ aligned' = aligned /\ receipts' = receipts /\ rotation' = rotation /\ archLeft' = archLeft
      /\ tree' = [tree EXCEPT !["bucket"][c][w.file] = w.bytes]
  BY <1>2 DEF CopyFile
<1>6. \A d \in Captured : EnvFits(d)
  BY CopyKeeps
<1>7. PICK v : v = [w EXCEPT !.uploads = w.uploads \ {w.file}, !.bytes = 0,
                     !.at = CASE p = Server -> "verify"
                              [] p # Server /\ w.uploads \ {w.file} = {} -> "receipt!"
                              [] OTHER -> "read"]
  OBVIOUS
<1>8. sweep' = [sweep EXCEPT ![p] = v]
  BY <1>2, <1>7 DEF CopyFile, Put
<1>9. /\ DOMAIN v = DOMAIN w /\ v.listed = w.listed /\ v.open = w.open /\ v.todo = w.todo
      /\ v.known = w.known /\ v.uploads = w.uploads \ {w.file} /\ v.file = w.file /\ v.bytes = 0
      /\ v.at = CASE p = Server -> "verify"
                  [] p # Server /\ w.uploads \ {w.file} = {} -> "receipt!"
                  [] OTHER -> "read"
  BY <1>2, <1>7 DEF PassTyped
<1>10. v.at \in {"verify", "receipt!", "read"} /\ 0 \in Size
  BY <1>9, ArchiveAssumption DEF Size
<1>11. PassTyped(v)
  BY <1>2, <1>3, <1>9, <1>10 DEF PassTyped
<1>12. Knows(p, w, c)'
  BY <1>2, <1>3, <1>6, KnowsStill
<1>13. w.listed[w.file] > 0 => InArchive(c, w.file, w.listed[w.file])'
  <2>1. CASE InArchive(c, w.file, w.listed[w.file])
    BY <1>3, <1>6, <2>1 DEF EnvFits
  <2>2. CASE Cleared(c, w.file)
    <3>1. InArchive(c, w.file, w.listed[w.file])
      BY <2>2 DEF Cleared, InArchive, Here
    <3> QED
      BY <2>1, <3>1
  <2>3. CASE ~InArchive(c, w.file, w.listed[w.file]) /\ ~Cleared(c, w.file)
    <3>1. w.listed[w.file] <= w.bytes
      BY <1>2, <1>3, <1>4, <2>3 DEF Knows
    <3>2. Archive(c)[w.file]' = w.bytes
      BY <1>3, <1>5 DEF Archive, FileSizes, ArchInv, ArchTyped, Store
    <3> QED
      BY <3>1, <3>2 DEF InArchive
  <2> QED
    BY <2>1, <2>2, <2>3
<1>14. /\ w.file \in w.uploads /\ (p = Server => \E f \in File : w.uploads = {f})
       /\ (p # Server => w.open = {})
  BY <1>3 DEF Knows
<1>15. Knows(p, v, c)'
  <2>1. \A f \in File : v.listed[f] > 0 => f \in v.open \cup v.uploads \/ InArchive(c, f, v.listed[f])'
    <3> TAKE f \in File
    <3>1. w.listed[f] > 0 => f \in w.open \cup w.uploads \/ InArchive(c, f, w.listed[f])'
      BY <1>3, <1>12 DEF Knows
    <3> QED
      BY <1>9, <1>13, <3>1
  <2>2. CASE p = Server
    <3>1. v.uploads = {} /\ v.at = "verify"
      BY <1>9, <1>14, <2>2
    <3> QED
      BY <1>3, <1>9, <1>12, <2>1, <2>2, <3>1 DEF Knows
  <2>3. CASE p # Server
    <3>1. v.at \in {"receipt!", "read"} /\ (v.at = "receipt!" => v.uploads = {}) /\ v.open = {}
      BY <1>9, <1>14, <2>3
    <3> QED
      BY <1>3, <1>9, <1>12, <2>1, <2>3, <3>1 DEF Knows
  <2> QED
    BY <2>2, <2>3
<1>16. Head(v.todo) = c
  BY <1>2, <1>9
<1>17. DOMAIN sweep' = DOMAIN sweep /\ \A x \in DOMAIN sweep : PassFitsHere(x)'
  <2>1. Knows(p, v, Head(v.todo))'
    BY <1>15, <1>16
  <2> QED
    BY <1>6, <1>8, <1>11, <2>1, PassMoves
<1>18. ArchTyped'
  <2>1. tree' \in [Store -> [Captured -> FileSizes]]
    BY <1>3, <1>5 DEF ArchInv, ArchTyped, FileSizes
  <2> QED
    BY <1>5, <1>17, <2>1 DEF ArchInv, ArchTyped
<1>19. BucketFollows'
  <2> SUFFICES ASSUME NEW d \in Captured, NEW f \in File
               PROVE  Archive(d)[f]' <= Here(d, f)' \/ Here(d, f)' = 0
    BY DEF BucketFollows
  <2>1. Here(d, f)' = Here(d, f) \/ Cleared(d, f)'
    BY <1>6 DEF EnvFits
  <2>2. CASE d = c /\ f = w.file
    <3>1. Archive(d)[f]' = w.bytes
      BY <1>3, <1>5, <2>2 DEF Archive, FileSizes, ArchInv, ArchTyped, Store
    <3> QED
      BY <1>3, <1>4, <2>1, <2>2, <3>1 DEF Cleared
  <2>3. CASE ~(d = c /\ f = w.file)
    <3>1. Archive(d)[f]' = Archive(d)[f]
      BY <1>3, <1>5, <2>3 DEF Archive, FileSizes, ArchInv, ArchTyped, Store
    <3> QED
      BY <2>1, <3>1 DEF ArchInv, BucketFollows, Cleared
  <2> QED
    BY <2>2, <2>3
<1>20. ReceiptsEarned'
  <2> SUFFICES ASSUME NEW s \in Store, NEW d \in Captured, NEW f \in File,
                      receipts[s][d].sizes[f] > 0
               PROVE  InArchive(d, f, receipts[s][d].sizes[f])'
    BY <1>5 DEF ReceiptsEarned
  <2>1. PICK n \in Nat : n = receipts[s][d].sizes[f]
    BY ArchiveAssumption DEF ArchInv, ArchTyped, FileSizes
  <2>2. InArchive(d, f, n)
    BY <2>1 DEF ArchInv, ReceiptsEarned
  <2>3. InArchive(d, f, n)'
    BY <1>6, <2>2 DEF EnvFits
  <2> QED
    BY <1>5, <2>1, <2>3 DEF InArchive
<1> QED
  BY <1>17, <1>18, <1>19, <1>20 DEF ArchInv

LEMMA ArchReceiptFits ==
  ASSUME ArchInv, NEW p \in DOMAIN sweep, WriteArchReceipt(p)
  PROVE  ArchInv'
<1>1. In(p, "receipt!") /\ ~In(p, "rest")
  BY DEF WriteArchReceipt, In
<1>2. PICK c \in Captured, w \in {sweep[p]} :
           /\ c = Item(p) /\ w = sweep[p] /\ PassTyped(w)
           /\ w.at # "list" => Knows(p, w, c)
  BY <1>1, AtItem
<1>3. w.at = "receipt!" /\ Knows(p, w, c)
  BY <1>1, <1>2 DEF In
<1>4. PICK h \in Store : h = Home(p)
  BY DEF Home, Ingest, Store
<1>5. receipts' = IF w.changed
                  THEN [receipts EXCEPT ![h][c] = [state |-> "ok", sizes |-> w.listed]]
                  ELSE receipts
  BY <1>2, <1>4 DEF WriteArchReceipt
<1>6. UNCHANGED <<aligned, tree, rotation, archLeft>>
  BY DEF WriteArchReceipt
<1>7. PICK q \in Seq(Captured) : q = Tail(sweep[p].todo)
  BY <1>1, ItemIs
<1>8. PICK v : v = Over(q)
  OBVIOUS
<1>9. sweep' = [sweep EXCEPT ![p] = v]
  BY <1>7, <1>8 DEF WriteArchReceipt, NextCapture, Put
<1>10. PassTyped(v) /\ v.at \in {"rest", "list"}
  BY <1>8, OverTyped
<1>11. DOMAIN sweep' = DOMAIN sweep /\ \A x \in DOMAIN sweep : PassFitsHere(x)'
  BY <1>6, <1>9, <1>10, StoresSame, PassMoves
<1>12. receipts' \in [Store -> [Captured -> [state : {"none", "corrupt", "ok"}, sizes : FileSizes]]]
  <2>1. w.listed \in FileSizes
    BY <1>2 DEF PassTyped
  <2>2. [state |-> "ok", sizes |-> w.listed] \in [state : {"none", "corrupt", "ok"}, sizes : FileSizes]
    BY <2>1
  <2> QED
    BY <1>5, <2>2 DEF ArchInv, ArchTyped
<1>13. ArchTyped'
  BY <1>6, <1>11, <1>12 DEF ArchInv, ArchTyped
<1>14. BucketFollows'
  BY <1>6 DEF ArchInv, BucketFollows, Here, Archive, Ingest
<1>15. ReceiptsEarned'
  <2> SUFFICES ASSUME NEW s \in Store, NEW d \in Captured, NEW f \in File,
                      receipts'[s][d].sizes[f] > 0
               PROVE  InArchive(d, f, receipts[s][d].sizes[f])'
    BY DEF ReceiptsEarned
  <2>1. CASE receipts'[s][d] = receipts[s][d]
    BY <1>6, <2>1 DEF ArchInv, ReceiptsEarned, InArchive, Archive, Ingest
  <2>2. CASE receipts'[s][d] # receipts[s][d]
    <3>1. d = c /\ receipts'[s][d].sizes = w.listed
      BY <1>5, <2>2 DEF ArchInv, ArchTyped
    <3>2. InArchive(c, f, w.listed[f])
      BY <1>3, <3>1 DEF Knows
    <3> QED
      BY <1>6, <3>1, <3>2 DEF InArchive, Archive, Ingest
  <2> QED
    BY <2>1, <2>2
<1> QED
  BY <1>11, <1>13, <1>14, <1>15 DEF ArchInv

LEMMA FailsFit ==
  ASSUME ArchInv, NEW p \in DOMAIN sweep, ItemFails(p) \/ SweepDies(p)
  PROVE  ArchInv'
<1>1. ~In(p, "rest") /\ StoresStay /\ rotation' = rotation /\ rotation' \in Nat
  BY DEF ItemFails, SweepDies, ArchInv, ArchTyped
<1>2. \E k \in DOMAIN archLeft : Pay(k)
  BY DEF ItemFails, SweepDies, ArchInv, ArchTyped
<1>3. CASE ItemFails(p)
  BY <1>1, <1>2, <1>3, GoesOn DEF ItemFails
<1>4. CASE SweepDies(p)
  <2>1. PICK w : w = Over(<< >>)
    OBVIOUS
  <2>2. << >> \in Seq(Captured)
    OBVIOUS
  <2>3. PassTyped(w) /\ w.at \in {"rest", "list"}
    BY <2>1, <2>2, OverTyped
  <2>4. sweep' = [sweep EXCEPT ![p] = w]
    BY <1>4, <2>1 DEF SweepDies, Put, Over
  <2> QED
    BY <1>1, <1>2, <2>3, <2>4, SweepOnly
<1> QED
  BY <1>3, <1>4

\* What is rewritten where captures are ingested.
LEMMA IngestChanges ==
  ASSUME ArchInv, NEW k \in DOMAIN archLeft, Pay(k), UNCHANGED <<aligned, receipts, sweep, rotation>>,
         tree' \in [Store -> [Captured -> FileSizes]], BucketFollows',
         \A d \in Captured, x \in DOMAIN sweep :
           \/ In(x, "rest") \/ In(x, "list") \/ d # Item(x)
           \/ EnvFits(d) \/ Knows(x, sweep[x], Item(x))',
         \A d \in Captured, f \in File, n \in Nat : InArchive(d, f, n) => InArchive(d, f, n)'
  PROVE  ArchInv'
<1>1. ASSUME NEW x \in DOMAIN sweep
      PROVE  PassFitsHere(x)'
  <2>1. PassFitsHere(x) /\ sweep'[x] = sweep[x]
    BY DEF ArchInv
  <2>2. CASE Knows(x, sweep[x], Item(x))'
    BY <2>1, <2>2 DEF PassFitsHere, PassTyped, In
  <2>3. CASE ~Knows(x, sweep[x], Item(x))'
    BY <2>1, <2>3, PassStays
  <2> QED
    BY <2>2, <2>3
<1>2. ArchTyped'
  BY DEF ArchInv, ArchTyped, Pay
<1>3. ReceiptsEarned'
  <2> SUFFICES ASSUME NEW s \in Store, NEW d \in Captured, NEW f \in File,
                      receipts[s][d].sizes[f] > 0
               PROVE  InArchive(d, f, receipts[s][d].sizes[f])'
    BY DEF ReceiptsEarned
  <2>1. PICK n \in Nat : n = receipts[s][d].sizes[f]
    BY ArchiveAssumption DEF ArchInv, ArchTyped, FileSizes
  <2>2. InArchive(d, f, n)
    BY <2>1 DEF ArchInv, ReceiptsEarned
  <2>3. InArchive(d, f, n)'
    BY <2>2
  <2> QED
    BY <2>1, <2>3 DEF InArchive
<1> QED
  BY <1>1, <1>2, <1>3 DEF ArchInv

LEMMA VanishFits ==
  ASSUME ArchInv, PartVanishes
  PROVE  ArchInv' /\ \A d \in Captured : EnvFits(d)
<1>1. PICK c \in Captured : tree' = [tree EXCEPT ![Ingest][c]["part"] = 0]
  BY DEF PartVanishes
<1>2. UNCHANGED <<aligned, receipts, sweep, rotation>> /\ Pay("vanishes") /\ "vanishes" \in DOMAIN archLeft
  BY DEF PartVanishes, ArchInv, ArchTyped
<1>3. PICK i \in Store : i = Ingest /\ i = Ingest' /\ (aligned <=> i = "bucket")
  BY <1>2 DEF Ingest, Store
<1>4. tree \in [Store -> [Captured -> FileSizes]] /\ "bucket" \in Store /\ "part" \in File
  BY DEF ArchInv, ArchTyped, Store, File
<1>5. tree' = [tree EXCEPT ![i][c]["part"] = 0] /\ tree' \in [Store -> [Captured -> FileSizes]]
  BY <1>1, <1>3, <1>4, ArchiveAssumption DEF FileSizes
<1>6. \A d \in Captured, f \in File :
        Here(d, f)' = IF d = c /\ f = "part" THEN 0 ELSE Here(d, f)
  BY <1>3, <1>4, <1>5 DEF Here, FileSizes
<1>7. \A d \in Captured, f \in File :
        Archive(d)[f]' = IF d = c /\ f = "part" /\ aligned THEN 0 ELSE Archive(d)[f]
  BY <1>3, <1>4, <1>5 DEF Archive, FileSizes
<1>8. Cleared(c, "part")'
  BY <1>4, <1>6 DEF Cleared
<1>9. \A d \in Captured, f \in File : Cleared(d, f) => Cleared(d, f)'
  BY <1>6 DEF Cleared
<1>10. \A d \in Captured, f \in File, n \in Nat : InArchive(d, f, n) => InArchive(d, f, n)'
  <2> TAKE d \in Captured, f \in File, n \in Nat
  <2>1. CASE d = c /\ f = "part"
    BY <1>8, <2>1 DEF Cleared, InArchive, Here
  <2>2. CASE ~(d = c /\ f = "part")
    <3>1. Archive(d)[f]' = Archive(d)[f] /\ Here(d, f)' = Here(d, f)
      BY <1>6, <1>7, <2>2
    <3> QED
      BY <3>1 DEF InArchive, Here
  <2> QED
    BY <2>1, <2>2
<1>11. \A d \in Captured : EnvFits(d)
  <2> SUFFICES ASSUME NEW d \in Captured, NEW f \in File
               PROVE  /\ Here(d, f)' = Here(d, f) \/ Cleared(d, f)'
                      /\ Archive(d)[f]' = Archive(d)[f] \/ Cleared(d, f)'
    BY <1>2, <1>9, <1>10 DEF EnvFits
  <2> QED
    BY <1>6, <1>7, <1>8
<1>12. BucketFollows'
  <2> SUFFICES ASSUME NEW d \in Captured, NEW f \in File
               PROVE  Archive(d)[f]' <= Here(d, f)' \/ Here(d, f)' = 0
    BY DEF BucketFollows
  <2>1. CASE d = c /\ f = "part"
    BY <1>6, <2>1
  <2>2. CASE ~(d = c /\ f = "part")
    BY <1>6, <1>7, <2>2 DEF ArchInv, BucketFollows
  <2> QED
    BY <2>1, <2>2
<1> QED
  BY <1>2, <1>5, <1>10, <1>11, <1>12, IngestChanges

LEMMA GrowthFits ==
  ASSUME ArchInv, GrowsApart, ProvenanceGrows
  PROVE  ArchInv' /\ \A d \in Captured, f \in File, n \in Nat : InArchive(d, f, n) => InArchive(d, f, n)'
<1>1. PICK c \in Captured : /\ tree[Ingest][c]["provenance"] \in 1 .. MaxSize - 1
                            /\ tree' = [tree EXCEPT ![Ingest][c]["provenance"] = @ + 1]
  BY DEF ProvenanceGrows
<1>2. UNCHANGED <<aligned, receipts, sweep, rotation>> /\ Pay("grows") /\ "grows" \in DOMAIN archLeft
  BY DEF ProvenanceGrows, ArchInv, ArchTyped
<1>3. PICK i \in Store : i = Ingest /\ i = Ingest' /\ (aligned <=> i = "bucket")
  BY <1>2 DEF Ingest, Store
<1>4. PICK n \in Nat : n = tree[i][c]["provenance"] /\ n > 0 /\ n + 1 \in 0 .. MaxSize
  BY <1>1, <1>3, ArchiveAssumption
<1>5. tree \in [Store -> [Captured -> FileSizes]] /\ "bucket" \in Store /\ "provenance" \in File
  BY DEF ArchInv, ArchTyped, Store, File
<1>6. tree' = [tree EXCEPT ![i][c]["provenance"] = n + 1]
  BY <1>1, <1>3, <1>4
<1>7. tree' \in [Store -> [Captured -> FileSizes]]
  BY <1>4, <1>5, <1>6 DEF FileSizes
<1>8. \A d \in Captured, f \in File :
        Here(d, f)' = IF d = c /\ f = "provenance" THEN n + 1 ELSE Here(d, f)
  BY <1>3, <1>5, <1>6 DEF Here, FileSizes
<1>9. \A d \in Captured, f \in File :
        Archive(d)[f]' = IF d = c /\ f = "provenance" /\ aligned THEN n + 1 ELSE Archive(d)[f]
  BY <1>3, <1>5, <1>6 DEF Archive, FileSizes
<1>10. Here(c, "provenance") = n /\ (aligned => Archive(c)["provenance"] = n)
  BY <1>3, <1>4 DEF Here, Archive
<1>11. \A d \in Captured, f \in File, m \in Nat : InArchive(d, f, m) => InArchive(d, f, m)'
  <2> TAKE d \in Captured, f \in File, m \in Nat
  <2>1. CASE d = c /\ f = "provenance"
    <3>1. InArchive(d, f, m) => m <= Archive(c)["provenance"]
      BY <2>1 DEF InArchive
    <3>2. CASE aligned
      BY <1>4, <1>9, <1>10, <2>1, <3>1, <3>2 DEF InArchive
    <3>3. CASE ~aligned
      BY <1>9, <2>1, <3>1, <3>3 DEF InArchive
    <3> QED
      BY <3>2, <3>3
  <2>2. CASE ~(d = c /\ f = "provenance")
    <3>1. Archive(d)[f]' = Archive(d)[f] /\ Here(d, f)' = Here(d, f)
      BY <1>8, <1>9, <2>2
    <3> QED
      BY <3>1 DEF InArchive, Here
  <2> QED
    BY <2>1, <2>2
<1>12. \A d \in Captured : d = c \/ EnvFits(d)
  <2> SUFFICES ASSUME NEW d \in Captured, d # c
               PROVE  EnvFits(d)
    OBVIOUS
  <2>1. \A f \in File : Here(d, f)' = Here(d, f) /\ Archive(d)[f]' = Archive(d)[f]
    BY <1>8, <1>9
  <2>2. \A f \in File : Cleared(d, f)' <=> Cleared(d, f)
    BY <2>1 DEF Cleared
  <2> QED
    BY <1>2, <1>11, <2>1, <2>2 DEF EnvFits
<1>13. LeftAlone(c)
  <2>1. tree'[Ingest][c]["provenance"] > tree[Ingest][c]["provenance"]
    BY <1>3, <1>4, <1>5, <1>6 DEF FileSizes
  <2> QED
    BY <2>1 DEF GrowsApart
<1>14. BucketFollows'
  <2> SUFFICES ASSUME NEW d \in Captured, NEW f \in File
               PROVE  Archive(d)[f]' <= Here(d, f)' \/ Here(d, f)' = 0
    BY DEF BucketFollows
  <2>1. CASE d = c /\ f = "provenance"
    <3>1. Archive(c)["provenance"] <= n
      BY <1>4, <1>5, <1>10 DEF ArchInv, BucketFollows
    <3>2. Archive(c)["provenance"] \in Nat
      BY <1>5, ArchiveAssumption DEF Archive, FileSizes
    <3> QED
      BY <1>4, <1>8, <1>9, <2>1, <3>1, <3>2
  <2>2. CASE ~(d = c /\ f = "provenance")
    BY <1>8, <1>9, <2>2 DEF ArchInv, BucketFollows
  <2> QED
    BY <2>1, <2>2
<1>15. ASSUME NEW x \in DOMAIN sweep, ~In(x, "rest"), ~In(x, "list"), c = Item(x)
       PROVE  Knows(x, sweep[x], Item(x))'
  <2>1. PassTyped(sweep[x]) /\ Knows(x, sweep[x], c)
    BY <1>15, ItemIs
  <2>12. PICK w : w = sweep[x]
    OBVIOUS
  <2>2. aligned \/ x = Server
    BY <1>13, <1>15 DEF LeftAlone
  <2>3. ~(w.at = "put" /\ w.file = "provenance")
    BY <1>13, <1>15, <2>12 DEF LeftAlone, In
  <2>4. Archive(c) \in FileSizes /\ \A f \in File : Here(c, f) \in Nat /\ Archive(c)[f] \in Nat
    BY <1>15, AtItem
  <2>5. Here(c, "provenance") > 0 /\ Here(c, "provenance")' = Here(c, "provenance") + 1
    BY <1>4, <1>5, <1>8, <1>10
  <2>6. aligned => \A f \in File : Archive(c)[f]' = Here(c, f)'
    BY <1>2 DEF Archive, Here, Ingest
  <2>7. ~aligned => \A f \in File : Archive(c)[f]' = Archive(c)[f]
    BY <1>9
  <2>8. \A f \in File : f # "provenance" =>
          Here(c, f)' = Here(c, f) /\ Archive(c)[f]' = Archive(c)[f]
    BY <1>8, <1>9
  <2>9. \A f \in File, m \in Nat : InArchive(c, f, m) => InArchive(c, f, m)'
    BY <1>11
  <2>10. Knows(x, w, c)'
    BY <1>2, <2>1, <2>12, <2>2, <2>3, <2>4, <2>5, <2>6, <2>7, <2>8, <2>9, KnowsGrown
  <2>11. Item(x)' = c /\ sweep'[x] = w
    BY <1>2, <1>15, <2>12 DEF Item
  <2> QED
    BY <2>10, <2>11 DEF Knows
<1>16. \A d \in Captured, x \in DOMAIN sweep :
         \/ In(x, "rest") \/ In(x, "list") \/ d # Item(x)
         \/ EnvFits(d) \/ Knows(x, sweep[x], Item(x))'
  BY <1>12, <1>15
<1> QED
  BY <1>2, <1>7, <1>11, <1>14, <1>16, IngestChanges

LEMMA ArchStarts ==
  ASSUME ArchInit
  PROVE  ArchInv
<1>1. PICK s \in ArchScenes : ArchStart(s)
  BY DEF ArchInit
<1>2. /\ s.aligned \in BOOLEAN /\ s.passes \subseteq {1, 2, 3}
      /\ s.tree \in [Store -> [Captured -> FileSizes]]
      /\ s.receipts \in [Store -> [Captured ->
                          [state : {"none", "corrupt", "ok"}, sizes : FileSizes]]]
      /\ DOMAIN s.left = {"grows", "vanishes", "deaths", "fails"}
      /\ \A k \in DOMAIN s.left : s.left[k] \in Nat
      /\ \A c \in Captured, f \in File :
           LET here == s.tree[IF s.aligned THEN "bucket" ELSE "disk"][c][f]
           IN /\ s.tree["bucket"][c][f] <= here \/ here = 0
              /\ \A t \in Store :
                   \/ s.receipts[t][c].sizes[f] <= s.tree["bucket"][c][f]
                   \/ f = "part" /\ here = 0
  BY ArchScenesAssumption
<1>3. /\ aligned = s.aligned /\ tree = s.tree /\ receipts = s.receipts /\ rotation = 0
      /\ sweep = [p \in s.passes |-> AtRest] /\ archLeft = s.left
  BY <1>1 DEF ArchStart
<1>4. DOMAIN sweep = s.passes /\ \A p \in s.passes : sweep[p] = AtRest
  BY <1>3
<1>5. ArchTyped
  BY <1>2, <1>3, <1>4 DEF ArchTyped
<1>6. \A c \in Captured, f \in File :
        Here(c, f) = s.tree[IF s.aligned THEN "bucket" ELSE "disk"][c][f]
  BY <1>3 DEF Here, Ingest
<1>7. BucketFollows
  BY <1>2, <1>3, <1>6 DEF BucketFollows, Archive
<1>8. ReceiptsEarned
  <2> SUFFICES ASSUME NEW t \in Store, NEW c \in Captured, NEW f \in File
               PROVE  InArchive(c, f, receipts[t][c].sizes[f])
    BY DEF ReceiptsEarned
  <2>1. PICK here : here = s.tree[IF s.aligned THEN "bucket" ELSE "disk"][c][f]
    OBVIOUS
  <2>2. s.receipts[t][c].sizes[f] <= s.tree["bucket"][c][f] \/ (f = "part" /\ here = 0)
    BY <1>2, <2>1
  <2>3. here = Here(c, f)
    BY <1>6, <2>1
  <2> QED
    BY <1>3, <2>2, <2>3 DEF InArchive, Archive, Here
<1>9. \A p \in DOMAIN sweep : PassFitsHere(p)
  <2>1. << >> \in Seq(Captured) /\ Over(<< >>) = AtRest
    BY DEF Over
  <2>2. PassTyped(AtRest) /\ AtRest.at = "rest"
    BY <2>1, OverTyped DEF AtRest
  <2> QED
    BY <1>4, <2>2 DEF PassFitsHere, In
<1> QED
  BY <1>5, <1>7, <1>8, <1>9 DEF ArchInv

LEMMA ArchMoves ==
  ASSUME ArchInv, GrowsApart, ArchNext
  PROVE  ArchInv'
<1>1. ASSUME NEW p \in DOMAIN sweep,
             BeginSweep(p) \/ SweepStep(p) \/ ItemFails(p) \/ SweepDies(p)
      PROVE  ArchInv'
  BY <1>1, BeginsFit, ListFits, ReadKnownFits, VerifyFits, StartFits, ReadFits, CopyFits,
     ArchReceiptFits, FailsFit DEF SweepStep
<1>2. CASE ServerStep
  BY <1>2, ServerBeginsFit, SizeFits, HeadFits DEF ServerStep
<1>3. CASE ProvenanceGrows \/ PartVanishes
  BY <1>3, GrowthFits, VanishFits
<1> QED
  BY <1>1, <1>2, <1>3 DEF ArchNext

LEMMA ArchStep == ArchInv /\ [ArchNext /\ GrowsApart]_archVars => ArchInv'
<1> SUFFICES ASSUME ArchInv, [ArchNext /\ GrowsApart]_archVars
             PROVE  ArchInv'
  OBVIOUS
<1>1. CASE ArchNext /\ GrowsApart
  BY <1>1, ArchMoves
<1>2. CASE UNCHANGED archVars
  <2>1. \A x \in DOMAIN sweep : PassFitsHere(x)'
    BY <1>2, StoresSame, PassStays DEF archVars
  <2>2. ArchTyped' /\ BucketFollows' /\ ReceiptsEarned'
    BY <1>2 DEF archVars, ArchInv, ArchTyped, BucketFollows, ReceiptsEarned, Here, Archive,
       InArchive, Ingest
  <2> QED
    BY <1>2, <2>1, <2>2 DEF ArchInv, archVars
<1> QED
  BY <1>1, <1>2

LEMMA ClaimsEarned == ArchInv => Claimed \subseteq Archived
<1> SUFFICES ASSUME ArchInv, NEW k \in Store \X Captured \X File \X (1 .. MaxSize),
                    receipts[k[1]][k[2]].sizes[k[3]] = k[4]
             PROVE  InArchive(k[2], k[3], k[4])
  BY DEF Claimed, Archived
<1>1. k[1] \in Store /\ k[2] \in Captured /\ k[3] \in File /\ k[4] > 0
  BY ArchiveAssumption
<1> QED
  BY <1>1 DEF ArchInv, ReceiptsEarned

LEMMA ClaimsEarnedNext == (ArchInv => Claimed \subseteq Archived)'
BY ClaimsEarned, PTL

LEMMA SameStores ==
  ASSUME UNCHANGED <<aligned, tree>>
  PROVE  Archived' = Archived
BY DEF Archived, InArchive, Archive, Ingest

\* Only a receipt is written of what was copied; nothing is taken out again.
LEMMA ArchPromises ==
  ASSUME ArchInv, ArchInv', GrowsApart, ArchNext
  PROVE  Promise!Perform \/ Promise!Confirm
<1>1. CASE \E p \in DOMAIN sweep : WriteArchReceipt(p)
  <2>1. Archived' = Archived
    BY <1>1, SameStores DEF WriteArchReceipt
  <2>2. Claimed' \subseteq Archived'
    BY ClaimsEarnedNext
  <2> QED
    BY <2>1, <2>2 DEF Promise!Confirm
<1>2. CASE ~\E p \in DOMAIN sweep : WriteArchReceipt(p)
  <2>1. receipts' = receipts
    BY <1>2 DEF ArchNext, SweepStep, ServerStep, BeginSweep, ListFiles, ReadKnown, VerifyFile,
       StartCopies, ReadBytes, CopyFile, ItemFails, SweepDies, BeginServerSweep, SizeFile,
       HeadFile, ProvenanceGrows, PartVanishes, OnlySweep, StoresStay
  <2>2. Claimed' = Claimed
    BY <2>1 DEF Claimed
  <2>3. \/ UNCHANGED <<aligned, tree>>
        \/ \E p \in DOMAIN sweep : CopyFile(p)
        \/ ProvenanceGrows \/ PartVanishes
    BY <1>2 DEF ArchNext, SweepStep, ServerStep, BeginSweep, ListFiles, ReadKnown, VerifyFile,
       StartCopies, ReadBytes, ItemFails, SweepDies, BeginServerSweep, SizeFile,
       HeadFile, OnlySweep, StoresStay
  <2>4. \A d \in Captured, f \in File, n \in Nat : InArchive(d, f, n) => InArchive(d, f, n)'
    BY <2>3, StoresSame, CopyKeeps, VanishFits, GrowthFits DEF EnvFits
  <2>5. Archived \subseteq Archived'
    <3> SUFFICES ASSUME NEW k \in Store \X Captured \X File \X (1 .. MaxSize),
                        InArchive(k[2], k[3], k[4])
                 PROVE  k \in Archived'
      BY DEF Archived
    <3>1. PICK d \in Captured, f \in File, n \in 1 .. MaxSize : d = k[2] /\ f = k[3] /\ n = k[4]
      OBVIOUS
    <3>2. InArchive(d, f, n)'
      BY <2>4, <3>1
    <3> QED
      BY <3>1, <3>2 DEF Archived
  <2> QED
    BY <2>2, <2>5 DEF Promise!Perform
<1> QED
  BY <1>1, <1>2

\* ArchiveKeepsPromise (archive.ts, lib/capture/Archive.ts: "copies first, the
\* receipt last"): the sweep implements ReceiptedWork, whatever passes overlap,
\* fail or die, parts that vanish and sightings that come meanwhile - unless one
\* comes between a pass's read of a provenance and its copy, or while the
\* Worker reconciles from a bucket that is not where captures are ingested.
THEOREM ArchiveIsPromised == ArchSpec /\ [][GrowsApart]_archVars => ArchiveKeepsPromise
<1>1. ArchInit => ArchInv
  BY ArchStarts
<1>2. ArchInv /\ [ArchNext]_archVars /\ [GrowsApart]_archVars => ArchInv'
  BY ArchStep
<1>3. ArchInit => Promise!WorkInit
  BY ArchStarts, ClaimsEarned DEF Promise!WorkInit
<1>4. ArchInv /\ ArchInv' /\ [ArchNext]_archVars /\ [GrowsApart]_archVars
        => [Promise!Perform \/ Promise!Confirm]_(Promise!work)
  <2> SUFFICES ASSUME ArchInv, ArchInv', [ArchNext]_archVars, [GrowsApart]_archVars
               PROVE  Promise!Perform \/ Promise!Confirm \/ UNCHANGED Promise!work
    OBVIOUS
  <2>1. CASE UNCHANGED archVars
    BY <2>1 DEF archVars, Promise!work, Archived, Claimed, InArchive, Archive, Ingest
  <2>2. CASE ~UNCHANGED archVars
    BY <2>2, ArchPromises
  <2> QED
    BY <2>1, <2>2
<1> QED
  BY <1>1, <1>2, <1>3, <1>4, PTL DEF ArchSpec, ArchiveKeepsPromise, Promise!WorkSpec
=============================================================================
