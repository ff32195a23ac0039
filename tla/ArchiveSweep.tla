---------------------------- MODULE ArchiveSweep ----------------------------
(***************************************************************************)
(* The archive sweep (cloudflare/src/archive.ts, lib/capture/Archive.ts):  *)
(* every file of every capture is in the archive bucket, and a receipt per *)
(* capture caches what the bucket holds.                                   *)
(*                                                                         *)
(* A pass selects captures and reconciles them one after another; passes   *)
(* overlap: the cron's (1) and an operator's (2) on the Worker, whose      *)
(* store is the archive bucket itself, and the server's (3), which works   *)
(* without limit, rebuilds a receipt that does not decode, and whose store *)
(* is the bucket too (`aligned`, today's deployment) or its disk.  Each    *)
(* listing, head, read, put and receipt is a step.                         *)
(*                                                                         *)
(* Abstractions.  A file is its size: content is immutable under a hash,   *)
(* or (the provenance) only appended to.                                   *)
(***************************************************************************)
EXTENDS Integers, Sequences, FiniteSets

CONSTANTS
  Catalog,      \* the captures, in id order
  ArchScenes,  \* what a behaviour may start with
  ArchLimit,   \* captures one pass works on
  MaxSize      \* bound: a provenance grows no further

File == {"blob", "provenance", "part"}
Store == {"bucket", "disk"}
Captured == {Catalog[i] : i \in DOMAIN Catalog}
FileSizes == [File -> 0 .. MaxSize]

ASSUME ArchiveAssumption ==
  /\ Catalog \in Seq(Captured) /\ ArchLimit \in Nat /\ MaxSize \in Nat
  /\ \A i, j \in DOMAIN Catalog : Catalog[i] = Catalog[j] => i = j

\* What of a disk is in the bucket was copied there, and what a receipt says is.
ASSUME ArchScenesAssumption ==
  \A s \in ArchScenes :
    /\ s.aligned \in BOOLEAN /\ s.passes \subseteq {1, 2, 3}
    /\ s.tree \in [Store -> [Captured -> FileSizes]]
    /\ s.receipts \in [Store -> [Captured ->
                        [state : {"none", "corrupt", "ok"}, sizes : FileSizes]]]
    /\ DOMAIN s.left = {"grows", "vanishes", "deaths", "fails"}
    /\ \A k \in DOMAIN s.left : s.left[k] \in Nat
    /\ \A c \in Captured, f \in File :
         LET here == s.tree[IF s.aligned THEN "bucket" ELSE "disk"][c][f]
         IN /\ s.tree["bucket"][c][f] <= here \/ here = 0
            /\ \A t \in Store :
                 \/ s.receipts[t][c].sizes[f] <= s.tree["bucket"][c][f]
                 \/ f = "part" /\ here = 0

VARIABLES
  aligned,   \* whether the server's store is the archive bucket
  tree,      \* the stores: store -> capture -> file -> size, 0 if not there
  receipts,  \* store -> capture -> what its receipt there says
  sweep,     \* the passes
  rotation,  \* the cursor in the notebook
  archLeft   \* the bounds: growths, vanishings, deaths and failures left

archVars == <<aligned, tree, receipts, sweep, rotation, archLeft>>

-----------------------------------------------------------------------------
Server == 3  \* the server's sweep; the Worker's are 1 and 2

Nothing == [f \in File |-> 0]
NoReceipt == [state |-> "none", sizes |-> Nothing]
Listed(t) == {f \in File : t[f] > 0}

Archive(c) == tree["bucket"][c]

\* Where captures are ingested, and where a pass reads and keeps receipts.
Ingest == IF aligned THEN "bucket" ELSE "disk"
Home(p) == IF p = Server THEN Ingest ELSE "bucket"
Tree(p, c) == tree[Home(p)][c]

AtRest ==
  [at |-> "rest", todo |-> << >>, listed |-> Nothing, known |-> NoReceipt,
   open |-> {}, uploads |-> {}, changed |-> FALSE, file |-> "blob", bytes |-> 0]

In(p, l) == sweep[p].at = l
Item(p) == Head(sweep[p].todo)
Put(p, r) == sweep' = [sweep EXCEPT ![p] = r]
To(p, l) == Put(p, [sweep[p] EXCEPT !.at = l])

\* A pass with captures before it, or with its report.
Over(captures) ==
  IF captures = << >> THEN AtRest
  ELSE [AtRest EXCEPT !.at = "list", !.todo = captures]

\* The next capture of the pass, or its report.
NextCapture(p) == Put(p, Over(Tail(sweep[p].todo)))

StoresStay == UNCHANGED <<aligned, tree, receipts>>
OnlySweep == StoresStay /\ UNCHANGED <<rotation, archLeft>>

-----------------------------------------------------------------------------
(* A pass selects. *)

Receipted(c) == receipts["bucket"][c].state # "none"

Before(c, d) == \E i, j \in DOMAIN Catalog : i < j /\ Catalog[i] = c /\ Catalog[j] = d

\* The captures of a set as the census lists them: there is one such sequence.
InIdOrder(S) ==
  {q \in [1 .. Cardinality(S) -> S] : \A i, j \in DOMAIN q : i < j => Before(q[i], q[j])}

\* n captures of the settled census, from the cursor on, round and round.
RoundRobin(start, n, settled) ==
  [i \in 1 .. n |-> settled[((start + i - 1) % Len(settled)) + 1]]

SliceSize(taken, settled) ==
  LET budget == ArchLimit - Len(taken)
  IN IF Len(settled) < budget THEN Len(settled) ELSE budget

\* Captures without a receipt first, then the slice; the cursor moves before
\* the work starts.
BeginSweep(p) ==
  /\ In(p, "rest") /\ p # Server
  /\ \E frontier \in InIdOrder({c \in Captured : ~Receipted(c)}),
        settled \in InIdOrder({c \in Captured : Receipted(c)}) :
     LET taken == SubSeq(frontier, 1,
                    IF Len(frontier) < ArchLimit THEN Len(frontier) ELSE ArchLimit)
         n     == SliceSize(taken, settled)
     IN /\ Put(p, Over(taken \o RoundRobin(rotation, n, settled)))
        /\ rotation' = IF settled = << >> THEN 0 ELSE (rotation + n) % Len(settled)
  /\ StoresStay /\ UNCHANGED archLeft

\* The server takes every capture, every time.
BeginServerSweep ==
  /\ Server \in DOMAIN sweep
  /\ In(Server, "rest")
  /\ Put(Server, Over(Catalog))
  /\ OnlySweep

-----------------------------------------------------------------------------
(* One capture: reconcileOne. *)

\* A capture whose directory emptied is left alone.
ListFiles(p) ==
  /\ In(p, "list")
  /\ IF Listed(Tree(p, Item(p))) = {} THEN NextCapture(p)
     ELSE Put(p, [sweep[p] EXCEPT !.at = "receipt?", !.listed = Tree(p, Item(p)),
                                  !.open = Listed(Tree(p, Item(p)))])
  /\ OnlySweep

\* A receipt that does not decode fails the Worker's item, on every pass.
ReadKnown(p) ==
  /\ In(p, "receipt?")
  /\ LET r == receipts[Home(p)][Item(p)]
     IN IF r.state = "corrupt" /\ p # Server THEN NextCapture(p)
        ELSE Put(p, [sweep[p] EXCEPT !.at = "verify", !.known = r,
                                     !.changed = r.state # "ok"])
  /\ OnlySweep

\* Seeded fault: a name the receipt has is carried whatever its size.
CarriedByName(w, f) == w.known.sizes[f] > 0

Carried(w, f) == w.known.sizes[f] = w.listed[f]

\* planArchiveCapture, a file at a time: carried by the receipt, or agreed
\* by a head of the archive, or to be uploaded.
VerifyFile(p) ==
  /\ In(p, "verify") /\ p # Server
  /\ \E f \in sweep[p].open :
       LET w == sweep[p]
           agrees == Archive(Item(p))[f] = w.listed[f]
       IN Put(p, [w EXCEPT !.open = @ \ {f},
            !.changed = @ \/ ~Carried(w, f),
            !.uploads = IF Carried(w, f) \/ agrees THEN @ ELSE @ \cup {f}])
  /\ OnlySweep

StartCopies(p) ==
  /\ In(p, "verify")
  /\ sweep[p].open = {}
  /\ To(p, IF sweep[p].uploads = {} THEN "receipt!" ELSE "read")
  /\ OnlySweep

\* archiveCapture sizes each file as it comes to it; a file that is gone
\* fails the item ...
SizeFile ==
  /\ Server \in DOMAIN sweep
  /\ In(Server, "verify")
  /\ \E f \in sweep[Server].open :
       LET size == Tree(Server, Item(Server))[f]
           w == [sweep[Server] EXCEPT !.open = @ \ {f}, !.listed[f] = size]
       IN IF size = 0 THEN NextCapture(Server)
          ELSE Put(Server, IF Carried(w, f) THEN w
                           ELSE [w EXCEPT !.at = "head", !.changed = TRUE, !.file = f])
  /\ OnlySweep

\* ... asks the bucket, and copies it before it looks at the next.
HeadFile ==
  /\ Server \in DOMAIN sweep
  /\ In(Server, "head")
  /\ LET w == sweep[Server]
         agrees == Archive(Item(Server))[w.file] = w.listed[w.file]
     IN Put(Server, IF agrees THEN [w EXCEPT !.at = "verify"]
                    ELSE [w EXCEPT !.at = "read", !.uploads = {w.file}])
  /\ OnlySweep

\* The bytes as they are now; a file that is gone fails the item.
ReadBytes(p) ==
  /\ In(p, "read")
  /\ \E f \in sweep[p].uploads :
       LET size == Tree(p, Item(p))[f]
       IN IF size = 0 THEN NextCapture(p)
          ELSE Put(p, [sweep[p] EXCEPT !.at = "put", !.file = f, !.bytes = size])
  /\ OnlySweep

CopyFile(p) ==
  /\ In(p, "put")
  /\ LET w == sweep[p]
         rest == w.uploads \ {w.file}
     IN /\ tree' = [tree EXCEPT !["bucket"][Item(p)][w.file] = w.bytes]
        /\ Put(p, [w EXCEPT !.uploads = rest, !.bytes = 0,
                     !.at = CASE p = Server -> "verify"
                              [] p # Server /\ rest = {} -> "receipt!"
                              [] OTHER -> "read"])
  /\ UNCHANGED <<aligned, receipts, rotation, archLeft>>

\* Seeded fault: the receipt before the copies.
ReceiptFirst(p) ==
  /\ sweep[p].at \in {"receipt!", "read"}
  /\ receipts' = [receipts EXCEPT ![Home(p)][Item(p)] =
                    [state |-> "ok", sizes |-> sweep[p].listed]]
  /\ IF In(p, "receipt!") THEN NextCapture(p) ELSE UNCHANGED sweep
  /\ UNCHANGED <<aligned, tree, rotation, archLeft>>

\* The receipt last, with the sizes as listed, and only if something changed.
WriteArchReceipt(p) ==
  /\ In(p, "receipt!")
  /\ receipts' = IF sweep[p].changed
                 THEN [receipts EXCEPT ![Home(p)][Item(p)] =
                         [state |-> "ok", sizes |-> sweep[p].listed]]
                 ELSE receipts
  /\ NextCapture(p)
  /\ UNCHANGED <<aligned, tree, rotation, archLeft>>

SweepStep(p) ==
  \/ ListFiles(p) \/ ReadKnown(p) \/ VerifyFile(p) \/ StartCopies(p)
  \/ ReadBytes(p) \/ CopyFile(p) \/ WriteArchReceipt(p)

ServerStep == BeginServerSweep \/ SizeFile \/ HeadFile

-----------------------------------------------------------------------------
(* What happens around it. *)

Pay(k) == archLeft[k] > 0 /\ archLeft' = [archLeft EXCEPT ![k] = @ - 1]

\* Another sighting of a capture appends to its provenance.
ProvenanceGrows ==
  /\ Pay("grows")
  /\ \E c \in Captured :
       /\ tree[Ingest][c]["provenance"] \in 1 .. MaxSize - 1
       /\ tree' = [tree EXCEPT ![Ingest][c]["provenance"] = @ + 1]
  /\ UNCHANGED <<aligned, receipts, sweep, rotation>>

\* A file of a half-done ingest goes away again.
PartVanishes ==
  /\ Pay("vanishes")
  /\ \E c \in Captured :
       /\ tree[Ingest][c]["part"] > 0
       /\ tree' = [tree EXCEPT ![Ingest][c]["part"] = 0]
  /\ UNCHANGED <<aligned, receipts, sweep, rotation>>

\* A call fails (the cap on a copy's size is such a failure), and the next
\* capture is taken up; or the isolate ends.
ItemFails(p) ==
  /\ ~In(p, "rest")
  /\ Pay("fails")
  /\ NextCapture(p)
  /\ StoresStay /\ UNCHANGED rotation

SweepDies(p) ==
  /\ ~In(p, "rest")
  /\ Pay("deaths")
  /\ Put(p, AtRest)
  /\ StoresStay /\ UNCHANGED rotation

-----------------------------------------------------------------------------
ArchStart(s) ==
  /\ aligned = s.aligned
  /\ tree = s.tree
  /\ receipts = s.receipts
  /\ sweep = [p \in s.passes |-> AtRest]
  /\ rotation = 0
  /\ archLeft = s.left

ArchInit == \E s \in ArchScenes : ArchStart(s)

ArchNext ==
  \/ \E p \in DOMAIN sweep : BeginSweep(p) \/ SweepStep(p) \/ ItemFails(p) \/ SweepDies(p)
  \/ ServerStep
  \/ ProvenanceGrows \/ PartVanishes

\* The cron and the server's loop begin a pass again and again, and a pass
\* carries on.
ArchFairness ==
  /\ \A p \in {1, 2, 3} :
       WF_archVars(p \in DOMAIN sweep /\ (BeginSweep(p) \/ SweepStep(p)))
  /\ WF_archVars(ServerStep)

ArchSpec == ArchInit /\ [][ArchNext]_archVars /\ ArchFairness

-----------------------------------------------------------------------------
(* Properties. *)

\* Sizes only, and a pass works on captures of the census.
ArchTypeOK ==
  /\ \A s \in Store, c \in Captured :
       /\ tree[s][c] \in [File -> 0 .. MaxSize]
       /\ receipts[s][c].state \in {"none", "corrupt", "ok"}
       /\ receipts[s][c].sizes \in [File -> 0 .. MaxSize]
  /\ \A p \in DOMAIN sweep :
       /\ In(p, "rest") <=> sweep[p].todo = << >>
       /\ \A i \in DOMAIN sweep[p].todo : sweep[p].todo[i] \in Captured

\* The archive holds as much of a file; the part of an ingest that was cleared
\* away needs no archive.
InArchive(c, f, n) == n <= Archive(c)[f] \/ (f = "part" /\ tree[Ingest][c][f] = 0)

\* A file at a size is done once it is archived, and receipted while a receipt
\* says so.
Archived ==
  {k \in Store \X Captured \X File \X (1 .. MaxSize) :
     InArchive(k[2], k[3], k[4])}

Claimed ==
  {k \in Store \X Captured \X File \X (1 .. MaxSize) :
     receipts[k[1]][k[2]].sizes[k[3]] = k[4]}

Promise == INSTANCE ReceiptedWork WITH done <- Archived, receipted <- Claimed

\* "Copies first, the receipt last": the sweep keeps the promise of its
\* receipts, so no receipt claims more of a file than the archive holds.
ArchiveKeepsPromise == Promise!WorkSpec

\* What a shadow pass of reconcileOne says of a capture that is not fresh.
ShadowVerdict(s, c) ==
  LET files == Listed(tree[s][c])
      stale == {f \in files : receipts[s][c].sizes[f] # tree[s][c][f]}
  IN IF files = {} THEN "matched"
     ELSE IF receipts[s][c].state = "corrupt" THEN "error"
     ELSE IF \E f \in stale : Archive(c)[f] # tree[s][c][f] THEN "would-upload"
     ELSE IF stale # {} \/ receipts[s][c].state = "none" THEN "would-rewrite"
     ELSE IF Listed(receipts[s][c].sizes) \subseteq files THEN "matched" ELSE "ghost"

Sound(s, c) ==
  /\ \A f \in Listed(tree[s][c]) : Archive(c)[f] = tree[s][c][f]
  /\ ShadowVerdict(s, c) \in {"matched", "ghost"}

\* Every capture ends up archived and receipted at its final size, and the
\* shadow has nothing to say of it: deaths, failed calls, growth in the
\* middle of a pass and overlapping passes included.  A receipt that does
\* not decode is only ever repaired by the server.
ArchiveCatchesUp ==
  \A s \in Store, c \in Captured :
    (\E p \in DOMAIN sweep : Home(p) = s)
      => <>[](\/ Sound(s, c)
              \/ receipts[s][c].state = "corrupt" /\ Server \notin DOMAIN sweep)

\* "Content-addressed keys mean a double upload writes the same bytes": no
\* copy takes a sighting out of a provenance file in the bucket.
CopiesAreIdempotent ==
  [][\A c \in Captured : Archive(c)["provenance"] <= Archive(c)["provenance"]']_archVars
=============================================================================
