------------------------ MODULE TranscribeStageProofs ------------------------
(***************************************************************************)
(* What media-transcribe guarantees, for every set of captures, manifest,  *)
(* limit and fault budget: its state keeps its types whatever passes       *)
(* overlap, and while they do not, it loses sight of no paid job and ends  *)
(* no capture but on evidence.                                             *)
(***************************************************************************)
EXTENDS TranscribeStage, FiniteSetTheorems, TLAPS

-----------------------------------------------------------------------------
(* Sequences. *)

LEMMA SeqGrows ==
  ASSUME NEW S, NEW T, S \subseteq T, NEW s \in Seq(S)
  PROVE  s \in Seq(T)
  OBVIOUS

LEMMA AppendShape ==
  ASSUME NEW S, NEW s \in Seq(S), NEW e
  PROVE  /\ Len(Append(s, e)) = Len(s) + 1
         /\ \A n \in 1..Len(s) : Append(s, e)[n] = s[n]
         /\ Append(s, e)[Len(s) + 1] = e
         /\ \A T : S \subseteq T /\ e \in T => Append(s, e) \in Seq(T)
  OBVIOUS

-----------------------------------------------------------------------------
(* Passes and items. *)

\* What a step on capture c by pass p leaves alone.
Others(p, c) ==
  /\ DOMAIN pass' = DOMAIN pass
  /\ \A q \in DOMAIN pass \ {p} : pass'[q] = pass[q]
  /\ DOMAIN pass'[p] = DOMAIN pass[p]
  /\ pass'[p].at = pass[p].at
  /\ pass'[p].settled = pass[p].settled
  /\ DOMAIN pass'[p].items \subseteq DOMAIN pass[p].items
  /\ \A d \in DOMAIN pass[p].items \ {c} :
       d \in DOMAIN pass'[p].items /\ pass'[p].items[d] = pass[p].items[d]

PassShaped(p) ==
  p \in DOMAIN pass /\ DOMAIN pass[p] = {"at", "settled", "items"}

\* The item at hand goes on as item, or ends.
Turns(p, c, item) ==
  Others(p, c) /\ c \in DOMAIN pass'[p].items /\ pass'[p].items[c] = item

Ends(p, c) == Others(p, c) /\ c \notin DOMAIN pass'[p].items

LEMMA SetItemShape ==
  ASSUME NEW p, NEW c, NEW item, PassShaped(p), Working(p, c),
         SetItem(p, c, item)
  PROVE  Turns(p, c, item)
  BY DEF PassShaped, Working, SetItem, Turns, Others

LEMMA EndItemShape ==
  ASSUME NEW p, NEW c, PassShaped(p), Working(p, c), EndItem(p, c)
  PROVE  Ends(p, c)
  <1> DEFINE rest == [x \in DOMAIN pass[p].items \ {c} |-> pass[p].items[x]]
  <1>1. pass' = [pass EXCEPT ![p].items = rest]
    BY DEF EndItem
  <1>2. /\ DOMAIN rest = DOMAIN pass[p].items \ {c}
        /\ \A x \in DOMAIN rest : rest[x] = pass[p].items[x]
    OBVIOUS
  <1> HIDE DEF rest
  <1> QED
    BY <1>1, <1>2 DEF PassShaped, Ends, Others

LEMMA MoveShape ==
  ASSUME NEW p, NEW c, NEW l \in Label,
         Item(p, c) \in [at : Label, landed : BOOLEAN,
                         receipt : Seq(DOMAIN jobs)]
  PROVE  /\ Move(p, c, l) \in [at : Label, landed : BOOLEAN,
                               receipt : Seq(DOMAIN jobs)]
         /\ Move(p, c, l).at = l /\ Move(p, c, l).landed = FALSE
         /\ Move(p, c, l).receipt = Item(p, c).receipt
  BY DEF Move

\* Where an item resumes fits what it holds.
LEMMA ResumeFits ==
  ASSUME NEW c \in Capture, NEW held \in Seq(DOMAIN jobs), Matches(c, held)
  PROVE  /\ Resume(c, held) \in {"poll", "settle", "submit"}
         /\ Resume(c, held) = "poll" => Len(held) = Chunks[c]
         /\ Resume(c, held) = "settle" => <<c, Len(held) + 1>> \in Missing
         /\ Resume(c, held) = "submit" => Len(held) < Chunks[c]
  BY CaptureAssumption DEF Resume, Matches

LEMMA KeyParts ==
  ASSUME NEW c, NEW d
  PROVE  /\ (ManifestKey(c) = ManifestKey(d)) <=> c = d
         /\ (JobsKey(c) = JobsKey(d)) <=> c = d
         /\ (VendorKey(c) = VendorKey(d)) <=> c = d
         /\ (CanonicalKey(c) = CanonicalKey(d)) <=> c = d
         /\ (SettledKey(c) = SettledKey(d)) <=> c = d
         /\ JobsKey(c) \notin {ManifestKey(d), VendorKey(d), CanonicalKey(d),
                               SettledKey(d)}
         /\ CanonicalKey(c) \notin {ManifestKey(d), VendorKey(d),
                                    SettledKey(d)}
         /\ SettledKey(c) \notin {ManifestKey(d), VendorKey(d)}
         /\ VendorKey(c) # ManifestKey(d)
  BY DEF ManifestKey, JobsKey, VendorKey, CanonicalKey, SettledKey

\* A step of the item at work on capture c.
Works(p, c) == ItemStep(p, c) \/ BuyUnanswered(p, c) \/ Fault(p, c)

\* The half of TypeOK that is about capture c and pass p.
Typed(p, c) ==
  /\ p \in DOMAIN pass /\ DOMAIN pass[p] = {"at", "settled", "items"}
  /\ DocumentsTyped(c) /\ IsFiniteSet(JobsOf(c))
  /\ DOMAIN jobs \subseteq JobId
  /\ c \in DOMAIN pass[p].items => ItemTyped(c, Item(p, c))

LEMMA TypedParts ==
  ASSUME TypeOK, NEW p \in Pass, NEW c \in Capture
  PROVE  Typed(p, c) /\ PassShaped(p)
  BY DEF TypeOK, Typed, PassShaped

\* What an accepted job changes of the vendor's jobs.
LEMMA AcceptShape ==
  ASSUME NEW c \in Capture, NEW held \in Seq(DOMAIN jobs),
         DOMAIN jobs \subseteq JobId, IsFiniteSet(JobsOf(c)),
         Accept(c, NextJob(c, held))
  PROVE  LET j == NextJob(c, held)
         IN /\ j \in JobId /\ CaptureOf(j) = c /\ ChunkOf(j) = Len(held) + 1
            /\ DOMAIN jobs' = DOMAIN jobs \cup {j}
            /\ \A x \in DOMAIN jobs' : jobs'[x] = IF x = j THEN "running" ELSE jobs[x]
  <1> DEFINE i == Len(held) + 1
             same == {x \in JobsOf(c) : ChunkOf(x) = i}
  <1>1. Cardinality(same) \in Nat
    <2>1. same \in SUBSET JobsOf(c)
      OBVIOUS
    <2> QED
      BY <2>1, FS_Subset, FS_CardinalityType
  <1>2. i \in Nat \ {0}
    OBVIOUS
  <1>3. NextJob(c, held) = <<c, i, Cardinality(same) + 1>>
    BY DEF NextJob
  <1> HIDE DEF i, same
  <1>4. <<c, i, Cardinality(same) + 1>> \in JobId
    BY <1>1, <1>2 DEF JobId
  <1>5. NextJob(c, held) \in JobId
    BY <1>3, <1>4
  <1> QED
    BY <1>3, <1>5 DEF Accept, CaptureOf, ChunkOf, i

-----------------------------------------------------------------------------
(* The kinds of steps an item takes. *)

Quiet == UNCHANGED <<store, jobs, faults>>

\* The item ends: it has nothing to do here, is through, or a call fails.
Drops(p, c) ==
  /\ Ends(p, c) /\ UNCHANGED <<store, jobs>>
  /\ \/ UNCHANGED faults /\ Item(p, c).at \in {"gather", "read", "poll"}
     \/ /\ UNCHANGED faults /\ Item(p, c).landed
        /\ Item(p, c).at \in {"clear", "commit", "publish", "settle"}
     \/ faults' = faults + 1

Reads(p, c) ==
  /\ Item(p, c).at = "gather" /\ Quiet
  /\ Turns(p, c, [Move(p, c, "read") EXCEPT !.receipt = Receipt(c)])

\* The canonical transcript and the markers leave the capture to be worked.
Open(p, c) == c \notin pass[p].settled /\ CanonicalStatus(c) # "completed"

FindsError(p, c) ==
  /\ Item(p, c).at = "read" /\ Open(p, c) /\ Quiet
  /\ Turns(p, c, Move(p, c, "clear"))

Resumes(p, c) ==
  /\ \/ Item(p, c).at = "read" /\ Open(p, c)
     \/ Item(p, c).at = "clear" /\ Item(p, c).landed
  /\ Matches(c, Item(p, c).receipt) /\ Quiet
  /\ Turns(p, c, Move(p, c, Resume(c, Item(p, c).receipt)))

\* The bucket half of a ledger call.
Lands(p, c) ==
  /\ ~Item(p, c).landed /\ UNCHANGED <<jobs, faults>>
  /\ Turns(p, c, [Item(p, c) EXCEPT !.landed = TRUE])
  /\ \/ Item(p, c).at = "clear" /\ Delete(CanonicalKey(c))
     \/ Item(p, c).at = "commit" /\ Put(JobsKey(c), Item(p, c).receipt)
     \/ Item(p, c).at = "vendor" /\ Put(VendorKey(c), Held(p, c))
     \/ /\ Item(p, c).at = "publish"
        /\ Put(CanonicalKey(c),
               Transcript({ChunkOf(j) : j \in Completed(Held(p, c))}))
     \/ Item(p, c).at = "settle" /\ Put(SettledKey(c), "marker")

Bought(p, c) == NextJob(c, Item(p, c).receipt)

Buys(p, c) ==
  /\ Item(p, c).at = "submit" /\ UNCHANGED <<store, faults>>
  /\ Accept(c, Bought(p, c))
  /\ Turns(p, c, [Move(p, c, "commit") EXCEPT
                    !.receipt = Append(Item(p, c).receipt, Bought(p, c))])

Overpays(p, c) ==
  /\ Item(p, c).at = "submit" /\ UNCHANGED store /\ faults' = faults + 1
  /\ Accept(c, Bought(p, c))
  /\ UNCHANGED pass \/ Ends(p, c)

Commits(p, c) ==
  /\ Item(p, c).at = "commit" /\ Item(p, c).landed /\ Quiet
  /\ Resume(c, Item(p, c).receipt) # "poll"
  /\ Turns(p, c, Move(p, c, Resume(c, Item(p, c).receipt)))

Polls(p, c) ==
  /\ Item(p, c).at = "poll" /\ Quiet
  /\ \A j \in Held(p, c) : Over(j)
  /\ Turns(p, c, Move(p, c, "vendor"))

Failed(held) == Completed(held) = {} /\ \E j \in held : jobs[j] = "error"

Answers(p, c) ==
  /\ Item(p, c).at = "vendor" /\ Item(p, c).landed /\ Quiet
  /\ Turns(p, c, Move(p, c, IF Failed(Held(p, c)) THEN "settle" ELSE "publish"))

WorkKind(p, c) ==
  \/ Drops(p, c) \/ Reads(p, c) \/ FindsError(p, c) \/ Resumes(p, c)
  \/ Lands(p, c) \/ Buys(p, c) \/ Overpays(p, c) \/ Commits(p, c)
  \/ Polls(p, c) \/ Answers(p, c)

LEMMA WorksKinds ==
  ASSUME NEW p, NEW c \in Capture, Typed(p, c), Works(p, c)
  PROVE  Working(p, c) /\ WorkKind(p, c)
  <1> USE DEF Frame, ledgerVars, Quiet
  <1>a. Working(p, c)
    BY DEF Works, ItemStep, Gather, ReadCanonical, ClearError, Buy, Commit,
           Poll, KeepAnswers, Publish, Settle, Write, BuyUnanswered, Fault, At
  <1>b. PassShaped(p)
    BY DEF Typed, PassShaped
  <1>c. \A item : SetItem(p, c, item) => Turns(p, c, item)
    BY <1>a, <1>b, SetItemShape
  <1>d. EndItem(p, c) => Ends(p, c)
    BY <1>a, <1>b, EndItemShape
  <1>e. \A l : Goto(p, c, l) => Turns(p, c, Move(p, c, l))
    BY <1>c DEF Goto
  <1>1. CASE Gather(p, c)
    BY <1>1, <1>c, <1>d DEF Gather, At, Reads, Drops, WorkKind
  <1>2. ASSUME Judge(p, c), UNCHANGED <<store, jobs, faults>>,
               \/ Item(p, c).at = "read" /\ Open(p, c)
               \/ Item(p, c).at = "clear" /\ Item(p, c).landed
        PROVE  WorkKind(p, c)
    BY <1>2, <1>d, <1>e DEF Judge, Resumes, Drops, WorkKind
  <1>3. CASE ReadCanonical(p, c)
    <2>1. Item(p, c).at = "read" /\ UNCHANGED <<store, jobs, faults>>
      BY <1>3 DEF ReadCanonical, At
    <2>2. CASE ~Open(p, c)
      <3>1. EndItem(p, c)
        BY <1>3, <2>2 DEF ReadCanonical, Open
      <3> QED
        BY <1>a, <1>d, <2>1, <3>1 DEF Drops, WorkKind
    <2>3. CASE Open(p, c)
      <3>1. Goto(p, c, "clear") \/ Judge(p, c)
        BY <1>3, <2>3 DEF ReadCanonical, Open
      <3> QED
        BY <1>a, <1>2, <1>e, <2>1, <2>3, <3>1 DEF FindsError, WorkKind
    <2> QED
      BY <2>2, <2>3
  <1>4. CASE ClearError(p, c)
    <2>1. CASE ~Item(p, c).landed
      BY <1>4, <1>c, <2>1 DEF ClearError, At, Lands, WorkKind
    <2>2. CASE Item(p, c).landed
      BY <1>2, <1>4, <2>2 DEF ClearError, At
    <2> QED
      BY <2>1, <2>2
  <1>5. CASE Buy(p, c)
    BY <1>5, <1>c DEF Buy, At, Buys, Bought, WorkKind
  <1>6. CASE BuyUnanswered(p, c)
    BY <1>6, <1>d DEF BuyUnanswered, At, Overpays, Bought, WorkKind
  <1>7. CASE Commit(p, c)
    <2>1. CASE ~Item(p, c).landed
      BY <1>7, <1>c, <2>1 DEF Commit, Write, At, Lands, WorkKind
    <2>2. CASE Item(p, c).landed
      BY <1>7, <1>d, <1>e, <2>2
      DEF Commit, Write, At, Commits, Drops, WorkKind
    <2> QED
      BY <2>1, <2>2
  <1>8. CASE Poll(p, c)
    BY <1>8, <1>d, <1>e DEF Poll, At, Polls, Drops, WorkKind
  <1>9. CASE KeepAnswers(p, c)
    <2>1. CASE ~Item(p, c).landed
      BY <1>9, <1>c, <2>1 DEF KeepAnswers, Write, At, Lands, WorkKind
    <2>2. CASE Item(p, c).landed
      BY <1>9, <1>e, <2>2
      DEF KeepAnswers, Write, At, Answers, Failed, WorkKind
    <2> QED
      BY <2>1, <2>2
  <1>10. CASE Publish(p, c)
    BY <1>10, <1>c, <1>d DEF Publish, Write, At, Lands, Drops, WorkKind
  <1>11. CASE Settle(p, c)
    BY <1>11, <1>c, <1>d DEF Settle, Write, At, Lands, Drops, WorkKind
  <1>12. CASE Fault(p, c)
    BY <1>12, <1>d DEF Fault, Drops, WorkKind
  <1> QED
    BY <1>a, <1>1, <1>3, <1>4, <1>5, <1>6, <1>7, <1>8, <1>9, <1>10, <1>11,
       <1>12
    DEF Works, ItemStep

-----------------------------------------------------------------------------
(* Type correctness. *)

\* ItemTyped and DocumentsTyped, relative to the jobs that are known.
ItemFits(known, c, item) ==
  /\ item \in [at : Label, landed : BOOLEAN, receipt : Seq(known)]
  /\ item.at \notin {"gather", "read", "clear"} => Matches(c, item.receipt)
  /\ item.at = "submit" => Len(item.receipt) < Chunks[c]
  /\ item.at = "commit" => item.receipt # << >>
  /\ item.at \in {"poll", "vendor", "publish"} =>
       Len(item.receipt) = Chunks[c]

LEMMA FitsIsTyped ==
  ASSUME NEW p, NEW c
  PROVE  /\ ItemTyped(c, Item(p, c)) <=>
              ItemFits(DOMAIN jobs, c, pass[p].items[c])
         /\ ItemTyped(c, Item(p, c))' <=>
              ItemFits(DOMAIN jobs', c, pass'[p].items[c])
  BY DEF ItemTyped, ItemFits, Item

LEMMA FitsGrows ==
  ASSUME NEW S, NEW T, S \subseteq T, NEW c, NEW item, ItemFits(S, c, item)
  PROVE  ItemFits(T, c, item)
  <1>1. item.receipt \in Seq(T)
    BY SeqGrows DEF ItemFits
  <1> QED
    BY <1>1 DEF ItemFits

\* No step makes the vendor forget a job.
LEMMA JobsGrow ==
  ASSUME NEW p, NEW c \in Capture, Typed(p, c), WorkKind(p, c), Working(p, c)
  PROVE  /\ DOMAIN jobs \subseteq DOMAIN jobs'
         /\ DOMAIN jobs' \subseteq JobId
         /\ \A d \in Capture \ {c} : JobsOf(d)' = JobsOf(d)
         /\ \A j \in DOMAIN jobs : CaptureOf(j) # c => jobs'[j] = jobs[j]
         /\ IsFiniteSet(JobsOf(c)')
  <1>a. Item(p, c).receipt \in Seq(DOMAIN jobs)
    BY DEF Typed, ItemTyped, Working
  <1>1. CASE UNCHANGED jobs
    BY <1>1 DEF Typed, JobsOf
  <1>2. CASE Accept(c, Bought(p, c))
    <2> DEFINE j == Bought(p, c)
    <2>1. /\ j \in JobId /\ CaptureOf(j) = c
          /\ DOMAIN jobs' = DOMAIN jobs \cup {j}
          /\ \A x \in DOMAIN jobs' : jobs'[x] = IF x = j THEN "running" ELSE jobs[x]
      BY <1>a, <1>2, AcceptShape DEF Typed, Bought
    <2> HIDE DEF j
    <2>2. JobsOf(c)' = JobsOf(c) \cup {j}
      BY <2>1 DEF JobsOf
    <2>3. IsFiniteSet(JobsOf(c)')
      BY <2>2, FS_AddElement DEF Typed
    <2>4. \A d \in Capture \ {c} : JobsOf(d)' = JobsOf(d)
      BY <2>1 DEF JobsOf
    <2> QED
      BY <2>1, <2>3, <2>4 DEF Typed
  <1> QED
    BY <1>1, <1>2
    DEF WorkKind, Drops, Reads, FindsError, Resumes, Lands, Buys, Overpays,
        Commits, Polls, Answers, Quiet

\* The item at hand keeps its type.
LEMMA ItemStaysTyped ==
  ASSUME NEW p, NEW c \in Capture, Typed(p, c), WorkKind(p, c), Working(p, c),
         c \in DOMAIN pass'[p].items
  PROVE  ItemFits(DOMAIN jobs', c, pass'[p].items[c])
  <1> DEFINE i == Item(p, c)
             n == pass'[p].items[c]
  <1>a. ItemFits(DOMAIN jobs, c, i)
    BY FitsIsTyped DEF Typed, Working, Item
  <1>b. /\ i \in [at : Label, landed : BOOLEAN, receipt : Seq(DOMAIN jobs)]
        /\ i.receipt \in Seq(DOMAIN jobs)
    BY <1>a DEF ItemFits
  <1>c. /\ Receipt(c) \in Seq(DOMAIN jobs)
        /\ Item(p, c) \in [at : Label, landed : BOOLEAN,
                           receipt : Seq(DOMAIN jobs)]
    <2>1. << >> \in Seq(DOMAIN jobs)
      OBVIOUS
    <2>2. Receipt(c) \in Seq(DOMAIN jobs)
      BY <2>1 DEF Typed, DocumentsTyped, Receipt
    <2> QED
      BY <1>b, <2>2
  <1>d. DOMAIN jobs \subseteq DOMAIN jobs'
    BY JobsGrow
  <1>e. ASSUME NEW l \in Label, n = Move(p, c, l)
        PROVE  /\ n \in [at : Label, landed : BOOLEAN,
                         receipt : Seq(DOMAIN jobs)]
               /\ n.at = l /\ n.receipt = i.receipt
    <2>1. /\ Move(p, c, l) \in [at : Label, landed : BOOLEAN,
                               receipt : Seq(DOMAIN jobs)]
          /\ Move(p, c, l).at = l /\ Move(p, c, l).receipt = Item(p, c).receipt
      BY <1>c, MoveShape
    <2> QED
      BY <1>e, <2>1
  <1> SUFFICES ItemFits(DOMAIN jobs, c, n) \/ ItemFits(DOMAIN jobs', c, n)
    BY <1>d, FitsGrows
  <1> USE DEF Turns, Label
  <1>1. CASE Reads(p, c)
    <2>1. n = [Move(p, c, "read") EXCEPT !.receipt = Receipt(c)]
      BY <1>1 DEF Reads
    <2>2. /\ Move(p, c, "read") \in [at : Label, landed : BOOLEAN,
                                    receipt : Seq(DOMAIN jobs)]
          /\ Move(p, c, "read").at = "read"
      BY <1>c, MoveShape
    <2> HIDE DEF n
    <2>3. /\ n \in [at : Label, landed : BOOLEAN, receipt : Seq(DOMAIN jobs)]
          /\ n.at = "read"
      BY <1>c, <2>1, <2>2
    <2> QED
      BY <2>3 DEF ItemFits
  <1>2. CASE FindsError(p, c)
    <2>1. n = Move(p, c, "clear")
      BY <1>2 DEF FindsError
    <2> QED
      BY <1>e, <2>1 DEF ItemFits
  <1>3. CASE Resumes(p, c) \/ Commits(p, c)
    <2> DEFINE l == Resume(c, i.receipt)
    <2>1. Matches(c, i.receipt) /\ n = Move(p, c, l)
      BY <1>3, <1>a DEF Resumes, Commits, ItemFits
    <2>2. /\ l \in {"poll", "settle", "submit"}
          /\ l = "poll" => Len(i.receipt) = Chunks[c]
          /\ l = "submit" => Len(i.receipt) < Chunks[c]
      BY <1>b, <2>1, ResumeFits
    <2> HIDE DEF l
    <2>3. /\ n \in [at : Label, landed : BOOLEAN, receipt : Seq(DOMAIN jobs)]
          /\ n.at = l /\ n.receipt = i.receipt
      BY <1>e, <2>1, <2>2
    <2> QED
      BY <2>1, <2>2, <2>3 DEF ItemFits
  <1>4. CASE Lands(p, c)
    <2>1. n = [i EXCEPT !.landed = TRUE]
      BY <1>4 DEF Lands
    <2> QED
      BY <1>a, <1>b, <2>1 DEF ItemFits
  <1>5. CASE Buys(p, c)
    <2> DEFINE held == i.receipt
               j == Bought(p, c)
    <2>1. /\ i.at = "submit" /\ Accept(c, j)
          /\ n = [Move(p, c, "commit") EXCEPT !.receipt = Append(held, j)]
      BY <1>5 DEF Buys
    <2>2. ChunkOf(j) = Len(held) + 1 /\ j \in DOMAIN jobs'
      <3>1. Accept(c, NextJob(c, held)) /\ held \in Seq(DOMAIN jobs)
        BY <1>b, <2>1 DEF Bought
      <3>2. DOMAIN jobs \subseteq JobId /\ IsFiniteSet(JobsOf(c))
        BY DEF Typed
      <3> QED
        BY <3>1, <3>2, AcceptShape DEF Bought
    <2>3. Matches(c, held) /\ Len(held) < Chunks[c]
      BY <1>a, <2>1 DEF ItemFits
    <2> HIDE DEF j
    <2>4. /\ Append(held, j) \in Seq(DOMAIN jobs')
          /\ Len(Append(held, j)) = Len(held) + 1
          /\ \A k \in 1..Len(held) : Append(held, j)[k] = held[k]
          /\ Append(held, j)[Len(held) + 1] = j
      BY <1>b, <1>d, <2>2, AppendShape
    <2>5. Append(held, j) # << >>
      BY <1>b, <2>4
    <2>6. Matches(c, Append(held, j))
      BY <1>b, <2>2, <2>3, <2>4, CaptureAssumption DEF Matches
    <2>7. /\ n \in [at : Label, landed : BOOLEAN, receipt : Seq(DOMAIN jobs')]
          /\ n.at = "commit" /\ n.receipt = Append(held, j)
      <3>1. /\ Move(p, c, "commit") \in [at : Label, landed : BOOLEAN,
                                        receipt : Seq(DOMAIN jobs)]
            /\ Move(p, c, "commit").at = "commit"
        BY <1>c, MoveShape
      <3> QED
        BY <2>1, <2>4, <3>1
    <2> QED
      BY <2>5, <2>6, <2>7 DEF ItemFits
  <1>6. CASE Overpays(p, c)
    <2>1. n = i
      BY <1>6 DEF Overpays, Ends, Item
    <2> QED
      BY <1>a, <2>1
  <1>7. CASE Polls(p, c)
    <2>1. n = Move(p, c, "vendor") /\ i.at = "poll"
      BY <1>7 DEF Polls
    <2> QED
      BY <1>a, <1>e, <2>1 DEF ItemFits
  <1>8. CASE Answers(p, c)
    <2>1. PICK l \in {"settle", "publish"} : n = Move(p, c, l)
      BY <1>8 DEF Answers
    <2>2. i.at = "vendor"
      BY <1>8 DEF Answers
    <2> QED
      BY <1>a, <1>e, <2>1, <2>2 DEF ItemFits
  <1>9. CASE Drops(p, c)
    BY <1>9 DEF Drops, Ends
  <1> QED
    BY <1>1, <1>2, <1>3, <1>4, <1>5, <1>6, <1>7, <1>8, <1>9 DEF WorkKind

\* The chunks of a whole receipt that fits its manifest.
LEMMA HeldChunks ==
  ASSUME NEW p, NEW c \in Capture, Matches(c, Item(p, c).receipt),
         Len(Item(p, c).receipt) = Chunks[c]
  PROVE  /\ Held(p, c) = JobsIn(Item(p, c).receipt)
         /\ \A j \in Held(p, c) : ChunkOf(j) \in 1..Chunks[c]
  BY CaptureAssumption DEF Held, Matches, JobsIn

\* What a step on capture c leaves in the bucket.
LEMMA DocumentsStayTyped ==
  ASSUME NEW p, NEW c \in Capture, Typed(p, c), WorkKind(p, c), Working(p, c),
         NEW d \in Capture, DocumentsTyped(d)
  PROVE  DocumentsTyped(d)'
  <1>a. DOMAIN jobs \subseteq DOMAIN jobs'
    BY JobsGrow
  <1>b. ItemFits(DOMAIN jobs, c, Item(p, c))
    BY FitsIsTyped DEF Typed, Working, Item
  <1>1. CASE UNCHANGED store
    <2>1. Has(JobsKey(d)) => store[JobsKey(d)] \in Seq(DOMAIN jobs')
      BY <1>a, SeqGrows DEF DocumentsTyped
    <2> QED
      BY <1>1, <2>1 DEF DocumentsTyped, Has
  <1>2. CASE Lands(p, c)
    <2> DEFINE held == Item(p, c).receipt
               text == Transcript({ChunkOf(j) : j \in Completed(Held(p, c))})
    <2>1. held \in Seq(DOMAIN jobs)
      BY <1>b DEF ItemFits
    <2>2. Item(p, c).at = "publish" =>
            text \in [status : {"error", "completed"}, parts : SUBSET (1..Chunks[c])]
      <3> SUFFICES ASSUME Item(p, c).at = "publish"
                   PROVE  {ChunkOf(j) : j \in Completed(Held(p, c))}
                            \subseteq 1..Chunks[c]
        BY DEF Transcript
      <3>1. \A j \in Held(p, c) : ChunkOf(j) \in 1..Chunks[c]
        BY <1>b, HeldChunks DEF ItemFits
      <3> QED
        BY <3>1 DEF Completed
    <2> HIDE DEF held, text
    <2>3. Has(JobsKey(d))' =>
            \/ Has(JobsKey(d)) /\ store'[JobsKey(d)] = store[JobsKey(d)]
            \/ store'[JobsKey(d)] = held
      <3>1. CASE Item(p, c).at = "commit"
        BY <1>2, <3>1 DEF Lands, Put, Has, held
      <3>2. CASE Item(p, c).at # "commit"
        <4>1. \A k : /\ JobsKey(d) # k /\ Has(JobsKey(d))'
                     /\ Put(k, store'[k]) \/ Delete(k)
                => Has(JobsKey(d)) /\ store'[JobsKey(d)] = store[JobsKey(d)]
          BY DEF Put, Delete, Has
        <4>2. \E k \in {VendorKey(c), CanonicalKey(c), SettledKey(c)} :
                (\E doc : Put(k, doc)) \/ Delete(k)
          BY <1>2, <3>2 DEF Lands
        <4>3. \E k \in {VendorKey(c), CanonicalKey(c), SettledKey(c)} :
                Put(k, store'[k]) \/ Delete(k)
          BY <4>2 DEF Put
        <4> QED
          BY <4>1, <4>3, KeyParts
      <3> QED
        BY <3>1, <3>2
    <2>4. \/ ~Has(CanonicalKey(d))'
          \/ /\ Has(CanonicalKey(d)) /\ Has(CanonicalKey(d))'
             /\ store'[CanonicalKey(d)] = store[CanonicalKey(d)]
          \/ /\ Item(p, c).at = "publish" /\ d = c
             /\ store'[CanonicalKey(d)] = text
      BY <1>2, KeyParts DEF Lands, Put, Delete, Has, text
    <2>5. UNCHANGED jobs
      BY <1>2 DEF Lands
    <2>6. Has(JobsKey(d))' => store'[JobsKey(d)] \in Seq(DOMAIN jobs')
      BY <2>1, <2>3, <2>5 DEF DocumentsTyped
    <2>7. Has(CanonicalKey(d))' =>
            store'[CanonicalKey(d)] \in
              [status : {"error", "completed"}, parts : SUBSET (1..Chunks[d])]
      BY <2>2, <2>4 DEF DocumentsTyped
    <2> QED
      BY <2>6, <2>7 DEF DocumentsTyped
  <1> QED
    BY <1>1, <1>2
    DEF WorkKind, Drops, Reads, FindsError, Resumes, Lands, Buys, Overpays,
        Commits, Polls, Answers, Quiet

\* The counters and the listings.
LEMMA LedgerStep ==
  ASSUME NEW p, NEW c \in Capture, Typed(p, c), Works(p, c),
         faults \in 0..MaxFaults, index \subseteq Key,
         DOMAIN store \subseteq Key
  PROVE  /\ faults' \in 0..MaxFaults
         /\ index' \subseteq Key
         /\ DOMAIN store' \subseteq Key
  <1>a. {ManifestKey(c), JobsKey(c), VendorKey(c), CanonicalKey(c),
         SettledKey(c)} \subseteq Key
    BY DEF Key, ManifestKey, JobsKey, VendorKey, CanonicalKey, SettledKey
  <1>1. faults' \in 0..MaxFaults
    BY CaptureAssumption
    DEF Works, ItemStep, Gather, ReadCanonical, ClearError, Buy, Commit, Poll,
        KeepAnswers, Publish, Settle, Write, BuyUnanswered, Fault, Frame
  <1>2. index' \subseteq Key
    BY <1>a
    DEF Works, ItemStep, Gather, ReadCanonical, ClearError, Buy, Commit, Poll,
        KeepAnswers, Publish, Settle, Write, BuyUnanswered, Fault, Frame,
        Register, Unregister, ledgerVars
  <1>3. DOMAIN store' \subseteq Key
    <2>1. UNCHANGED store \/ Lands(p, c)
      BY WorksKinds
      DEF WorkKind, Drops, Reads, FindsError, Resumes, Buys, Overpays,
          Commits, Polls, Answers, Quiet
    <2> QED
      BY <1>a, <2>1 DEF Lands, Put, Delete
  <1> QED
    BY <1>1, <1>2, <1>3

LEMMA WorksKeepTypes ==
  ASSUME TypeOK, NEW p \in Pass, NEW c \in Capture, Works(p, c)
  PROVE  TypeOK'
  <1>a. Typed(p, c) /\ PassShaped(p)
    BY TypedParts
  <1>b. Working(p, c) /\ WorkKind(p, c)
    BY <1>a, WorksKinds
  <1>c. /\ DOMAIN jobs \subseteq DOMAIN jobs' /\ DOMAIN jobs' \subseteq JobId
        /\ \A d \in Capture : IsFiniteSet(JobsOf(d)')
    BY <1>a, <1>b, JobsGrow DEF TypeOK
  <1>d. Others(p, c) \/ UNCHANGED pass
    BY <1>b
    DEF WorkKind, Drops, Reads, FindsError, Resumes, Lands, Buys, Overpays,
        Commits, Polls, Answers, Turns, Ends
  <1>1. \A j \in DOMAIN jobs' :
          jobs'[j] \in {"running", "completed", "silent", "error"}
    <2>1. UNCHANGED jobs \/ Accept(c, Bought(p, c))
      BY <1>b
      DEF WorkKind, Drops, Reads, FindsError, Resumes, Lands, Buys, Overpays,
          Commits, Polls, Answers, Quiet
    <2> QED
      BY <2>1 DEF TypeOK, Accept
  <1>2. \A d \in Capture : DocumentsTyped(d)'
    BY <1>a, <1>b, DocumentsStayTyped DEF TypeOK
  <1>3. /\ DOMAIN store' \subseteq Key /\ index' \subseteq Key
        /\ faults' \in 0..MaxFaults
    BY <1>a, LedgerStep DEF TypeOK
  <1>4. ASSUME NEW q \in Pass
        PROVE  /\ DOMAIN pass'[q] = {"at", "settled", "items"}
               /\ pass'[q].at \in {"idle", "working"}
               /\ pass'[q].settled \subseteq Capture
               /\ DOMAIN pass'[q].items \subseteq Capture
    BY <1>d DEF TypeOK, Others
  <1>5. ASSUME NEW q \in Pass, NEW d \in DOMAIN pass'[q].items
        PROVE  ItemFits(DOMAIN jobs', d, pass'[q].items[d])
    <2>1. CASE q = p /\ d = c
      BY <1>a, <1>b, <1>5, <2>1, ItemStaysTyped
    <2>2. CASE ~(q = p /\ d = c)
      <3>1. d \in DOMAIN pass[q].items /\ pass'[q].items[d] = pass[q].items[d]
        BY <1>d, <1>5, <2>2 DEF TypeOK, Others
      <3>2. ItemFits(DOMAIN jobs, d, pass[q].items[d])
        BY <3>1, FitsIsTyped DEF TypeOK
      <3> QED
        BY <1>c, <3>1, <3>2, FitsGrows
    <2> QED
      BY <2>1, <2>2
  <1>6. \A q \in Pass : \A d \in DOMAIN pass'[q].items : ItemTyped(d, Item(q, d))'
    BY <1>5, FitsIsTyped
  <1>7. DOMAIN pass' = Pass
    BY <1>d DEF TypeOK, Others
  <1> QED
    BY <1>c, <1>1, <1>2, <1>3, <1>4, <1>6, <1>7 DEF TypeOK

\* A pass that begins, ends or dies; the vendor; the stage upstream.
Starts(p) ==
  BeginCron(p) \/ End(p) \/ Crash(p) \/ \E c \in Capture : BeginManual(p, c)

LEMMA StartsKeepTypes ==
  ASSUME TypeOK, NEW p \in Pass, Starts(p)
  PROVE  TypeOK'
  <1>1. /\ UNCHANGED <<store, index, jobs>>
        /\ faults' = faults \/ (faults < MaxFaults /\ faults' = faults + 1)
    BY DEF Starts, BeginCron, BeginManual, Begin, End, Crash, Frame, ledgerVars
  <1>0. faults' \in 0..MaxFaults
    BY <1>1, CaptureAssumption DEF TypeOK
  <1>2. PICK b : pass' = [pass EXCEPT ![p] = b]
    BY DEF Starts, BeginCron, BeginManual, Begin, End, Crash
  <1>3. /\ DOMAIN pass'[p] = {"at", "settled", "items"}
        /\ pass'[p].at \in {"idle", "working"}
        /\ pass'[p].settled \subseteq Capture
        /\ DOMAIN pass'[p].items \subseteq Capture
        /\ \A c \in DOMAIN pass'[p].items : ItemFits(DOMAIN jobs, c, pass'[p].items[c])
    <2>1. CASE End(p) \/ Crash(p)
      BY <2>1 DEF TypeOK, End, Crash, IdlePass
    <2>2. CASE BeginCron(p) \/ \E c \in Capture : BeginManual(p, c)
      <3>1. PICK selected \in SUBSET Capture : Begin(p, selected)
        BY <2>2
        DEF BeginCron, BeginManual, Selected, Frontier, Published
      <3> DEFINE fresh == [at |-> "gather", landed |-> FALSE, receipt |-> << >>]
      <3>2. \A c : ItemFits(DOMAIN jobs, c, fresh)
        <4>1. << >> \in Seq(DOMAIN jobs)
          OBVIOUS
        <4> QED
          BY <4>1 DEF ItemFits, Label
      <3>3. /\ DOMAIN pass'[p] = {"at", "settled", "items"}
            /\ pass'[p].at = "working" /\ pass'[p].settled = Settled
            /\ DOMAIN pass'[p].items = selected
            /\ \A c \in selected : pass'[p].items[c] = fresh
        BY <3>1 DEF TypeOK, Begin
      <3> HIDE DEF fresh
      <3>4. Settled \subseteq Capture
        BY DEF Settled
      <3> QED
        BY <3>2, <3>3, <3>4
    <2> QED
      BY <2>1, <2>2 DEF Starts
  <1>4. ASSUME NEW q \in Pass
        PROVE  /\ DOMAIN pass'[q] = {"at", "settled", "items"}
               /\ pass'[q].at \in {"idle", "working"}
               /\ pass'[q].settled \subseteq Capture
               /\ DOMAIN pass'[q].items \subseteq Capture
               /\ \A c \in DOMAIN pass'[q].items : ItemTyped(c, Item(q, c))'
    <2>1. CASE q = p
      BY <1>1, <1>3, <2>1, FitsIsTyped
    <2>2. CASE q # p
      BY <1>1, <1>2, <2>2, FitsIsTyped DEF TypeOK
    <2> QED
      BY <2>1, <2>2
  <1>5. \A c \in Capture : IsFiniteSet(JobsOf(c))' /\ DocumentsTyped(c)'
    BY <1>1 DEF TypeOK, JobsOf, DocumentsTyped, Has
  <1>6. DOMAIN pass' = Pass
    BY <1>2 DEF TypeOK
  <1> QED
    BY <1>0, <1>1, <1>4, <1>5, <1>6 DEF TypeOK

LEMMA VendorKeepsTypes ==
  ASSUME TypeOK, NEW j \in DOMAIN jobs, VendorFinishes(j)
  PROVE  TypeOK'
  <1>1. /\ DOMAIN jobs' = DOMAIN jobs
        /\ UNCHANGED <<store, index, pass, faults>>
        /\ \A x \in DOMAIN jobs' :
             jobs'[x] \in {"running", "completed", "silent", "error"}
    BY DEF TypeOK, VendorFinishes, ledgerVars
  <1>2. \A c \in Capture : IsFiniteSet(JobsOf(c))' /\ DocumentsTyped(c)'
    BY <1>1 DEF TypeOK, JobsOf, DocumentsTyped, Has
  <1>3. \A p \in Pass : \A c \in DOMAIN pass'[p].items : ItemTyped(c, Item(p, c))'
    BY <1>1, FitsIsTyped DEF TypeOK
  <1> QED
    BY <1>1, <1>2, <1>3 DEF TypeOK

LEMMA NormalizeKeepsTypes ==
  ASSUME TypeOK, NEW c \in Capture, Normalize(c)
  PROVE  TypeOK'
  <1>1. /\ UNCHANGED <<jobs, pass, faults>> /\ ManifestKey(c) \in Key
        /\ Put(ManifestKey(c), Chunks[c]) /\ Register(ManifestKey(c))
    BY DEF Normalize, ManifestKey, Key
  <1>2. DOMAIN store' \subseteq Key /\ index' \subseteq Key
    BY <1>1 DEF TypeOK, Put, Register
  <1>3. ASSUME NEW d \in Capture
        PROVE  DocumentsTyped(d)' /\ IsFiniteSet(JobsOf(d))'
    <2>1. \A k \in {JobsKey(d), CanonicalKey(d)} :
            Has(k)' = Has(k) /\ (Has(k) => store'[k] = store[k])
      BY <1>1, KeyParts DEF Put, Has
    <2> QED
      BY <1>1, <2>1 DEF TypeOK, JobsOf, DocumentsTyped
  <1>4. \A p \in Pass : \A d \in DOMAIN pass'[p].items : ItemTyped(d, Item(p, d))'
    BY <1>1, FitsIsTyped DEF TypeOK
  <1> QED
    BY <1>1, <1>2, <1>3, <1>4 DEF TypeOK

\* The documents a pre-fix run left fit their keys.
LEMMA InheritedShape ==
  ASSUME NEW c \in Inherited
  PROVE  /\ c \in Capture
         /\ Len(InheritedReceipt(c)) \in Nat
         /\ JobsIn(InheritedReceipt(c)) \subseteq JobId
         /\ \A j \in JobsIn(InheritedReceipt(c)) : CaptureOf(j) = c
         /\ InheritedReceipt(c) \in Seq(JobsIn(InheritedReceipt(c)))
         /\ IsFiniteSet(JobsIn(InheritedReceipt(c)))
  <1>a. c \in Capture /\ Chunks[c] \in Nat \ {0}
    BY CaptureAssumption DEF Inherited
  <1> DEFINE receipt == InheritedReceipt(c)
  <1>1. CASE c \in Mismatched
    <2>1. receipt = << <<c, Chunks[c] + 1, 1>> >>
      BY <1>1 DEF InheritedReceipt
    <2>2. Len(receipt) = 1 /\ receipt[1] = <<c, Chunks[c] + 1, 1>>
      BY <2>1
    <2>3. JobsIn(receipt) = {<<c, Chunks[c] + 1, 1>>}
      BY <2>2 DEF JobsIn
    <2>4. receipt \in Seq(JobsIn(receipt))
      BY <2>1, <2>3
    <2>5. IsFiniteSet(JobsIn(receipt))
      BY <2>3, FS_Singleton
    <2>6. <<c, Chunks[c] + 1, 1>> \in JobId
      BY <1>a DEF JobId
    <2> QED
      BY <1>a, <2>2, <2>3, <2>4, <2>5, <2>6 DEF CaptureOf
  <1>2. CASE c \notin Mismatched
    <2>1. receipt = [n \in 1..Chunks[c] |-> <<c, n, 1>>]
      BY <1>2 DEF InheritedReceipt
    <2>2. Len(receipt) = Chunks[c]
      BY <1>a, <2>1
    <2>3. JobsIn(receipt) = {<<c, n, 1>> : n \in 1..Chunks[c]}
      BY <2>1, <2>2 DEF JobsIn
    <2>4. \A n \in 1..Chunks[c] : <<c, n, 1>> \in JobId
      BY <1>a DEF JobId
    <2>5. receipt \in Seq(JobsIn(receipt))
      <3>1. \A n \in 1..Chunks[c] : receipt[n] \in JobsIn(receipt)
        BY <2>1, <2>3
      <3> DEFINE S == JobsIn(receipt)
      <3>2. [n \in 1..Chunks[c] |-> <<c, n, 1>>] \in [1..Chunks[c] -> S]
        BY <2>1, <3>1
      <3> HIDE DEF S
      <3>3. receipt \in [1..Chunks[c] -> S]
        BY <2>1, <3>2
      <3> HIDE DEF receipt
      <3> QED
        BY <1>a, <3>3 DEF S
    <2>6. IsFiniteSet(JobsIn(receipt))
      <3> HIDE DEF receipt
      <3> QED
        BY <2>5 DEF IsFiniteSet, JobsIn
    <2> QED
      BY <1>a, <2>2, <2>3, <2>4, <2>5, <2>6 DEF CaptureOf
  <1> QED
    BY <1>1, <1>2

LEMMA InitTyped == Init => TypeOK
  <1> SUFFICES ASSUME Init PROVE TypeOK
    OBVIOUS
  <1> DEFINE receipts ==
        UNION {{InheritedReceipt(c)[n] : n \in 1..Len(InheritedReceipt(c))} :
                 c \in Inherited}
  <1>0. jobs = [j \in receipts |-> "error"]
    BY DEF Init
  <1>1. DOMAIN jobs = UNION {JobsIn(InheritedReceipt(c)) : c \in Inherited}
    BY <1>0 DEF JobsIn
  <1>2. /\ DOMAIN jobs \subseteq JobId
        /\ \A j \in DOMAIN jobs : jobs[j] = "error"
    <2>1. DOMAIN jobs \subseteq JobId
      BY <1>1, InheritedShape
    <2> QED
      BY <1>0, <2>1
  <1>3. ASSUME NEW c \in Capture PROVE IsFiniteSet(JobsOf(c))
    <2>1. CASE c \in Inherited
      <3>1. JobsOf(c) = JobsIn(InheritedReceipt(c))
        BY <1>1, <2>1, InheritedShape DEF JobsOf
      <3> QED
        BY <2>1, <3>1, InheritedShape
    <2>2. CASE c \notin Inherited
      <3>1. JobsOf(c) = {}
        BY <1>1, <2>2, InheritedShape DEF JobsOf
      <3> QED
        BY <3>1, FS_EmptySet
    <2> QED
      BY <2>1, <2>2
  <1>4. /\ DOMAIN store = {ManifestKey(c) : c \in Inherited}
                            \cup {JobsKey(c) : c \in Inherited}
                            \cup {CanonicalKey(c) : c \in StaleError}
        /\ \A c \in Inherited : store[JobsKey(c)] = InheritedReceipt(c)
        /\ \A c \in StaleError : store[CanonicalKey(c)] = ErrorTranscript
    BY DEF Init, ManifestKey, JobsKey, CanonicalKey
  <1>5. Inherited \subseteq Capture /\ StaleError \subseteq Capture
    BY CaptureAssumption DEF Inherited
  <1>6. DOMAIN store \subseteq Key /\ index \subseteq Key
    <2>1. \A c \in Capture :
            ManifestKey(c) \in Key /\ JobsKey(c) \in Key /\ CanonicalKey(c) \in Key
      BY DEF Key, ManifestKey, JobsKey, CanonicalKey
    <2> QED
      BY <1>4, <1>5, <2>1 DEF Init
  <1>7. ASSUME NEW c \in Capture PROVE DocumentsTyped(c)
    <2>1. Has(JobsKey(c)) => store[JobsKey(c)] \in Seq(DOMAIN jobs)
      <3>1. Has(JobsKey(c)) => c \in Inherited
        BY <1>4, KeyParts DEF Has
      <3>2. c \in Inherited => JobsIn(InheritedReceipt(c)) \subseteq DOMAIN jobs
        BY <1>1
      <3>3. c \in Inherited => InheritedReceipt(c) \in Seq(DOMAIN jobs)
        BY <3>2, InheritedShape, SeqGrows
      <3> QED
        BY <1>4, <3>1, <3>3
    <2>2. Has(CanonicalKey(c)) => store[CanonicalKey(c)] = ErrorTranscript
      BY <1>4, KeyParts DEF Has
    <2> QED
      BY <2>1, <2>2 DEF DocumentsTyped, ErrorTranscript
  <1>8. faults \in 0..MaxFaults /\ DOMAIN pass = Pass
    BY CaptureAssumption DEF Init
  <1>9. ASSUME NEW p \in Pass
        PROVE  /\ DOMAIN pass[p] = {"at", "settled", "items"}
               /\ pass[p].at = "idle" /\ pass[p].settled = {}
               /\ DOMAIN pass[p].items = {}
    BY DEF Init, IdlePass
  <1> QED
    BY <1>2, <1>3, <1>6, <1>7, <1>8, <1>9 DEF TypeOK

\* The kinds of steps of the specification.
LEMMA NextKinds ==
  ASSUME [Next]_vars
  PROVE  \/ \E p \in Pass, c \in Capture : Works(p, c)
         \/ \E p \in Pass : Starts(p)
         \/ \E j \in DOMAIN jobs : VendorFinishes(j)
         \/ \E c \in Capture : Normalize(c)
         \/ UNCHANGED vars
  BY DEF Next, Works, Starts, Vendor

\* The state keeps its types, however many passes overlap.
THEOREM TypeCorrect == Spec => []TypeOK
  <1>1. TypeOK /\ [Next]_vars => TypeOK'
    <2> SUFFICES ASSUME TypeOK, [Next]_vars PROVE TypeOK'
      OBVIOUS
    <2>1. CASE UNCHANGED vars
      <3>1. \A c \in Capture : DocumentsTyped(c)' /\ IsFiniteSet(JobsOf(c))'
        BY <2>1 DEF TypeOK, DocumentsTyped, JobsOf, Has, vars, ledgerVars
      <3>2. \A p \in Pass : \A c \in DOMAIN pass'[p].items :
              ItemTyped(c, Item(p, c))'
        BY <2>1, FitsIsTyped DEF TypeOK, vars
      <3> QED
        BY <2>1, <3>1, <3>2 DEF TypeOK, vars, ledgerVars
    <2> QED
      BY <2>1, NextKinds, WorksKeepTypes, StartsKeepTypes, VendorKeepsTypes,
         NormalizeKeepsTypes
  <1> QED
    BY <1>1, InitTyped, PTL DEF Spec

-----------------------------------------------------------------------------
(* What ends a capture is evidence, while passes do not overlap. *)

\* Every chunk is over and none completed, one for a real reason; or a chunk
\* is not in the bucket.
Hopeless(c, held) ==
  \/ <<c, Len(held) + 1>> \in Missing
  \/ /\ Len(held) = Chunks[c]
     /\ \A j \in JobsIn(held) : Over(j)
     /\ Failed(JobsIn(held))

Uncommitted(i) == i.at = "commit" /\ ~i.landed

\* An item i at work on capture c, in a pass that listed the markers in seen,
\* holds what the bucket holds, but for the job it is about to commit, and
\* knows of no end of the capture but its own.
Diligent(c, i, seen) ==
  /\ \A j \in JobsIn(i.receipt) : CaptureOf(j) = c
  /\ i.at = "gather" => i.receipt = << >>
  /\ Uncommitted(i) => \E j \in DOMAIN jobs : i.receipt = Append(Receipt(c), j)
  /\ i.at # "gather" /\ ~Uncommitted(i) => i.receipt = Receipt(c)
  /\ i.at \in {"gather", "read"} /\ c \in Settled => c \in seen
  /\ i.at \notin {"gather", "read"} =>
       /\ c \in Settled => i.at = "settle" /\ i.landed
       /\ CanonicalStatus(c) = "completed" => i.at = "publish" /\ i.landed
  /\ i.at \in {"vendor", "publish"} => \A j \in JobsIn(i.receipt) : Over(j)
  /\ i.at = "publish" => Has(VendorKey(c)) /\ ~Failed(JobsIn(i.receipt))
  /\ i.at = "vendor" /\ i.landed => Has(VendorKey(c))
  /\ i.at = "settle" => Hopeless(c, i.receipt)

Toils(p, c) == Working(p, c) => Diligent(c, Item(p, c), pass[p].settled)

\* What the documents of capture c, whose receipt is held, say of its end.
Evident(c, held) ==
  /\ \A j \in JobsIn(held) : CaptureOf(j) = c
  /\ c \notin Mismatched => Matches(c, held)
  /\ CanonicalStatus(c) = "error" => c \in StaleError
  /\ c \in Settled => Hopeless(c, held)
  /\ CanonicalStatus(c) = "completed" =>
       /\ Len(held) = Chunks[c] /\ Has(VendorKey(c))
       /\ \A j \in JobsIn(held) : Over(j)
       /\ store[CanonicalKey(c)].parts =
            {ChunkOf(j) : j \in Completed(JobsIn(held))}
       /\ ~Failed(JobsIn(held))

Documented(c) == Evident(c, Receipt(c))

\* The jobs of a chunk are numbered as they are bought.
JobsOfChunk(c, i) == {x \in JobsOf(c) : ChunkOf(x) = i}
Numbered(c) ==
  \A x \in JobsOf(c) : x[3] <= Cardinality(JobsOfChunk(c, ChunkOf(x)))

InHandOf(p, c) == IF Working(p, c) THEN JobsIn(Item(p, c).receipt) ELSE {}

\* The jobs of capture c that neither its receipt nor the item names.
Lost(p, c) == JobsOf(c) \ (JobsIn(Receipt(c)) \cup InHandOf(p, c))

Paid(p, c) == Cardinality(Lost(p, c)) <= faults

Kept(p, c) == Toils(p, c) /\ Documented(c) /\ Paid(p, c)

StageInv ==
  \A p \in Pass :
    /\ pass[p].at = "idle" => DOMAIN pass[p].items = {}
    /\ \A c \in Capture : Numbered(c) /\ Kept(p, c)

\* Nothing of capture c has changed but the jobs that were running, and what
\* was bought.
SameDocuments(c) ==
  /\ \A k \in {JobsKey(c), VendorKey(c), CanonicalKey(c), SettledKey(c)} :
       /\ Has(k)' <=> Has(k)
       /\ Has(k) => store'[k] = store[k]
  /\ \A j \in JobsOf(c) : Over(j) => jobs'[j] = jobs[j]
  /\ DOMAIN jobs \subseteq DOMAIN jobs'

SameItem(p, c) ==
  /\ Working(p, c)' <=> Working(p, c)
  /\ Working(p, c) => pass'[p].items[c] = pass[p].items[c]
  /\ pass'[p].settled = pass[p].settled

LEMMA DocumentsRead ==
  ASSUME NEW c \in Capture, SameDocuments(c)
  PROVE  /\ Receipt(c)' = Receipt(c)
         /\ CanonicalStatus(c)' = CanonicalStatus(c)
         /\ (c \in Settled)' <=> c \in Settled
         /\ Has(VendorKey(c))' <=> Has(VendorKey(c))
  BY DEF SameDocuments, Receipt, CanonicalStatus, Settled, Has

\* What is known of jobs that are over stays true.
LEMMA OverStays ==
  ASSUME NEW c \in Capture, SameDocuments(c),
         NEW S \in SUBSET JobsOf(c), \A j \in S : Over(j)
  PROVE  /\ \A j \in S : Over(j)'
         /\ Completed(S)' = Completed(S)
         /\ Failed(S)' <=> Failed(S)
  BY DEF SameDocuments, Over, Completed, Failed

\* What an item and a receipt known by value make of the next state.
LEMMA ItemByValue ==
  ASSUME NEW p, NEW c, NEW i, NEW seen, i = pass'[p].items[c],
         seen = pass'[p].settled, Diligent(c, i, seen)'
  PROVE  Toils(p, c)'
  BY DEF Toils, Diligent, Working, Item, Uncommitted, Hopeless, Failed,
         Completed, Over

LEMMA ReceiptByValue ==
  ASSUME NEW c, NEW held, held = Receipt(c)', Evident(c, held)'
  PROVE  Documented(c)'
  BY DEF Documented, Evident, Matches, Hopeless, Failed, Completed, Over

LEMMA JobsOfHeld ==
  ASSUME TypeOK, NEW p \in Pass, NEW c \in Capture
  PROVE  /\ Documented(c) => JobsIn(Receipt(c)) \subseteq JobsOf(c)
         /\ Toils(p, c) /\ Working(p, c) =>
              JobsIn(Item(p, c).receipt) \subseteq JobsOf(c)
         /\ Receipt(c) \in Seq(DOMAIN jobs)
         /\ Working(p, c) => Item(p, c).receipt \in Seq(DOMAIN jobs)
  <1>1. << >> \in Seq(DOMAIN jobs)
    OBVIOUS
  <1>2. Receipt(c) \in Seq(DOMAIN jobs)
    BY <1>1 DEF TypeOK, DocumentsTyped, Receipt
  <1>3. Working(p, c) => Item(p, c).receipt \in Seq(DOMAIN jobs)
    BY DEF TypeOK, ItemTyped, Working
  <1>4. \A s \in Seq(DOMAIN jobs) : JobsIn(s) \subseteq DOMAIN jobs
    BY DEF JobsIn
  <1> QED
    BY <1>2, <1>3, <1>4 DEF Documented, Evident, Toils, Diligent, JobsOf

\* Hopeless captures stay so.
LEMMA HopelessStays ==
  ASSUME NEW c \in Capture, SameDocuments(c), NEW held,
         JobsIn(held) \subseteq JobsOf(c), Hopeless(c, held)
  PROVE  Hopeless(c, held)'
  <1>1. CASE <<c, Len(held) + 1>> \in Missing
    BY <1>1 DEF Hopeless
  <1>2. CASE /\ Len(held) = Chunks[c]
             /\ \A j \in JobsIn(held) : Over(j)
             /\ Failed(JobsIn(held))
    <2> DEFINE S == JobsIn(held)
    <2>1. (\A j \in S : Over(j)') /\ Failed(S)'
      BY <1>2, OverStays
    <2> QED
      BY <1>2, <2>1 DEF Hopeless
  <1> QED
    BY <1>1, <1>2 DEF Hopeless

LEMMA DocumentedStays ==
  ASSUME TypeOK, NEW p \in Pass, NEW c \in Capture, SameDocuments(c),
         Documented(c)
  PROVE  Documented(c)'
  <1>0. PICK held : held = Receipt(c)
    OBVIOUS
  <1> DEFINE S == JobsIn(held)
  <1>1. S \subseteq JobsOf(c) /\ Evident(c, held)
    BY <1>0, JobsOfHeld DEF Documented
  <1>2. /\ Receipt(c)' = held
        /\ CanonicalStatus(c)' = CanonicalStatus(c)
        /\ (c \in Settled)' <=> c \in Settled
        /\ Has(VendorKey(c))' <=> Has(VendorKey(c))
    BY <1>0, DocumentsRead
  <1>3. (c \in Settled)' => Hopeless(c, held)'
    BY <1>1, <1>2, HopelessStays DEF Evident
  <1>4. CanonicalStatus(c) = "completed" =>
          /\ \A j \in S : Over(j)'
          /\ store'[CanonicalKey(c)].parts = {ChunkOf(j) : j \in Completed(S)'}
          /\ ~Failed(S)'
    <2> SUFFICES ASSUME CanonicalStatus(c) = "completed"
                 PROVE  /\ \A j \in S : Over(j)'
                        /\ store'[CanonicalKey(c)].parts =
                             {ChunkOf(j) : j \in Completed(S)'}
                        /\ ~Failed(S)'
      OBVIOUS
    <2>1. /\ \A j \in S : Over(j)
          /\ store[CanonicalKey(c)].parts = {ChunkOf(j) : j \in Completed(S)}
          /\ ~Failed(S)
      BY <1>1 DEF Evident
    <2>2. Has(CanonicalKey(c))
      BY DEF CanonicalStatus
    <2>3. store'[CanonicalKey(c)] = store[CanonicalKey(c)]
      BY <2>2 DEF SameDocuments
    <2>4. (\A j \in S : Over(j)') /\ Completed(S)' = Completed(S) /\ ~Failed(S)'
      BY <1>1, <2>1, OverStays
    <2> QED
      BY <2>1, <2>3, <2>4
  <1>5. Matches(c, held)' <=> Matches(c, held)
    BY DEF Matches
  <1>6. Evident(c, held)'
    BY <1>1, <1>2, <1>3, <1>4, <1>5 DEF Evident
  <1> QED
    BY <1>2, <1>6, ReceiptByValue

\* A step that leaves a capture's documents and its item alone.
LEMMA ToilsStays ==
  ASSUME TypeOK, NEW p \in Pass, NEW c \in Capture, SameDocuments(c),
         SameItem(p, c), Toils(p, c)
  PROVE  Toils(p, c)'
  <1>1. CASE ~Working(p, c)
    BY <1>1 DEF SameItem, Toils, Working
  <1>2. CASE Working(p, c)
    <2>1. PICK i, seen : i = Item(p, c) /\ seen = pass[p].settled
      OBVIOUS
    <2> DEFINE S == JobsIn(i.receipt)
    <2>2. Diligent(c, i, seen) /\ S \subseteq JobsOf(c)
      BY <1>2, <2>1, JobsOfHeld DEF Toils
    <2>3. i = pass'[p].items[c] /\ seen = pass'[p].settled
      BY <1>2, <2>1 DEF SameItem, Item
    <2>4. /\ Receipt(c)' = Receipt(c)
          /\ CanonicalStatus(c)' = CanonicalStatus(c)
          /\ (c \in Settled)' <=> c \in Settled
          /\ Has(VendorKey(c))' <=> Has(VendorKey(c))
          /\ DOMAIN jobs \subseteq DOMAIN jobs'
      BY DocumentsRead DEF SameDocuments
    <2>5. (\A j \in S : Over(j)) =>
            (\A j \in S : Over(j)') /\ (~Failed(S) => ~Failed(S)')
      BY <2>2, OverStays
    <2>6. Hopeless(c, i.receipt) => Hopeless(c, i.receipt)'
      BY <2>2, HopelessStays
    <2>7. Uncommitted(i)' <=> Uncommitted(i)
      BY DEF Uncommitted
    <2>8. Diligent(c, i, seen)'
      BY <2>2, <2>4, <2>5, <2>6, <2>7 DEF Diligent
    <2> QED
      BY <2>3, <2>8, ItemByValue
  <1> QED
    BY <1>1, <1>2

\* Losing sight of one job takes a fault.
LEMMA PaidStays ==
  ASSUME TypeOK, NEW p \in Pass, NEW c \in Capture, Paid(p, c),
         faults' \in Nat, NEW x,
         \/ Lost(p, c)' \subseteq Lost(p, c) /\ faults <= faults'
         \/ Lost(p, c)' \subseteq Lost(p, c) \cup {x} /\ faults' = faults + 1
  PROVE  Paid(p, c)'
  <1> DEFINE L == Lost(p, c)
             M == L \cup {x}
             N == Lost(p, c)'
  <1>1. IsFiniteSet(L) /\ Cardinality(L) \in Nat
    <2>1. L \subseteq JobsOf(c) /\ IsFiniteSet(JobsOf(c))
      BY DEF Lost, TypeOK
    <2> QED
      BY <2>1, FS_Subset, FS_CardinalityType
  <1>2. /\ IsFiniteSet(M) /\ Cardinality(M) \in Nat
        /\ Cardinality(M) <= Cardinality(L) + 1
    <2> HIDE DEF L
    <2>1. IsFiniteSet(M)
      BY <1>1, FS_AddElement
    <2>2. Cardinality(M) = Cardinality(L) \/ Cardinality(M) = Cardinality(L) + 1
      BY <1>1, FS_AddElement
    <2> HIDE DEF M
    <2> QED
      BY <1>1, <2>1, <2>2
  <1>3. Cardinality(L) <= faults /\ faults \in Nat
    BY CaptureAssumption DEF Paid, TypeOK
  <1> HIDE DEF L, M, N
  <1>4. CASE N \subseteq L /\ faults <= faults'
    <2>1. Cardinality(N) <= Cardinality(L) /\ Cardinality(N) \in Nat
      BY <1>1, <1>4, FS_Subset, FS_CardinalityType
    <2> QED
      BY <1>1, <1>3, <1>4, <2>1 DEF N, Paid
  <1>5. CASE N \subseteq M /\ faults' = faults + 1
    <2>1. Cardinality(N) <= Cardinality(M) /\ Cardinality(N) \in Nat
      BY <1>2, <1>5, FS_Subset, FS_CardinalityType
    <2> QED
      BY <1>1, <1>2, <1>3, <1>5, <2>1 DEF N, Paid
  <1> QED
    BY <1>4, <1>5 DEF L, M, N

LEMMA KeptStays ==
  ASSUME TypeOK, NEW p \in Pass, NEW c \in Capture, SameDocuments(c),
         SameItem(p, c), JobsOf(c)' = JobsOf(c), faults <= faults',
         faults' \in Nat, Kept(p, c), Numbered(c)
  PROVE  Kept(p, c)' /\ Numbered(c)'
  <1>1. Toils(p, c)' /\ Documented(c)'
    BY ToilsStays, DocumentedStays DEF Kept
  <1>2. Lost(p, c)' = Lost(p, c)
    <2>1. Receipt(c)' = Receipt(c)
      BY DocumentsRead
    <2>2. JobsIn(Receipt(c))' = JobsIn(Receipt(c))
      BY <2>1 DEF JobsIn
    <2>3. InHandOf(p, c)' = InHandOf(p, c)
      BY DEF SameItem, InHandOf, Working, Item, JobsIn
    <2> QED
      BY <2>2, <2>3 DEF Lost
  <1>3. Paid(p, c)'
    BY <1>2, PaidStays DEF Kept
  <1>4. Numbered(c)'
    BY DEF Numbered, JobsOfChunk
  <1> QED
    BY <1>1, <1>3, <1>4 DEF Kept

\* A job just bought is new, and no other job changes.
LEMMA BoughtShape ==
  ASSUME TypeOK, NEW p \in Pass, NEW c \in Capture, Numbered(c), Working(p, c),
         Accept(c, Bought(p, c))
  PROVE  /\ Bought(p, c) \notin DOMAIN jobs
         /\ CaptureOf(Bought(p, c)) = c
         /\ DOMAIN jobs' = DOMAIN jobs \cup {Bought(p, c)}
         /\ JobsOf(c)' = JobsOf(c) \cup {Bought(p, c)}
         /\ \A x \in DOMAIN jobs : jobs'[x] = jobs[x]
         /\ Numbered(c)'
  <1>0. PICK j : j = Bought(p, c)
    OBVIOUS
  <1>1. PICK held \in Seq(DOMAIN jobs) : held = Item(p, c).receipt
    BY JobsOfHeld
  <1> DEFINE i == Len(held) + 1
             n == Cardinality(JobsOfChunk(c, i))
  <1>2. j = NextJob(c, held) /\ j = <<c, i, n + 1>>
    BY <1>0, <1>1 DEF Bought, NextJob, JobsOfChunk
  <1>3. /\ j \in JobId /\ CaptureOf(j) = c /\ ChunkOf(j) = i
        /\ DOMAIN jobs' = DOMAIN jobs \cup {j}
        /\ \A x \in DOMAIN jobs' : jobs'[x] = IF x = j THEN "running" ELSE jobs[x]
    <2>1. /\ DOMAIN jobs \subseteq JobId /\ IsFiniteSet(JobsOf(c))
          /\ Accept(c, NextJob(c, held))
      BY <1>0, <1>2 DEF TypeOK
    <2>2. /\ NextJob(c, held) \in JobId /\ CaptureOf(NextJob(c, held)) = c
          /\ ChunkOf(NextJob(c, held)) = Len(held) + 1
          /\ DOMAIN jobs' = DOMAIN jobs \cup {NextJob(c, held)}
          /\ \A x \in DOMAIN jobs' :
               jobs'[x] = IF x = NextJob(c, held) THEN "running" ELSE jobs[x]
      BY <2>1, AcceptShape
    <2> QED
      BY <1>2, <2>2
  <1>4. \A k : IsFiniteSet(JobsOfChunk(c, k)) /\ Cardinality(JobsOfChunk(c, k)) \in Nat
    <2>1. \A k : JobsOfChunk(c, k) \subseteq JobsOf(c)
      BY DEF JobsOfChunk
    <2> QED
      BY <2>1, FS_Subset, FS_CardinalityType DEF TypeOK
  <1>5. j[3] = n + 1 /\ n \in Nat
    BY <1>2, <1>4
  <1>6. j \notin DOMAIN jobs
    BY <1>3, <1>5 DEF Numbered, JobsOf
  <1>7. JobsOf(c)' = JobsOf(c) \cup {j}
    BY <1>3 DEF JobsOf
  <1>8. Numbered(c)'
    <2>1. PICK more : more = JobsOfChunk(c, i) \cup {j}
      OBVIOUS
    <2>2. JobsOfChunk(c, i)' = more
      BY <1>3, <1>7, <2>1 DEF JobsOfChunk
    <2>3. \A k : k # i => JobsOfChunk(c, k)' = JobsOfChunk(c, k)
      BY <1>3, <1>7 DEF JobsOfChunk
    <2>4. Cardinality(more) = n + 1
      <3>1. j \notin JobsOfChunk(c, i)
        BY <1>6 DEF JobsOfChunk, JobsOf
      <3> QED
        BY <1>4, <2>1, <3>1, FS_AddElement
    <2>5. ASSUME NEW x \in JobsOf(c)'
          PROVE  x[3] <= Cardinality(JobsOfChunk(c, ChunkOf(x)))'
      <3>1. CASE x = j
        BY <1>3, <1>5, <2>2, <2>4, <3>1
      <3>2. CASE x # j /\ ChunkOf(x) = i
        <4>1. x[3] <= n /\ x[3] \in Nat
          BY <1>7, <3>2 DEF Numbered, JobsOf, TypeOK, JobId
        <4> HIDE DEF n
        <4> QED
          BY <1>5, <2>2, <2>4, <3>2, <4>1
      <3>3. CASE x # j /\ ChunkOf(x) # i
        BY <1>7, <2>3, <3>3 DEF Numbered
      <3> QED
        BY <3>1, <3>2, <3>3
    <2> QED
      BY <2>5 DEF Numbered
  <1> QED
    BY <1>0, <1>3, <1>6, <1>7, <1>8

\* A step that writes nothing to the bucket.
LEMMA WorkLeavesDocuments ==
  ASSUME TypeOK, NEW p \in Pass, NEW c \in Capture, Numbered(c), Working(p, c),
         WorkKind(p, c)
  PROVE  /\ Numbered(c)'
         /\ UNCHANGED store => SameDocuments(c)
  <1>1. \/ UNCHANGED jobs
        \/ Accept(c, Bought(p, c))
    BY DEF WorkKind, Drops, Reads, FindsError, Resumes, Lands, Buys, Overpays,
           Commits, Polls, Answers, Quiet
  <1>2. /\ Numbered(c)' /\ DOMAIN jobs \subseteq DOMAIN jobs'
        /\ \A x \in DOMAIN jobs : jobs'[x] = jobs[x]
    <2>1. CASE UNCHANGED jobs
      BY <2>1 DEF Numbered, JobsOfChunk, JobsOf
    <2>2. CASE Accept(c, Bought(p, c))
      BY <2>2, BoughtShape
    <2> QED
      BY <1>1, <2>1, <2>2
  <1> QED
    BY <1>2 DEF SameDocuments, JobsOf, Has

-----------------------------------------------------------------------------
(* The item's own steps keep it diligent. *)

\* An item known by value, before a step of its own.
LEMMA ItemKnown ==
  ASSUME TypeOK, NEW p \in Pass, NEW c \in Capture, Working(p, c),
         Toils(p, c), NEW i, i = Item(p, c), NEW seen, seen = pass[p].settled
  PROVE  /\ i \in [at : Label, landed : BOOLEAN, receipt : Seq(DOMAIN jobs)]
         /\ i.receipt \in Seq(DOMAIN jobs) /\ Len(i.receipt) \in Nat
         /\ ItemTyped(c, i)
         /\ Diligent(c, i, seen)
         /\ JobsIn(i.receipt) \subseteq JobsOf(c)
         /\ Len(i.receipt) = Chunks[c] => Held(p, c) = JobsIn(i.receipt)
  <1>1. ItemTyped(c, i)
    BY DEF TypeOK, Working
  <1>2. i \in [at : Label, landed : BOOLEAN, receipt : Seq(DOMAIN jobs)]
    BY <1>1 DEF ItemTyped
  <1>3. i.receipt \in Seq(DOMAIN jobs)
    BY <1>2
  <1> QED
    BY <1>1, <1>2, <1>3, JobsOfHeld DEF Toils, Held, JobsIn

\* The next item of a step that moves to label l.
LEMMA Moved ==
  ASSUME TypeOK, NEW p \in Pass, NEW c \in Capture, Working(p, c),
         NEW l \in Label
  PROVE  /\ Move(p, c, l).at = l /\ Move(p, c, l).landed = FALSE
         /\ Move(p, c, l).receipt = Item(p, c).receipt
  <1>1. Item(p, c) \in [at : Label, landed : BOOLEAN, receipt : Seq(DOMAIN jobs)]
    BY DEF TypeOK, ItemTyped, Working
  <1> QED
    BY <1>1, MoveShape

\* Where an item that has read its documents, and found no end, may go.
LEMMA DiligentOn ==
  ASSUME TypeOK, NEW p \in Pass, NEW c \in Capture, Working(p, c),
         Toils(p, c), Documented(c), NEW n, Turns(p, c, n),
         \/ Reads(p, c) \/ FindsError(p, c) \/ Resumes(p, c)
         \/ Commits(p, c) \/ Polls(p, c) \/ Answers(p, c)
  PROVE  Diligent(c, n, pass[p].settled)
  <1>0. PICK i, seen : i = Item(p, c) /\ seen = pass[p].settled
    OBVIOUS
  <1>a. /\ i.receipt \in Seq(DOMAIN jobs) /\ Len(i.receipt) \in Nat
        /\ i \in [at : Label, landed : BOOLEAN, receipt : Seq(DOMAIN jobs)]
        /\ ItemTyped(c, i) /\ Diligent(c, i, seen)
        /\ Len(i.receipt) = Chunks[c] => Held(p, c) = JobsIn(i.receipt)
    BY <1>0, ItemKnown
  <1>b. ASSUME NEW l \in Label, n = Move(p, c, l)
        PROVE  n.at = l /\ n.landed = FALSE /\ n.receipt = i.receipt
    <2>1. /\ Move(p, c, l).at = l /\ Move(p, c, l).landed = FALSE
          /\ Move(p, c, l).receipt = Item(p, c).receipt
      BY Moved
    <2> QED
      BY <1>0, <1>b, <2>1
  <1>c. {"read", "clear", "submit", "poll", "vendor", "publish", "settle"}
          \subseteq Label
    BY DEF Label
  <1>d. \A m : Turns(p, c, m) => m = n
    BY DEF Turns
  <1>1. CASE Reads(p, c)
    <2>1. i.at = "gather" /\ n = [Move(p, c, "read") EXCEPT !.receipt = Receipt(c)]
      BY <1>0, <1>1, <1>d DEF Reads
    <2>2. i = [at |-> i.at, landed |-> i.landed, receipt |-> i.receipt]
      BY <1>a
    <2>3. n.at = "read" /\ n.receipt = Receipt(c)
      BY <1>0, <2>1, <2>2 DEF Move
    <2> QED
      BY <1>0, <1>a, <2>1, <2>3 DEF Diligent, Documented, Evident, Uncommitted
  <1>2. CASE FindsError(p, c)
    <2>1. i.at = "read" /\ Open(p, c) /\ n.at = "clear" /\ n.receipt = i.receipt
      BY <1>0, <1>2, <1>b, <1>c, <1>d DEF FindsError
    <2> QED
      BY <1>0, <1>a, <2>1 DEF Diligent, Open, Uncommitted
  <1>3. CASE Resumes(p, c) \/ Commits(p, c)
    <2> DEFINE l == Resume(c, i.receipt)
    <2>1. /\ Matches(c, i.receipt) /\ n = Move(p, c, l)
          /\ \/ i.at = "read" /\ Open(p, c)
             \/ i.at \in {"clear", "commit"} /\ i.landed
      BY <1>0, <1>3, <1>a, <1>d DEF Resumes, Commits, ItemTyped
    <2>2. /\ l \in {"poll", "settle", "submit"}
          /\ l = "settle" => <<c, Len(i.receipt) + 1>> \in Missing
      BY <1>a, <2>1, ResumeFits
    <2> HIDE DEF l
    <2>3. n.at = l /\ n.receipt = i.receipt
      BY <1>b, <1>c, <2>1, <2>2
    <2>4. /\ c \notin Settled /\ CanonicalStatus(c) # "completed"
          /\ i.receipt = Receipt(c)
      BY <1>0, <1>a, <2>1 DEF Diligent, Open, Uncommitted
    <2> QED
      BY <1>a, <2>2, <2>3, <2>4 DEF Diligent, Uncommitted, Hopeless
  <1>4. CASE Polls(p, c)
    <2>1. /\ i.at = "poll" /\ n.at = "vendor" /\ n.receipt = i.receipt
          /\ n.landed = FALSE
          /\ \A j \in JobsIn(i.receipt) : Over(j)
      BY <1>0, <1>4, <1>a, <1>b, <1>c, <1>d DEF Polls, ItemTyped
    <2> QED
      BY <1>a, <2>1 DEF Diligent, Uncommitted
  <1>5. CASE Answers(p, c)
    <2> DEFINE S == JobsIn(i.receipt)
               l == IF Failed(S) THEN "settle" ELSE "publish"
    <2>1. /\ i.at = "vendor" /\ i.landed /\ Len(i.receipt) = Chunks[c]
          /\ n = Move(p, c, l)
      BY <1>0, <1>5, <1>a, <1>d DEF Answers, ItemTyped
    <2>2. l \in {"settle", "publish"} /\ (l = "settle" <=> Failed(S))
      OBVIOUS
    <2> HIDE DEF l
    <2>3. n.at = l /\ n.receipt = i.receipt
      BY <1>b, <1>c, <2>1, <2>2
    <2> QED
      BY <1>a, <2>1, <2>2, <2>3 DEF Diligent, Uncommitted, Hopeless
  <1> QED
    BY <1>1, <1>2, <1>3, <1>4, <1>5

\* The bucket half of a ledger call.
LEMMA LandsKeeps ==
  ASSUME TypeOK, NEW p \in Pass, NEW c \in Capture, Working(p, c),
         Toils(p, c), Documented(c), Lands(p, c)
  PROVE  Toils(p, c)' /\ Documented(c)'
  <1>0. PICK i, seen, held :
          i = Item(p, c) /\ seen = pass[p].settled /\ held = Receipt(c)
    OBVIOUS
  <1>a. /\ i.receipt \in Seq(DOMAIN jobs) /\ Len(i.receipt) \in Nat
        /\ i \in [at : Label, landed : BOOLEAN, receipt : Seq(DOMAIN jobs)]
        /\ ItemTyped(c, i) /\ Diligent(c, i, seen)
        /\ Len(i.receipt) = Chunks[c] => Held(p, c) = JobsIn(i.receipt)
    BY <1>0, ItemKnown
  <1>b. Evident(c, held)
    BY <1>0 DEF Documented
  <1>c. PICK n : n = pass'[p].items[c]
    OBVIOUS
  <1>d. n.at = i.at /\ n.landed = TRUE /\ n.receipt = i.receipt
    BY <1>0, <1>a, <1>c DEF Lands, Turns
  <1>e. seen = pass'[p].settled
    BY <1>0 DEF Lands, Turns, Others
  <1>f. UNCHANGED jobs
    BY DEF Lands
  <1>g. /\ \A j : Over(j)' <=> Over(j)
        /\ \A S : Completed(S)' = Completed(S) /\ (Failed(S)' <=> Failed(S))
        /\ \A h : Hopeless(c, h)' <=> Hopeless(c, h)
    BY <1>f DEF Over, Completed, Failed, Hopeless
  <1>h. ~i.landed
    BY <1>0 DEF Lands
  <1> SUFFICES Diligent(c, n, seen)' /\ \A h : h = Receipt(c)' => Evident(c, h)'
    BY <1>c, <1>e, ItemByValue, ReceiptByValue
  <1>i. Uncommitted(n) = FALSE
    BY <1>d DEF Uncommitted
  <1>1. CASE i.at = "clear"
    <2>1. Delete(CanonicalKey(c))
      BY <1>0, <1>1 DEF Lands
    <2>2. /\ Receipt(c)' = held /\ CanonicalStatus(c)' = "none"
          /\ (c \in Settled)' <=> c \in Settled
      BY <1>0, <2>1, KeyParts DEF Delete, Has, Receipt, CanonicalStatus, Settled
    <2>3. Diligent(c, n, seen)'
      BY <1>0, <1>1, <1>a, <1>d, <1>g, <1>h, <1>i, <2>2 DEF Diligent, Uncommitted
    <2>4. Evident(c, held)'
      BY <1>b, <1>g, <2>2 DEF Evident, Matches
    <2> QED
      BY <2>2, <2>3, <2>4
  <1>2. CASE i.at = "commit"
    <2>1. Put(JobsKey(c), i.receipt)
      BY <1>0, <1>2 DEF Lands
    <2>2. /\ Receipt(c)' = i.receipt /\ CanonicalStatus(c)' = CanonicalStatus(c)
          /\ (c \in Settled)' <=> c \in Settled
      BY <2>1, KeyParts DEF Put, Has, Receipt, CanonicalStatus, Settled
    <2>3. c \notin Settled /\ CanonicalStatus(c) # "completed"
      BY <1>2, <1>a DEF Diligent
    <2>4. Diligent(c, n, seen)'
      BY <1>2, <1>a, <1>d, <1>g, <1>i, <2>2, <2>3 DEF Diligent
    <2>5. Matches(c, i.receipt) /\ \A j \in JobsIn(i.receipt) : CaptureOf(j) = c
      BY <1>2, <1>a DEF ItemTyped, Diligent
    <2>6. Evident(c, i.receipt)'
      BY <1>b, <2>2, <2>3, <2>5 DEF Evident, Matches
    <2> QED
      BY <2>2, <2>4, <2>6
  <1>3. CASE i.at = "vendor"
    <2>1. Put(VendorKey(c), Held(p, c))
      BY <1>0, <1>3 DEF Lands
    <2>2. /\ Receipt(c)' = held /\ CanonicalStatus(c)' = CanonicalStatus(c)
          /\ (c \in Settled)' <=> c \in Settled
          /\ Has(VendorKey(c))'
      BY <1>0, <2>1, KeyParts DEF Put, Has, Receipt, CanonicalStatus, Settled
    <2>3. Diligent(c, n, seen)'
      BY <1>0, <1>3, <1>a, <1>d, <1>g, <1>h, <1>i, <2>2 DEF Diligent, Uncommitted
    <2>4. Evident(c, held)'
      <3>1. CanonicalStatus(c) # "completed"
        BY <1>3, <1>a DEF Diligent
      <3> QED
        BY <1>b, <1>g, <2>2, <3>1 DEF Evident, Matches
    <2> QED
      BY <2>2, <2>3, <2>4
  <1>4. CASE i.at = "publish"
    <2> DEFINE S == JobsIn(i.receipt)
               text == Transcript({ChunkOf(j) : j \in Completed(S)})
    <2>0. Len(i.receipt) = Chunks[c] /\ held = i.receipt
      BY <1>0, <1>4, <1>a DEF ItemTyped, Diligent, Uncommitted
    <2>1. Put(CanonicalKey(c), text)
      BY <1>0, <1>4, <1>a, <2>0 DEF Lands
    <2>2. /\ Receipt(c)' = held
          /\ CanonicalStatus(c)' = text.status
          /\ store'[CanonicalKey(c)] = text
          /\ (c \in Settled)' <=> c \in Settled
          /\ Has(VendorKey(c))' <=> Has(VendorKey(c))
      BY <1>0, <2>1, KeyParts DEF Put, Has, Receipt, CanonicalStatus, Settled
    <2>3. /\ text.status = "completed"
          /\ text.parts = {ChunkOf(j) : j \in Completed(S)}
      BY DEF Transcript
    <2>4. /\ \A j \in S : Over(j)
          /\ ~Failed(S) /\ Has(VendorKey(c)) /\ c \notin Settled
      BY <1>4, <1>a DEF Diligent
    <2> HIDE DEF text
    <2>5. Diligent(c, n, seen)'
      BY <1>0, <1>4, <1>a, <1>d, <1>g, <1>i, <2>0, <2>2, <2>3, <2>4 DEF Diligent
    <2>6. Evident(c, held)'
      BY <1>b, <1>g, <2>0, <2>2, <2>3, <2>4 DEF Evident, Matches
    <2> QED
      BY <2>2, <2>5, <2>6
  <1>5. CASE i.at = "settle"
    <2>0. held = i.receipt /\ Hopeless(c, held) /\ CanonicalStatus(c) # "completed"
      BY <1>0, <1>5, <1>a DEF Diligent, Uncommitted
    <2>1. Put(SettledKey(c), "marker")
      BY <1>0, <1>5 DEF Lands
    <2>2. /\ Receipt(c)' = held /\ CanonicalStatus(c)' = CanonicalStatus(c)
          /\ (c \in Settled)'
      BY <1>0, <2>1, KeyParts DEF Put, Has, Receipt, CanonicalStatus, Settled
    <2>3. Diligent(c, n, seen)'
      BY <1>0, <1>5, <1>a, <1>d, <1>g, <1>i, <2>0, <2>2 DEF Diligent
    <2>4. Evident(c, held)'
      BY <1>b, <1>g, <2>0, <2>2 DEF Evident, Matches
    <2> QED
      BY <2>2, <2>3, <2>4
  <1> QED
    BY <1>0, <1>1, <1>2, <1>3, <1>4, <1>5 DEF Lands

\* Whatever the item of a capture does, it stays diligent.
LEMMA ToilsOn ==
  ASSUME TypeOK, NEW p \in Pass, NEW c \in Capture, Working(p, c),
         WorkKind(p, c), Toils(p, c), Documented(c), Numbered(c)
  PROVE  Toils(p, c)'
  <1>0. PICK i, seen : i = Item(p, c) /\ seen = pass[p].settled
    OBVIOUS
  <1>a. /\ i.receipt \in Seq(DOMAIN jobs)
        /\ i \in [at : Label, landed : BOOLEAN, receipt : Seq(DOMAIN jobs)]
        /\ Diligent(c, i, seen)
    BY <1>0, ItemKnown
  <1>1. CASE Lands(p, c)
    BY <1>1, LandsKeeps
  <1>2. CASE Ends(p, c)
    BY <1>2 DEF Ends, Toils, Working
  <1>3. CASE \/ Reads(p, c) \/ FindsError(p, c) \/ Resumes(p, c)
             \/ Commits(p, c) \/ Polls(p, c) \/ Answers(p, c)
    <2>1. PICK n : Turns(p, c, n) /\ Quiet
      BY <1>3 DEF Reads, FindsError, Resumes, Commits, Polls, Answers
    <2>2. Diligent(c, n, seen)
      BY <1>0, <1>3, <2>1, DiligentOn
    <2>3. n = pass'[p].items[c] /\ seen = pass'[p].settled
      BY <1>0, <2>1 DEF Turns, Others
    <2>4. Diligent(c, n, seen)'
      BY <2>1, <2>2
      DEF Quiet, Diligent, Uncommitted, Receipt, Has, Settled, CanonicalStatus,
          Over, Failed, Completed, Hopeless
    <2> QED
      BY <2>3, <2>4, ItemByValue
  <1>4. CASE Buys(p, c)
    <2>0. PICK j : j = Bought(p, c)
      OBVIOUS
    <2>1. PICK n : n = pass'[p].items[c]
      OBVIOUS
    <2>2. n.at = "commit" /\ ~n.landed /\ n.receipt = Append(i.receipt, j)
      <3>1. n = [Move(p, c, "commit") EXCEPT !.receipt = Append(i.receipt, j)]
        BY <1>0, <1>4, <2>0, <2>1 DEF Buys, Turns
      <3>2. i = [at |-> i.at, landed |-> i.landed, receipt |-> i.receipt]
        BY <1>a
      <3> QED
        BY <1>0, <3>1, <3>2 DEF Move
    <2>3. i.receipt = Receipt(c) /\ c \notin Settled /\ CanonicalStatus(c) # "completed"
      BY <1>0, <1>4, <1>a DEF Diligent, Uncommitted, Buys
    <2>4. UNCHANGED store /\ seen = pass'[p].settled
      BY <1>0, <1>4 DEF Buys, Turns, Others
    <2>5. /\ Receipt(c)' = i.receipt /\ CanonicalStatus(c)' # "completed"
          /\ (c \notin Settled)'
      BY <2>3, <2>4 DEF Receipt, CanonicalStatus, Settled, Has
    <2>6. CaptureOf(j) = c /\ j \in DOMAIN jobs'
      BY <1>4, <2>0, BoughtShape DEF Buys
    <2>7. \A x \in JobsIn(n.receipt) : CaptureOf(x) = c
      <3>1. JobsIn(n.receipt) = JobsIn(i.receipt) \cup {j}
        BY <1>a, <2>2 DEF JobsIn
      <3> QED
        BY <1>a, <2>6, <3>1 DEF Diligent
    <2>8. Diligent(c, n, seen)'
      BY <2>2, <2>5, <2>6, <2>7 DEF Diligent, Uncommitted
    <2> QED
      BY <2>1, <2>4, <2>8, ItemByValue
  <1>5. CASE UNCHANGED pass /\ Overpays(p, c)
    <2>1. UNCHANGED store
      BY <1>5 DEF Overpays
    <2>2. SameDocuments(c)
      BY <2>1, WorkLeavesDocuments
    <2> QED
      BY <1>5, <2>2, ToilsStays DEF SameItem, Working
  <1> QED
    BY <1>1, <1>2, <1>3, <1>4, <1>5 DEF WorkKind, Drops, Overpays

\* The jobs an item names that its capture's receipt does not: at most the
\* one it is about to commit.
LEMMA AtMostOneInHand ==
  ASSUME TypeOK, NEW p \in Pass, NEW c \in Capture, Working(p, c), Toils(p, c)
  PROVE  /\ Uncommitted(Item(p, c)) =>
              \E j \in DOMAIN jobs :
                JobsIn(Item(p, c).receipt) = JobsIn(Receipt(c)) \cup {j}
         /\ ~Uncommitted(Item(p, c)) =>
              JobsIn(Item(p, c).receipt) \subseteq JobsIn(Receipt(c))
  <1>0. PICK i, seen, held :
          i = Item(p, c) /\ seen = pass[p].settled /\ held = Receipt(c)
    OBVIOUS
  <1>1. Diligent(c, i, seen) /\ held \in Seq(DOMAIN jobs)
    BY <1>0, ItemKnown, JobsOfHeld
  <1>2. \A j : JobsIn(Append(held, j)) = JobsIn(held) \cup {j}
    BY <1>1 DEF JobsIn
  <1>3. JobsIn(<< >>) = {}
    BY DEF JobsIn
  <1> QED
    BY <1>0, <1>1, <1>2, <1>3 DEF Diligent

LEMMA PaidOn ==
  ASSUME TypeOK, NEW p \in Pass, NEW c \in Capture, Working(p, c),
         WorkKind(p, c), Toils(p, c), Numbered(c), Paid(p, c), faults' \in Nat
  PROVE  Paid(p, c)'
  <1>0. PICK i, R, I : /\ i = Item(p, c) /\ R = JobsIn(Receipt(c))
                       /\ I = JobsIn(i.receipt)
    OBVIOUS
  <1>a. /\ i \in [at : Label, landed : BOOLEAN, receipt : Seq(DOMAIN jobs)]
        /\ Diligent(c, i, pass[p].settled)
    BY <1>0, ItemKnown
  <1>b. /\ Uncommitted(i) => \E j \in DOMAIN jobs : I = R \cup {j}
        /\ ~Uncommitted(i) => I \subseteq R
    BY <1>0, AtMostOneInHand
  <1>c. Lost(p, c) = JobsOf(c) \ (R \cup I)
    BY <1>0 DEF Lost, InHandOf
  <1>d. ASSUME NEW n, Turns(p, c, n)
        PROVE  InHandOf(p, c)' = JobsIn(n.receipt)
    BY <1>d DEF Turns, InHandOf, Working, Item
  <1>e. Ends(p, c) => InHandOf(p, c)' = {}
    BY DEF Ends, InHandOf, Working
  <1>f. UNCHANGED store => JobsIn(Receipt(c))' = R
    BY <1>0 DEF Receipt, Has, JobsIn
  <1>g. UNCHANGED jobs => JobsOf(c)' = JobsOf(c)
    BY DEF JobsOf
  <1>h. faults \in Nat
    BY CaptureAssumption DEF TypeOK
  <1>1. CASE Lands(p, c)
    <2>1. UNCHANGED <<jobs, faults>> /\ InHandOf(p, c)' = I
      <3>1. PICK n : n = [i EXCEPT !.landed = TRUE]
        OBVIOUS
      <3>2. n.receipt = i.receipt /\ Turns(p, c, n) /\ UNCHANGED <<jobs, faults>>
        BY <1>0, <1>1, <1>a, <3>1 DEF Lands
      <3> QED
        BY <1>0, <1>d, <3>2
    <2>2. CASE i.at = "commit"
      <3>1. Put(JobsKey(c), i.receipt) /\ Uncommitted(i)
        BY <1>0, <1>1, <2>2 DEF Lands, Uncommitted
      <3>2. JobsIn(Receipt(c))' = I
        <4>1. Receipt(c)' = i.receipt
          BY <3>1, KeyParts DEF Put, Has, Receipt
        <4> QED
          BY <1>0, <4>1
      <3>3. Lost(p, c)' = Lost(p, c)
        BY <1>b, <1>c, <1>g, <2>1, <3>1, <3>2 DEF Lost
      <3> QED
        BY <1>h, <2>1, <3>3, PaidStays
    <2>3. CASE i.at # "commit"
      <3>1. Receipt(c)' = Receipt(c)
        <4>1. \E k \in {VendorKey(c), CanonicalKey(c), SettledKey(c)} :
                (\E doc : Put(k, doc)) \/ Delete(k)
          BY <1>0, <1>1, <2>3 DEF Lands
        <4>2. PICK k : k # JobsKey(c) /\ ((\E doc : Put(k, doc)) \/ Delete(k))
          BY <4>1, KeyParts
        <4>3. CASE Delete(k)
          BY <4>2, <4>3 DEF Delete, Has, Receipt
        <4>4. CASE \E doc : Put(k, doc)
          BY <4>2, <4>4 DEF Put, Has, Receipt
        <4> QED
          BY <4>2, <4>3, <4>4
      <3>2. JobsIn(Receipt(c))' = R
        BY <1>0, <3>1
      <3>3. Lost(p, c)' = Lost(p, c)
        BY <1>c, <1>g, <2>1, <3>2 DEF Lost
      <3> QED
        BY <1>h, <2>1, <3>3, PaidStays
    <2> QED
      BY <2>2, <2>3
  <1>2. CASE Drops(p, c)
    <2>1. /\ UNCHANGED <<store, jobs>> /\ Ends(p, c)
          /\ faults' = faults + 1 \/ (UNCHANGED faults /\ ~Uncommitted(i))
      BY <1>0, <1>2 DEF Drops, Uncommitted
    <2>2. Lost(p, c)' = JobsOf(c) \ R
      BY <1>e, <1>f, <1>g, <2>1 DEF Lost
    <2>3. \E x : Lost(p, c)' \subseteq Lost(p, c) \cup {x}
      BY <1>b, <1>c, <2>2
    <2>4. ~Uncommitted(i) => Lost(p, c)' = Lost(p, c)
      BY <1>b, <1>c, <2>2
    <2> QED
      BY <1>h, <2>1, <2>3, <2>4, PaidStays
  <1>3. CASE \/ Reads(p, c) \/ FindsError(p, c) \/ Resumes(p, c)
             \/ Commits(p, c) \/ Polls(p, c) \/ Answers(p, c)
    <2>1. PICK n : Turns(p, c, n) /\ Quiet
      BY <1>3 DEF Reads, FindsError, Resumes, Commits, Polls, Answers
    <2>2. JobsIn(n.receipt) \subseteq R /\ ~Uncommitted(i)
      <3>1. CASE Reads(p, c)
        <4>1. i = [at |-> i.at, landed |-> i.landed, receipt |-> i.receipt]
          BY <1>a
        <4>2. n = [Move(p, c, "read") EXCEPT !.receipt = Receipt(c)]
          BY <2>1, <3>1 DEF Reads, Turns
        <4>3. n.receipt = Receipt(c)
          BY <1>0, <4>1, <4>2 DEF Move
        <4> QED
          BY <1>0, <3>1, <4>3 DEF Uncommitted, Reads
      <3>2. CASE ~Reads(p, c)
        <4>1. PICK l : n = Move(p, c, l)
          BY <1>3, <2>1, <3>2
          DEF Turns, FindsError, Resumes, Commits, Polls, Answers
        <4>2. i = [at |-> i.at, landed |-> i.landed, receipt |-> i.receipt]
          BY <1>a
        <4>3. n.receipt = i.receipt
          BY <1>0, <4>1, <4>2 DEF Move
        <4>4. ~Uncommitted(i)
          BY <1>0, <1>3, <3>2
          DEF Uncommitted, FindsError, Resumes, Commits, Polls, Answers
        <4> QED
          BY <1>0, <1>b, <4>3, <4>4
      <3> QED
        BY <3>1, <3>2
    <2>3. Lost(p, c)' = JobsOf(c) \ (R \cup JobsIn(n.receipt))
      BY <1>d, <1>f, <1>g, <2>1 DEF Lost, Quiet
    <2>4. Lost(p, c)' = Lost(p, c)
      BY <1>b, <1>c, <2>2, <2>3
    <2> QED
      BY <1>h, <2>1, <2>4, PaidStays DEF Quiet
  <1>4. CASE Buys(p, c) \/ Overpays(p, c)
    <2>0. PICK j : j = Bought(p, c)
      OBVIOUS
    <2>1. /\ JobsOf(c)' = JobsOf(c) \cup {j} /\ UNCHANGED store
          /\ i.at = "submit"
      BY <1>0, <1>4, <2>0, BoughtShape DEF Buys, Overpays
    <2>2. I \subseteq R
      BY <1>b, <2>1 DEF Uncommitted
    <2>3. CASE Buys(p, c)
      <3>1. PICK n : n = [Move(p, c, "commit") EXCEPT
                            !.receipt = Append(i.receipt, j)]
        OBVIOUS
      <3>2. i = [at |-> i.at, landed |-> i.landed, receipt |-> i.receipt]
              /\ i.receipt \in Seq(DOMAIN jobs)
        BY <1>a
      <3>3. n.receipt = Append(i.receipt, j) /\ Turns(p, c, n)
        BY <1>0, <2>0, <2>3, <3>1, <3>2 DEF Move, Buys
      <3>4. JobsIn(n.receipt) = I \cup {j}
        BY <1>0, <3>2, <3>3 DEF JobsIn
      <3>5. Lost(p, c)' = (JobsOf(c) \cup {j}) \ (R \cup I \cup {j})
        <4>1. InHandOf(p, c)' = I \cup {j} /\ JobsIn(Receipt(c))' = R
          BY <1>d, <1>f, <2>1, <3>3, <3>4
        <4> QED
          BY <2>1, <4>1 DEF Lost
      <3>6. Lost(p, c)' \subseteq Lost(p, c) /\ faults' = faults
        BY <1>c, <2>3, <3>5 DEF Buys
      <3> QED
        BY <1>h, <3>6, PaidStays
    <2>4. CASE Overpays(p, c)
      <3>1. InHandOf(p, c)' \in {{}, I} /\ faults' = faults + 1
        BY <1>0, <1>e, <2>4 DEF Overpays, InHandOf, Working, Item
      <3>2. Lost(p, c)' \subseteq (JobsOf(c) \cup {j}) \ R
        BY <1>f, <2>1 DEF Lost
      <3>3. Lost(p, c)' \subseteq Lost(p, c) \cup {j}
        BY <1>c, <2>2, <3>2
      <3> QED
        BY <3>1, <3>3, PaidStays
    <2> QED
      BY <1>4, <2>3, <2>4
  <1> QED
    BY <1>1, <1>2, <1>3, <1>4 DEF WorkKind

-----------------------------------------------------------------------------
(* The invariant of a stage whose passes do not overlap. *)

\* The other captures of the pass.
LEMMA OthersKept ==
  ASSUME TypeOK, NEW p \in Pass, NEW c \in Capture, Works(p, c), Numbered(c),
         NEW d \in Capture \ {c}
  PROVE  /\ SameDocuments(d) /\ SameItem(p, d) /\ JobsOf(d)' = JobsOf(d)
         /\ faults <= faults'
  <1>a. Typed(p, c) /\ Working(p, c) /\ WorkKind(p, c)
    BY TypedParts, WorksKinds
  <1>b. /\ DOMAIN jobs \subseteq DOMAIN jobs'
        /\ JobsOf(d)' = JobsOf(d)
        /\ \A j \in DOMAIN jobs : CaptureOf(j) # c => jobs'[j] = jobs[j]
    BY <1>a, JobsGrow
  <1>1. SameItem(p, d)
    <2>1. UNCHANGED pass \/ Others(p, c)
      BY <1>a
      DEF WorkKind, Drops, Reads, FindsError, Resumes, Lands, Buys, Overpays,
          Commits, Polls, Answers, Turns, Ends
    <2> QED
      BY <2>1 DEF SameItem, Others, Working
  <1>2. faults <= faults'
    BY <1>a, CaptureAssumption
    DEF WorkKind, Drops, Reads, FindsError, Resumes, Lands, Buys, Overpays,
        Commits, Polls, Answers, Quiet, TypeOK
  <1>3. \A k \in {JobsKey(d), VendorKey(d), CanonicalKey(d), SettledKey(d)} :
          /\ Has(k)' <=> Has(k)
          /\ Has(k) => store'[k] = store[k]
    <2>1. CASE UNCHANGED store
      BY <2>1 DEF Has
    <2>2. CASE Lands(p, c)
      <3>1. PICK k \in {JobsKey(c), VendorKey(c), CanonicalKey(c), SettledKey(c)} :
              (\E doc : Put(k, doc)) \/ Delete(k)
        BY <2>2 DEF Lands
      <3>2. k \notin {JobsKey(d), VendorKey(d), CanonicalKey(d), SettledKey(d)}
        BY <3>1, KeyParts
      <3>3. CASE Delete(k)
        BY <3>2, <3>3 DEF Delete, Has
      <3>4. CASE \E doc : Put(k, doc)
        BY <3>2, <3>4 DEF Put, Has
      <3> QED
        BY <3>1, <3>3, <3>4
    <2> QED
      BY <1>a, <2>1, <2>2
      DEF WorkKind, Drops, Reads, FindsError, Resumes, Buys, Overpays,
          Commits, Polls, Answers, Quiet
  <1>4. \A j \in JobsOf(d) : jobs'[j] = jobs[j]
    BY <1>b DEF JobsOf
  <1> QED
    BY <1>b, <1>1, <1>2, <1>3, <1>4 DEF SameDocuments

LEMMA WorksKeepStage ==
  ASSUME TypeOK, NEW p \in Pass, Pass = {p}, NEW c \in Capture, Works(p, c),
         StageInv
  PROVE  StageInv'
  <1>a. Working(p, c) /\ WorkKind(p, c) /\ faults' \in Nat
    BY TypedParts, WorksKinds, WorksKeepTypes, CaptureAssumption DEF TypeOK
  <1>b. \A d \in Capture : Numbered(d) /\ Kept(p, d)
    BY DEF StageInv
  <1>1. ASSUME NEW d \in Capture \ {c}
        PROVE  Numbered(d)' /\ Kept(p, d)'
    BY <1>a, <1>b, OthersKept, KeptStays
  <1>2. Numbered(c)' /\ Toils(p, c)' /\ Paid(p, c)'
    BY <1>a, <1>b, WorkLeavesDocuments, ToilsOn, PaidOn DEF Kept
  <1>3. Documented(c)'
    <2>1. UNCHANGED store \/ Lands(p, c)
      BY <1>a
      DEF WorkKind, Drops, Reads, FindsError, Resumes, Buys, Overpays,
          Commits, Polls, Answers, Quiet
    <2>2. CASE UNCHANGED store
      BY <1>a, <1>b, <2>2, WorkLeavesDocuments, DocumentedStays DEF Kept
    <2>3. CASE Lands(p, c)
      BY <1>a, <1>b, <2>3, LandsKeeps DEF Kept
    <2> QED
      BY <2>1, <2>2, <2>3
  <1>4. pass'[p].at = "idle" => DOMAIN pass'[p].items = {}
    <2>1. UNCHANGED pass \/ Others(p, c)
      BY <1>a
      DEF WorkKind, Drops, Reads, FindsError, Resumes, Lands, Buys, Overpays,
          Commits, Polls, Answers, Turns, Ends
    <2> QED
      BY <2>1 DEF StageInv, Others
  <1> QED
    BY <1>1, <1>2, <1>3, <1>4 DEF StageInv, Kept

\* A pass that ends leaves nothing in hand; one that dies loses at most a job
\* of each capture.
LEMMA StartsKeepStage ==
  ASSUME TypeOK, NEW p \in Pass, Pass = {p}, Starts(p), StageInv
  PROVE  StageInv'
  <1>1. /\ UNCHANGED <<store, jobs>>
        /\ \/ UNCHANGED faults /\ DOMAIN pass[p].items = {}
           \/ faults' = faults + 1
    BY DEF Starts, BeginCron, BeginManual, Begin, End, Crash, Frame,
           ledgerVars, StageInv
  <1>2. faults \in Nat /\ faults' \in Nat
    BY <1>1, CaptureAssumption DEF TypeOK
  <1> DEFINE fresh == [at |-> "gather", landed |-> FALSE, receipt |-> << >>]
  <1>3. /\ pass'[p].at = "idle" => DOMAIN pass'[p].items = {}
        /\ \A c \in DOMAIN pass'[p].items :
             pass'[p].items[c] = fresh /\ pass'[p].settled = Settled
    <2>1. CASE End(p) \/ Crash(p)
      BY <2>1 DEF TypeOK, End, Crash, IdlePass
    <2>2. CASE BeginCron(p) \/ \E c \in Capture : BeginManual(p, c)
      <3>1. PICK selected \in SUBSET Capture : Begin(p, selected)
        BY <2>2
        DEF BeginCron, BeginManual, Selected, Frontier, Published
      <3> QED
        BY <3>1 DEF TypeOK, Begin
    <2> QED
      BY <2>1, <2>2 DEF Starts
  <1>4. ASSUME NEW c \in Capture
        PROVE  Numbered(c)' /\ Kept(p, c)'
    <2>1. Documented(c)' /\ SameDocuments(c)
      <3>1. SameDocuments(c)
        BY <1>1 DEF SameDocuments, Has
      <3> QED
        BY <3>1, DocumentedStays DEF StageInv, Kept
    <2>2. Numbered(c)'
      BY <1>1 DEF StageInv, Numbered, JobsOfChunk, JobsOf
    <2>3. Toils(p, c)'
      <3>1. CASE c \notin DOMAIN pass'[p].items
        BY <3>1 DEF Toils, Working
      <3>2. CASE c \in DOMAIN pass'[p].items
        <4>1. PICK n, seen : n = fresh /\ seen = Settled
          OBVIOUS
        <4>2. n = pass'[p].items[c] /\ seen = pass'[p].settled
          BY <1>3, <3>2, <4>1
        <4>3. /\ n.at = "gather" /\ n.receipt = << >>
              /\ JobsIn(n.receipt) = {}
          BY <4>1 DEF JobsIn
        <4>4. (c \in Settled)' => c \in seen
          BY <1>1, <4>1 DEF Settled, Has
        <4>5. Diligent(c, n, seen)'
          BY <4>3, <4>4 DEF Diligent, Uncommitted
        <4> QED
          BY <4>2, <4>5, ItemByValue
      <3> QED
        BY <3>1, <3>2
    <2>4. Paid(p, c)'
      <3>0. PICK R : R = JobsIn(Receipt(c))
        OBVIOUS
      <3>1. InHandOf(p, c)' = {}
        <4>1. c \in DOMAIN pass'[p].items => pass'[p].items[c].receipt = << >>
          BY <1>3
        <4> QED
          BY <4>1 DEF InHandOf, Working, Item, JobsIn
      <3>2. Lost(p, c)' = JobsOf(c) \ R
        <4>1. Receipt(c)' = Receipt(c) /\ JobsOf(c)' = JobsOf(c)
          BY <1>1 DEF Receipt, Has, JobsOf
        <4>2. JobsIn(Receipt(c))' = R
          BY <3>0, <4>1
        <4> QED
          BY <3>1, <4>1, <4>2 DEF Lost
      <3>3. CASE ~Working(p, c)
        <4>1. Lost(p, c)' = Lost(p, c)
          BY <3>0, <3>2, <3>3 DEF Lost, InHandOf
        <4>2. faults <= faults'
          BY <1>1, <1>2
        <4> QED
          BY <1>2, <4>1, <4>2, PaidStays DEF StageInv, Kept
      <3>4. CASE Working(p, c)
        <4>1. \E x : JobsIn(Item(p, c).receipt) \subseteq R \cup {x}
          BY <3>0, <3>4, AtMostOneInHand DEF StageInv, Kept
        <4>2. \E x : Lost(p, c)' \subseteq Lost(p, c) \cup {x}
          BY <3>0, <3>2, <3>4, <4>1 DEF Lost, InHandOf
        <4>3. faults' = faults + 1
          BY <1>1, <3>4 DEF Working
        <4> QED
          BY <1>2, <4>2, <4>3, PaidStays DEF StageInv, Kept
      <3> QED
        BY <3>3, <3>4
    <2> QED
      BY <2>1, <2>2, <2>3, <2>4 DEF Kept
  <1> QED
    BY <1>3, <1>4 DEF StageInv

\* The vendor and the stage upstream touch no document and no job that is over.
LEMMA OutsideKeepsStage ==
  ASSUME TypeOK, NEW p \in Pass, Pass = {p}, StageInv,
         \/ \E j \in DOMAIN jobs : VendorFinishes(j)
         \/ \E c \in Capture : Normalize(c)
         \/ UNCHANGED vars
  PROVE  StageInv'
  <1>1. UNCHANGED <<pass, faults>> /\ DOMAIN jobs' = DOMAIN jobs
    BY DEF VendorFinishes, Normalize, vars
  <1>2. \A j \in DOMAIN jobs : Over(j) => jobs'[j] = jobs[j]
    BY DEF VendorFinishes, Normalize, vars, Over
  <1>3. ASSUME NEW c \in Capture,
               NEW k \in {JobsKey(c), VendorKey(c), CanonicalKey(c), SettledKey(c)}
        PROVE  /\ Has(k)' <=> Has(k)
               /\ Has(k) => store'[k] = store[k]
    <2>1. CASE UNCHANGED store
      BY <2>1 DEF Has
    <2>2. CASE \E d \in Capture : Normalize(d)
      BY <2>2, KeyParts DEF Normalize, Put, Has
    <2> QED
      BY <2>1, <2>2 DEF VendorFinishes, vars, ledgerVars
  <1>4. ASSUME NEW c \in Capture
        PROVE  Numbered(c)' /\ Kept(p, c)'
    <2>1. JobsOf(c)' = JobsOf(c)
      BY <1>1 DEF JobsOf
    <2>2. SameDocuments(c)
      BY <1>1, <1>2, <1>3 DEF SameDocuments, JobsOf
    <2>3. SameItem(p, c)
      BY <1>1 DEF SameItem, Working
    <2>4. faults \in Nat
      BY CaptureAssumption DEF TypeOK
    <2> QED
      BY <1>1, <2>1, <2>2, <2>3, <2>4, KeptStays DEF StageInv
  <1> QED
    BY <1>1, <1>4 DEF StageInv

\* What a pre-fix run left: receipts of jobs that ended in an error, each job
\* on its receipt, and error transcripts.
LEMMA InitStage ==
  ASSUME Init
  PROVE  StageInv
  <1>a. TypeOK
    BY InitTyped
  <1>1. /\ DOMAIN jobs = UNION {JobsIn(InheritedReceipt(c)) : c \in Inherited}
        /\ DOMAIN store = {ManifestKey(c) : c \in Inherited}
                            \cup {JobsKey(c) : c \in Inherited}
                            \cup {CanonicalKey(c) : c \in StaleError}
        /\ \A c \in Inherited : store[JobsKey(c)] = InheritedReceipt(c)
        /\ \A c \in StaleError : store[CanonicalKey(c)] = ErrorTranscript
    BY DEF Init, ManifestKey, JobsKey, CanonicalKey, JobsIn
  <1>2. ASSUME NEW p \in Pass
        PROVE  pass[p].at = "idle" /\ DOMAIN pass[p].items = {}
    BY DEF Init, IdlePass
  <1>3. ASSUME NEW c \in Capture
        PROVE  /\ c \notin Settled
               /\ CanonicalStatus(c) \in {"none", "error"}
               /\ CanonicalStatus(c) = "error" => c \in StaleError
    <2>1. ~Has(SettledKey(c))
      BY <1>1, KeyParts DEF Has
    <2>2. Has(CanonicalKey(c)) => c \in StaleError
      <3>1. ASSUME NEW d
            PROVE  /\ CanonicalKey(c) \notin {ManifestKey(d), JobsKey(d)}
                   /\ CanonicalKey(c) = CanonicalKey(d) => c = d
        BY KeyParts
      <3> QED
        BY <1>1, <3>1 DEF Has
    <2> QED
      BY <1>1, <2>1, <2>2 DEF Settled, CanonicalStatus, ErrorTranscript
  <1>4. ASSUME NEW c \in Capture
        PROVE  /\ JobsOf(c) = JobsIn(Receipt(c))
               /\ c \notin Mismatched => Matches(c, Receipt(c))
               /\ \A x \in JobsOf(c) : x[3] = 1
    <2>0. Chunks[c] \in Nat \ {0}
      BY CaptureAssumption
    <2>1. CASE c \in Inherited
      <3>1. Receipt(c) = InheritedReceipt(c)
        BY <1>1, <2>1 DEF Receipt, Has
      <3>2. JobsOf(c) = JobsIn(InheritedReceipt(c))
        BY <1>1, <2>1, InheritedShape DEF JobsOf
      <3>3. CASE c \in Mismatched
        <4>1. InheritedReceipt(c) = << <<c, Chunks[c] + 1, 1>> >>
          BY <3>3 DEF InheritedReceipt
        <4>2. JobsIn(InheritedReceipt(c)) = {<<c, Chunks[c] + 1, 1>>}
          BY <4>1 DEF JobsIn
        <4> QED
          BY <3>1, <3>2, <3>3, <4>2
      <3>4. CASE c \notin Mismatched
        <4>0. PICK held : held = [n \in 1..Chunks[c] |-> <<c, n, 1>>]
          OBVIOUS
        <4>1. InheritedReceipt(c) = held
          BY <3>4, <4>0 DEF InheritedReceipt
        <4>2. Len(held) = Chunks[c] /\ \A n \in 1..Chunks[c] : held[n] = <<c, n, 1>>
          BY <2>0, <4>0
        <4>3. Matches(c, held)
          BY <2>0, <4>2 DEF Matches, ChunkOf
        <4>4. \A x \in JobsIn(held) : x[3] = 1
          BY <4>2 DEF JobsIn
        <4> QED
          BY <3>1, <3>2, <4>1, <4>3, <4>4
      <3> QED
        BY <3>3, <3>4
    <2>2. CASE c \notin Inherited
      <3>1. Receipt(c) = << >>
        BY <1>1, <2>2, KeyParts DEF Receipt, Has
      <3>2. JobsOf(c) = {}
        BY <1>1, <2>2, InheritedShape DEF JobsOf
      <3> QED
        BY <2>0, <3>1, <3>2 DEF JobsIn, Matches
    <2> QED
      BY <2>1, <2>2
  <1>5. ASSUME NEW c \in Capture
        PROVE  Documented(c)
    BY <1>3, <1>4 DEF Documented, Evident, JobsOf
  <1>6. ASSUME NEW c \in Capture
        PROVE  Numbered(c)
    <2>1. ASSUME NEW x \in JobsOf(c)
          PROVE  1 <= Cardinality(JobsOfChunk(c, ChunkOf(x)))
      <3>0. PICK S : S = JobsOfChunk(c, ChunkOf(x))
        OBVIOUS
      <3>1. x \in S /\ S \subseteq JobsOf(c)
        BY <3>0 DEF JobsOfChunk
      <3>2. IsFiniteSet(S) /\ Cardinality(S) \in Nat
        BY <1>a, <3>1, FS_Subset, FS_CardinalityType DEF TypeOK
      <3>3. Cardinality(S) # 0
        BY <3>1, <3>2, FS_EmptySet
      <3> QED
        BY <3>0, <3>2, <3>3
    <2> QED
      BY <1>4, <2>1 DEF Numbered
  <1>7. ASSUME NEW p \in Pass, NEW c \in Capture
        PROVE  Toils(p, c) /\ Paid(p, c)
    <2>1. Toils(p, c)
      BY <1>2 DEF Toils, Working
    <2>2. Lost(p, c) = {}
      BY <1>4 DEF Lost
    <2>3. Cardinality(Lost(p, c)) = 0 /\ faults = 0
      BY <2>2, FS_EmptySet DEF Init
    <2> QED
      BY <2>1, <2>3 DEF Paid
  <1> QED
    BY <1>2, <1>5, <1>6, <1>7 DEF StageInv, Kept

LEMMA StageInvariant ==
  ASSUME NEW p, Pass = {p}
  PROVE  Spec => [](TypeOK /\ StageInv)
  <1>1. Init => TypeOK /\ StageInv
    BY InitTyped, InitStage
  <1>2. TypeOK /\ StageInv /\ [Next]_vars => StageInv'
    BY NextKinds, WorksKeepStage, StartsKeepStage, OutsideKeepsStage
  <1> QED
    BY <1>1, <1>2, TypeCorrect, PTL DEF Spec

\* No paid job is lost sight of but by a failed call or a crash.
THEOREM PaidJobsAreAccounted ==
  ASSUME NEW p, Pass = {p}
  PROVE  Spec => []PaidJobsAccounted
  <1>1. StageInv => PaidJobsAccounted
    <2>1. ASSUME NEW c \in Capture
          PROVE  InHand(c) = InHandOf(p, c)
      BY DEF InHand, InHandOf
    <2> QED
      BY <2>1 DEF StageInv, Kept, Paid, Lost, PaidJobsAccounted
  <1> QED
    BY <1>1, StageInvariant, PTL

\* The bucket's evidence bears out every transcript, every marker and the
\* shadow's verdicts.
THEOREM EndsAreEvidence ==
  ASSUME NEW p, Pass = {p}
  PROVE  Spec => []SettlementIsEvidence
  <1>1. TypeOK /\ StageInv => SettlementIsEvidence
    <2> SUFFICES ASSUME TypeOK, StageInv PROVE SettlementIsEvidence
      OBVIOUS
    <2>0. ASSUME NEW c \in Capture
          PROVE  /\ Evident(c, Receipt(c))
                 /\ JobsIn(Receipt(c)) \subseteq DOMAIN jobs
      BY JobsOfHeld DEF StageInv, Kept, Documented, JobsOf
    <2>1. TranscriptIsEvidence
      <3> SUFFICES ASSUME NEW c \in Capture, CanonicalStatus(c) = "completed"
                   PROVE  LET held  == JobsIn(Receipt(c))
                              parts == store[CanonicalKey(c)].parts
                          IN /\ Len(Receipt(c)) = Chunks[c]
                             /\ \A j \in held : Over(j)
                             /\ Has(VendorKey(c))
                             /\ parts = {ChunkOf(j) : j \in Completed(held)}
                             /\ parts = {} => \A j \in held : jobs[j] = "silent"
        BY DEF TranscriptIsEvidence
      <3> DEFINE held == JobsIn(Receipt(c))
      <3>1. /\ Len(Receipt(c)) = Chunks[c] /\ Has(VendorKey(c))
            /\ \A j \in held : Over(j)
            /\ store[CanonicalKey(c)].parts = {ChunkOf(j) : j \in Completed(held)}
            /\ ~Failed(held) /\ held \subseteq DOMAIN jobs
        BY <2>0 DEF Evident
      <3> HIDE DEF held
      <3>2. store[CanonicalKey(c)].parts = {} => \A j \in held : jobs[j] = "silent"
        BY <3>1 DEF Failed, Completed, Over, TypeOK
      <3> QED
        BY <3>1, <3>2 DEF held
    <2>2. SettledIsHopeless
      BY <2>0 DEF SettledIsHopeless, Evident, Hopeless, Failed, Settled
    <2>3. ShadowAgrees
      <3> SUFFICES ASSUME NEW c \in Published
                   PROVE  LET verdict == DiffCapture(c)
                          IN /\ verdict \in {"settled", "done"} =>
                                  Finished(c) \/ Gone(c)
                             /\ verdict = "error" => c \in Mismatched
                             /\ verdict \in {"in-flight", "unsubmitted"} =>
                                  c \in Frontier \/ c \in StaleError
        BY DEF ShadowAgrees
      <3>0. c \in Capture
        BY DEF Published
      <3>1. c \notin Mismatched => Matches(c, Receipt(c))
        BY <2>0, <3>0 DEF Evident
      <3>2. CanonicalStatus(c) = "error" => c \in StaleError
        BY <2>0, <3>0 DEF Evident
      <3>3. Has(CanonicalKey(c)) => CanonicalStatus(c) \in {"error", "completed"}
        BY <3>0 DEF TypeOK, DocumentsTyped, CanonicalStatus
      <3> QED
        BY <3>1, <3>2, <3>3 DEF DiffCapture, Finished, Frontier
    <2> QED
      BY <2>1, <2>2, <2>3 DEF SettlementIsEvidence
  <1> QED
    BY <1>1, StageInvariant, PTL

\* A receipt is only ever extended by the job just bought.
THEOREM ReceiptsGrow ==
  ASSUME NEW p, Pass = {p}
  PROVE  Spec => ReceiptOnlyGrows
  <1> DEFINE Grows(c) ==
        /\ Len(Receipt(c)) <= Len(Receipt(c)')
        /\ \A n \in 1..Len(Receipt(c)) : Receipt(c)[n] = Receipt(c)'[n]
  <1>1. ASSUME TypeOK, StageInv, Next, NEW c \in Capture
        PROVE  Grows(c)
    <2>0. Receipt(c) \in Seq(DOMAIN jobs)
      BY <1>1, JobsOfHeld DEF StageInv
    <2>1. \/ Receipt(c)' = Receipt(c)
          \/ \E j : Receipt(c)' = Append(Receipt(c), j)
      <3>1. CASE UNCHANGED store
        BY <3>1 DEF Receipt, Has
      <3>2. CASE \E d \in Capture : Normalize(d)
        BY <3>2, KeyParts DEF Normalize, Put, Has, Receipt
      <3>3. ASSUME NEW d \in Capture \ {c}, Works(p, d)
            PROVE  Receipt(c)' = Receipt(c)
        BY <1>1, <3>3, OthersKept, DocumentsRead DEF StageInv
      <3>4. ASSUME Works(p, c)
            PROVE  \/ Receipt(c)' = Receipt(c)
                   \/ \E j : Receipt(c)' = Append(Receipt(c), j)
        <4>1. Working(p, c) /\ (UNCHANGED store \/ Lands(p, c))
          BY <1>1, <3>4, TypedParts, WorksKinds
          DEF WorkKind, Drops, Reads, FindsError, Resumes, Buys, Overpays,
              Commits, Polls, Answers, Quiet
        <4>2. CASE UNCHANGED store
          BY <4>2 DEF Receipt, Has
        <4>3. CASE Lands(p, c) /\ Item(p, c).at = "commit"
          <5>1. Put(JobsKey(c), Item(p, c).receipt) /\ Uncommitted(Item(p, c))
            BY <4>3 DEF Lands, Uncommitted
          <5>2. Receipt(c)' = Item(p, c).receipt
            BY <5>1 DEF Put, Has, Receipt
          <5>3. \E j : Item(p, c).receipt = Append(Receipt(c), j)
            BY <1>1, <4>1, <5>1 DEF StageInv, Kept, Toils, Diligent
          <5> QED
            BY <5>2, <5>3
        <4>4. CASE Lands(p, c) /\ Item(p, c).at # "commit"
          <5>1. PICK k \in {VendorKey(c), CanonicalKey(c), SettledKey(c)} :
                  (\E doc : Put(k, doc)) \/ Delete(k)
            BY <4>4 DEF Lands
          <5>2. k # JobsKey(c)
            BY <5>1, KeyParts
          <5>3. CASE Delete(k)
            BY <5>2, <5>3 DEF Delete, Has, Receipt
          <5>4. CASE \E doc : Put(k, doc)
            BY <5>2, <5>4 DEF Put, Has, Receipt
          <5> QED
            BY <5>1, <5>3, <5>4
        <4> QED
          BY <4>1, <4>2, <4>3, <4>4
      <3>5. \/ \E d \in Capture : Works(p, d) \/ Normalize(d)
            \/ UNCHANGED store
        BY <1>1, NextKinds
        DEF Starts, BeginCron, BeginManual, Begin, End, Crash, Frame,
            ledgerVars, VendorFinishes, vars
      <3> QED
        BY <3>1, <3>2, <3>3, <3>4, <3>5
    <2>2. CASE Receipt(c)' = Receipt(c)
      BY <2>0, <2>2
    <2>3. CASE \E j : Receipt(c)' = Append(Receipt(c), j)
      BY <2>0, <2>3, AppendShape
    <2> QED
      BY <2>1, <2>2, <2>3
  <1>2. TypeOK /\ StageInv /\ [Next]_vars =>
          [\A c \in Capture : Grows(c)]_vars
    BY <1>1
  <1> QED
    BY <1>2, StageInvariant, PTL DEF ReceiptOnlyGrows, Spec
=============================================================================
