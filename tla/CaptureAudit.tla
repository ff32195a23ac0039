----------------------------- MODULE CaptureAudit -----------------------------
(***************************************************************************)
(* The shadow audit of the capture loop (cloudflare/src/capture.ts,        *)
(* runCaptureShadowPass), which the cron and the manual route run behind   *)
(* the live pass.  It reads the window's objects, their receipts and what  *)
(* those promise, and writes a report to its own notebook and nothing      *)
(* else, so it is a function of the state the live pass leaves.            *)
(*                                                                         *)
(* Abstractions.  The age of an object is what the verdicts tell apart:    *)
(* fresh, past staleAfterMs, or past the six hours a provisional is given. *)
(* The cap on the items of a report, its counts and its wording are left   *)
(* out, and so is a download that fails, which only ever adds "matched".   *)
(***************************************************************************)
EXTENDS CaptureLoop

Age == {"fresh", "stale", "aged"}

InWindow(o) == modified[o] > horizon

\* findReceipt on the version the listing shows.
AuditReceipt(o) == ReceiptKey(o, modified[o])

Unreceipted(age) == IF age = "fresh" THEN "pending" ELSE "missing-receipt"

\* The bucket holds the files; the index, when it answers, lists them.
Missing(keys, reachable) ==
  IF ~(keys \subseteq DOMAIN store) THEN "missing-artifact"
  ELSE IF reachable /\ ~(keys \subseteq index) THEN "missing-index"
  ELSE "matched"

CheckAudio(o, age, reachable) ==
  IF ~Has(AuditReceipt(o)) THEN Unreceipted(age)
  ELSE IF store[AuditReceipt(o)] = "legacy" THEN "legacy"
  ELSE Missing({BlobKey(o), ProvenanceKey(store[AuditReceipt(o)])}, reachable)

\* Seeded fault: a segment whose recording is in is expected to have kept its
\* provisional.
CheckPartialUnpromoted(s, age) ==
  IF ~Has(AuditReceipt(s)) THEN Unreceipted(age)
  ELSE IF s \in Unparsable \cup Rejected \/ age = "aged" THEN "matched"
  ELSE Missing({LiveKey(s)}, FALSE)

\* A live partial is still the provisional, or promoted, or too old to say.
CheckPartial(s, age) ==
  IF ~Has(AuditReceipt(s)) THEN Unreceipted(age)
  ELSE IF \/ s \in Unparsable \cup Rejected
          \/ Has(LiveKey(s)) \/ Has(PromotedKey(s))
          \/ age = "aged"
       THEN "matched" ELSE "missing-artifact"

\* A batch transcript's receipt says whose first look it is, or "skip".
CheckFinal(o, age) ==
  IF ~Has(AuditReceipt(o)) THEN Unreceipted(age)
  ELSE IF store[AuditReceipt(o)] = "skip" THEN "matched"
  ELSE Missing({FirstLookKey(store[AuditReceipt(o)])}, FALSE)

\* An event's perform leaves nothing the audit looks for but its receipt.
CheckEvent(o, age) ==
  IF Has(AuditReceipt(o)) THEN "matched" ELSE Unreceipted(age)

Verdict(o, age, reachable) ==
  IF o \in Audio THEN CheckAudio(o, age, reachable)
  ELSE IF o \in Partial THEN CheckPartial(o, age)
  ELSE IF o \in Final THEN CheckFinal(o, age)
  ELSE CheckEvent(o, age)

\* The receipted fixes of a device in the window, and the newest of them.
Candidates(d) ==
  {e \in Fixes : DeviceOf[e] = d /\ InWindow(e) /\ Has(AuditReceipt(e))}

NewestCandidate(d) ==
  CHOOSE e \in Candidates(d) : \A f \in Candidates(d) : ~FixWins(f, e)

\* The fix against the believed position: only its time is compared.
LatestVerdict(e) ==
  LET key == LatestKey(DeviceOf[e])
  IN IF ~Has(key) THEN "missing"
     ELSE IF store[key] = e THEN "match"
     ELSE IF FixAt[store[key]] > FixAt[e] THEN "dev-newer" ELSE "stale"

-----------------------------------------------------------------------------
(* Properties. *)

\* The audit and the live pass derive an item's keys, its version and its
\* promises separately.  Between passes that did not overlap and in which no
\* call has failed, the audit must find nothing to report of any receipted
\* object, of whatever age, era and kind; and whatever has failed, what it
\* passes as matched has in the bucket what performing it owes.
ShadowAgrees ==
  AtRest => \A o \in Object, age \in Age, reachable \in BOOLEAN :
    InWindow(o) /\ Has(AuditReceipt(o)) =>
      LET verdict == Verdict(o, age, reachable)
      IN /\ faults = 0 => verdict \in {"matched", "legacy"}
         /\ verdict = "matched" => Performed(o)

\* The newest receipted fix of the window is the believed position or older,
\* and the audit says so, except of two fixes of one time: the audit compares
\* only the time, so it calls a position stale that the sequence decided.
LatestIsTold ==
  AtRest /\ faults = 0 => \A d \in Device : Candidates(d) # {} =>
    LET e == NewestCandidate(d)
    IN \/ LatestVerdict(e) \in {"match", "dev-newer"}
       \/ FixAt[store[LatestKey(d)]] = FixAt[e] /\ FixWins(store[LatestKey(d)], e)

\* Of the fixes of a device the newest is believed, only newer ones after it,
\* and the audit agrees.
PositionsAreNewest ==
  [][NewestFixBelieved' /\ LatestIsTold' /\ BelievedMonotone]_vars
=============================================================================
