---------------------------- MODULE ReceiptedWork ----------------------------
(***************************************************************************)
(* What every stage of the pipeline promises of its receipts, whatever the *)
(* work: work that is done stays done, and a receipt is there only for     *)
(* work that is done.  A stage may lose a receipt, rewrite it or do work   *)
(* twice; it may not receipt first.                                        *)
(***************************************************************************)
VARIABLES
  done,      \* the items whose outcome is in place
  receipted  \* the items a receipt names

work == <<done, receipted>>

WorkInit == receipted \subseteq done

Perform ==
  /\ done \subseteq done'
  /\ UNCHANGED receipted

Confirm ==
  /\ receipted' \subseteq done
  /\ UNCHANGED done

WorkSpec == WorkInit /\ [][Perform \/ Confirm]_work

\* A receipt is never ahead of its work.
ReceiptsAreEarned == receipted \subseteq done
=============================================================================
