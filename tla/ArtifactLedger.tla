--------------------------- MODULE ArtifactLedger ---------------------------
(***************************************************************************)
(* The artifact bucket and the artifact index, as every stage of the       *)
(* Worker sees them through the ArtifactLedger service                     *)
(* (cloudflare/src/capture.ts) and the MedinaIndex Durable Object          *)
(* (workers/medina-index/src/index.ts).                                    *)
(*                                                                         *)
(* A write is two calls: the object lands in the bucket, then its key is   *)
(* registered in the index.  The two halves are separate operators here,   *)
(* because a failure or a crash may separate them; the modules that extend *)
(* this one take them in two steps.                                        *)
(***************************************************************************)
VARIABLES
  store,   \* bucket contents: a function from the keys present to documents
  index    \* the keys the index lists

ledgerVars == <<store, index>>

LedgerInit ==
  /\ store = [k \in {} |-> k]
  /\ index = {}

\* `exists`, and the presence half of `readJson`: the bucket is asked,
\* never the index.
Has(k) == k \in DOMAIN store

\* The bucket halves of writeText / writeBlob, and of remove.
Put(k, d) ==
  store' = [x \in DOMAIN store \cup {k} |-> IF x = k THEN d ELSE store[x]]

Delete(k) ==
  store' = [x \in DOMAIN store \ {k} |-> store[x]]

\* The index halves: an upsert keyed by the artifact key, and its removal.
Register(k)   == index' = index \cup {k}
\* Seeded fault: a removed artifact stays listed.
UnregisterNothing(k) == index' = index

Unregister(k) == index' = index \ {k}
=============================================================================
