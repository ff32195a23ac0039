--------------------------- MODULE CapturePolicy ---------------------------
(***************************************************************************)
(* The capture policy from the server to the phone: the server's store of  *)
(* the document and of the capability tokens (lib/capture/CapturePolicy),  *)
(* the publishing scripts that write the document from processes of their  *)
(* own, the public edge that serves both from the bucket (medina-index),   *)
(* and the phone's PolicyStore with those who refresh it: the screen, the  *)
(* six-hour PolicyWorker, and an upload that was refused.                  *)
(*                                                                         *)
(* Abstractions.  A document is its edition, which is also its etag: every *)
(* write has a new updatedAt.  What a script keeps of the document it read *)
(* is left out.  Token files are read from disk: only their own process    *)
(* writes them.  Texts of errors and offered app updates are left out.     *)
(***************************************************************************)
EXTENDS Integers, FiniteSets

CONSTANTS
  PolicyScenes,  \* what a behaviour may start with (see PolicyStart)
  LastEdition    \* the bound on editions

ASSUME PolicyAssumption == LastEdition \in Nat \ {0}

VARIABLES
  document,  \* the bucket's policy object: an edition, 0 for none
  onDisk,    \* the server's policy file, the seed
  cached,    \* the server's #bucketCache: [edition, etag]
  registry,  \* the server's token file
  mirror,    \* the bucket's copy of it, which the edge reads
  owed,      \* whether the registry has changed since it was last mirrored
  gated,     \* who holds the store's gate, or would, and how far he is
  script,    \* the publishing script
  phone,     \* the phone's preferences: [token, revoked, edition]
  refresh,   \* refresher -> where his fetch is
  service,   \* the capture service: [running, applied]
  host,      \* who answers the policy URL: server | edge
  dues       \* the bounds

policyVars == <<document, onDisk, cached, registry, mirror, owed, gated,
  script, phone, refresh, service, host, dues>>

-----------------------------------------------------------------------------
PolicyToken == {"first", "second"}
TokenState == {"unknown", "live", "revoked", "pruned"}
Refresher == {"screen", "worker", "upload"}
Caller == Refresher \cup {"admin"}

Owe(b) == dues[b] > 0 /\ dues' = [dues EXCEPT ![b] = @ - 1]
NextEdition == LastEdition + 1 - dues["writes"]

NotCached == [edition |-> 0, etag |-> 0]
NotGated == [op |-> "none", token |-> "first", edition |-> 0,
             read |-> [t \in PolicyToken |-> "unknown"]]
NotAsking == [at |-> "idle", token |-> "first", previous |-> 0, found |-> 0]

\* What a fetch can come to beside an edition: nothing there, or a failure
\* that may pass.
Gone == -1
Transient == -2

objects == <<document, mirror>>
store == <<onDisk, cached, registry, owed, gated>>
device == <<phone, service>>

-----------------------------------------------------------------------------
(* The token registry.  Every operation reads it, writes it and mirrors it *)
(* under one semaphore.                                                    *)

GateFree == \A c \in Caller : gated[c].op = "none"

Enter(c, op, t) ==
  gated' = [gated EXCEPT ![c] = [NotGated EXCEPT !.op = op, !.token = t, !.read = registry]]

\* Without the semaphore.
EnterAnyway(c, op, t) == gated[c].op = "none" /\ Enter(c, op, t)

EnterGate(c, op, t) == GateFree /\ Enter(c, op, t)

IssueToken ==
  \E t \in PolicyToken :
    /\ registry[t] = "unknown" /\ t # phone.token
    /\ EnterGate("admin", "issue", t)
    /\ Owe("issues")
    /\ UNCHANGED <<document, onDisk, cached, registry, mirror, owed, script,
                   phone, refresh, service, host>>

RevokeToken ==
  \E t \in PolicyToken :
    /\ registry[t] = "live"
    /\ EnterGate("admin", "revoke", t)
    /\ Owe("revokes")
    /\ UNCHANGED <<document, onDisk, cached, registry, mirror, owed, script,
                   phone, refresh, service, host>>

\* pruneTokens: some of the revoked may be thirty days old.
Pruned(tokens, old) == [t \in PolicyToken |-> IF t \in old THEN "pruned" ELSE tokens[t]]

Rewritten(g) ==
  CASE g.op = "issue"  -> [g.read EXCEPT ![g.token] = "live"]
    [] g.op = "revoke" -> [g.read EXCEPT ![g.token] = "revoked"]
    [] OTHER           -> g.read

WriteRegistry(c) ==
  /\ gated[c].op \in {"issue", "revoke", "touch"}
  /\ \E old \in SUBSET {t \in PolicyToken : gated[c].read[t] = "revoked"} :
       LET written == Pruned(Rewritten(gated[c]), old) IN
       /\ registry' = written
       /\ gated' = [gated EXCEPT ![c].op = "mirror", ![c].read = written]
  /\ owed' = TRUE
  /\ UNCHANGED <<objects, onDisk, cached, script, refresh, device, host, dues>>

\* The mirror is best-effort: when its put fails the operation is done.
MirrorRegistry(c) ==
  /\ gated[c].op = "mirror"
  /\ gated' = [gated EXCEPT ![c] = NotGated]
  /\ \/ mirror' = gated[c].read /\ owed' = FALSE /\ UNCHANGED dues
     \/ Owe("mirrorFails") /\ UNCHANGED <<mirror, owed>>
  /\ UNCHANGED <<document, onDisk, cached, registry, script, refresh, device, host>>

-----------------------------------------------------------------------------
(* The document.  The admin writes it through the server, a script through *)
(* a store of its own; a reader that finds none seeds it from disk.        *)

PutPolicy ==
  /\ GateFree
  /\ Owe("writes")
  /\ document' = NextEdition
  /\ gated' = [gated EXCEPT !["admin"].op = "policy", !["admin"].edition = NextEdition]
  /\ UNCHANGED <<onDisk, cached, registry, mirror, owed, script, refresh, device, host>>

\* The cache and the file get the edition this call put.
KeepPolicy ==
  LET edition == gated["admin"].edition IN
  /\ gated["admin"].op = "policy"
  /\ cached' = [edition |-> edition, etag |-> edition]
  /\ onDisk' = edition
  /\ gated' = [gated EXCEPT !["admin"] = NotGated]
  /\ UNCHANGED <<objects, registry, owed, script, refresh, device, host, dues>>

ScriptReads ==
  /\ script = "start"
  /\ script' = IF document = 0 THEN "seed" ELSE "ready"
  /\ UNCHANGED <<objects, store, refresh, device, host, dues>>

ScriptSeeds ==
  /\ script = "seed"
  /\ document' = onDisk
  /\ script' = "ready"
  /\ UNCHANGED <<mirror, store, refresh, device, host, dues>>

ScriptWrites ==
  /\ script = "ready"
  /\ Owe("writes")
  /\ document' = NextEdition /\ onDisk' = NextEdition
  /\ script' = "done"
  /\ UNCHANGED <<mirror, cached, registry, owed, gated, refresh, device, host>>

-----------------------------------------------------------------------------
(* Who answers the policy URL.  The server verifies the token against its  *)
(* registry, which it touches at most once an hour, and reads the document *)
(* through a cache that a HEAD revalidates; whatever fails while it        *)
(* verifies is a 404, and later a 500.  The edge reads both from the       *)
(* bucket.                                                                 *)

Goes(r, at) == refresh' = [refresh EXCEPT ![r].at = at]
Answers(r, found) == refresh' = [refresh EXCEPT ![r].at = "answer", ![r].found = found]
Answered(r) == refresh[r].at \in {"idle", "answer"}

VerifyToken(r) ==
  /\ refresh[r].at = "verify" /\ GateFree
  /\ \/ registry[refresh[r].token] # "live" /\ Answers(r, Gone) /\ UNCHANGED <<gated, dues>>
     \/ registry[refresh[r].token] = "live" /\ Goes(r, "head") /\ UNCHANGED <<gated, dues>>
     \/ registry[refresh[r].token] = "live" /\ Owe("touches") /\ Goes(r, "touched")
        /\ EnterGate(r, "touch", refresh[r].token)
     \/ Owe("fails") /\ Answers(r, Gone) /\ UNCHANGED gated
  /\ UNCHANGED <<objects, onDisk, cached, registry, owed, script, device, host>>

Touched(r) ==
  /\ refresh[r].at = "touched" /\ gated[r].op = "none"
  /\ Goes(r, "head")
  /\ UNCHANGED <<objects, store, script, device, host, dues>>

\* The cache without the HEAD.
TrustCache(r) ==
  /\ refresh[r].at = "head"
  /\ IF cached.etag # 0 THEN Answers(r, cached.edition)
     ELSE Goes(r, IF document = 0 THEN "seed" ELSE "get")
  /\ UNCHANGED <<objects, store, script, device, host, dues>>

HeadPolicy(r) ==
  /\ refresh[r].at = "head"
  /\ CASE document = 0 -> refresh' = [refresh EXCEPT ![r].at = "seed", ![r].found = onDisk]
       [] document # 0 /\ cached.etag = document -> Answers(r, cached.edition)
       [] OTHER -> refresh' = [refresh EXCEPT ![r].at = "get", ![r].found = document]
  /\ UNCHANGED <<objects, store, script, device, host, dues>>

\* What it gets is kept under the etag the HEAD told.
GetPolicy(r) ==
  /\ refresh[r].at = "get"
  /\ cached' = [edition |-> document, etag |-> refresh[r].found]
  /\ Answers(r, document)
  /\ UNCHANGED <<objects, onDisk, registry, owed, gated, script, device, host, dues>>

\* The file it has read; a seed that cannot be put is served all the same.
SeedPolicy(r) ==
  LET seed == refresh[r].found IN
  /\ refresh[r].at = "seed"
  /\ \/ document' = seed /\ cached' = [edition |-> seed, etag |-> seed] /\ UNCHANGED dues
     \/ Owe("fails") /\ cached' = [edition |-> seed, etag |-> 0] /\ UNCHANGED document
  /\ Answers(r, seed)
  /\ UNCHANGED <<mirror, onDisk, registry, owed, gated, script, device, host>>

EdgeVerifies(r) ==
  /\ refresh[r].at = "registry"
  /\ IF mirror[refresh[r].token] = "live" THEN Goes(r, "document") ELSE Answers(r, Gone)
  /\ UNCHANGED <<objects, store, script, device, host, dues>>

EdgeServes(r) ==
  /\ refresh[r].at = "document"
  /\ Answers(r, IF document = 0 THEN Transient ELSE document)
  /\ UNCHANGED <<objects, store, script, device, host, dues>>

\* The network fails, or the bucket does once the token is verified.
FetchFails(r) ==
  /\ ~Answered(r) /\ refresh[r].at # "touched"
  /\ Owe("fails")
  /\ Answers(r, Transient)
  /\ UNCHANGED <<objects, store, script, device, host>>

\* A restart: who was being served gets no answer.
ServerRestarts ==
  /\ host = "server"
  /\ Owe("deaths")
  /\ cached' = NotCached
  /\ gated' = [c \in Caller |-> NotGated]
  /\ refresh' = [r \in Refresher |->
       IF Answered(r) THEN refresh[r]
       ELSE [refresh[r] EXCEPT !.at = "answer", !.found = Transient]]
  /\ UNCHANGED <<objects, onDisk, registry, owed, script, device, host>>

-----------------------------------------------------------------------------
(* The phone.  PolicyStore.refresh reads the URL and the document it has,  *)
(* fetches, and files the answer over whatever is there by then.           *)

Asks(r, has) ==
  refresh' = [refresh EXCEPT ![r] =
    [at |-> IF host = "server" THEN "verify" ELSE "registry",
     token |-> has.token, previous |-> has.edition, found |-> 0]]

\* The screen asks when it opens or on a tap, never twice at once; the worker
\* periodically; an upload when its credentials are refused.
AskPolicy(r) ==
  /\ refresh[r].at = "idle" /\ ~phone.revoked
  /\ r = "upload" => phone.edition # 0
  /\ r \in {"screen", "upload"} => Owe(r)
  /\ r = "worker" => UNCHANGED dues
  /\ Asks(r, phone)
  /\ UNCHANGED <<objects, store, script, device, host>>

\* saveUrl, with the refresh that follows unless one is under way.
SaveUrl ==
  \E t \in PolicyToken :
    /\ registry[t] # "unknown" /\ t # phone.token
    /\ Owe("urls")
    /\ phone' = [phone EXCEPT !.token = t, !.revoked = FALSE]
    /\ IF refresh["screen"].at = "idle" THEN Asks("screen", phone') ELSE UNCHANGED refresh
    /\ UNCHANGED <<objects, store, script, service, host>>

\* The screen and the worker tell a running service of a change.
FileAnswer(r) ==
  LET found == refresh[r].found
      changed == found > 0 /\ found # refresh[r].previous
  IN
  /\ refresh[r].at = "answer"
  /\ phone' = CASE found = Gone -> [phone EXCEPT !.revoked = TRUE]
                [] found = Transient -> phone
                [] OTHER -> [phone EXCEPT !.revoked = FALSE, !.edition = found]
  /\ refresh' = [refresh EXCEPT ![r] = NotAsking]
  /\ service' = IF changed /\ r # "upload" /\ service.running
                THEN [service EXCEPT !.told = TRUE] ELSE service
  /\ UNCHANGED <<objects, store, script, host, dues>>

\* currentPolicy: the cached document unless the URL is revoked, else the
\* defaults.
InForce == IF phone.revoked THEN 0 ELSE phone.edition

StartCapture ==
  /\ ~service.running
  /\ Owe("starts")
  /\ service' = [running |-> TRUE, applied |-> InForce, told |-> FALSE]
  /\ UNCHANGED <<objects, store, script, phone, refresh, host>>

\* ACTION_REPOLICY.
ReloadPolicy ==
  /\ service.told
  /\ service' = [service EXCEPT !.applied = InForce, !.told = FALSE]
  /\ UNCHANGED <<objects, store, script, phone, refresh, host, dues>>

-----------------------------------------------------------------------------
(* The behaviours. *)

PolicyStart(s) ==
  /\ document = s.document /\ onDisk = 1
  /\ cached = NotCached
  /\ registry = s.tokens /\ mirror = s.tokens /\ owed = FALSE
  /\ gated = [c \in Caller |-> NotGated]
  /\ script = s.script
  /\ phone = [token |-> "first", revoked |-> FALSE, edition |-> 0]
  /\ refresh = [r \in Refresher |-> NotAsking]
  /\ service = [running |-> FALSE, applied |-> 0, told |-> FALSE]
  /\ host = s.host
  /\ dues = s.dues

\* Of every token the registry knows whether it is live.
ASSUME PolicyScenesAssumption ==
  \A s \in PolicyScenes : s.tokens \in [PolicyToken -> TokenState]

PolicyInit == \E s \in PolicyScenes : PolicyStart(s)

FetchStep(r) ==
  VerifyToken(r) \/ Touched(r) \/ HeadPolicy(r) \/ GetPolicy(r) \/ SeedPolicy(r)
    \/ EdgeVerifies(r) \/ EdgeServes(r) \/ FileAnswer(r)

GateStep(c) == WriteRegistry(c) \/ MirrorRegistry(c)

PolicyNext ==
  \/ \E r \in Refresher : AskPolicy(r) \/ FetchStep(r) \/ FetchFails(r)
  \/ \E c \in Caller : GateStep(c)
  \/ IssueToken \/ RevokeToken \/ PutPolicy \/ KeepPolicy
  \/ ScriptReads \/ ScriptSeeds \/ ScriptWrites
  \/ ServerRestarts \/ SaveUrl \/ StartCapture \/ ReloadPolicy

\* Calls return, the worker runs on its schedule, a told service reloads.
PolicyFairness ==
  /\ \A r \in Refresher : WF_policyVars(FetchStep(r))
  /\ \A c \in Caller : WF_policyVars(GateStep(c))
  /\ WF_policyVars(KeepPolicy) /\ WF_policyVars(ReloadPolicy)
  /\ WF_policyVars(AskPolicy("worker"))

PolicySpec == PolicyInit /\ [][PolicyNext]_policyVars /\ PolicyFairness

-----------------------------------------------------------------------------
(* Properties. *)

Edition == 0..LastEdition

PolicyTypeOK ==
  /\ document \in Edition /\ onDisk \in Edition
  /\ cached \in [edition : Edition, etag : Edition]
  /\ registry \in [PolicyToken -> TokenState] /\ mirror \in [PolicyToken -> TokenState]
  /\ owed \in BOOLEAN /\ host \in {"server", "edge"}
  /\ script \in {"none", "start", "seed", "ready", "done"}
  /\ phone \in [token : PolicyToken, revoked : BOOLEAN, edition : Edition]
  /\ \A r \in Refresher : refresh[r].found \in Edition \cup {Gone, Transient}
  /\ service \in [running : BOOLEAN, applied : Edition, told : BOOLEAN]

\* A token once revoked is never live again at the server, and while no
\* mirror write is owed the edge thinks of every token what the server does:
\* the registry is rewritten whole, by calls that read it before
\* (CapturePolicy.ts #writeTokens).
RevocationHolds ==
  [][/\ \A t \in PolicyToken : registry[t] \in {"revoked", "pruned"} => registry'[t] # "live"
     /\ ~owed' => mirror' = registry']_policyVars

\* The phone comes to the document that is published and stays there, unless
\* its URL is revoked: failed fetches, an answer that another one overtook
\* and a server that restarts only delay it (SettingsStore.kt refresh).
PhoneFollows == <>[](phone.revoked \/ phone.edition = document)
=============================================================================
