------------------------ MODULE JournalClientProofs -------------------------
(***************************************************************************)
(* The journal's page, for every set of journals, routes, rows and page    *)
(* sizes, and every order in which answers come back.                      *)
(*                                                                         *)
(* The calls under way are a bag. At most one of them is for a page of     *)
(* rows, and it carries the generation of the table that is mounted: a     *)
(* reload or another source takes the old one out of the table's sight     *)
(* before it asks anew, so that a table without a row always has its page  *)
(* under way.                                                              *)
(*                                                                         *)
(* The rows come from a memo whose recomputes overlap, fail and are cut    *)
(* off: no recompute reads ahead of the disk, and the flag that stops a    *)
(* second one is held by one that is under way. The page changes none of   *)
(* that: it implements the previews.                                       *)
(*                                                                         *)
(* The window is lined up with the rows that are served: it misses no day  *)
(* above one it has, nor among as many of the newest as it is long, so     *)
(* that the page asked for at its end goes on where it stops. Rows that    *)
(* the server loses, and a page under way over a refetch, end that.        *)
(***************************************************************************)
EXTENDS JournalClient, SequenceTheorems, FiniteSetTheorems, TLAPS

-----------------------------------------------------------------------------
(* The page and its calls.                                                 *)

ViewFits(v) ==
  /\ DOMAIN v = {"mount", "table", "source", "top", "exhausted", "generation", "modal"}
  /\ DOMAIN v.modal = {"open", "title", "day", "report"}

\* At most one page of rows is under way, asked by the table that is there.
OneTail(p) ==
  \A c, e \in BagToSet(p.calls) :
    c.ask = "page" =>
      /\ c.gen = p.view.generation /\ p.calls[c] = 1
      /\ e.ask = "page" => c = e

PageFits(p) ==
  /\ DOMAIN p = {"view", "calls"}
  /\ ViewFits(p.view)
  /\ IsABag(p.calls)
  /\ \A c \in BagToSet(p.calls) : {"ask", "gen"} \subseteq DOMAIN c
  /\ OneTail(p)

NotBlank(p) == p.view.mount = "list" /\ p.view.top = 0 => PageInFlight(p.calls)

-----------------------------------------------------------------------------
(* Bags. *)

LEMMA BagAdds ==
  ASSUME NEW B, IsABag(B), NEW c
  PROVE  /\ IsABag(B (+) SetToBag({c}))
         /\ BagToSet(B (+) SetToBag({c})) = BagToSet(B) \cup {c}
         /\ c \notin BagToSet(B) => (B (+) SetToBag({c}))[c] = 1
         /\ \A e \in BagToSet(B) \ {c} : (B (+) SetToBag({c}))[e] = B[e]
<1> DEFINE S == SetToBag({c})
<1>1. DOMAIN S = {c} /\ S[c] = 1
  BY DEF SetToBag
<1>2. \A e \in DOMAIN B : B[e] \in Nat /\ B[e] > 0
  BY DEF IsABag
<1> HIDE DEF S
<1>3. /\ DOMAIN (B (+) S) = DOMAIN B \cup {c}
      /\ \A e \in DOMAIN B \cup {c} :
           (B (+) S)[e] = (IF e \in DOMAIN B THEN B[e] ELSE 0) + (IF e \in {c} THEN S[e] ELSE 0)
  BY <1>1 DEF (+)
<1>4. \A e \in DOMAIN B \cup {c} : (B (+) S)[e] \in {n \in Nat : n > 0}
  BY <1>1, <1>2, <1>3
<1>5. IsABag(B (+) S)
  BY <1>3, <1>4 DEF IsABag, (+)
<1>6. /\ c \notin DOMAIN B => (B (+) S)[c] = 1
      /\ \A e \in DOMAIN B \ {c} : (B (+) S)[e] = B[e]
  BY <1>1, <1>2, <1>3
<1> QED BY <1>3, <1>5, <1>6 DEF S, BagToSet

LEMMA BagDrops ==
  ASSUME NEW B, IsABag(B), NEW c
  PROVE  /\ IsABag(B (-) SetToBag({c}))
         /\ BagToSet(B (-) SetToBag({c})) \subseteq BagToSet(B)
         /\ BagToSet(B) \ {c} \subseteq BagToSet(B (-) SetToBag({c}))
         /\ \A e \in BagToSet(B) \ {c} : (B (-) SetToBag({c}))[e] = B[e]
         /\ c \in BagToSet(B) /\ B[c] = 1 => c \notin BagToSet(B (-) SetToBag({c}))
         /\ c \in BagToSet(B (-) SetToBag({c})) => B[c] # 1
<1> DEFINE S == SetToBag({c})
           D == [e \in DOMAIN B |-> IF e \in DOMAIN S THEN B[e] - S[e] ELSE B[e]]
<1>1. DOMAIN S = {c} /\ S[c] = 1
  BY DEF SetToBag
<1>2. \A e \in DOMAIN B : B[e] \in Nat /\ B[e] > 0
  BY DEF IsABag
<1>3. B (-) S = [e \in {d \in DOMAIN D : D[d] > 0} |-> D[e]]
  BY DEF (-)
<1> HIDE DEF S
<1>4. \A e \in DOMAIN B : D[e] = IF e = c THEN B[e] - 1 ELSE B[e]
  BY <1>1, <1>2
<1>5. DOMAIN D = DOMAIN B
  OBVIOUS
<1> HIDE DEF D
<1>6. \A e \in DOMAIN (B (-) S) : (B (-) S)[e] = D[e] /\ e \in DOMAIN B /\ D[e] > 0
  BY <1>3, <1>5
<1>7. \A e \in DOMAIN B : D[e] > 0 => e \in DOMAIN (B (-) S)
  BY <1>3, <1>5
<1>8. \A e \in DOMAIN (B (-) S) : (B (-) S)[e] \in {n \in Nat : n > 0}
  BY <1>2, <1>4, <1>6
<1>9. IsABag(B (-) S)
  BY <1>3, <1>8 DEF IsABag
<1>10. \A e \in DOMAIN B \ {c} : e \in DOMAIN (B (-) S) /\ (B (-) S)[e] = B[e]
  BY <1>2, <1>4, <1>6, <1>7
<1>11. c \in DOMAIN B /\ B[c] = 1 => c \notin DOMAIN (B (-) S)
  BY <1>4, <1>6
<1> QED BY <1>6, <1>9, <1>10, <1>11 DEF S, BagToSet

-----------------------------------------------------------------------------
(* What the page's code does to them. *)

LEMMA WithoutFits ==
  ASSUME PageFits(Page), NEW c \in BagToSet(calls)
  PROVE  /\ PageFits(Without(c)) /\ Without(c).view = view
         /\ c.ask = "page" => ~PageInFlight(Without(c).calls)
         /\ c.ask # "page" => (PageInFlight(Without(c).calls) <=> PageInFlight(calls))
<1> DEFINE q == Without(c)
<1>1. Page.view = view /\ Page.calls = calls /\ DOMAIN Page = {"view", "calls"}
  BY DEF Page
<1>2. q.view = view /\ q.calls = calls (-) SetToBag({c}) /\ DOMAIN q = {"view", "calls"}
  BY DEF Without, Page
<1> HIDE DEF q
<1>3. ViewFits(view) /\ IsABag(calls) /\ OneTail(Page)
  BY <1>1 DEF PageFits
<1>4. /\ IsABag(q.calls) /\ BagToSet(q.calls) \subseteq BagToSet(calls)
      /\ BagToSet(calls) \ {c} \subseteq BagToSet(q.calls)
      /\ \A e \in BagToSet(calls) \ {c} : q.calls[e] = calls[e]
      /\ calls[c] = 1 => c \notin BagToSet(q.calls)
  BY <1>2, <1>3, BagDrops
<1>5. c.ask = "page" => calls[c] = 1
  BY <1>1, <1>3 DEF OneTail
<1>6. OneTail(q)
  BY <1>1, <1>2, <1>3, <1>4, <1>5 DEF OneTail
<1>7. PageFits(q)
  BY <1>1, <1>2, <1>3, <1>4, <1>6 DEF PageFits
<1>8. c.ask = "page" => ~PageInFlight(q.calls)
  BY <1>1, <1>3, <1>4, <1>5 DEF OneTail, PageInFlight
<1>9. c.ask # "page" => (PageInFlight(q.calls) <=> PageInFlight(calls))
  BY <1>4 DEF PageInFlight
<1> QED BY <1>2, <1>7, <1>8, <1>9 DEF q

LEMMA AskedFits ==
  ASSUME NEW p, PageFits(p), NEW call,
         {"ask", "gen"} \subseteq DOMAIN call,
         call.ask = "page" => ~PageInFlight(p.calls) /\ call.gen = p.view.generation
  PROVE  /\ PageFits(Asked(p, call)) /\ Asked(p, call).view = p.view
         /\ PageInFlight(Asked(p, call).calls) <=> PageInFlight(p.calls) \/ call.ask = "page"
         /\ BagToSet(Asked(p, call).calls) = BagToSet(p.calls) \cup {call}
<1> DEFINE q == Asked(p, call)
<1>1. q.view = p.view /\ q.calls = p.calls (+) SetToBag({call}) /\ DOMAIN q = {"view", "calls"}
  BY DEF Asked, PageFits
<1> HIDE DEF q
<1>2. ViewFits(p.view) /\ IsABag(p.calls) /\ OneTail(p)
  BY DEF PageFits
<1>3. /\ IsABag(q.calls) /\ BagToSet(q.calls) = BagToSet(p.calls) \cup {call}
      /\ call \notin BagToSet(p.calls) => q.calls[call] = 1
      /\ \A e \in BagToSet(p.calls) \ {call} : q.calls[e] = p.calls[e]
  <2>1. PICK B : B = p.calls
    OBVIOUS
  <2>2. /\ IsABag(B) /\ q.calls = B (+) SetToBag({call})
    BY <1>1, <1>2, <2>1
  <2>3. PICK C : C = B (+) SetToBag({call})
    OBVIOUS
  <2>4. /\ IsABag(C) /\ BagToSet(C) = BagToSet(B) \cup {call}
        /\ call \notin BagToSet(B) => C[call] = 1
        /\ \A e \in BagToSet(B) \ {call} : C[e] = B[e]
    BY <2>2, <2>3, BagAdds
  <2> QED BY <2>1, <2>2, <2>3, <2>4
<1>4. call.ask = "page" => call \notin BagToSet(p.calls)
  BY DEF PageInFlight
<1>5. OneTail(q)
  <2>1. CASE call.ask = "page"
    BY <1>1, <1>2, <1>3, <1>4, <2>1 DEF OneTail, PageInFlight
  <2>2. CASE call.ask # "page"
    BY <1>1, <1>2, <1>3, <2>2 DEF OneTail
  <2> QED BY <2>1, <2>2
<1>6. PageFits(q)
  BY <1>1, <1>2, <1>3, <1>5 DEF PageFits
<1>7. PageInFlight(q.calls) <=> PageInFlight(p.calls) \/ call.ask = "page"
  BY <1>3 DEF PageInFlight
<1> QED BY <1>1, <1>3, <1>6, <1>7 DEF q


\* The page under way is gone after cancelPage, and nothing else.
LEMMA CancelledFits ==
  ASSUME NEW p, PageFits(p)
  PROVE  /\ PageFits(Cancelled(p)) /\ ~PageInFlight(Cancelled(p).calls)
         /\ Cancelled(p).view = [p.view EXCEPT !.generation = @ + 1]
<1> DEFINE q == Cancelled(p)  kept == {c \in BagToSet(p.calls) : c.ask # "page"}
<1>1. /\ q.view = [p.view EXCEPT !.generation = @ + 1] /\ q.calls = Restrict(p.calls, kept)
      /\ DOMAIN q = {"view", "calls"}
  BY DEF Cancelled
<1>2. kept \subseteq DOMAIN p.calls
  BY DEF BagToSet
<1> HIDE DEF q, kept
<1>3. DOMAIN q.calls = kept /\ \A c \in kept : q.calls[c] = p.calls[c]
  BY <1>1 DEF Restrict
<1>4. IsABag(q.calls)
  <2>1. \A c \in kept : p.calls[c] \in {n \in Nat : n > 0}
    BY <1>2 DEF PageFits, IsABag
  <2>2. q.calls = [c \in DOMAIN q.calls |-> q.calls[c]]
    BY <1>1, <1>3 DEF Restrict
  <2> QED BY <1>3, <2>1, <2>2 DEF IsABag
<1>5. \A c \in BagToSet(q.calls) : c.ask # "page"
  BY <1>3 DEF kept, BagToSet
<1>6. ViewFits(q.view)
  BY <1>1 DEF PageFits, ViewFits
<1>7. \A c \in BagToSet(q.calls) : {"ask", "gen"} \subseteq DOMAIN c
  BY <1>3 DEF kept, BagToSet, PageFits
<1> QED BY <1>1, <1>4, <1>5, <1>6, <1>7 DEF PageFits, OneTail, PageInFlight, q

LEMMA PageLoadedFits ==
  ASSUME NEW p, PageFits(p)
  PROVE  /\ PageFits(PageLoaded(p)) /\ PageLoaded(p).view = p.view
         /\ PageInFlight(p.calls) \/ ~p.view.exhausted => PageInFlight(PageLoaded(p).calls)
<1> DEFINE call == [Call("page") EXCEPT !.at = Len(p.view.source), !.gen = p.view.generation]
<1>1. call.ask = "page" /\ call.gen = p.view.generation /\ {"ask", "gen"} \subseteq DOMAIN call
  BY DEF Call
<1> HIDE DEF call
<1>2. CASE PageInFlight(p.calls) \/ p.view.exhausted
  BY <1>2 DEF PageLoaded
<1>3. CASE ~(PageInFlight(p.calls) \/ p.view.exhausted)
  <2>1. PageLoaded(p) = Asked(p, call)
    BY <1>3 DEF PageLoaded, call
  <2> QED BY <1>1, <1>3, <2>1, AskedFits
<1> QED BY <1>2, <1>3

LEMMA PaintedFits ==
  ASSUME NEW p, PageFits(p), NEW near \in BOOLEAN
  PROVE  /\ PageFits(Painted(p, near)) /\ Painted(p, near).view = p.view
         /\ NotBlank(p) => NotBlank(Painted(p, near))
BY PageLoadedFits DEF Painted, NotBlank

\* A new table is one whose rows are on their way (client.ts, showTable).
LEMMA TabledFits ==
  ASSUME NEW p, PageFits(p)
  PROVE  /\ PageFits(Tabled(p)) /\ NotBlank(Tabled(p))
         /\ Tabled(p).view.modal = p.view.modal
<1> DEFINE q == Cancelled(p)
           r == [q EXCEPT !.view = [@ EXCEPT !.mount = "list", !.table = TRUE,
                                             !.source = <<>>, !.top = 0, !.exhausted = FALSE]]
<1>1. /\ PageFits(q) /\ ~PageInFlight(q.calls)
      /\ q.view = [p.view EXCEPT !.generation = @ + 1]
  BY CancelledFits
<1>2. Tabled(p) = PageLoaded(r)
  BY DEF Tabled
<1>3. q.view.modal = p.view.modal
  BY <1>1 DEF PageFits, ViewFits
<1> HIDE DEF q
<1>4. /\ r.calls = q.calls /\ DOMAIN r = {"view", "calls"} /\ DOMAIN r.view = DOMAIN q.view
      /\ r.view.modal = q.view.modal /\ r.view.exhausted = FALSE
      /\ r.view.generation = q.view.generation
  BY <1>1 DEF PageFits, ViewFits
<1> HIDE DEF r
<1>5. PageFits(r)
  BY <1>1, <1>4 DEF PageFits, ViewFits, OneTail
<1>6. PageFits(PageLoaded(r)) /\ PageLoaded(r).view = r.view /\ PageInFlight(PageLoaded(r).calls)
  BY <1>4, <1>5, PageLoadedFits
<1> QED BY <1>2, <1>3, <1>4, <1>6 DEF NotBlank

LEMMA ShutFits ==
  ASSUME NEW p, PageFits(p)
  PROVE  /\ PageFits(Shut(p)) /\ Shut(p).view.modal.open = FALSE
         /\ Shut(p).view.table = p.view.table
         /\ NotBlank(p) => NotBlank(Shut(p))
<1>1. /\ Shut(p).calls = p.calls /\ DOMAIN Shut(p) = {"view", "calls"}
      /\ Shut(p).view = [p.view EXCEPT !.modal.open = FALSE]
  BY DEF Shut, PageFits
<1>2. PICK q : q = Shut(p)
  OBVIOUS
<1>3. /\ DOMAIN q.view = DOMAIN p.view /\ DOMAIN q.view.modal = DOMAIN p.view.modal
      /\ q.view.modal.open = FALSE /\ q.view.generation = p.view.generation
      /\ q.view.mount = p.view.mount /\ q.view.top = p.view.top
      /\ q.view.table = p.view.table
  BY <1>1, <1>2 DEF PageFits, ViewFits
<1>4. PageFits(q)
  BY <1>1, <1>2, <1>3 DEF PageFits, ViewFits, OneTail
<1> QED BY <1>1, <1>2, <1>3, <1>4 DEF NotBlank

LEMMA ReplacedFits ==
  ASSUME NEW p, PageFits(p), NEW page \in {"places", "search"}
  PROVE  /\ PageFits(Replaced(p, page)) /\ NotBlank(Replaced(p, page))
         /\ Replaced(p, page).view.modal = p.view.modal
<1> DEFINE q == Cancelled(p)
           r == [q EXCEPT !.view = [@ EXCEPT !.mount = page, !.table = FALSE]]
<1>1. PageFits(q) /\ q.view = [p.view EXCEPT !.generation = @ + 1]
  BY CancelledFits
<1>2. Replaced(p, page) = Asked(r, Call(page))
  BY DEF Replaced
<1>3. q.view.modal = p.view.modal
  BY <1>1 DEF PageFits, ViewFits
<1> HIDE DEF q
<1>4. /\ r.calls = q.calls /\ DOMAIN r = {"view", "calls"} /\ DOMAIN r.view = DOMAIN q.view
      /\ r.view.modal = q.view.modal /\ r.view.mount = page
      /\ r.view.generation = q.view.generation
  BY <1>1 DEF PageFits, ViewFits
<1> HIDE DEF r
<1>5. PageFits(r)
  BY <1>1, <1>4 DEF PageFits, ViewFits, OneTail
<1>6. Call(page).ask = page /\ {"ask", "gen"} \subseteq DOMAIN Call(page)
  BY DEF Call
<1>7. PageFits(Asked(r, Call(page))) /\ Asked(r, Call(page)).view = r.view
  BY <1>5, <1>6, AskedFits
<1> QED BY <1>2, <1>3, <1>4, <1>7 DEF NotBlank

\* The modal that is opened shows the day it is titled with.
LEMMA OpenedFits ==
  ASSUME NEW p, PageFits(p), NEW d, NEW caught
  PROVE  /\ PageFits(Opened(p, d, caught))
         /\ NotBlank(p) => NotBlank(Opened(p, d, caught))
         /\ Opened(p, d, caught).view.modal.open
         /\ Opened(p, d, caught).view.modal.title = d
         /\ Opened(p, d, caught).view.modal.day = d
<1> DEFINE q == IF p.view.table THEN p ELSE Tabled(p)
           known == Embedded(q.view, d)
           body == IF known > 0 THEN known ELSE Loading
           r == [q EXCEPT !.view.modal = [open |-> TRUE, title |-> d, day |-> d, report |-> body]]
           call == [Call(IF known > 0 THEN "transcripts" ELSE "journal") EXCEPT
                      !.day = d, !.report = body, !.caught = caught]
<1>1. Opened(p, d, caught) = Asked(r, call)
  BY DEF Opened
<1>2. PageFits(q) /\ (NotBlank(p) => NotBlank(q))
  BY TabledFits
<1>3. call.ask # "page" /\ {"ask", "gen"} \subseteq DOMAIN call
  BY DEF Call
<1> HIDE DEF q, known, call
<1>4. /\ r.calls = q.calls /\ DOMAIN r = {"view", "calls"} /\ DOMAIN r.view = DOMAIN q.view
      /\ r.view.modal = [open |-> TRUE, title |-> d, day |-> d, report |-> body]
      /\ r.view.mount = q.view.mount /\ r.view.top = q.view.top
      /\ r.view.generation = q.view.generation
  BY <1>2 DEF PageFits, ViewFits
<1> HIDE DEF r
<1>5. PageFits(r)
  BY <1>2, <1>4 DEF PageFits, ViewFits, OneTail
<1>6. /\ PageFits(Asked(r, call)) /\ Asked(r, call).view = r.view
      /\ PageInFlight(Asked(r, call).calls) <=> PageInFlight(r.calls)
  BY <1>3, <1>5, AskedFits
<1> QED BY <1>1, <1>2, <1>4, <1>6 DEF NotBlank


-----------------------------------------------------------------------------
(* Steps of the page. *)

PageInv ==
  /\ moved \in Nat /\ hash \in Routes /\ today \in Nat \ {0} /\ visit \in Visits
  /\ PageFits(Page)
  /\ BlankListIsLoading

LEMMA PageParts ==
  /\ Page.view = view /\ Page.calls = calls /\ DOMAIN Page = {"view", "calls"}
  /\ NotBlank(Page) <=> BlankListIsLoading
BY DEF Page, NotBlank, BlankListIsLoading

LEMMA BecomesFits ==
  ASSUME NEW p, PageFits(p), Becomes(p)
  PROVE  PageFits(Page)' /\ (NotBlank(p) => BlankListIsLoading') /\ view' = p.view /\ calls' = p.calls
<1>1. view' = p.view /\ calls' = p.calls
  BY DEF Becomes
<1>2. Page'.view = view' /\ Page'.calls = calls' /\ DOMAIN Page' = {"view", "calls"}
  BY DEF Page
<1>3. PageFits(Page)'
  BY <1>1, <1>2 DEF PageFits, ViewFits, OneTail
<1> QED BY <1>1, <1>3 DEF NotBlank, BlankListIsLoading, PageInFlight

\* Where the modal is not touched, and the route neither.
LEMMA SameModal ==
  ASSUME UNCHANGED <<hash, moved, closing>>, view'.modal = view.modal, ModalIsAsked
  PROVE  ModalIsAsked'
BY DEF ModalIsAsked

LEMMA RoutePage ==
  ASSUME hash \in Routes
  PROVE  /\ hash.page \in {"list", "places", "search", "day"}
         /\ hash.page = "day" => hash = ToDay(hash.day)
BY DEF Routes, To, ToDay

LEMMA RoutedFits ==
  ASSUME PageInv
  PROVE  /\ PageFits(Routed(Page)) /\ NotBlank(Routed(Page))
         /\ Routed(Page).view.modal.open => hash = ToDay(Routed(Page).view.modal.title)
                                            /\ Routed(Page).view.modal.day = Routed(Page).view.modal.title
         /\ hash.page = "day" => Routed(Page).view.modal.open
<1> USE DEF PageInv
<1>1. PageFits(Page) /\ NotBlank(Page)
  BY PageParts
<1>2. CASE hash.page \in {"places", "search"}
  BY <1>1, <1>2, ShutFits, ReplacedFits DEF Routed
<1>3. CASE hash.page = "list"
  BY <1>1, <1>3, ShutFits, TabledFits DEF Routed
<1>4. CASE hash.page = "day"
  <2>1. Routed(Page) = Opened(Page, hash.day, TRUE)
    BY <1>4 DEF Routed
  <2>2. PICK q, d, caught : q = Opened(Page, d, caught) /\ d = hash.day /\ caught = TRUE
    OBVIOUS
  <2>3. PICK p : p = Page /\ PageFits(p) /\ NotBlank(p)
    BY <1>1
  <2>4. q = Opened(p, d, caught)
    BY <2>2, <2>3
  <2>5. /\ PageFits(q) /\ NotBlank(q) /\ q.view.modal.open
        /\ q.view.modal.title = d /\ q.view.modal.day = d
    BY <2>3, <2>4, OpenedFits
  <2> QED BY <1>4, <2>1, <2>2, <2>5, RoutePage
<1> QED BY <1>2, <1>3, <1>4, RoutePage

LEMMA ReaderStep ==
  ASSUME PageInv, (\E r \in visit.pages : Hop(r)) \/ Dismiss \/ CloseEvent
  PROVE  PageInv' /\ (ModalIsAsked => ModalIsAsked')
<1> USE DEF PageInv
<1>1. CASE \E r \in visit.pages : Hop(r)
  <2>1. hash' \in Routes
    BY <1>1, ClientAssumption DEF Hop
  <2> QED BY <1>1, <2>1 DEF Hop, PageFits, OneTail, Page, BlankListIsLoading, PageInFlight, ModalIsAsked
<1>2. CASE Dismiss
  <2>1. /\ view' = [view EXCEPT !.modal.open = FALSE] /\ calls' = calls /\ closing' = TRUE
        /\ UNCHANGED <<hash, moved, today, visit>>
    BY <1>2 DEF Dismiss
  <2>2. Becomes(Shut(Page))
    BY <2>1 DEF Becomes, Shut, Page
  <2>3. PageFits(Page)' /\ BlankListIsLoading' /\ view'.modal.open = FALSE
    BY <2>2, ShutFits, PageParts, BecomesFits
  <2> QED BY <2>1, <2>3 DEF ModalIsAsked
<1>3. CASE CloseEvent
  <2>1. /\ UNCHANGED <<view, calls, today, visit>> /\ closing' = FALSE
        /\ \/ hash.page = "day" /\ hash' = To("list") /\ moved' = moved + 1
           \/ hash.page # "day" /\ UNCHANGED <<hash, moved>>
    BY <1>3 DEF CloseEvent
  <2>2. PageFits(Page)' /\ BlankListIsLoading'
    BY <2>1 DEF PageFits, OneTail, Page, BlankListIsLoading, PageInFlight
  <2>3. hash' \in Routes /\ moved' \in Nat
    BY <2>1 DEF Routes
  <2>4. ModalIsAsked => ModalIsAsked'
    BY <2>1 DEF ModalIsAsked
  <2> QED BY <2>1, <2>2, <2>3, <2>4
<1> QED BY <1>1, <1>2, <1>3

LEMMA HashChangeStep ==
  ASSUME PageInv, HashChange
  PROVE  PageInv' /\ (ModalIsAsked => ModalIsAsked')
<1> USE DEF PageInv
<1>1. /\ moved' = moved - 1 /\ moved' \in Nat /\ Becomes(Routed(Page))
      /\ UNCHANGED <<hash, today, visit>>
  BY DEF HashChange
<1>2. PICK q : q = Routed(Page)
  OBVIOUS
<1>3. /\ PageFits(q) /\ NotBlank(q)
      /\ q.view.modal.open => hash = ToDay(q.view.modal.title) /\ q.view.modal.day = q.view.modal.title
      /\ hash.page = "day" => q.view.modal.open
  BY <1>2, RoutedFits
<1>4. PageFits(Page)' /\ BlankListIsLoading' /\ view' = q.view
  BY <1>1, <1>2, <1>3, BecomesFits
<1> QED BY <1>1, <1>3, <1>4 DEF ModalIsAsked

\* What moves the top of the list: it is the viewer's day from then on.
LEMMA TopStep ==
  ASSUME PageInv, (\E near \in BOOLEAN : RefreshToday(near)) \/ Midnight \/ Scroll
  PROVE  PageInv' /\ (ModalIsAsked => ModalIsAsked')
<1> USE DEF PageInv
<1>1. ASSUME NEW q, PageFits(q), NotBlank(q), q.view.modal = view.modal,
             NEW near \in BOOLEAN, Becomes(Painted(q, near)),
             UNCHANGED <<hash, moved, closing, visit>>, today' \in Nat \ {0}
      PROVE  PageInv' /\ (ModalIsAsked => ModalIsAsked')
  <2>1. PageFits(Painted(q, near)) /\ Painted(q, near).view = q.view /\ NotBlank(Painted(q, near))
    BY <1>1, PaintedFits
  <2>2. PageFits(Page)' /\ BlankListIsLoading' /\ view' = q.view
    BY <1>1, <2>1, BecomesFits
  <2> QED BY <1>1, <2>2, SameModal
<1>2. ASSUME NEW t \in Nat \ {0}, NEW q, q = [Page EXCEPT !.view = [@ EXCEPT !.top = t]]
      PROVE  PageFits(q) /\ NotBlank(q) /\ q.view.modal = view.modal
  <2>1. /\ DOMAIN q = {"view", "calls"} /\ q.calls = calls /\ DOMAIN q.view = DOMAIN view
        /\ q.view.modal = view.modal /\ q.view.top = t /\ q.view.generation = view.generation
    BY <1>2, PageParts DEF PageFits, ViewFits
  <2> QED BY <1>2, <2>1, PageParts DEF PageFits, ViewFits, OneTail, NotBlank
<1>3. CASE \E near \in BOOLEAN : RefreshToday(near)
  <2>1. PICK near \in BOOLEAN : /\ Becomes(Painted([Page EXCEPT !.view = Reconciled(@)], near))
                                /\ UNCHANGED <<hash, moved, closing, today, visit>>
    BY <1>3 DEF RefreshToday
  <2>2. PICK q : q = [Page EXCEPT !.view = [@ EXCEPT !.top = today]]
    OBVIOUS
  <2>3. Becomes(Painted(q, near))
    BY <2>1, <2>2 DEF Reconciled
  <2> QED BY <1>1, <1>2, <2>1, <2>2, <2>3
<1>4. CASE Midnight
  <2>1. PICK near \in BOOLEAN : /\ Becomes(Painted([Page EXCEPT !.view.top = today + 1], near))
                                /\ today' = today + 1
                                /\ UNCHANGED <<hash, moved, closing, visit>>
    BY <1>4 DEF Midnight
  <2>2. PICK q : q = [Page EXCEPT !.view = [@ EXCEPT !.top = today + 1]]
    OBVIOUS
  <2>3. Becomes(Painted(q, near)) /\ today + 1 \in Nat \ {0}
    BY <2>1, <2>2
  <2> QED BY <1>1, <1>2, <2>1, <2>2, <2>3
<1>5. CASE Scroll
  <2>1. Becomes(Painted(Page, TRUE)) /\ UNCHANGED <<hash, moved, closing, today, visit>>
    BY <1>5 DEF Scroll
  <2>2. PICK q : q = Page
    OBVIOUS
  <2> QED BY <1>1, <2>1, <2>2, PageParts
<1> QED BY <1>3, <1>4, <1>5


-----------------------------------------------------------------------------
(* Answers. *)

\* A call is answered by the server: it stays what it was, but for its answer.
LEMMA ServeStep ==
  ASSUME PageInv, NEW c \in BagToSet(calls), Serve(c)
  PROVE  PageInv' /\ (ModalIsAsked => ModalIsAsked')
<1> USE DEF PageInv
<1>1. UNCHANGED <<hash, moved, closing, view, today, visit>>
  BY DEF Serve
<1>2. ASSUME NEW e, e.ask = c.ask, e.gen = c.gen, DOMAIN e = DOMAIN c, calls' = Asked(Without(c), e).calls
      PROVE  PageInv'
  <2>1. PICK p : p = Without(c)
    OBVIOUS
  <2>2. /\ PageFits(p) /\ p.view = view
        /\ c.ask = "page" => ~PageInFlight(p.calls)
        /\ c.ask # "page" => (PageInFlight(p.calls) <=> PageInFlight(calls))
    BY <2>1, WithoutFits
  <2>3. /\ c.ask = "page" => c.gen = view.generation
        /\ {"ask", "gen"} \subseteq DOMAIN c
    BY PageParts DEF PageFits, OneTail
  <2>4. PICK q : q = Asked(p, e)
    OBVIOUS
  <2>5. /\ PageFits(q) /\ q.view = p.view
        /\ PageInFlight(q.calls) <=> PageInFlight(p.calls) \/ e.ask = "page"
    BY <1>2, <2>2, <2>3, <2>4, AskedFits
  <2>6. Becomes(q)
    BY <1>1, <1>2, <2>1, <2>2, <2>4, <2>5 DEF Becomes
  <2>7. PageFits(Page)'
    BY <2>5, <2>6, BecomesFits
  <2>8. NotBlank(q)
    BY <1>2, <2>2, <2>5 DEF NotBlank, BlankListIsLoading
  <2>9. BlankListIsLoading'
    BY <2>5, <2>6, <2>8, BecomesFits
  <2> QED BY <1>1, <2>7, <2>9
<1>3. CASE UNCHANGED calls
  <2>1. Becomes(Page)
    BY <1>1, <1>3, PageParts DEF Becomes
  <2>2. PICK p : p = Page
    OBVIOUS
  <2>3. PageFits(Page)' /\ BlankListIsLoading'
    BY <2>1, <2>2, PageParts, BecomesFits
  <2> QED BY <1>1, <2>3, SameModal
<1>4. CASE ~UNCHANGED calls
  <2>1. PICK e : /\ calls' = Asked(Without(c), e).calls
                 /\ \/ \E rows : e = [c EXCEPT !.served = TRUE, !.rows = rows]
                    \/ \E report : e = [c EXCEPT !.served = TRUE, !.report = report]
    BY <1>4 DEF Serve
  <2>2. {"ask", "gen"} \subseteq DOMAIN c
    BY PageParts DEF PageFits
  <2>3. e.ask = c.ask /\ e.gen = c.gen /\ DOMAIN e = DOMAIN c
    BY <2>1, <2>2
  <2> QED BY <1>1, <1>2, <2>1, <2>3, SameModal
<1> QED BY <1>1, <1>3, <1>4, SameModal

\* The page goes on as p, the route as it was.
LEMMA HandledFits ==
  ASSUME PageInv, NEW p, PageFits(p), NotBlank(p), Handled(p)
  PROVE  PageInv' /\ view' = p.view /\ UNCHANGED <<hash, moved, closing>>
<1>1. PageFits(Page)' /\ BlankListIsLoading' /\ view' = p.view
  BY BecomesFits DEF Handled
<1> QED BY <1>1 DEF PageInv, Handled

\* A call that is no page of rows is dropped.
LEMMA DroppedFits ==
  ASSUME PageInv, NEW c \in BagToSet(calls), c.ask # "page"
  PROVE  PageFits(Without(c)) /\ NotBlank(Without(c)) /\ Without(c).view = view
BY WithoutFits DEF PageInv, NotBlank, BlankListIsLoading

LEMMA RowsLandStep ==
  ASSUME PageInv, NEW c \in BagToSet(calls), NEW near \in BOOLEAN, RowsLand(c, near)
  PROVE  PageInv' /\ (ModalIsAsked => ModalIsAsked')
<1> USE DEF PageInv
<1>1. PICK p : p = Without(c)
  OBVIOUS
<1>2. PageFits(p) /\ p.view = view
  BY <1>1, WithoutFits
<1>3. CASE c.gen # view.generation
  <2>1. c.ask # "page"
    BY <1>3, PageParts DEF PageFits, OneTail
  <2>2. PageFits(p) /\ NotBlank(p) /\ Handled(p)
    BY <1>1, <1>3, <2>1, DroppedFits DEF RowsLand
  <2>3. PageInv' /\ view' = p.view /\ UNCHANGED <<hash, moved, closing>>
    BY <2>2, HandledFits
  <2> QED BY <1>2, <2>3, SameModal
<1>4. CASE c.gen = view.generation
  <2>1. PICK source, q : /\ Handled(Painted(q, near))
                         /\ q = [p EXCEPT !.view = Reconciled([@ EXCEPT
                                  !.source = source,
                                  !.exhausted = @ \/ Len(c.rows) < PageSize])]
    BY <1>1, <1>4 DEF RowsLand
  <2>2. /\ DOMAIN q = {"view", "calls"} /\ q.calls = p.calls
        /\ DOMAIN q.view = DOMAIN view /\ q.view.modal = view.modal /\ q.view.top = today
        /\ q.view.generation = view.generation
    BY <1>2, <2>1 DEF Reconciled, PageFits, ViewFits
  <2>3. PageFits(q) /\ NotBlank(q)
    BY <1>2, <2>2 DEF PageFits, ViewFits, OneTail, NotBlank
  <2>4. PICK r : r = Painted(q, near)
    OBVIOUS
  <2>5. PageFits(r) /\ r.view = q.view /\ NotBlank(r) /\ Handled(r)
    BY <2>1, <2>3, <2>4, PaintedFits
  <2>6. PageInv' /\ view' = r.view /\ UNCHANGED <<hash, moved, closing>>
    BY <2>5, HandledFits
  <2> QED BY <2>2, <2>5, <2>6, SameModal
<1> QED BY <1>3, <1>4

\* What the modal's calls bring is rendered, and the next call is made.
LEMMA ModalLandsStep ==
  ASSUME PageInv, NEW c \in BagToSet(calls), JournalLands(c) \/ TranscriptsLand(c)
  PROVE  PageInv' /\ (ModalIsAsked => ModalIsAsked')
<1> USE DEF PageInv
<1>1. PICK p : p = Without(c)
  OBVIOUS
<1>2. PageFits(p) /\ NotBlank(p) /\ p.view = view
  BY <1>1, DroppedFits DEF JournalLands, TranscriptsLand
<1>3. CASE hash.day # c.day
  <2>1. Handled(p)
    BY <1>1, <1>3 DEF JournalLands, TranscriptsLand
  <2>2. PageInv' /\ view' = p.view /\ UNCHANGED <<hash, moved, closing>>
    BY <1>2, <2>1, HandledFits
  <2> QED BY <1>2, <2>2, SameModal
<1>4. CASE hash.day = c.day
  <2>1. PICK next : /\ next.ask # "page" /\ {"ask", "gen"} \subseteq DOMAIN next
                    /\ Handled(Asked([p EXCEPT !.view.modal =
                                        [@ EXCEPT !.day = c.day, !.report = c.report]], next))
    <3>1. CASE JournalLands(c)
      <4>1. PICK next : next = [Call("transcripts") EXCEPT !.day = c.day, !.report = c.report,
                                  !.caught = c.caught, !.poll = c.report = Writing]
        OBVIOUS
      <4>2. next.ask # "page" /\ {"ask", "gen"} \subseteq DOMAIN next
        BY <4>1 DEF Call
      <4> QED BY <1>1, <1>4, <3>1, <4>1, <4>2 DEF JournalLands
    <3>2. CASE TranscriptsLand(c)
      <4>1. PICK next : next = [Call("location") EXCEPT !.day = c.day, !.caught = c.caught,
                                  !.poll = c.poll]
        OBVIOUS
      <4>2. next.ask # "page" /\ {"ask", "gen"} \subseteq DOMAIN next
        BY <4>1 DEF Call
      <4> QED BY <1>1, <1>4, <3>2, <4>1, <4>2 DEF TranscriptsLand
    <3> QED BY <3>1, <3>2
  <2>2. PICK q : q = [p EXCEPT !.view.modal = [@ EXCEPT !.day = c.day, !.report = c.report]]
    OBVIOUS
  <2>3. /\ DOMAIN q = {"view", "calls"} /\ q.calls = p.calls /\ DOMAIN q.view = DOMAIN view
        /\ q.view.mount = view.mount /\ q.view.top = view.top
        /\ q.view.generation = view.generation
        /\ q.view.modal = [view.modal EXCEPT !.day = c.day, !.report = c.report]
    BY <1>2, <2>2 DEF PageFits, ViewFits
  <2>4. /\ DOMAIN q.view.modal = DOMAIN view.modal /\ q.view.modal.open = view.modal.open
        /\ q.view.modal.title = view.modal.title /\ q.view.modal.day = c.day
    BY <1>2, <2>3 DEF PageFits, ViewFits
  <2>5. PageFits(q) /\ NotBlank(q)
    BY <1>2, <2>3, <2>4 DEF PageFits, ViewFits, OneTail, NotBlank
  <2>6. PICK r : r = Asked(q, next)
    OBVIOUS
  <2>7. PageFits(r) /\ r.view = q.view /\ (PageInFlight(r.calls) <=> PageInFlight(q.calls))
    BY <2>1, <2>5, <2>6, AskedFits
  <2>8. NotBlank(r) /\ Handled(r)
    BY <2>1, <2>2, <2>5, <2>6, <2>7 DEF NotBlank
  <2>9. PageInv' /\ view' = r.view /\ UNCHANGED <<hash, moved, closing>>
    BY <2>7, <2>8, HandledFits
  <2>10. ModalIsAsked => ModalIsAsked'
    BY <1>4, <2>4, <2>7, <2>9 DEF ModalIsAsked, ToDay
  <2> QED BY <2>9, <2>10
<1> QED BY <1>3, <1>4


LEMMA LocationLandsStep ==
  ASSUME PageInv, NEW c \in BagToSet(calls), LocationLands(c)
  PROVE  PageInv' /\ (ModalIsAsked => ModalIsAsked')
<1> USE DEF PageInv
<1>1. PICK p : p = Without(c)
  OBVIOUS
<1>2. PageFits(p) /\ NotBlank(p) /\ p.view = view
  BY <1>1, DroppedFits DEF LocationLands
<1>3. CASE Handled(p)
  <2>1. PageInv' /\ view' = p.view /\ UNCHANGED <<hash, moved, closing>>
    BY <1>2, <1>3, HandledFits
  <2> QED BY <1>2, <2>1, SameModal
<1>4. CASE ~Handled(p)
  <2>1. PICK nap : nap = [Call("nap") EXCEPT !.day = c.day, !.route = hash]
    OBVIOUS
  <2>2. nap.ask # "page" /\ {"ask", "gen"} \subseteq DOMAIN nap
    BY <2>1 DEF Call
  <2>3. PICK q : q = Asked(p, nap)
    OBVIOUS
  <2>4. Handled(q)
    BY <1>1, <1>4, <2>1, <2>3 DEF LocationLands
  <2>5. PageFits(q) /\ q.view = p.view /\ (PageInFlight(q.calls) <=> PageInFlight(p.calls))
    BY <1>2, <2>2, <2>3, AskedFits
  <2>6. NotBlank(q)
    BY <1>2, <2>5 DEF NotBlank
  <2>7. PageInv' /\ view' = q.view /\ UNCHANGED <<hash, moved, closing>>
    BY <2>4, <2>5, <2>6, HandledFits
  <2> QED BY <1>2, <2>5, <2>7, SameModal
<1> QED BY <1>3, <1>4

\* A timer shows its day again, over the route it was set at.
LEMMA NapEndsStep ==
  ASSUME PageInv, NEW c \in BagToSet(calls), NapEnds(c)
  PROVE  PageInv' /\ (ModalIsAsked => ModalIsAsked' \/ StrayNap(c))
<1> USE DEF PageInv
<1>1. PICK p : p = Without(c)
  OBVIOUS
<1>2. PageFits(p) /\ NotBlank(p) /\ p.view = view
  BY <1>1, DroppedFits DEF NapEnds
<1>3. CASE hash # c.route
  <2>1. Handled(p)
    BY <1>1, <1>3 DEF NapEnds
  <2>2. PageInv' /\ view' = p.view /\ UNCHANGED <<hash, moved, closing>>
    BY <1>2, <2>1, HandledFits
  <2> QED BY <1>2, <2>2, SameModal
<1>4. CASE hash = c.route
  <2>1. PICK q, d, caught : q = Opened(p, d, caught) /\ d = c.day /\ caught = FALSE
    OBVIOUS
  <2>2. PageFits(q) /\ NotBlank(q) /\ q.view.modal.open
        /\ q.view.modal.title = d /\ q.view.modal.day = d
    BY <1>2, <2>1, OpenedFits
  <2>3. Handled(q)
    BY <1>1, <1>4, <2>1 DEF NapEnds
  <2>4. PageInv' /\ view' = q.view /\ UNCHANGED <<hash, moved, closing>>
    BY <2>2, <2>3, HandledFits
  <2>5. c.ask = "nap"
    BY DEF NapEnds
  <2>6. CASE c.route = ToDay(c.day)
    BY <1>4, <2>1, <2>2, <2>4, <2>6 DEF ModalIsAsked
  <2>7. CASE c.route # ToDay(c.day)
    BY <2>4, <2>5, <2>7 DEF StrayNap
  <2> QED BY <2>6, <2>7
<1> QED BY <1>3, <1>4

Mounts(p, mount) == [p EXCEPT !.view.mount = mount]

LEMMA MountFits ==
  ASSUME NEW p, PageFits(p), NEW mount, NEW q, q = Mounts(p, mount)
  PROVE  /\ PageFits(q) /\ q.calls = p.calls /\ q.view.modal = p.view.modal
         /\ q.view.mount = mount /\ q.view.top = p.view.top
<1>1. /\ DOMAIN q = {"view", "calls"} /\ q.calls = p.calls /\ DOMAIN q.view = DOMAIN p.view
      /\ q.view.modal = p.view.modal /\ q.view.mount = mount /\ q.view.top = p.view.top
      /\ q.view.generation = p.view.generation
  BY DEF PageFits, ViewFits, Mounts
<1> QED BY <1>1 DEF PageFits, ViewFits, OneTail

LEMMA PageLandsStep ==
  ASSUME PageInv, NEW c \in BagToSet(calls), PageLands(c)
  PROVE  PageInv' /\ (ModalIsAsked => ModalIsAsked')
<1> USE DEF PageInv
<1>1. PICK p : p = Without(c)
  OBVIOUS
<1>2. PageFits(p) /\ NotBlank(p) /\ p.view = view
  BY <1>1, DroppedFits DEF PageLands
<1>3. PICK q : q = Mounts(p, "places")
  OBVIOUS
<1>4. PageFits(q) /\ q.view.modal = view.modal /\ NotBlank(q)
  BY <1>2, <1>3, MountFits DEF NotBlank
<1>5. Handled(p) \/ Handled(q)
  BY <1>1, <1>3 DEF PageLands, Mounts
<1>6. PageInv' /\ view'.modal = view.modal /\ UNCHANGED <<hash, moved, closing>>
  BY <1>2, <1>4, <1>5, HandledFits
<1> QED BY <1>6, SameModal

\* The page of an empty table that fails is told, and the list is not blank.
LEMMA CallFailsStep ==
  ASSUME PageInv, NEW c \in BagToSet(calls), CallFails(c)
  PROVE  PageInv' /\ (ModalIsAsked => ModalIsAsked')
<1> USE DEF PageInv
<1> DEFINE shown == CASE c.ask = "page" -> view.top = 0
                      [] c.ask \in {"journal", "transcripts", "search"} -> c.caught
                      [] OTHER -> FALSE
           mounted == IF shown THEN "error" ELSE IF c.ask = "places" THEN "places" ELSE view.mount
<1>1. PICK p : p = Without(c)
  OBVIOUS
<1>2. /\ PageFits(p) /\ p.view = view
      /\ c.ask # "page" => (PageInFlight(p.calls) <=> PageInFlight(calls))
  BY <1>1, WithoutFits
<1>3. PICK q, mount : q = Mounts(p, mount) /\ mount = mounted
  OBVIOUS
<1>4. /\ PageFits(q) /\ q.calls = p.calls /\ q.view.modal = view.modal
      /\ q.view.mount = mount /\ q.view.top = view.top
  BY <1>2, <1>3, MountFits
<1>5. NotBlank(q)
  <2>1. CASE c.ask = "page"
    BY <1>3, <1>4, <2>1 DEF NotBlank
  <2>2. CASE c.ask # "page"
    BY <1>2, <1>3, <1>4, <2>2 DEF NotBlank, BlankListIsLoading
  <2> QED BY <2>1, <2>2
<1>6. Becomes(q) /\ UNCHANGED <<hash, moved, closing, today, visit>>
  BY <1>1, <1>3 DEF CallFails, Mounts
<1>7. PageFits(Page)' /\ BlankListIsLoading' /\ view' = q.view
  BY <1>4, <1>5, <1>6, BecomesFits
<1> QED BY <1>4, <1>6, <1>7, SameModal

LEMMA DayEventStep ==
  ASSUME PageInv, DayEvent
  PROVE  PageInv' /\ (ModalIsAsked => ModalIsAsked')
<1> USE DEF PageInv
<1>1. UNCHANGED <<hash, moved, closing, today, visit>>
  BY DEF DayEvent
<1>2. PICK p : p = Page /\ PageFits(p) /\ NotBlank(p) /\ p.view = view
  BY PageParts
<1>3. CASE Becomes(p)
  <2>1. PageFits(Page)' /\ BlankListIsLoading' /\ view' = p.view
    BY <1>2, <1>3, BecomesFits
  <2> QED BY <1>1, <1>2, <2>1, SameModal
<1>4. CASE hash.page = "day" /\ Becomes(Opened(p, hash.day, TRUE))
  <2>1. PICK q, d, caught : q = Opened(p, d, caught) /\ d = hash.day /\ caught = TRUE
    OBVIOUS
  <2>2. PageFits(q) /\ NotBlank(q) /\ q.view.modal.open
        /\ q.view.modal.title = d /\ q.view.modal.day = d
    <3>1. q = Opened(p, d, caught)
      BY <2>1
    <3> QED BY <1>2, <3>1, OpenedFits
  <2>3. Becomes(q)
    BY <1>4, <2>1
  <2>4. PageFits(Page)' /\ BlankListIsLoading' /\ view' = q.view
    BY <2>2, <2>3, BecomesFits
  <2>5. hash = ToDay(hash.day)
    BY <1>4, RoutePage
  <2>6. ModalIsAsked'
    BY <1>1, <2>1, <2>2, <2>4, <2>5 DEF ModalIsAsked
  <2> QED BY <1>1, <2>4, <2>6
<1>5. CASE Becomes(Refetched(p))
  <2>1. PICK call : call = [Call("refetch") EXCEPT !.at = Len(p.view.source), !.gen = p.view.generation]
    OBVIOUS
  <2>2. call.ask # "page" /\ {"ask", "gen"} \subseteq DOMAIN call
    BY <2>1 DEF Call
  <2>3. PICK q : q = Asked(p, call)
    OBVIOUS
  <2>4. PageFits(q) /\ q.view = p.view /\ (PageInFlight(q.calls) <=> PageInFlight(p.calls))
    BY <1>2, <2>2, <2>3, AskedFits
  <2>5. NotBlank(q)
    BY <1>2, <2>4 DEF NotBlank
  <2>6. Becomes(p) \/ Becomes(q)
    BY <1>5, <2>1, <2>3 DEF Refetched
  <2>7. PageFits(Page)' /\ BlankListIsLoading' /\ view' = p.view
    BY <1>2, <2>4, <2>5, <2>6, BecomesFits
  <2> QED BY <1>1, <1>2, <2>7, SameModal
<1>6. Becomes(p) \/ (hash.page = "day" /\ Becomes(Opened(p, hash.day, TRUE))) \/ Becomes(Refetched(p))
  BY <1>2 DEF DayEvent
<1> QED BY <1>3, <1>4, <1>5, <1>6

\* The stream and the server leave the page alone.
LEMMA OutsideStep ==
  ASSUME PageInv, Connect \/ Drop \/ ServerGoesOn \/ UNCHANGED journalVars
  PROVE  PageInv' /\ (ModalIsAsked => ModalIsAsked')
<1> USE DEF PageInv
<1>1. UNCHANGED <<hash, moved, closing, view, calls, today, visit>>
  BY DEF Connect, Drop, ServerGoesOn, journalVars, clientVars
<1>2. Becomes(Page)
  BY <1>1, PageParts DEF Becomes
<1>3. PICK p : p = Page /\ PageFits(p) /\ NotBlank(p) /\ Becomes(p)
  BY <1>2, PageParts
<1>4. PageFits(Page)' /\ BlankListIsLoading'
  BY <1>3, BecomesFits
<1> QED BY <1>1, <1>4, SameModal

LEMMA JournalStep ==
  ASSUME PageInv, [JournalNext]_journalVars
  PROVE  /\ PageInv'
         /\ ModalIsAsked => \/ ModalIsAsked'
                            \/ \E c \in BagToSet(calls) : StrayNap(c) /\ NapEnds(c)
<1>1. CASE \E c \in BagToSet(calls) : Serve(c) \/ Land(c) \/ CallFails(c)
  <2>1. PICK c \in BagToSet(calls) : Serve(c) \/ Land(c) \/ CallFails(c)
    BY <1>1
  <2>2. CASE Land(c)
    BY <2>2, RowsLandStep, ModalLandsStep, LocationLandsStep, NapEndsStep, PageLandsStep DEF Land
  <2> QED BY <2>1, <2>2, ServeStep, CallFailsStep
<1> QED BY <1>1, ReaderStep, HashChangeStep, TopStep, DayEventStep, OutsideStep DEF JournalNext

LEMMA JournalStarts ==
  JournalInit => PageInv
<1> SUFFICES ASSUME NEW v \in Visits, ClientStart(v) PROVE PageInv
  BY DEF JournalInit
<1>1. /\ hash \in Routes /\ moved = 1 /\ today = v.first /\ visit = v /\ calls = EmptyBag
      /\ view.mount = "none" /\ ViewFits(view)
  BY ClientAssumption DEF ClientStart, ViewFits
<1>2. today \in Nat \ {0}
  BY <1>1, ClientAssumption, PreviewsAssumption
<1>3. DOMAIN calls = {} /\ IsABag(calls)
  BY <1>1 DEF EmptyBag, SetToBag, IsABag
<1>4. PageFits(Page)
  BY <1>1, <1>3, PageParts DEF PageFits, OneTail, BagToSet
<1> QED BY <1>1, <1>2, <1>4 DEF PageInv, BlankListIsLoading

\* Whatever was cancelled, refetched or failed before, and whichever answers come
\* late: a mounted table without a row is being loaded, so that the reader is
\* never left with a blank list (lib/lifelog/client).
THEOREM ListNeverBlank == JournalSpec => []BlankListIsLoading
<1>1. PageInv /\ [JournalNext]_journalVars => PageInv'
  BY JournalStep
<1>2. PageInv => BlankListIsLoading
  BY DEF PageInv
<1> QED BY <1>1, <1>2, JournalStarts, PTL DEF JournalSpec

\* At most one page of rows is under way, asked by the table that is there.
OnePageUnderWay ==
  \A c, e \in BagToSet(calls) :
    c.ask = "page" => c.gen = view.generation /\ calls[c] = 1 /\ (e.ask = "page" => c = e)

\* The table asks for its next page only when the one before has come: two tails
\* are never under way at once (lib/lifelog/client).
THEOREM PagesComeOneByOne == JournalSpec => []OnePageUnderWay
<1>1. PageInv /\ [JournalNext]_journalVars => PageInv'
  BY JournalStep
<1>2. PageInv => OnePageUnderWay
  BY PageParts DEF PageInv, PageFits, OneTail, OnePageUnderWay
<1> QED BY <1>1, <1>2, JournalStarts, PTL DEF JournalSpec

\* Late answers, failures, dismissals, close events and live updates never put a
\* day under another's route: that takes a timer set after its day was left
\* (lib/lifelog/client).
THEOREM ModalFollowsHash == JournalSpec => ModalStaysAsked
<1>1. PageInv /\ [JournalNext]_journalVars => PageInv'
  BY JournalStep
<1>2. PageInv /\ [JournalNext]_journalVars =>
        [ModalIsAsked => \/ ModalIsAsked'
                         \/ \E c \in BagToSet(calls) : StrayNap(c) /\ NapEnds(c)]_journalVars
  BY JournalStep
<1> QED BY <1>1, <1>2, JournalStarts, PTL DEF JournalSpec, ModalStaysAsked
-----------------------------------------------------------------------------
(* The rows the page is served.                                            *)

Rows == [Days -> Nat]
Recompute == [by : {"warmup", "sync", "pass", "read", "cold"},
              at : {"derive", "load", "persist"}, seen : Rows]

Behind(rows) == \A d \in Days : rows[d] <= journals[d]

\* The flag is not left standing: a recompute that will clear it is under way.
FlagIsHeld ==
  memo.refreshing => \E i \in DOMAIN readings : readings[i].at = "derive" /\ readings[i].by # "cold"

PreviewsInv ==
  /\ PreviewsTypeOK /\ left.inputs \subseteq Days
  /\ \A i \in DOMAIN readings : Behind(readings[i].seen)
  /\ FlagIsHeld

LEMMA PreviewsParts ==
  ASSUME PreviewsInv
  PROVE  /\ journals \in Rows /\ due \subseteq Days /\ hub \in Seq(Days) /\ told \in Nat
         /\ memo \in [known : BOOLEAN, rows : Rows, fresh : BOOLEAN, refreshing : BOOLEAN]
         /\ snapshot \in [known : BOOLEAN, rows : Rows]
         /\ readings \in Seq(Recompute)
         /\ Behind(memo.rows) /\ Behind(snapshot.rows) /\ Behind(journals)
         /\ \A i \in DOMAIN readings : readings[i] \in Recompute /\ Behind(readings[i].seen)
         /\ left.inputs \subseteq Days /\ FlagIsHeld
<1>1. journals \in Rows /\ readings \in Seq(Recompute)
  BY DEF PreviewsInv, PreviewsTypeOK, Rows, Recompute
<1>2. \A i \in DOMAIN readings : readings[i] \in Recompute
  BY <1>1
<1>3. Behind(journals)
  BY <1>1 DEF Behind, Rows
<1> QED
  BY <1>1, <1>2, <1>3 DEF PreviewsInv, PreviewsTypeOK, Rows, Behind

\* The disk as it was, and what is under way.
LEMMA PreviewsFit ==
  ASSUME PreviewsInv, journals' = journals, due' \subseteq Days, left'.inputs \subseteq Days,
         memo' \in [known : BOOLEAN, rows : Rows, fresh : BOOLEAN, refreshing : BOOLEAN],
         snapshot' \in [known : BOOLEAN, rows : Rows],
         readings' \in Seq(Recompute), hub' \in Seq(Days), told' \in Nat,
         Behind(memo'.rows), Behind(snapshot'.rows),
         \A i \in DOMAIN readings' : Behind(readings'[i].seen), FlagIsHeld'
  PROVE  PreviewsInv'
<1>1. PreviewsTypeOK'
  BY PreviewsParts DEF PreviewsTypeOK, Behind, Rows, Recompute
<1>2. \A i \in DOMAIN readings' : Behind(readings[i].seen)'
  BY DEF Behind
<1> QED
  BY <1>1, <1>2 DEF PreviewsInv

LEMMA Appended ==
  ASSUME PreviewsInv, NEW r \in Recompute, Behind(r.seen), readings' = Append(readings, r)
  PROVE  /\ readings' \in Seq(Recompute)
         /\ \A i \in DOMAIN readings' : Behind(readings'[i].seen)
         /\ \A i \in DOMAIN readings : i \in DOMAIN readings' /\ readings'[i] = readings[i]
         /\ Len(readings) + 1 \in DOMAIN readings' /\ readings'[Len(readings) + 1] = r
<1>1. readings \in Seq(Recompute) /\ \A i \in DOMAIN readings : Behind(readings[i].seen)
  BY PreviewsParts
<1> QED
  BY <1>1

LEMMA Removed ==
  ASSUME PreviewsInv, NEW i \in DOMAIN readings, readings' = RemoveAt(readings, i)
  PROVE  /\ readings' \in Seq(Recompute)
         /\ \A j \in DOMAIN readings' : \E k \in DOMAIN readings : readings'[j] = readings[k]
         /\ \A k \in DOMAIN readings \ {i} : \E j \in DOMAIN readings' : readings'[j] = readings[k]
<1>1. readings \in Seq(Recompute) /\ i \in 1..Len(readings) /\ Len(readings) \in Nat
  BY PreviewsParts
<1> DEFINE q == [j \in 1..(Len(readings) - 1) |-> IF j < i THEN readings[j] ELSE readings[j + 1]]
<1>2. readings' = q
  <2>1. /\ SubSeq(readings, 1, i - 1) \in Seq(Recompute)
        /\ Len(SubSeq(readings, 1, i - 1)) = i - 1
        /\ \A j \in 1..(i - 1) : SubSeq(readings, 1, i - 1)[j] = readings[j]
    BY <1>1
  <2>2. /\ SubSeq(readings, i + 1, Len(readings)) \in Seq(Recompute)
        /\ Len(SubSeq(readings, i + 1, Len(readings))) = Len(readings) - i
        /\ \A j \in 1..(Len(readings) - i) :
             SubSeq(readings, i + 1, Len(readings))[j] = readings[i + j]
    BY <1>1
  <2>3. PICK a \in Seq(Recompute), b \in Seq(Recompute) :
          /\ a = SubSeq(readings, 1, i - 1) /\ b = SubSeq(readings, i + 1, Len(readings))
          /\ readings' = a \o b
    BY <2>1, <2>2 DEF RemoveAt
  <2>4. /\ Len(a) = i - 1 /\ Len(b) = Len(readings) - i
        /\ \A j \in 1..(i - 1) : a[j] = readings[j]
        /\ \A j \in 1..(Len(readings) - i) : b[j] = readings[i + j]
    BY <2>1, <2>2, <2>3
  <2>5. /\ a \o b \in Seq(Recompute) /\ Len(a \o b) = Len(readings) - 1
        /\ \A j \in 1..(Len(readings) - 1) :
             (a \o b)[j] = IF j <= i - 1 THEN a[j] ELSE b[j - (i - 1)]
    <3>1. /\ a \o b \in Seq(Recompute) /\ Len(a \o b) = Len(a) + Len(b)
          /\ \A j \in 1..(Len(a) + Len(b)) :
               (a \o b)[j] = IF j <= Len(a) THEN a[j] ELSE b[j - Len(a)]
      BY ConcatProperties, Zenon
    <3>2. Len(a) + Len(b) = Len(readings) - 1
      BY <1>1, <2>4
    <3> QED
      BY <2>4, <3>1, <3>2, Zenon
  <2>6. ASSUME NEW j \in 1..(Len(readings) - 1)
        PROVE  (a \o b)[j] = q[j]
    <3>1. CASE j < i
      <4>1. j \in 1..(i - 1) /\ j <= i - 1
        BY <1>1, <3>1
      <4> QED
        BY <2>4, <2>5, <3>1, <4>1
    <3>2. CASE ~(j < i)
      <4>1. j - (i - 1) \in 1..(Len(readings) - i) /\ i + (j - (i - 1)) = j + 1 /\ ~(j <= i - 1)
        BY <1>1, <3>2
      <4>2. (a \o b)[j] = b[j - (i - 1)] /\ b[j - (i - 1)] = readings[i + (j - (i - 1))]
        BY <2>4, <2>5, <4>1
      <4> QED
        BY <3>2, <4>1, <4>2
    <3> QED
      BY <3>1, <3>2
  <2>7. q \in Seq(Recompute) /\ Len(q) = Len(readings) - 1
    BY <1>1
  <2> QED
    BY <2>3, <2>5, <2>6, <2>7, SeqEqual
<1>3. q \in Seq(Recompute)
  BY <1>1
<1>4. \A j \in 1..(Len(readings) - 1) : \E k \in DOMAIN readings : q[j] = readings[k]
  BY <1>1
<1>5. \A k \in DOMAIN readings \ {i} : \E j \in 1..(Len(readings) - 1) : q[j] = readings[k]
  <2> TAKE k \in DOMAIN readings \ {i}
  <2>1. CASE k < i
    BY <1>1, <2>1
  <2>2. CASE k > i
    <3>1. k - 1 \in 1..(Len(readings) - 1) /\ ~(k - 1 < i) /\ (k - 1) + 1 = k
      BY <1>1, <2>2
    <3> QED
      BY <3>1
  <2> QED
    BY <1>1, <2>1, <2>2
<1> QED
  BY <1>2, <1>3, <1>4, <1>5

LEMMA RefreshFits ==
  ASSUME PreviewsInv, NEW by \in {"sync", "pass", "read"}, Refresh(by),
         UNCHANGED <<journals, due, snapshot, hub, left>>, told' \in Nat
  PROVE  PreviewsInv'
<1>1. CASE memo.refreshing
  <2>1. UNCHANGED <<memo, readings>>
    BY <1>1 DEF Refresh
  <2> QED
    BY <2>1, PreviewsParts, PreviewsFit DEF FlagIsHeld
<1>2. CASE ~memo.refreshing
  <2>1. /\ memo' = [memo EXCEPT !.refreshing = TRUE]
        /\ readings' = Append(readings, Reading(by, "derive", journals))
    BY <1>2 DEF Refresh
  <2>2. PICK r : r = Reading(by, "derive", journals)
    OBVIOUS
  <2>3. r \in Recompute /\ Behind(r.seen) /\ r.at = "derive" /\ r.by # "cold"
    BY <2>2, PreviewsParts DEF Reading, Recompute
  <2>4. /\ readings' \in Seq(Recompute)
        /\ \A i \in DOMAIN readings' : Behind(readings'[i].seen)
        /\ Len(readings) + 1 \in DOMAIN readings' /\ readings'[Len(readings) + 1] = r
    BY <2>1, <2>2, <2>3, Appended
  <2>5. FlagIsHeld'
    BY <2>3, <2>4 DEF FlagIsHeld
  <2>6. /\ memo' \in [known : BOOLEAN, rows : Rows, fresh : BOOLEAN, refreshing : BOOLEAN]
        /\ memo'.rows = memo.rows
    BY <2>1, PreviewsParts
  <2> QED
    BY <2>4, <2>5, <2>6, PreviewsParts, PreviewsFit
<1> QED
  BY <1>1, <1>2

LEMMA ReadingFits ==
  ASSUME PreviewsInv, NEW i \in DOMAIN readings, ReadingStep(i)
  PROVE  PreviewsInv'
<1>1. readings[i] \in Recompute /\ readings[i].seen \in Rows /\ Behind(readings[i].seen)
  BY PreviewsParts DEF Recompute
<1>2. CASE StoreDerived(i)
  <2>1. memo' = [known |-> TRUE, rows |-> readings[i].seen, fresh |-> TRUE, refreshing |-> FALSE]
    BY <1>2 DEF StoreDerived, Store
  <2>2. readings' = [readings EXCEPT ![i].at = "persist"]
    BY <1>2 DEF StoreDerived
  <2>3. /\ readings' \in Seq(Recompute)
        /\ \A j \in DOMAIN readings' : Behind(readings'[j].seen)
    <3>1. [readings[i] EXCEPT !.at = "persist"] \in Recompute
      BY <1>1 DEF Recompute
    <3>2. \A j \in DOMAIN readings : readings'[j].seen = readings[j].seen
      BY <1>1, <2>2, PreviewsParts DEF Recompute
    <3>3. DOMAIN readings' = DOMAIN readings /\ \A j \in DOMAIN readings' : Behind(readings'[j].seen)
      BY <2>2, <3>2, PreviewsParts
    <3> QED
      BY <2>2, <3>1, <3>3, PreviewsParts
  <2> QED
    BY <1>1, <1>2, <2>1, <2>3, PreviewsParts, PreviewsFit DEF StoreDerived, FlagIsHeld
<1>3. CASE StoreSnapshot(i)
  <2>1. memo' = [known |-> TRUE, rows |-> readings[i].seen, fresh |-> FALSE, refreshing |-> FALSE]
    BY <1>3 DEF StoreSnapshot, Store
  <2>2. readings' = RemoveAt(readings, i)
    BY <1>3 DEF StoreSnapshot
  <2> QED
    BY <1>1, <1>3, <2>1, <2>2, Removed, PreviewsParts, PreviewsFit DEF StoreSnapshot, FlagIsHeld
<1>4. CASE WriteSnapshot(i)
  <2>1. readings' = RemoveAt(readings, i) /\ readings[i].at = "persist" /\ memo' = memo
    BY <1>4 DEF WriteSnapshot
  <2>2. FlagIsHeld'
    <3>1. SUFFICES ASSUME memo.refreshing
                   PROVE  \E j \in DOMAIN readings' :
                            readings'[j].at = "derive" /\ readings'[j].by # "cold"
      BY <2>1 DEF FlagIsHeld
    <3>2. PICK k \in DOMAIN readings : readings[k].at = "derive" /\ readings[k].by # "cold"
      BY <3>1, PreviewsParts DEF FlagIsHeld
    <3>3. PICK j \in DOMAIN readings' : readings'[j] = readings[k]
      BY <2>1, <3>2, Removed
    <3> QED
      BY <3>2, <3>3
  <2>3. snapshot' \in [known : BOOLEAN, rows : Rows] /\ snapshot'.rows = readings[i].seen
    BY <1>1, <1>4 DEF WriteSnapshot
  <2> QED
    BY <1>1, <1>4, <2>1, <2>2, <2>3, Removed, PreviewsParts, PreviewsFit DEF WriteSnapshot
<1>5. CASE ReadingFails(i)
  <2>1. readings' = RemoveAt(readings, i) /\ left'.inputs = left.inputs
    BY <1>5 DEF ReadingFails
  <2>2. memo' = IF readings[i].at = "derive" /\ readings[i].by # "cold"
                THEN [memo EXCEPT !.refreshing = FALSE] ELSE memo
    BY <1>5 DEF ReadingFails
  <2>3. /\ memo' \in [known : BOOLEAN, rows : Rows, fresh : BOOLEAN, refreshing : BOOLEAN]
        /\ memo'.rows = memo.rows
    BY <2>2, PreviewsParts
  <2>4. FlagIsHeld'
    <3>1. CASE readings[i].at = "derive" /\ readings[i].by # "cold"
      BY <2>2, <3>1, PreviewsParts DEF FlagIsHeld
    <3>2. CASE ~(readings[i].at = "derive" /\ readings[i].by # "cold")
      BY <2>1, <2>2, <3>2, Removed, PreviewsParts DEF FlagIsHeld
    <3> QED
      BY <3>1, <3>2
  <2> QED
    BY <1>5, <2>1, <2>3, <2>4, Removed, PreviewsParts, PreviewsFit DEF ReadingFails
<1> QED
  BY <1>2, <1>3, <1>4, <1>5 DEF ReadingStep

LEMMA ReadFits ==
  ASSUME PreviewsInv, ReadPreviews
  PROVE  PreviewsInv'
<1>1. UNCHANGED <<journals, due, snapshot, hub, told, left>>
  BY DEF ReadPreviews
<1>2. CASE memo.known /\ memo.fresh
  <2>1. UNCHANGED <<memo, readings>>
    BY <1>2 DEF ReadPreviews
  <2> QED
    BY <1>1, <2>1, PreviewsParts, PreviewsFit DEF FlagIsHeld
<1>3. CASE memo.known /\ ~memo.fresh
  <2>1. Refresh("read")
    BY <1>3 DEF ReadPreviews
  <2> QED
    BY <1>1, <2>1, RefreshFits, PreviewsParts
<1>4. CASE ~memo.known
  <2>1. PICK r : r = IF snapshot.known THEN Reading("cold", "load", snapshot.rows)
                     ELSE Reading("cold", "derive", journals)
    OBVIOUS
  <2>2. memo' = memo /\ readings' = Append(readings, r)
    BY <1>4, <2>1 DEF ReadPreviews
  <2>3. r \in Recompute /\ Behind(r.seen)
    BY <2>1, PreviewsParts DEF Reading, Recompute
  <2>4. FlagIsHeld'
    BY <2>2, <2>3, Appended, PreviewsParts DEF FlagIsHeld
  <2> QED
    BY <1>1, <2>2, <2>3, <2>4, Appended, PreviewsParts, PreviewsFit
<1> QED
  BY <1>2, <1>3, <1>4

LEMMA WriteFits ==
  ASSUME PreviewsInv, NEW d \in Days, WriteJournal(d)
  PROVE  PreviewsInv'
<1>1. /\ journals' = [journals EXCEPT ![d] = @ + 1] /\ due' \subseteq Days /\ told' \in Nat
      /\ UNCHANGED <<memo, snapshot, readings, left>>
  BY PreviewsParts DEF WriteJournal
<1>2. journals' \in [Days -> Nat] /\ \A e \in Days : journals[e] <= journals'[e]
  BY <1>1, PreviewsParts DEF Rows
<1>3. \A rows \in Rows : Behind(rows) => Behind(rows)'
  BY <1>2, PreviewsParts DEF Behind, Rows
<1>4. hub' \in Seq(Days)
  <2> DEFINE all == Append(hub, d)
  <2>1. all \in Seq(Days) /\ all # << >>
    <3>1. hub \in Seq(Days)
      BY PreviewsParts
    <3>2. all \in Seq(Days) /\ Len(all) = Len(hub) + 1 /\ Len(hub) \in Nat
      BY <3>1
    <3>3. Len(all) # 0
      BY <3>2
    <3> QED
      BY <3>2, <3>3, EmptySeq
  <2>2. hub' = IF Len(all) > Replay THEN Tail(all) ELSE all
    BY DEF WriteJournal
  <2> HIDE DEF all
  <2>3. Tail(all) \in Seq(Days)
    BY <2>1, HeadTailProperties
  <2> QED
    BY <2>1, <2>2, <2>3
<1>5. \A i \in DOMAIN readings : readings[i].seen \in Rows
  BY PreviewsParts DEF Recompute
<1>6. Behind(memo.rows)' /\ Behind(snapshot.rows)'
  <2>1. PICK m \in Rows, s \in Rows : m = memo.rows /\ s = snapshot.rows /\ Behind(m) /\ Behind(s)
    BY PreviewsParts
  <2>2. Behind(m)' /\ Behind(s)'
    BY <1>3, <2>1
  <2> QED
    BY <1>1, <2>1, <2>2 DEF Behind
<1>7. ASSUME NEW i \in DOMAIN readings
      PROVE  Behind(readings[i].seen)'
  <2>1. PICK m \in Rows : m = readings[i].seen /\ Behind(m)
    BY <1>5, PreviewsParts
  <2>2. Behind(m)'
    BY <1>3, <2>1
  <2> QED
    BY <1>1, <2>1, <2>2 DEF Behind
<1>8. PreviewsTypeOK'
  BY <1>1, <1>2, <1>4, <1>6, PreviewsParts DEF PreviewsTypeOK, Behind, Rows, Recompute
<1> QED
  BY <1>1, <1>7, <1>8, PreviewsParts DEF PreviewsInv, FlagIsHeld

LEMMA BootFits ==
  ASSUME PreviewsInv, Restart
  PROVE  PreviewsInv'
<1>1. PICK r : r = Reading("warmup", "derive", journals)
  OBVIOUS
<1>2. r \in Recompute /\ Behind(r.seen) /\ r.at = "derive" /\ r.by # "cold"
  BY <1>1, PreviewsParts DEF Reading, Recompute
<1>3. /\ memo' = [NoMemo EXCEPT !.refreshing = TRUE] /\ readings' = <<r>> /\ hub' = << >> /\ told' = 0
      /\ UNCHANGED <<journals, due, snapshot>> /\ left'.inputs = left.inputs
  BY <1>1 DEF Restart, Boot
<1>4. NoRows \in Rows /\ Behind(NoRows)
  BY PreviewsParts DEF NoRows, Rows, Behind
<1>5. /\ memo' \in [known : BOOLEAN, rows : Rows, fresh : BOOLEAN, refreshing : BOOLEAN]
      /\ memo'.rows = NoRows
  BY <1>3, <1>4 DEF NoMemo
<1>6. FlagIsHeld'
  BY <1>2, <1>3 DEF FlagIsHeld
<1> QED
  BY <1>2, <1>3, <1>4, <1>5, <1>6, PreviewsParts, PreviewsFit

LEMMA PreviewsStarts ==
  ASSUME PreviewsInit
  PROVE  PreviewsInv
<1>1. PICK s \in PreviewScenes : PreviewsStart(s) \/ WarmStart(s)
  BY DEF PreviewsInit
<1>2. s.left.inputs \subseteq Days /\ left = s.left
  BY <1>1, PreviewsAssumption DEF PreviewsStart, WarmStart, DiskStart
<1>3. /\ journals \in Rows /\ due = {} /\ hub = << >> /\ told = 0
      /\ \A d \in Days : journals[d] \in Nat /\ 0 <= journals[d]
  BY <1>1 DEF PreviewsStart, WarmStart, DiskStart, Rows
<1>4. NoRows \in Rows /\ Behind(NoRows) /\ Behind(journals)
  BY <1>3 DEF NoRows, Rows, Behind
<1>5. /\ memo \in [known : BOOLEAN, rows : Rows, fresh : BOOLEAN, refreshing : BOOLEAN]
      /\ memo.rows \in {NoRows, journals}
  <2>1. CASE PreviewsStart(s)
    BY <1>4, <2>1 DEF PreviewsStart, NoMemo
  <2>2. CASE WarmStart(s)
    BY <1>3, <2>2 DEF WarmStart
  <2> QED
    BY <1>1, <2>1, <2>2
<1>6. snapshot \in [known : BOOLEAN, rows : Rows] /\ snapshot.rows \in {NoRows, journals}
  <2>1. \/ snapshot = [known |-> FALSE, rows |-> NoRows]
        \/ snapshot = [known |-> TRUE, rows |-> journals]
    BY <1>1 DEF PreviewsStart, WarmStart
  <2>2. CASE snapshot = [known |-> FALSE, rows |-> NoRows]
    BY <1>4, <2>2
  <2>3. CASE snapshot = [known |-> TRUE, rows |-> journals]
    BY <1>3, <2>3
  <2> QED
    BY <2>1, <2>2, <2>3
<1>7. PICK r : r = Reading("warmup", "derive", journals)
  OBVIOUS
<1>8. r \in Recompute /\ r.seen = journals /\ r.at = "derive" /\ r.by # "cold"
  BY <1>3, <1>7 DEF Reading, Recompute
<1>9. readings = <<r>> \/ (readings = << >> /\ memo.refreshing = FALSE)
  BY <1>1, <1>7 DEF PreviewsStart, WarmStart
<1>10. readings \in Seq(Recompute) /\ \A i \in DOMAIN readings : readings[i].seen = journals
  <2>1. CASE readings = <<r>>
    BY <1>8, <2>1
  <2>2. CASE readings = << >>
    BY <2>2
  <2> QED
    BY <1>9, <2>1, <2>2
<1>11. FlagIsHeld
  BY <1>8, <1>9 DEF FlagIsHeld
<1>12. PreviewsTypeOK
  BY <1>3, <1>4, <1>5, <1>6, <1>10 DEF PreviewsTypeOK, Rows, Recompute, Behind
<1> QED
  BY <1>2, <1>4, <1>10, <1>11, <1>12 DEF PreviewsInv

LEMMA PreviewsStep == PreviewsInv /\ [PreviewsNext]_previewVars => PreviewsInv'
<1> SUFFICES ASSUME PreviewsInv, [PreviewsNext]_previewVars
             PROVE  PreviewsInv'
  OBVIOUS
<1>1. CASE \E i \in DOMAIN readings : ReadingStep(i)
  BY <1>1, ReadingFits
<1>2. CASE Expire
  BY <1>2, PreviewsParts, PreviewsFit DEF Expire, FlagIsHeld
<1>3. CASE SyncDay
  BY <1>3, RefreshFits, PreviewsParts DEF SyncDay
<1>4. CASE PassEnds
  BY <1>4, RefreshFits, PreviewsParts DEF PassEnds
<1>5. ASSUME NEW d \in Days, Record(d)
      PROVE  PreviewsInv'
  BY <1>5, PreviewsParts, PreviewsFit DEF Record, FlagIsHeld
<1>6. CASE ReadPreviews \/ Restart \/ \E d \in Days : WriteJournal(d)
  BY <1>6, ReadFits, BootFits, WriteFits
<1>7. CASE UNCHANGED previewVars
  BY <1>7, PreviewsParts, PreviewsFit DEF previewVars, FlagIsHeld
<1> QED
  BY <1>1, <1>2, <1>3, <1>4, <1>5, <1>6, <1>7 DEF PreviewsNext, ServerStep

\* The rows that are served, and the snapshot the next boot starts from, never
\* show more of a day than was written of it, whatever recomputes overlap, fail
\* or are cut off (lib/lifelog/Views.ts, previewsMemo and writeSnapshot).
THEOREM PreviewsAreTyped == PreviewsSpec => []PreviewsTypeOK
<1>1. PreviewsInit => PreviewsInv
  BY PreviewsStarts
<1>2. PreviewsInv => PreviewsTypeOK
  BY DEF PreviewsInv
<1> QED
  BY <1>1, <1>2, PreviewsStep, PTL DEF PreviewsSpec

\* The flag that keeps a second recompute from starting is never left standing
\* by one that is gone: were it, the rows would stay as they are for good
\* (lib/lifelog/Views.ts, refreshDayPreviews).
THEOREM RefreshingIsHeld == PreviewsSpec => []FlagIsHeld
<1>1. PreviewsInit => PreviewsInv
  BY PreviewsStarts
<1>2. PreviewsInv => FlagIsHeld
  BY DEF PreviewsInv
<1> QED
  BY <1>1, <1>2, PreviewsStep, PTL DEF PreviewsSpec

-----------------------------------------------------------------------------
(* The previews under the page.                                            *)

\* The page is a client: whatever it does, the server's previews go on as they
\* would under some readers, so that what holds of them holds under the page.
LEMMA ServeIsAReadOrNothing ==
  ASSUME NEW c, Serve(c)
  PROVE  ReadPreviews \/ UNCHANGED previewVars
BY DEF Serve

LEMMA PageStepIsAPreviewsStep ==
  ASSUME [JournalNext]_journalVars
  PROVE  [PreviewsNext]_previewVars
<1>1. CASE \E c \in BagToSet(calls) : Serve(c)
  BY <1>1, ServeIsAReadOrNothing DEF PreviewsNext
<1>2. CASE \E c \in BagToSet(calls) : Land(c) \/ CallFails(c)
  BY <1>2 DEF Land, CallFails, RowsLand, JournalLands, TranscriptsLand, LocationLands,
              NapEnds, PageLands, Handled
<1>3. CASE ServerGoesOn
  BY <1>3 DEF ServerGoesOn, PreviewsNext
<1>4. CASE (\E r \in visit.pages : Hop(r)) \/ Dismiss \/ CloseEvent \/ HashChange
           \/ Midnight \/ Scroll
  BY <1>4 DEF Hop, Dismiss, CloseEvent, HashChange, Midnight, Scroll
<1>5. CASE \E near \in BOOLEAN : RefreshToday(near)
  BY <1>5 DEF RefreshToday
<1>6. CASE Connect \/ Drop \/ DayEvent
  BY <1>6 DEF Connect, Drop, DayEvent
<1>7. CASE UNCHANGED journalVars
  BY <1>7 DEF journalVars
<1> QED
  BY <1>1, <1>2, <1>3, <1>4, <1>5, <1>6, <1>7 DEF JournalNext

\* The site implements the previews it is served from: a page that hops,
\* scrolls, retries and loses its stream is among the readers the previews
\* allow for (lib/lifelog/client, lib/lifelog/Views.ts).
THEOREM SiteKeepsPreviews == JournalSpec => PreviewsSpec
<1>1. JournalInit => PreviewsInit
  BY DEF JournalInit
<1>2. [JournalNext]_journalVars => [PreviewsNext]_previewVars
  BY PageStepIsAPreviewsStep
<1> QED
  BY <1>1, <1>2, PTL DEF JournalSpec, JournalFairness, PreviewsSpec

-----------------------------------------------------------------------------
(* The days with a journal, newest first.                                  *)

LEMMA ShownFinite ==
  ASSUME NEW rows \in Rows
  PROVE  /\ IsFiniteSet(Shown(rows)) /\ Cardinality(Shown(rows)) \in Nat
         /\ Shown(rows) \subseteq Days /\ Shown(rows) \subseteq Nat
<1>1. Shown(rows) \in SUBSET Days /\ IsFiniteSet(Days) /\ Days \subseteq Nat
  BY PreviewsAssumption DEF Shown
<1> QED BY <1>1, FS_Subset, FS_CardinalityType

\* The days above one of a finite set of days, counted.
Above(S, d) == {e \in S : e > d}

LEMMA AboveCounts ==
  ASSUME NEW S, IsFiniteSet(S), S \subseteq Nat, NEW d \in S
  PROVE  /\ IsFiniteSet(Above(S, d)) /\ Cardinality(Above(S, d)) \in Nat
         /\ Cardinality(Above(S, d)) < Cardinality(S)
<1>1. Above(S, d) \in SUBSET S /\ d \notin Above(S, d)
  BY DEF Above
<1>2. /\ IsFiniteSet(Above(S, d)) /\ Cardinality(Above(S, d)) <= Cardinality(S)
      /\ Cardinality(S) # Cardinality(Above(S, d))
  BY <1>1, FS_Subset
<1>3. Cardinality(Above(S, d)) \in Nat /\ Cardinality(S) \in Nat
  BY <1>2, FS_CardinalityType
<1> QED BY <1>2, <1>3

LEMMA AboveShrinks ==
  ASSUME NEW S, IsFiniteSet(S), S \subseteq Nat, NEW d \in S, NEW e \in S, d > e
  PROVE  Cardinality(Above(S, d)) < Cardinality(Above(S, e))
<1>1. Above(S, d) \in SUBSET Above(S, e) /\ d \in Above(S, e) /\ d \notin Above(S, d)
  <2>1. d \in Nat /\ e \in Nat /\ \A x \in S : x \in Nat
    OBVIOUS
  <2>2. \A x \in S : x > d => x > e
    BY <2>1
  <2>3. ~(d > d)
    BY <2>1
  <2>4. Above(S, d) \in SUBSET Above(S, e)
    BY <2>2 DEF Above
  <2> QED BY <2>3, <2>4 DEF Above
<1>2. IsFiniteSet(Above(S, e)) /\ Cardinality(Above(S, e)) \in Nat /\ Cardinality(Above(S, d)) \in Nat
  BY AboveCounts
<1>3. /\ Cardinality(Above(S, d)) <= Cardinality(Above(S, e))
      /\ Cardinality(Above(S, e)) # Cardinality(Above(S, d))
  BY <1>1, <1>2, FS_Subset
<1> QED BY <1>2, <1>3

\* The i-th of the newest first is the day that i - 1 days are above of.
LEMMA RankIsOnto ==
  ASSUME NEW S, IsFiniteSet(S), S \subseteq Nat
  PROVE  \A i \in 1..Cardinality(S) : \E d \in S : Cardinality(Above(S, d)) = i - 1
<1> DEFINE n == Cardinality(S)
           rank == [d \in S |-> Cardinality(Above(S, d)) + 1]
<1>1. n \in Nat
  BY FS_CardinalityType
<1>2. rank \in [S -> 1..n]
  <2>1. ASSUME NEW d \in S
        PROVE  rank[d] \in 1..n
    <3>1. Cardinality(Above(S, d)) \in Nat /\ Cardinality(Above(S, d)) < n
      BY AboveCounts
    <3> QED BY <1>1, <3>1
  <2> QED BY <2>1
<1>3. ASSUME NEW d \in S, NEW e \in S, rank[d] = rank[e]
      PROVE  d = e
  <2>1. Cardinality(Above(S, d)) \in Nat /\ Cardinality(Above(S, e)) \in Nat
    BY AboveCounts
  <2>2. Cardinality(Above(S, d)) = Cardinality(Above(S, e))
    BY <1>3, <2>1
  <2>3. ASSUME d > e PROVE FALSE
    <3>1. Cardinality(Above(S, d)) < Cardinality(Above(S, e))
      BY <2>3, AboveShrinks
    <3> QED BY <2>1, <2>2, <3>1
  <2>4. ASSUME e > d PROVE FALSE
    <3>1. Cardinality(Above(S, e)) < Cardinality(Above(S, d))
      BY <2>4, AboveShrinks
    <3> QED BY <2>1, <2>2, <3>1
  <2> QED BY <2>3, <2>4
<1>4. rank \in Injection(S, 1..n)
  BY <1>2, <1>3 DEF Injection, IsInjective
<1>5. IsFiniteSet(1..n) /\ Cardinality(1..n) = n
  BY <1>1, FS_Interval
<1>6. rank \in Surjection(S, 1..n)
  BY <1>4, <1>5, FS_Injection
<1>7. \A i \in 1..n : \E d \in S : rank[d] = i
  BY <1>6 DEF Surjection
<1>8. ASSUME NEW i \in 1..n
      PROVE  \E d \in S : Cardinality(Above(S, d)) = i - 1
  <2>1. PICK d \in S : rank[d] = i
    BY <1>7
  <2>2. Cardinality(Above(S, d)) \in Nat
    BY AboveCounts
  <2> QED BY <2>1, <2>2
<1> QED BY <1>8

LEMMA SomeListing ==
  ASSUME NEW S, IsFiniteSet(S), S \subseteq Nat
  PROVE  \E listed \in [1..Cardinality(S) -> S] :
           \A i, j \in DOMAIN listed : i < j => listed[i] > listed[j]
<1> DEFINE n == Cardinality(S)
           at == [i \in 1..n |-> CHOOSE d \in S : Cardinality(Above(S, d)) = i - 1]
<1>1. \A i \in 1..n : at[i] \in S /\ Cardinality(Above(S, at[i])) = i - 1
  BY RankIsOnto
<1>2. at \in [1..n -> S]
  BY <1>1
<1>3. ASSUME NEW i \in 1..n, NEW j \in 1..n, i < j
      PROVE  at[i] > at[j]
  <2>1. Cardinality(Above(S, at[i])) = i - 1 /\ Cardinality(Above(S, at[j])) = j - 1
        /\ at[i] \in S /\ at[j] \in S
    BY <1>1
  <2>2. at[i] # at[j]
    BY <1>3, <2>1
  <2>3. ASSUME at[j] > at[i] PROVE FALSE
    <3>1. Cardinality(Above(S, at[j])) < Cardinality(Above(S, at[i]))
      BY <2>1, <2>3, AboveShrinks
    <3> QED BY <1>3, <2>1, <3>1
  <2>4. at[i] \in Nat /\ at[j] \in Nat
    BY <2>1
  <2> QED BY <2>2, <2>3, <2>4
<1> QED BY <1>2, <1>3

\* What the rest uses of the listing.
LEMMA Listing ==
  ASSUME NEW rows \in Rows
  PROVE  LET S == Shown(rows)  listed == ListedRows(rows)
         IN /\ listed \in Seq(S) /\ Len(listed) = Cardinality(S)
            /\ \A d \in S : \E i \in 1..Len(listed) :
                 listed[i] = d /\ Cardinality(Above(S, d)) = i - 1
            /\ \A i, j \in 1..Len(listed) : listed[i] > listed[j] => i < j
<1> DEFINE S == Shown(rows)
           n == Cardinality(S)
<1>1. IsFiniteSet(S) /\ n \in Nat /\ S \subseteq Nat
  BY ShownFinite
<1>2. PICK listed : listed = ListedRows(rows)
  OBVIOUS
<1>3. listed \in [1..n -> S] /\ \A i, j \in 1..n : i < j => listed[i] > listed[j]
  BY <1>1, <1>2, SomeListing DEF ListedRows
<1> HIDE DEF S
<1>4. listed \in Seq(S) /\ Len(listed) = n
  BY <1>1, <1>3
<1>5. \A i, j \in 1..n : listed[i] > listed[j] => i < j
  <2> SUFFICES ASSUME NEW i \in 1..n, NEW j \in 1..n, listed[i] > listed[j]
               PROVE  i < j
    OBVIOUS
  <2>1. listed[i] \in Nat /\ listed[j] \in Nat
    BY <1>1, <1>3
  <2>2. CASE j < i
    BY <1>3, <2>1, <2>2
  <2>3. CASE i = j
    BY <2>1, <2>3
  <2> QED BY <1>1, <2>2, <2>3
<1>6. ASSUME NEW i \in 1..n, NEW j \in 1..n, listed[i] = listed[j]
      PROVE  i = j
  <2>1. listed[i] \in Nat
    BY <1>1, <1>3
  <2>2. ~(i < j) /\ ~(j < i)
    BY <1>3, <1>6, <2>1
  <2> QED BY <2>2
<1>7. listed \in Injection(1..n, S)
  BY <1>3, <1>6 DEF Injection, IsInjective
<1>8. IsFiniteSet(1..n) /\ Cardinality(1..n) = n
  BY <1>1, FS_Interval
<1>9. listed \in Surjection(1..n, S)
  BY <1>1, <1>7, <1>8, FS_Injection DEF S
<1>10. ASSUME NEW d \in S
       PROVE  \E i \in 1..n : listed[i] = d /\ Cardinality(Above(S, d)) = i - 1
  <2>1. PICK i \in 1..n : listed[i] = d
    BY <1>9 DEF Surjection
  <2>2. Above(S, d) = {listed[j] : j \in 1..(i - 1)}
    <3>1. ASSUME NEW e \in Above(S, d)
          PROVE  e \in {listed[j] : j \in 1..(i - 1)}
      <4>1. PICK j \in 1..n : listed[j] = e
        BY <1>9 DEF Surjection, Above
      <4>2. j < i
        BY <1>5, <2>1, <4>1 DEF Above
      <4> QED BY <4>1, <4>2
    <3>2. ASSUME NEW j \in 1..(i - 1)
          PROVE  listed[j] \in Above(S, d)
      <4>1. j \in 1..n /\ j < i
        BY <1>1
      <4> QED BY <1>3, <2>1, <4>1 DEF Above
    <3> QED BY <3>1, <3>2
  <2> DEFINE f == [j \in 1..(i - 1) |-> listed[j]]
  <2>3. f \in Surjection(1..(i - 1), Above(S, d))
    BY <2>2 DEF Surjection
  <2>4. f \in Injection(1..(i - 1), Above(S, d))
    <3>1. \A j \in 1..(i - 1) : j \in 1..n
      BY <1>1
    <3>2. \A j, k \in 1..(i - 1) : f[j] = f[k] => j = k
      BY <1>6, <3>1
    <3> QED BY <2>3, <3>2 DEF Injection, Surjection, IsInjective
  <2>5. IsFiniteSet(1..(i - 1)) /\ Cardinality(1..(i - 1)) = i - 1
    <3>1. i - 1 \in Int /\ 1 \in Int /\ i - 1 >= 0
      BY <1>1
    <3>2. /\ IsFiniteSet(1..(i - 1))
          /\ Cardinality(1..(i - 1)) = IF 1 > i - 1 THEN 0 ELSE (i - 1) - 1 + 1
      BY <3>1, FS_Interval
    <3> QED BY <3>1, <3>2
  <2>6. Cardinality(Above(S, d)) = i - 1
    BY <2>3, <2>4, <2>5, FS_Surjection
  <2> QED BY <2>1, <2>6
<1> QED BY <1>2, <1>4, <1>5, <1>10 DEF S

-----------------------------------------------------------------------------
(* Windows of rows.  W are the days that had a journal all along, M those   *)
(* that are served.                                                        *)

Row == [day : Days, edition : Nat \ {0}]
DaysIn(source) == {source[i].day : i \in DOMAIN source}

\* No day is missing above one of the window, nor among as many of the newest
\* as the window is long.
Lined(source, W, M) ==
  \A d \in W :
    /\ \A e \in DaysIn(source) : d > e => d \in DaysIn(source)
    /\ Cardinality(Above(M, d)) < Len(source) => d \in DaysIn(source)

LEMMA AboveIsFinite ==
  ASSUME NEW M, IsFiniteSet(M), NEW d
  PROVE  IsFiniteSet(Above(M, d)) /\ Cardinality(Above(M, d)) \in Nat
<1>1. Above(M, d) \in SUBSET M
  BY DEF Above
<1> QED BY <1>1, FS_Subset, FS_CardinalityType

LEMMA NoRowsLined ==
  ASSUME NEW W, NEW M, IsFiniteSet(M)
  PROVE  Lined(<< >>, W, M)
<1>1. DaysIn(<< >>) = {} /\ Len(<< >>) = 0
  BY DEF DaysIn
<1>2. ASSUME NEW d \in W
      PROVE  ~(Cardinality(Above(M, d)) < 0)
  <2>1. Cardinality(Above(M, d)) \in Nat
    BY AboveIsFinite
  <2> QED BY <2>1
<1> QED BY <1>1, <1>2 DEF Lined

\* More days are served: the window is as good as it was.
LEMMA LinedGrows ==
  ASSUME NEW W, NEW M, NEW N, IsFiniteSet(N), M \subseteq N,
         NEW source \in Seq(Row), Lined(source, W, M)
  PROVE  Lined(source, W, N)
<1>1. ASSUME NEW d \in W, Cardinality(Above(N, d)) < Len(source)
      PROVE  Cardinality(Above(M, d)) < Len(source)
  <2>1. Above(M, d) \in SUBSET Above(N, d) /\ IsFiniteSet(Above(N, d))
        /\ Cardinality(Above(N, d)) \in Nat
    BY AboveIsFinite DEF Above
  <2>2. IsFiniteSet(Above(M, d)) /\ Cardinality(Above(M, d)) <= Cardinality(Above(N, d))
    BY <2>1, FS_Subset
  <2>3. Cardinality(Above(M, d)) \in Nat /\ Len(source) \in Nat
    BY <2>2, FS_CardinalityType
  <2> QED BY <1>1, <2>1, <2>2, <2>3
<1> QED BY <1>1 DEF Lined

LEMMA IsASequence ==
  ASSUME NEW T, NEW n \in Nat, NEW f \in [1..n -> T]
  PROVE  f \in Seq(T) /\ Len(f) = n
OBVIOUS

\* The rows of a piece of the listing.
Piece(rows, a, b) ==
  LET days == SubSeq(ListedRows(rows), a + 1, b)
  IN [i \in DOMAIN days |-> [day |-> days[i], edition |-> rows[days[i]]]]

LEMMA PieceOfListing ==
  ASSUME NEW rows \in Rows, NEW a \in Nat, NEW b \in Nat, b <= Len(ListedRows(rows))
  PROVE  LET window == Piece(rows, a, b)
         IN /\ window \in Seq(Row)
            /\ Len(window) = IF a < b THEN b - a ELSE 0
            /\ \A i \in 1..Len(window) : window[i].day = ListedRows(rows)[a + i]
<1>1. PICK window : window = Piece(rows, a, b)
  OBVIOUS
<1> DEFINE S == Shown(rows)
<1>2. PICK listed : listed = ListedRows(rows)
  OBVIOUS
<1>3. listed \in Seq(S) /\ Len(listed) \in Nat
  BY <1>2, Listing
<1> DEFINE piece == SubSeq(listed, a + 1, b)
<1>4. \A d \in S : d \in Days /\ rows[d] \in Nat \ {0}
  BY DEF Shown, Rows
<1> HIDE DEF S
<1>5. \A i \in (a + 1)..b : listed[i] \in S
  BY <1>2, <1>3
<1>6. /\ piece \in Seq(S) /\ Len(piece) = IF a + 1 <= b THEN b - (a + 1) + 1 ELSE 0
      /\ \A i \in 1..(b - (a + 1) + 1) : piece[i] = listed[(a + 1) + i - 1]
  <2>1. a + 1 \in Int /\ b \in Int
    OBVIOUS
  <2> QED BY <1>2, <1>5, <2>1, SubSeqProperties
<1>7. window = [i \in DOMAIN piece |-> [day |-> piece[i], edition |-> rows[piece[i]]]]
  BY <1>1, <1>2 DEF Piece
<1> HIDE DEF piece
<1>8. DOMAIN piece = 1..Len(piece) /\ Len(piece) \in Nat /\ \A i \in DOMAIN piece : piece[i] \in S
  BY <1>6
<1>9. \A i \in DOMAIN piece : [day |-> piece[i], edition |-> rows[piece[i]]] \in Row
  BY <1>4, <1>8 DEF Row
<1>10. window \in Seq(Row) /\ Len(window) = Len(piece)
  <2>1. window \in [1..Len(piece) -> Row]
    BY <1>8, <1>9, <1>7
  <2> QED BY <1>8, <2>1, IsASequence
<1>11. ASSUME NEW i \in 1..Len(window)
      PROVE  window[i].day = ListedRows(rows)[a + i]
  <2>1. i \in DOMAIN piece /\ window[i].day = piece[i]
    BY <1>8, <1>10, <1>7
  <2>2. i \in 1..(b - (a + 1) + 1) /\ (a + 1) + i - 1 = a + i
    BY <1>6, <1>8, <1>10, <2>1
  <2> QED BY <1>2, <1>6, <2>1, <2>2
<1>12. (IF a + 1 <= b THEN b - (a + 1) + 1 ELSE 0) = IF a < b THEN b - a ELSE 0
  OBVIOUS
<1> QED BY <1>1, <1>6, <1>10, <1>11, <1>12

LEMMA WindowIs ==
  ASSUME NEW rows \in Rows, NEW c, c.at \in Nat, NEW window, window = Window(c, rows)
  PROVE  LET n == Len(ListedRows(rows))
             a == IF c.ask = "page" THEN c.at ELSE 0
             last == IF c.ask = "page" THEN c.at + PageSize ELSE c.at
             b == IF last < n THEN last ELSE n
         IN /\ a \in Nat /\ b \in Nat /\ n \in Nat /\ b <= n
            /\ window \in Seq(Row) /\ Len(window) = IF a < b THEN b - a ELSE 0
            /\ \A i \in 1..Len(window) : window[i].day = ListedRows(rows)[a + i]
<1> DEFINE n == Len(ListedRows(rows))
           a == IF c.ask = "page" THEN c.at ELSE 0
           last == IF c.ask = "page" THEN c.at + PageSize ELSE c.at
           b == IF last < n THEN last ELSE n
<1>1. n \in Nat /\ PageSize \in Nat
  BY Listing, ClientAssumption
<1>2. a \in Nat /\ last \in Nat /\ b \in Nat /\ b <= n
  BY <1>1
<1>3. window = Piece(rows, a, b)
  <2>1. CASE c.ask = "page"
    BY <2>1 DEF Window, Piece
  <2>2. CASE c.ask # "page"
    <3>1. a + 1 = 1
      BY <2>2
    <3> QED BY <2>2, <3>1 DEF Window, Piece
  <2> QED BY <2>1, <2>2
<1> HIDE DEF a, b, last
<1>4. /\ window \in Seq(Row) /\ Len(window) = IF a < b THEN b - a ELSE 0
      /\ \A i \in 1..Len(window) : window[i].day = ListedRows(rows)[a + i]
  <2>1. PICK x \in Nat, y \in Nat : x = a /\ y = b
    BY <1>2
  <2>2. y <= Len(ListedRows(rows)) /\ window = Piece(rows, x, y)
    BY <1>2, <1>3, <2>1
  <2> HIDE DEF n
  <2>3. Piece(rows, x, y) \in Seq(Row)
    BY <2>2, PieceOfListing
  <2>4. Len(Piece(rows, x, y)) = IF x < y THEN y - x ELSE 0
    BY <2>2, PieceOfListing
  <2>5. \A i \in 1..Len(Piece(rows, x, y)) : Piece(rows, x, y)[i].day = ListedRows(rows)[x + i]
    BY <2>2, PieceOfListing
  <2>6. /\ window \in Seq(Row) /\ Len(window) = IF x < y THEN y - x ELSE 0
        /\ \A i \in 1..Len(window) : window[i].day = ListedRows(rows)[x + i]
    BY <2>2, <2>3, <2>4, <2>5
  <2> QED BY <2>1, <2>6
<1> QED BY <1>1, <1>2, <1>4 DEF a, b, last

\* A refetch is lined up by itself.
LEMMA RefetchLines ==
  ASSUME NEW rows \in Rows, NEW W, W \subseteq Shown(rows),
         NEW c, c.ask # "page", c.at \in Nat, NEW window, window = Window(c, rows)
  PROVE  window \in Seq(Row) /\ Lined(window, W, Shown(rows))
<1> DEFINE S == Shown(rows)
           listed == ListedRows(rows)
           n == Len(listed)
           b == IF c.at < n THEN c.at ELSE n
<1>1. /\ n \in Nat /\ b \in Nat /\ b <= n /\ window \in Seq(Row) /\ Len(window) = b
      /\ \A i \in 1..Len(window) : window[i].day = listed[i]
  <2>1. /\ n \in Nat /\ b \in Nat /\ b <= n /\ window \in Seq(Row)
        /\ Len(window) = IF 0 < b THEN b - 0 ELSE 0
        /\ \A i \in 1..Len(window) : window[i].day = listed[0 + i]
    BY WindowIs
  <2> QED BY <2>1
<1>2. /\ \A d \in S : \E i \in 1..n : listed[i] = d /\ Cardinality(Above(S, d)) = i - 1
      /\ \A i, j \in 1..n : listed[i] > listed[j] => i < j
  BY Listing
<1> HIDE DEF S, listed, n, b
<1>3. DaysIn(window) = {listed[i] : i \in 1..b}
  BY <1>1 DEF DaysIn
<1>4. ASSUME NEW d \in W
      PROVE  /\ \A e \in DaysIn(window) : d > e => d \in DaysIn(window)
             /\ Cardinality(Above(S, d)) < Len(window) => d \in DaysIn(window)
  <2>1. PICK i \in 1..n : listed[i] = d /\ Cardinality(Above(S, d)) = i - 1
    BY <1>2 DEF S
  <2>2. ASSUME NEW e \in DaysIn(window), d > e
        PROVE  d \in DaysIn(window)
    <3>1. PICK j \in 1..b : listed[j] = e
      BY <1>3
    <3>2. j \in 1..n /\ i < j
      BY <1>1, <1>2, <2>1, <2>2, <3>1
    <3>3. i \in 1..b
      BY <1>1, <3>1, <3>2
    <3> QED BY <1>3, <2>1, <3>3
  <2>3. ASSUME Cardinality(Above(S, d)) < Len(window)
        PROVE  d \in DaysIn(window)
    <3>1. i \in 1..b
      BY <1>1, <2>1, <2>3
    <3> QED BY <1>3, <2>1, <3>1
  <2> QED BY <2>2, <2>3
<1> QED BY <1>1, <1>4 DEF Lined, S

\* The page that is asked for at the end of a window carries it on.
LEMMA PageLines ==
  ASSUME NEW rows \in Rows, NEW W, W \subseteq Shown(rows),
         NEW source \in Seq(Row), Lined(source, W, Shown(rows)),
         NEW c, c.ask = "page", c.at = Len(source), NEW window, window = Window(c, rows)
  PROVE  window \in Seq(Row) /\ Lined(source \o window, W, Shown(rows))
<1> DEFINE S == Shown(rows)
           listed == ListedRows(rows)
           n == Len(listed)
           k == Len(source)
           b == IF k + PageSize < n THEN k + PageSize ELSE n
           grown == source \o window
<1>1. /\ k \in Nat /\ n \in Nat /\ b \in Nat /\ b <= n /\ window \in Seq(Row)
      /\ Len(window) = IF k < b THEN b - k ELSE 0
      /\ \A i \in 1..Len(window) : window[i].day = listed[k + i]
  BY WindowIs
<1>2. /\ \A d \in S : \E i \in 1..n : listed[i] = d /\ Cardinality(Above(S, d)) = i - 1
      /\ \A i, j \in 1..n : listed[i] > listed[j] => i < j
  BY Listing
<1>3. /\ grown \in Seq(Row) /\ Len(grown) = k + Len(window)
      /\ \A i \in 1..(k + Len(window)) : grown[i] = IF i <= k THEN source[i] ELSE window[i - k]
  <2>1. PICK w \in Seq(Row) : w = window
    BY <1>1
  <2>2. PICK g : g = source \o w
    OBVIOUS
  <2>3. g \in Seq(Row) /\ Len(g) = Len(source) + Len(w)
    BY <2>2, ConcatProperties, Zenon
  <2>4. \A i \in 1..(Len(source) + Len(w)) :
          g[i] = IF i <= Len(source) THEN source[i] ELSE w[i - Len(source)]
    BY <2>2, ConcatProperties, Zenon
  <2> QED BY <2>1, <2>2, <2>3, <2>4
<1> HIDE DEF S, listed, n, b, grown
<1>4. DaysIn(grown) = DaysIn(source) \cup DaysIn(window)
  <2>1. ASSUME NEW e \in DaysIn(grown)
        PROVE  e \in DaysIn(source) \cup DaysIn(window)
    <3>1. PICK i \in 1..(k + Len(window)) : grown[i].day = e
      BY <1>3 DEF DaysIn
    <3>2. CASE i <= k
      <4>1. i \in 1..Len(source) /\ grown[i] = source[i]
        BY <1>1, <1>3, <3>2
      <4> QED BY <3>1, <4>1 DEF DaysIn
    <3>3. CASE i > k
      <4>1. i - k \in 1..Len(window) /\ grown[i] = window[i - k]
        BY <1>1, <1>3, <3>3
      <4> QED BY <1>1, <3>1, <4>1 DEF DaysIn
    <3> QED BY <1>1, <3>2, <3>3
  <2>2. ASSUME NEW e \in DaysIn(source)
        PROVE  e \in DaysIn(grown)
    <3>1. PICK i \in 1..k : source[i].day = e
      BY DEF DaysIn
    <3>2. i \in 1..(k + Len(window)) /\ grown[i] = source[i]
      BY <1>1, <1>3
    <3> QED BY <1>3, <3>1, <3>2 DEF DaysIn
  <2>3. ASSUME NEW e \in DaysIn(window)
        PROVE  e \in DaysIn(grown)
    <3>1. PICK i \in 1..Len(window) : window[i].day = e
      BY <1>1 DEF DaysIn
    <3>2. k + i \in 1..(k + Len(window)) /\ ~(k + i <= k) /\ (k + i) - k = i
      BY <1>1
    <3>3. grown[k + i] = window[i]
      BY <1>3, <3>2
    <3> QED BY <1>3, <3>1, <3>2, <3>3 DEF DaysIn
  <2> QED BY <2>1, <2>2, <2>3
<1>5. \A i \in 1..n : k < i /\ i <= b => listed[i] \in DaysIn(window)
  <2> SUFFICES ASSUME NEW i \in 1..n, k < i, i <= b
               PROVE  listed[i] \in DaysIn(window)
    OBVIOUS
  <2>1. i - k \in 1..Len(window) /\ k + (i - k) = i
    BY <1>1
  <2>2. window[i - k].day = listed[i]
    BY <1>1, <2>1
  <2> QED BY <1>1, <2>1, <2>2 DEF DaysIn
<1>6. \A e \in DaysIn(window) : \E j \in 1..n : k < j /\ j <= b /\ listed[j] = e
  <2> SUFFICES ASSUME NEW e \in DaysIn(window)
               PROVE  \E j \in 1..n : k < j /\ j <= b /\ listed[j] = e
    OBVIOUS
  <2>1. PICK i \in 1..Len(window) : window[i].day = e
    BY <1>1 DEF DaysIn
  <2>2. k + i \in 1..n /\ k < k + i /\ k + i <= b /\ listed[k + i] = e
    BY <1>1, <2>1
  <2> QED BY <2>2
<1>7. ASSUME NEW d \in W
      PROVE  /\ \A e \in DaysIn(grown) : d > e => d \in DaysIn(grown)
             /\ Cardinality(Above(S, d)) < Len(grown) => d \in DaysIn(grown)
  <2>1. PICK i \in 1..n : listed[i] = d /\ Cardinality(Above(S, d)) = i - 1
    BY <1>2 DEF S
  <2>2. i <= k => d \in DaysIn(source)
    BY <1>1, <2>1 DEF Lined, S
  <2>3. i <= b => d \in DaysIn(grown)
    BY <1>1, <1>4, <1>5, <2>1, <2>2
  <2>4. ASSUME NEW e \in DaysIn(grown), d > e
        PROVE  d \in DaysIn(grown)
    <3>1. CASE e \in DaysIn(source)
      BY <1>4, <2>4, <3>1 DEF Lined
    <3>2. CASE e \in DaysIn(window)
      <4>1. PICK j \in 1..n : j <= b /\ listed[j] = e
        BY <1>6, <3>2
      <4>2. i < j
        BY <1>2, <2>1, <2>4, <4>1
      <4> QED BY <1>1, <2>3, <4>1, <4>2
    <3> QED BY <1>4, <3>1, <3>2
  <2>5. ASSUME Cardinality(Above(S, d)) < Len(grown)
        PROVE  d \in DaysIn(grown)
    <3>1. i <= k + Len(window)
      BY <1>1, <1>3, <2>1, <2>5
    <3>2. i <= k \/ i <= b
      BY <1>1, <3>1
    <3> QED BY <1>4, <2>2, <2>3, <3>2
  <2> QED BY <2>4, <2>5
<1> QED BY <1>1, <1>7 DEF Lined, S, grown

-----------------------------------------------------------------------------
(* The types of the page and of its calls.                                 *)

Reports == Nat \cup {Loading, Writing}
Modal == [open : BOOLEAN, title : Days \cup {0}, day : Days \cup {0}, report : Reports]
View == [mount : {"none", "list", "places", "search", "error"}, table : BOOLEAN,
         source : Seq(Row), top : Days \cup {0}, exhausted : BOOLEAN,
         generation : Nat, modal : Modal]
CallRecord ==
  [ask : Asks, day : Days \cup {0}, at : Nat, gen : Nat, report : Reports, caught : BOOLEAN,
   poll : BOOLEAN, route : Routes, served : BOOLEAN, rows : Seq(Row)]

OfADay == {"journal", "transcripts", "location", "nap"}
CallTyped(c) == c \in CallRecord /\ (c.ask \in OfADay => c.day \in Days)
Typed(p) == p.view \in View /\ \A c \in BagToSet(p.calls) : CallTyped(c)

\* The rows of the window and of the calls are lined up.
CallLined(source, c, W, M) ==
  /\ c.ask = "refetch" /\ c.served => Lined(c.rows, W, M)
  /\ c.ask = "page" => /\ c.at = Len(source)
                       /\ c.served => Lined(source \o c.rows, W, M)

Lines(p, W, M) ==
  Lined(p.view.source, W, M) /\ \A c \in BagToSet(p.calls) : CallLined(p.view.source, c, W, M)

\* What most of the page's code does to them: it drops calls, asks new ones,
\* and starts the window anew once no page of the old one is under way.
Fresh(source, c) == c.served = FALSE /\ (c.ask = "page" => c.at = Len(source))

Follows(p, q) ==
  /\ q.view.source = p.view.source \/ q.view.source = << >>
  /\ \A c \in BagToSet(q.calls) :
       \/ /\ c \in BagToSet(p.calls)
          /\ q.view.source = p.view.source \/ c.ask # "page"
       \/ Fresh(q.view.source, c)

LEMMA FollowsOn ==
  ASSUME NEW p, NEW q, NEW r, Follows(p, q), Follows(q, r)
  PROVE  Follows(p, r)
<1>1. CASE r.view.source = q.view.source
  BY <1>1 DEF Follows
<1>2. CASE r.view.source # q.view.source
  BY <1>2 DEF Follows, Fresh
<1> QED BY <1>1, <1>2

LEMMA FollowsLined ==
  ASSUME NEW p, NEW q, Follows(p, q), NEW W, NEW M, IsFiniteSet(M), Lines(p, W, M)
  PROVE  Lines(q, W, M)
<1>1. Lined(q.view.source, W, M)
  BY NoRowsLined DEF Follows, Lines
<1>2. \A c \in BagToSet(q.calls) : CallLined(q.view.source, c, W, M)
  BY DEF Follows, Lines, Fresh, CallLined
<1> QED BY <1>1, <1>2 DEF Lines

\* A change of the view that leaves the window and the calls alone.
LEMMA FollowsView ==
  ASSUME NEW p, NEW q, q.calls = p.calls, q.view.source = p.view.source
  PROVE  Follows(p, q)
BY DEF Follows

LEMMA CallsAreTyped ==
  ASSUME NEW ask \in Asks
  PROVE  Call(ask) \in CallRecord
<1>1. To("list") \in Routes /\ << >> \in Seq(Row)
  BY DEF Routes
<1> QED BY <1>1 DEF Call, CallRecord, Reports, Loading

LEMMA AskedTyped ==
  ASSUME NEW p, PageFits(p), Typed(p), NEW call, CallTyped(call), Fresh(p.view.source, call),
         call.ask = "page" => ~PageInFlight(p.calls) /\ call.gen = p.view.generation
  PROVE  PageFits(Asked(p, call)) /\ Typed(Asked(p, call)) /\ Follows(p, Asked(p, call))
         /\ Asked(p, call).view = p.view
<1>1. {"ask", "gen"} \subseteq DOMAIN call
  BY DEF CallTyped, CallRecord
<1>2. PICK q : q = Asked(p, call)
  OBVIOUS
<1>3. /\ PageFits(q) /\ q.view = p.view
      /\ BagToSet(q.calls) = BagToSet(p.calls) \cup {call}
  BY <1>1, <1>2, AskedFits
<1>4. Typed(q)
  BY <1>3 DEF Typed
<1>5. Follows(p, q)
  BY <1>3 DEF Follows
<1> QED BY <1>2, <1>3, <1>4, <1>5

LEMMA PageLoadedTyped ==
  ASSUME NEW p, PageFits(p), Typed(p)
  PROVE  Typed(PageLoaded(p)) /\ Follows(p, PageLoaded(p)) /\ PageLoaded(p).view = p.view
<1>1. PICK call : call = [Call("page") EXCEPT !.at = Len(p.view.source), !.gen = p.view.generation]
  OBVIOUS
<1>2. CASE PageInFlight(p.calls) \/ p.view.exhausted
  BY <1>2 DEF PageLoaded, Follows
<1>3. CASE ~(PageInFlight(p.calls) \/ p.view.exhausted)
  <2>1. Len(p.view.source) \in Nat /\ p.view.generation \in Nat
    BY DEF Typed, View
  <2>2. call \in CallRecord /\ call.ask = "page"
    <3>1. Call("page") \in CallRecord
      BY CallsAreTyped DEF Asks
    <3> QED BY <1>1, <2>1, <3>1 DEF CallRecord, Call
  <2>3. CallTyped(call) /\ call.at = Len(p.view.source) /\ call.gen = p.view.generation /\ call.served = FALSE
    BY <1>1, <2>2 DEF CallTyped, OfADay, Call
  <2>4. PageLoaded(p) = Asked(p, call)
    BY <1>1, <1>3 DEF PageLoaded
  <2> QED BY <1>3, <2>2, <2>3, <2>4, AskedTyped DEF Fresh
<1> QED BY <1>2, <1>3

LEMMA PaintedTyped ==
  ASSUME NEW p, PageFits(p), Typed(p), NEW near \in BOOLEAN
  PROVE  Typed(Painted(p, near)) /\ Follows(p, Painted(p, near))
<1>1. Follows(p, p)
  BY DEF Follows
<1> QED BY <1>1, PageLoadedTyped DEF Painted

LEMMA CancelledTyped ==
  ASSUME NEW p, PageFits(p), Typed(p)
  PROVE  /\ Typed(Cancelled(p)) /\ Follows(p, Cancelled(p))
         /\ \A c \in BagToSet(Cancelled(p).calls) : c \in BagToSet(p.calls) /\ c.ask # "page"
<1>1. PICK q : q = Cancelled(p)
  OBVIOUS
<1>2. /\ q.view = [p.view EXCEPT !.generation = @ + 1]
      /\ q.calls = Restrict(p.calls, {c \in BagToSet(p.calls) : c.ask # "page"})
  BY <1>1 DEF Cancelled
<1>3. \A c \in BagToSet(q.calls) : c \in BagToSet(p.calls) /\ c.ask # "page"
  BY <1>2 DEF Restrict, BagToSet
<1>4. q.view \in View /\ q.view.source = p.view.source
  BY <1>2 DEF Typed, View
<1> QED BY <1>1, <1>3, <1>4 DEF Typed, Follows

LEMMA TabledTyped ==
  ASSUME NEW p, PageFits(p), Typed(p)
  PROVE  Typed(Tabled(p)) /\ Follows(p, Tabled(p))
<1>1. PICK q : q = Cancelled(p)
  OBVIOUS
<1>2. PICK r : r = [q EXCEPT !.view = [@ EXCEPT !.mount = "list", !.table = TRUE,
                                         !.source = <<>>, !.top = 0, !.exhausted = FALSE]]
  OBVIOUS
<1>3. /\ PageFits(q) /\ Typed(q) /\ Follows(p, q) /\ ~PageInFlight(q.calls)
      /\ \A c \in BagToSet(q.calls) : c.ask # "page"
  BY <1>1, CancelledFits, CancelledTyped
<1>4. /\ r.calls = q.calls /\ DOMAIN r = {"view", "calls"}
      /\ r.view = [q.view EXCEPT !.mount = "list", !.table = TRUE,
                                 !.source = <<>>, !.top = 0, !.exhausted = FALSE]
  BY <1>2, <1>3 DEF PageFits
<1>5. r.view \in View /\ r.view.source = << >> /\ r.view.generation = q.view.generation
  <2>1. << >> \in Seq(Row)
    OBVIOUS
  <2>2. PICK v : v = q.view /\ v \in View
    BY <1>3 DEF Typed
  <2> QED BY <1>4, <2>1, <2>2 DEF View
<1>6. DOMAIN r.view = DOMAIN q.view /\ r.view.modal = q.view.modal
  BY <1>4, <1>5, <1>3 DEF Typed, View
<1>7. PageFits(r) /\ Typed(r) /\ Follows(q, r)
  BY <1>3, <1>4, <1>5, <1>6 DEF PageFits, ViewFits, OneTail, Typed, Follows
<1>8. Tabled(p) = PageLoaded(r)
  BY <1>1, <1>2 DEF Tabled
<1>9. Typed(PageLoaded(r)) /\ Follows(r, PageLoaded(r))
  BY <1>7, PageLoadedTyped
<1>10. Follows(p, PageLoaded(r))
  BY <1>3, <1>7, <1>9, FollowsOn
<1> QED BY <1>8, <1>9, <1>10

LEMMA ShutTyped ==
  ASSUME NEW p, PageFits(p), Typed(p)
  PROVE  Typed(Shut(p)) /\ Follows(p, Shut(p))
<1>1. PICK q : q = Shut(p)
  OBVIOUS
<1>2. q.calls = p.calls /\ q.view = [p.view EXCEPT !.modal.open = FALSE]
  BY <1>1 DEF Shut, PageFits
<1>3. q.view \in View /\ q.view.source = p.view.source
  BY <1>2 DEF Typed, View, Modal
<1> QED BY <1>1, <1>2, <1>3 DEF Typed, Follows

LEMMA ReplacedTyped ==
  ASSUME NEW p, PageFits(p), Typed(p), NEW page \in {"places", "search"}
  PROVE  Typed(Replaced(p, page)) /\ Follows(p, Replaced(p, page))
<1>1. PICK q : q = Cancelled(p)
  OBVIOUS
<1>2. PICK r : r = [q EXCEPT !.view = [@ EXCEPT !.mount = page, !.table = FALSE]]
  OBVIOUS
<1>3. PageFits(q) /\ Typed(q) /\ Follows(p, q)
  BY <1>1, CancelledFits, CancelledTyped
<1>4. /\ r.calls = q.calls /\ DOMAIN r = {"view", "calls"}
      /\ r.view = [q.view EXCEPT !.mount = page, !.table = FALSE]
  BY <1>2, <1>3 DEF PageFits
<1>5. /\ r.view \in View /\ r.view.source = q.view.source
      /\ r.view.generation = q.view.generation /\ r.view.modal = q.view.modal
  BY <1>3, <1>4 DEF Typed, View
<1>6. PageFits(r) /\ Typed(r) /\ Follows(q, r)
  BY <1>3, <1>4, <1>5 DEF PageFits, ViewFits, OneTail, Typed, Follows
<1>7. PICK call : call = Call(page)
  OBVIOUS
<1>8. CallTyped(call) /\ call.ask # "page" /\ Fresh(r.view.source, call)
  <2>1. call \in CallRecord
    BY <1>7, CallsAreTyped DEF Asks
  <2> QED BY <1>7, <2>1 DEF Call, CallTyped, OfADay, Fresh
<1>9. Typed(Asked(r, call)) /\ Follows(r, Asked(r, call))
  BY <1>6, <1>8, AskedTyped
<1>10. Replaced(p, page) = Asked(r, call)
  BY <1>1, <1>2, <1>7 DEF Replaced
<1>11. Follows(p, Asked(r, call))
  BY <1>3, <1>6, <1>9, FollowsOn
<1> QED BY <1>9, <1>10, <1>11

\* A row of the window has a report, of its last copy.
LEMMA EmbeddedIs ==
  ASSUME NEW v, v.source \in Seq(Row), NEW d
  PROVE  Embedded(v, d) \in Nat
<1> DEFINE copies == {i \in DOMAIN v.source : v.source[i].day = d}
<1>1. CASE d \in RowDays(v) /\ copies # {}
  <2>1. copies \in SUBSET (1..Len(v.source)) /\ Len(v.source) \in Nat
    OBVIOUS
  <2>2. IsFiniteSet(copies) /\ copies \subseteq Nat
    <3>1. IsFiniteSet(1..Len(v.source))
      BY <2>1, FS_Interval
    <3> QED BY <2>1, <3>1, FS_Subset
  <2>3. 1 \in 1..Cardinality(copies)
    <3>1. Cardinality(copies) \in Nat
      BY <2>2, FS_CardinalityType
    <3>2. Cardinality(copies) # 0
      BY <1>1, <2>2, FS_EmptySet
    <3> QED BY <3>1, <3>2
  <2> HIDE DEF copies
  <2>4. PICK i \in copies : Cardinality(Above(copies, i)) = 0
    <3>1. \A n \in 1..Cardinality(copies) : \E i \in copies : Cardinality(Above(copies, i)) = n - 1
      BY <2>2, RankIsOnto
    <3>2. \E i \in copies : Cardinality(Above(copies, i)) = 1 - 1
      BY <2>3, <3>1
    <3> QED BY <3>2
  <2>5. Above(copies, i) = {}
    <3>1. IsFiniteSet(Above(copies, i))
      BY <2>2, AboveIsFinite
    <3> QED BY <2>4, <3>1, FS_EmptySet
  <2>6. \A j \in copies : j <= i
    <3> TAKE j \in copies
    <3>1. ~(j > i)
      BY <2>5 DEF Above
    <3>2. i \in Nat /\ j \in Nat
      BY <2>2
    <3> QED BY <3>1, <3>2
  <2>7. PICK k : k = CHOOSE i0 \in copies : \A j \in copies : j <= i0
    OBVIOUS
  <2>8. k \in copies
    BY <2>6, <2>7
  <2>9. v.source[k] \in Row
    BY <2>8 DEF copies
  <2>10. Embedded(v, d) = v.source[k].edition
    BY <1>1, <2>7 DEF Embedded, copies
  <2> QED BY <2>9, <2>10 DEF Row
<1>2. CASE ~(d \in RowDays(v) /\ copies # {})
  BY <1>2 DEF Embedded
<1> QED BY <1>1, <1>2

LEMMA OpenedTyped ==
  ASSUME NEW p, PageFits(p), Typed(p), NEW d \in Days, NEW caught \in BOOLEAN
  PROVE  Typed(Opened(p, d, caught)) /\ Follows(p, Opened(p, d, caught))
<1>1. PICK q : q = IF p.view.table THEN p ELSE Tabled(p)
  OBVIOUS
<1>2. PageFits(q) /\ Typed(q) /\ Follows(p, q)
  <2>1. Follows(p, p)
    BY DEF Follows
  <2> QED BY <1>1, <2>1, TabledFits, TabledTyped
<1>3. PICK known \in Nat : known = Embedded(q.view, d)
  BY <1>2, EmbeddedIs DEF Typed, View
<1>4. PICK body \in Reports : body = IF known > 0 THEN known ELSE Loading
  BY DEF Reports
<1>5. PICK r : r = [q EXCEPT !.view.modal = [open |-> TRUE, title |-> d, day |-> d, report |-> body]]
  OBVIOUS
<1>6. /\ r.calls = q.calls /\ DOMAIN r = {"view", "calls"}
      /\ r.view = [q.view EXCEPT !.modal = [open |-> TRUE, title |-> d, day |-> d, report |-> body]]
  BY <1>2, <1>5 DEF PageFits
<1>7. PICK modal \in Modal : modal = [open |-> TRUE, title |-> d, day |-> d, report |-> body]
  BY DEF Modal
<1>8. /\ r.view \in View /\ r.view.source = q.view.source
      /\ r.view.generation = q.view.generation /\ r.view.modal = modal
  BY <1>2, <1>6, <1>7 DEF Typed, View
<1>9. PageFits(r) /\ Typed(r) /\ Follows(q, r)
  BY <1>2, <1>6, <1>7, <1>8 DEF PageFits, ViewFits, OneTail, Typed, Follows, Modal
<1>10. PICK call : call = [Call(IF known > 0 THEN "transcripts" ELSE "journal") EXCEPT
                             !.day = d, !.report = body, !.caught = caught]
  OBVIOUS
<1>11. CallTyped(call) /\ call.ask # "page" /\ Fresh(r.view.source, call)
  <2>1. PICK ask \in {"transcripts", "journal"} : ask = IF known > 0 THEN "transcripts" ELSE "journal"
    OBVIOUS
  <2>2. Call(ask) \in CallRecord /\ Call(ask).ask = ask /\ Call(ask).served = FALSE
    BY CallsAreTyped DEF Asks, Call
  <2>3. call = [Call(ask) EXCEPT !.day = d, !.report = body, !.caught = caught]
    BY <1>10, <2>1
  <2> QED BY <2>2, <2>3 DEF CallRecord, CallTyped, Fresh
<1>12. Typed(Asked(r, call)) /\ Follows(r, Asked(r, call))
  BY <1>9, <1>11, AskedTyped
<1>13. Opened(p, d, caught) = Asked(r, call)
  BY <1>1, <1>3, <1>4, <1>5, <1>10 DEF Opened
<1>14. Follows(p, Asked(r, call))
  BY <1>2, <1>9, <1>12, FollowsOn
<1> QED BY <1>12, <1>13, <1>14

LEMMA RefetchedTyped ==
  ASSUME NEW p, PageFits(p), Typed(p)
  PROVE  Typed(Refetched(p)) /\ Follows(p, Refetched(p))
<1>1. PICK call : call = [Call("refetch") EXCEPT !.at = Len(p.view.source), !.gen = p.view.generation]
  OBVIOUS
<1>2. CallTyped(call) /\ call.ask # "page" /\ Fresh(p.view.source, call)
  <2>1. Len(p.view.source) \in Nat /\ p.view.generation \in Nat
    BY DEF Typed, View
  <2>2. Call("refetch") \in CallRecord /\ Call("refetch").ask = "refetch" /\ Call("refetch").served = FALSE
    BY CallsAreTyped DEF Asks, Call
  <2> QED BY <1>1, <2>1, <2>2 DEF CallRecord, CallTyped, OfADay, Fresh
<1>3. Typed(Asked(p, call)) /\ Follows(p, Asked(p, call))
  BY <1>2, AskedTyped
<1>4. Refetched(p) = p \/ Refetched(p) = Asked(p, call)
  BY <1>1 DEF Refetched
<1>5. Follows(p, p)
  BY DEF Follows
<1> QED BY <1>3, <1>4, <1>5

LEMMA MountTyped ==
  ASSUME NEW p, PageFits(p), Typed(p),
         NEW mount \in {"none", "list", "places", "search", "error"}
  PROVE  Typed(Mounts(p, mount)) /\ Follows(p, Mounts(p, mount))
<1>1. PICK q : q = Mounts(p, mount)
  OBVIOUS
<1>2. q.calls = p.calls /\ q.view = [p.view EXCEPT !.mount = mount]
  BY <1>1 DEF Mounts, PageFits
<1>3. q.view \in View /\ q.view.source = p.view.source
  BY <1>2 DEF Typed, View
<1> QED BY <1>1, <1>2, <1>3 DEF Typed, Follows

LEMMA WithoutTyped ==
  ASSUME PageFits(Page), Typed(Page), NEW c \in BagToSet(calls)
  PROVE  Typed(Without(c)) /\ Follows(Page, Without(c)) /\ Without(c).view = view
         /\ BagToSet(Without(c).calls) \subseteq BagToSet(calls)
<1>1. PICK q : q = Without(c)
  OBVIOUS
<1>2. q.view = view /\ q.calls = calls (-) SetToBag({c})
  BY <1>1 DEF Without, Page
<1>3. BagToSet(q.calls) \subseteq BagToSet(calls)
  BY <1>2, PageParts, BagDrops DEF PageFits
<1> QED BY <1>1, <1>2, <1>3, PageParts DEF Typed, Follows

-----------------------------------------------------------------------------
(* Days that had a journal all along are in every row that is served.      *)

Holds(rows) == \A d \in scene.written : rows[d] > 0

Kept ==
  /\ scene.written \subseteq Days
  /\ Holds(journals)
  /\ memo.known => Holds(memo.rows)
  /\ snapshot.known => Holds(snapshot.rows)
  /\ \A i \in DOMAIN readings : Holds(readings[i].seen)

LEMMA KeptStarts ==
  ASSUME PreviewsInit
  PROVE  Kept
<1>1. PICK s \in PreviewScenes : PreviewsStart(s) \/ WarmStart(s)
  BY DEF PreviewsInit
<1>2. scene.written = s.written /\ s.written \subseteq Days
  BY <1>1, PreviewsAssumption DEF PreviewsStart, WarmStart, DiskStart
<1>3. journals = [d \in Days |-> IF d \in s.written THEN 1 ELSE 0]
  BY <1>1 DEF PreviewsStart, WarmStart, DiskStart
<1>4. Holds(journals)
  BY <1>2, <1>3 DEF Holds
<1>5. CASE PreviewsStart(s)
  BY <1>2, <1>4, <1>5 DEF PreviewsStart, NoMemo, Reading, Kept
<1>6. CASE WarmStart(s)
  BY <1>2, <1>4, <1>6 DEF WarmStart, Kept
<1> QED BY <1>1, <1>5, <1>6

LEMMA KeptStep ==
  ASSUME PreviewsInv, Kept, [PreviewsNext]_previewVars
  PROVE  Kept' /\ scene' = scene
<1>1. scene' = scene
  BY DEF PreviewsNext, ServerStep, ReadingStep, StoreDerived, StoreSnapshot, WriteSnapshot,
         ReadingFails, Expire, SyncDay, PassEnds, Record, ReadPreviews, WriteJournal,
         Restart, previewVars
<1>2. \A rows : Holds(rows) <=> Holds(rows)'
  BY <1>1 DEF Holds
<1> DEFINE Then == /\ Holds(journals') /\ (memo'.known => Holds(memo'.rows))
                   /\ snapshot'.known => Holds(snapshot'.rows)
                   /\ \A i \in DOMAIN readings' : Holds(readings'[i].seen)
<1>3. Then => Kept'
  BY <1>1 DEF Kept, Holds
<1>4. /\ Holds(journals) /\ (memo.known => Holds(memo.rows))
      /\ snapshot.known => Holds(snapshot.rows)
      /\ \A i \in DOMAIN readings : Holds(readings[i].seen)
  BY DEF Kept
<1>5. ASSUME NEW by, Refresh(by)
      PROVE  /\ memo'.known = memo.known /\ memo'.rows = memo.rows
             /\ \A i \in DOMAIN readings' : Holds(readings'[i].seen)
  <2>1. CASE memo.refreshing
    BY <1>4, <1>5, <2>1 DEF Refresh
  <2>2. CASE ~memo.refreshing
    <3>1. /\ memo' = [memo EXCEPT !.refreshing = TRUE]
          /\ readings' = Append(readings, Reading(by, "derive", journals))
      BY <1>5, <2>2 DEF Refresh
    <3>2. readings \in Seq(Recompute)
      BY PreviewsParts
    <3>3. PICK r : r = Reading(by, "derive", journals)
      OBVIOUS
    <3>4. r.seen = journals /\ Holds(r.seen)
      BY <1>4, <3>3 DEF Reading
    <3>5. \A i \in DOMAIN readings' : readings'[i] = r \/ (i \in DOMAIN readings /\ readings'[i] = readings[i])
      BY <3>1, <3>2, <3>3
    <3> QED BY <1>4, <3>1, <3>4, <3>5, PreviewsParts
  <2> QED BY <2>1, <2>2
<1>6. ASSUME NEW i \in DOMAIN readings, readings' = RemoveAt(readings, i)
      PROVE  \A j \in DOMAIN readings' : Holds(readings'[j].seen)
  BY <1>4, <1>6, Removed
<1>7. ASSUME NEW i \in DOMAIN readings, ReadingStep(i)
      PROVE  Then
  <2>1. CASE StoreDerived(i)
    <3>1. /\ memo' = [known |-> TRUE, rows |-> readings[i].seen, fresh |-> TRUE, refreshing |-> FALSE]
          /\ readings' = [readings EXCEPT ![i].at = "persist"]
          /\ UNCHANGED <<journals, snapshot>>
      BY <2>1 DEF StoreDerived, Store
    <3>2. \A j \in DOMAIN readings' : j \in DOMAIN readings /\ readings'[j].seen = readings[j].seen
      BY <3>1, PreviewsParts DEF Recompute
    <3>3. \A j \in DOMAIN readings' : Holds(readings'[j].seen)
      BY <1>4, <3>2
    <3> QED BY <1>4, <3>1, <3>3
  <2>2. CASE StoreSnapshot(i)
    <3>1. /\ memo' = [known |-> TRUE, rows |-> readings[i].seen, fresh |-> FALSE, refreshing |-> FALSE]
          /\ readings' = RemoveAt(readings, i)
          /\ UNCHANGED <<journals, snapshot>>
      BY <2>2 DEF StoreSnapshot, Store
    <3> QED BY <1>4, <1>6, <3>1
  <2>3. CASE WriteSnapshot(i)
    <3>1. /\ snapshot' = [known |-> TRUE, rows |-> readings[i].seen]
          /\ readings' = RemoveAt(readings, i)
          /\ UNCHANGED <<journals, memo>>
      BY <2>3 DEF WriteSnapshot
    <3> QED BY <1>4, <1>6, <3>1
  <2>4. CASE ReadingFails(i)
    <3>1. /\ readings' = RemoveAt(readings, i) /\ UNCHANGED <<journals, snapshot>>
          /\ memo' = memo \/ memo' = [memo EXCEPT !.refreshing = FALSE]
      BY <2>4 DEF ReadingFails
    <3>2. memo'.known = memo.known /\ memo'.rows = memo.rows
      BY <3>1, PreviewsParts
    <3> QED BY <1>6, <3>1, <3>2, <1>4
  <2> QED BY <1>7, <2>1, <2>2, <2>3, <2>4 DEF ReadingStep
<1>8. ASSUME SyncDay
      PROVE  Then
  BY <1>5, <1>8, <1>4 DEF SyncDay
<1>9. ASSUME PassEnds
      PROVE  Then
  BY <1>5, <1>9, <1>4 DEF PassEnds
<1>10. ASSUME ReadPreviews
      PROVE  Then
  <2>1. UNCHANGED <<journals, snapshot>>
    BY <1>10 DEF ReadPreviews
  <2>2. CASE memo.known /\ memo.fresh
    <3>1. UNCHANGED <<memo, readings>>
      BY <1>10, <2>2 DEF ReadPreviews
    <3> QED BY <2>1, <3>1, <1>4
  <2>3. CASE memo.known /\ ~memo.fresh
    <3>1. Refresh("read")
      BY <1>10, <2>3 DEF ReadPreviews
    <3> QED BY <1>5, <2>1, <3>1, <1>4
  <2>4. CASE ~memo.known
    <3>1. PICK r : r = IF snapshot.known THEN Reading("cold", "load", snapshot.rows)
                       ELSE Reading("cold", "derive", journals)
      OBVIOUS
    <3>2. memo' = memo /\ readings' = Append(readings, r)
      BY <1>10, <2>4, <3>1 DEF ReadPreviews
    <3>3. Holds(r.seen)
      BY <1>4, <3>1 DEF Reading
    <3>4. readings \in Seq(Recompute)
      BY PreviewsParts
    <3>5. \A i \in DOMAIN readings' : readings'[i] = r \/ (i \in DOMAIN readings /\ readings'[i] = readings[i])
      BY <3>2, <3>4
    <3> QED BY <1>4, <2>1, <3>2, <3>3, <3>5
  <2> QED BY <2>2, <2>3, <2>4
<1>11. ASSUME NEW d \in Days, WriteJournal(d)
       PROVE  Then
  <2>1. /\ journals' = [journals EXCEPT ![d] = @ + 1]
        /\ UNCHANGED <<memo, snapshot, readings>>
    BY <1>11 DEF WriteJournal
  <2>2. Holds(journals')
    BY <2>1, PreviewsParts DEF Holds, Kept, Rows
  <2> QED BY <2>1, <2>2, <1>4
<1>12. ASSUME Restart
      PROVE  Then
  <2>1. /\ memo'.known = FALSE /\ UNCHANGED <<journals, snapshot>>
        /\ readings' = <<Reading("warmup", "derive", journals)>>
    BY <1>12 DEF Restart, Boot, NoMemo
  <2>2. \A i \in DOMAIN readings' : Holds(readings'[i].seen)
    BY <1>4, <2>1 DEF Reading
  <2> QED BY <2>1, <2>2, <1>4
<1>13. ASSUME Expire
      PROVE  Then
  <2>1. /\ memo' = [memo EXCEPT !.fresh = FALSE] /\ UNCHANGED <<journals, snapshot, readings>>
    BY <1>13 DEF Expire
  <2>2. memo'.known = memo.known /\ memo'.rows = memo.rows
    BY <2>1, PreviewsParts
  <2> QED BY <2>1, <2>2, <1>4
<1>14. ASSUME NEW d \in Days, Record(d)
       PROVE  Then
  BY <1>14, <1>4 DEF Record
<1>15. ASSUME UNCHANGED previewVars
      PROVE  Then
  BY <1>15, <1>4 DEF previewVars
<1>16. Then
  BY <1>7, <1>8, <1>9, <1>10, <1>11, <1>12, <1>13, <1>14, <1>15 DEF PreviewsNext, ServerStep
<1> QED BY <1>1, <1>3, <1>16

-----------------------------------------------------------------------------
(* The page goes on with its types and its rows. *)

SiteFits ==
  /\ PreviewsInv /\ PageInv /\ Typed(Page)
  /\ closing \in BOOLEAN /\ stream \in BOOLEAN /\ feed \in Seq(Days)
  /\ today \in visit.first..visit.last

LinesNow(p) == Lines(p, scene.written, Shown(memo.rows))

\* The page becomes q, as far as the server's rows are what they are.
Goes(q) ==
  /\ Becomes(q) /\ Typed(q)
  /\ LinesNow(Page) /\ ~PageOverRefetch => LinesNow(q)

LEMMA SiteParts ==
  ASSUME SiteFits
  PROVE  /\ PageFits(Page) /\ Typed(Page) /\ today \in Days /\ hash \in Routes
         /\ memo.rows \in Rows /\ IsFiniteSet(Shown(memo.rows))
         /\ view \in View /\ \A c \in BagToSet(calls) : CallTyped(c)
         /\ visit \in Visits /\ visit.first..visit.last \subseteq Days
<1>1. visit \in Visits /\ visit.first..visit.last \subseteq Days
  BY ClientAssumption DEF SiteFits, PageInv
<1>2. memo.rows \in Rows
  BY PreviewsParts DEF SiteFits
<1> QED BY <1>1, <1>2, ShownFinite, PageParts DEF SiteFits, PageInv, Typed

LEMMA FollowingGoes ==
  ASSUME SiteFits, NEW q, Typed(q), Follows(Page, q), Becomes(q)
  PROVE  Goes(q)
<1>1. PICK p : p = Page
  OBVIOUS
<1>2. PICK W, M : W = scene.written /\ M = Shown(memo.rows) /\ IsFiniteSet(M)
  BY SiteParts
<1>3. Lines(p, W, M) => Lines(q, W, M)
  BY <1>1, <1>2, FollowsLined
<1> QED BY <1>1, <1>2, <1>3 DEF Goes, LinesNow

LEMMA StandingGoes ==
  ASSUME SiteFits, UNCHANGED <<view, calls>>
  PROVE  Goes(Page)
<1>1. Becomes(Page) /\ Follows(Page, Page)
  BY PageParts DEF Becomes, Follows
<1> QED BY <1>1, FollowingGoes, SiteParts

LEMMA ReaderGoes ==
  ASSUME SiteFits, (\E r \in visit.pages : Hop(r)) \/ Dismiss \/ CloseEvent
  PROVE  \E q : Goes(q)
<1>1. CASE UNCHANGED <<view, calls>>
  BY <1>1, StandingGoes
<1>2. CASE Dismiss
  <2>1. PICK p : p = Page /\ PageFits(p) /\ Typed(p)
    BY SiteParts
  <2>2. PICK q : q = Shut(p)
    OBVIOUS
  <2>3. Becomes(q)
    BY <1>2, <2>1, <2>2 DEF Dismiss, Becomes, Shut, Page
  <2>4. Typed(q) /\ Follows(p, q)
    BY <2>1, <2>2, ShutTyped
  <2> QED BY <2>1, <2>3, <2>4, FollowingGoes
<1> QED BY <1>1, <1>2 DEF Hop, CloseEvent

LEMMA HashChangeGoes ==
  ASSUME SiteFits, HashChange
  PROVE  \E q : Goes(q)
<1>1. PICK p : p = Page /\ PageFits(p) /\ Typed(p)
  BY SiteParts
<1>2. PICK q : q = Routed(Page) /\ Becomes(q)
  BY DEF HashChange
<1>3. hash \in Routes
  BY SiteParts
<1>4. PageFits(Shut(p)) /\ Typed(Shut(p)) /\ Follows(p, Shut(p))
  BY <1>1, ShutFits, ShutTyped
<1>5. PICK s : s = Shut(p) /\ PageFits(s) /\ Typed(s) /\ Follows(p, s)
  BY <1>4
<1>6. CASE hash.page \in {"places", "search"}
  <2>1. PICK page \in {"places", "search"} : page = hash.page
    BY <1>6
  <2>2. q = Replaced(s, page)
    BY <1>1, <1>2, <1>5, <1>6, <2>1 DEF Routed
  <2>3. Typed(q) /\ Follows(s, q)
    BY <1>5, <2>2, ReplacedTyped
  <2>4. Follows(p, q)
    BY <1>5, <2>3, FollowsOn
  <2> QED BY <1>1, <1>2, <2>3, <2>4, FollowingGoes
<1>7. CASE hash.page = "list"
  <2>1. q = s \/ q = Tabled(s)
    BY <1>1, <1>2, <1>5, <1>7 DEF Routed
  <2>2. Typed(Tabled(s)) /\ Follows(s, Tabled(s))
    BY <1>5, TabledTyped
  <2>3. Follows(p, Tabled(s))
    BY <1>5, <2>2, FollowsOn
  <2>4. Typed(q) /\ Follows(p, q)
    BY <1>5, <2>1, <2>2, <2>3
  <2> QED BY <1>1, <1>2, <2>4, FollowingGoes
<1>8. CASE hash.page = "day"
  <2>1. PICK d \in Days, caught \in BOOLEAN : d = hash.day /\ caught = TRUE
    <3>1. PICK e \in Days : hash = ToDay(e)
      BY <1>3, <1>8 DEF Routes, To
    <3>2. hash.day \in Days
      BY <3>1 DEF ToDay
    <3> QED BY <3>2
  <2>2. q = Opened(p, d, caught)
    BY <1>1, <1>2, <1>8, <2>1 DEF Routed
  <2>3. Typed(q) /\ Follows(p, q)
    BY <1>1, <2>2, OpenedTyped
  <2> QED BY <1>1, <1>2, <2>3, FollowingGoes
<1> QED BY <1>3, <1>6, <1>7, <1>8, RoutePage

LEMMA TopGoes ==
  ASSUME SiteFits, (\E near \in BOOLEAN : RefreshToday(near)) \/ Midnight \/ Scroll
  PROVE  \E q : Goes(q)
<1>1. PICK p : p = Page /\ PageFits(p) /\ Typed(p)
  BY SiteParts
<1>2. ASSUME NEW r, PageFits(r), Typed(r), Follows(p, r), NEW near \in BOOLEAN, Becomes(Painted(r, near))
      PROVE  \E q : Goes(q)
  <2>1. PICK q : q = Painted(r, near) /\ Becomes(q)
    BY <1>2
  <2>2. Typed(q) /\ Follows(r, q)
    BY <1>2, <2>1, PaintedTyped
  <2>3. Follows(p, q)
    BY <1>2, <2>2, FollowsOn
  <2> QED BY <1>1, <2>1, <2>2, <2>3, FollowingGoes
<1>3. ASSUME NEW t \in Days, NEW r, r = [p EXCEPT !.view = [@ EXCEPT !.top = t]]
      PROVE  PageFits(r) /\ Typed(r) /\ Follows(p, r)
  <2>1. /\ DOMAIN r = {"view", "calls"} /\ r.calls = p.calls
        /\ r.view = [p.view EXCEPT !.top = t]
    BY <1>1, <1>3 DEF PageFits
  <2>2. /\ r.view \in View /\ r.view.source = p.view.source /\ r.view.modal = p.view.modal
        /\ r.view.generation = p.view.generation /\ DOMAIN r.view = DOMAIN p.view
    BY <1>1, <2>1 DEF Typed, View
  <2> QED BY <1>1, <2>1, <2>2 DEF PageFits, ViewFits, OneTail, Typed, Follows
<1>4. CASE \E near \in BOOLEAN : RefreshToday(near)
  <2>1. PICK near \in BOOLEAN : Becomes(Painted([p EXCEPT !.view = [@ EXCEPT !.top = today]], near))
    BY <1>1, <1>4 DEF RefreshToday, Reconciled
  <2>2. PICK t \in Days : t = today
    BY SiteParts
  <2>3. PICK r : r = [p EXCEPT !.view = [@ EXCEPT !.top = t]]
    OBVIOUS
  <2> QED BY <1>2, <1>3, <2>1, <2>2, <2>3
<1>5. CASE Midnight
  <2>1. PICK near \in BOOLEAN : Becomes(Painted([p EXCEPT !.view = [@ EXCEPT !.top = today + 1]], near))
    BY <1>1, <1>5 DEF Midnight
  <2>2. today + 1 \in Days
    <3>1. today + 1 \in visit.first..visit.last
      <4>1. visit \in Visits /\ today \in visit.first..visit.last /\ today < visit.last
        BY <1>5, SiteParts DEF Midnight, SiteFits
      <4>2. visit.first \in Nat /\ visit.last \in Nat
        BY <4>1, ClientAssumption, PreviewsAssumption
      <4> QED BY <4>1, <4>2
    <3> QED BY <3>1, SiteParts
  <2>3. PICK t \in Days : t = today + 1
    BY <2>2
  <2>4. PICK r : r = [p EXCEPT !.view = [@ EXCEPT !.top = t]]
    OBVIOUS
  <2> QED BY <1>2, <1>3, <2>1, <2>3, <2>4
<1>6. CASE Scroll
  <2>1. PICK near \in BOOLEAN : near = TRUE /\ Becomes(Painted(p, near))
    BY <1>1, <1>6 DEF Scroll
  <2>2. Follows(p, p)
    BY DEF Follows
  <2> QED BY <1>1, <1>2, <2>1, <2>2
<1> QED BY <1>4, <1>5, <1>6

LEMMA HandledGoes ==
  ASSUME SiteFits, NEW q, Handled(q), Typed(q), Follows(Page, q)
  PROVE  \E r : Goes(r)
BY FollowingGoes DEF Handled

\* What the modal's calls bring is rendered, and the next call is made.
LEMMA ModalLandsGoes ==
  ASSUME SiteFits, NEW c \in BagToSet(calls), JournalLands(c) \/ TranscriptsLand(c)
  PROVE  \E q : Goes(q)
<1>1. PICK p : p = Without(c) /\ PageFits(p) /\ Typed(p) /\ Follows(Page, p) /\ p.view = view
  BY SiteParts, WithoutFits, WithoutTyped
<1>2. c \in CallRecord /\ c.day \in Days
  BY SiteParts DEF CallTyped, OfADay, JournalLands, TranscriptsLand
<1>3. CASE hash.day # c.day
  BY <1>1, <1>3, HandledGoes DEF JournalLands, TranscriptsLand
<1>4. CASE hash.day = c.day
  <2>1. PICK r : r = [p EXCEPT !.view.modal = [@ EXCEPT !.day = c.day, !.report = c.report]]
    OBVIOUS
  <2>2. PICK next : /\ CallTyped(next) /\ next.served = FALSE /\ next.ask # "page"
                    /\ Handled(Asked(r, next))
    <3>1. CASE JournalLands(c)
      <4>1. PICK next : next = [Call("transcripts") EXCEPT !.day = c.day, !.report = c.report,
                                  !.caught = c.caught, !.poll = c.report = Writing]
        OBVIOUS
      <4>2. PICK poll \in BOOLEAN : poll = (c.report = Writing)
        OBVIOUS
      <4>3. /\ Call("transcripts") \in CallRecord /\ Call("transcripts").ask = "transcripts"
            /\ Call("transcripts").served = FALSE
        BY CallsAreTyped DEF Asks, Call
      <4>4. CallTyped(next) /\ next.served = FALSE /\ next.ask = "transcripts"
        BY <1>2, <4>1, <4>2, <4>3 DEF CallTyped, CallRecord
      <4>5. Handled(Asked(r, next))
        BY <1>1, <1>4, <2>1, <3>1, <4>1 DEF JournalLands
      <4> QED BY <4>4, <4>5
    <3>2. CASE TranscriptsLand(c)
      <4>1. PICK next : next = [Call("location") EXCEPT !.day = c.day, !.caught = c.caught,
                                  !.poll = c.poll]
        OBVIOUS
      <4>2. /\ Call("location") \in CallRecord /\ Call("location").ask = "location"
            /\ Call("location").served = FALSE
        BY CallsAreTyped DEF Asks, Call
      <4>3. CallTyped(next) /\ next.served = FALSE /\ next.ask = "location"
        BY <1>2, <4>1, <4>2 DEF CallTyped, CallRecord
      <4>4. Handled(Asked(r, next))
        BY <1>1, <1>4, <2>1, <3>2, <4>1 DEF TranscriptsLand
      <4> QED BY <4>3, <4>4
    <3> QED BY <3>1, <3>2
  <2>3. /\ DOMAIN r = {"view", "calls"} /\ r.calls = p.calls
        /\ r.view = [p.view EXCEPT !.modal = [@ EXCEPT !.day = c.day, !.report = c.report]]
    BY <1>1, <2>1 DEF PageFits
  <2>4. PICK modal \in Modal : modal = [p.view.modal EXCEPT !.day = c.day, !.report = c.report]
    BY <1>1, <1>2 DEF Typed, View, Modal, CallRecord
  <2>5. /\ r.view \in View /\ r.view.source = p.view.source /\ r.view.modal = modal
        /\ r.view.generation = p.view.generation /\ DOMAIN r.view = DOMAIN p.view
    BY <1>1, <2>3, <2>4 DEF Typed, View
  <2>6. DOMAIN modal = {"open", "title", "day", "report"}
    BY DEF Modal
  <2>7. PageFits(r) /\ Typed(r) /\ Follows(p, r)
    BY <1>1, <2>3, <2>5, <2>6 DEF PageFits, ViewFits, OneTail, Typed, Follows
  <2>8. PICK q : q = Asked(r, next) /\ Typed(q) /\ Follows(r, q) /\ Handled(q)
    BY <2>2, <2>7, AskedTyped DEF Fresh
  <2>9. Follows(p, q)
    BY <2>7, <2>8, FollowsOn
  <2>10. Follows(Page, q)
    BY <1>1, <2>9, FollowsOn
  <2> QED BY <2>8, <2>10, HandledGoes
<1> QED BY <1>3, <1>4

LEMMA LocationLandsGoes ==
  ASSUME SiteFits, NEW c \in BagToSet(calls), LocationLands(c)
  PROVE  \E q : Goes(q)
<1>1. PICK p : p = Without(c) /\ PageFits(p) /\ Typed(p) /\ Follows(Page, p) /\ p.view = view
  BY SiteParts, WithoutFits, WithoutTyped
<1>2. c \in CallRecord /\ c.day \in Days /\ hash \in Routes
  BY SiteParts DEF CallTyped, OfADay, LocationLands
<1>3. PICK nap : nap = [Call("nap") EXCEPT !.day = c.day, !.route = hash]
  OBVIOUS
<1>4. CallTyped(nap) /\ nap.served = FALSE /\ nap.ask = "nap"
  <2>1. Call("nap") \in CallRecord /\ Call("nap").ask = "nap" /\ Call("nap").served = FALSE
    BY CallsAreTyped DEF Asks, Call
  <2> QED BY <1>2, <1>3, <2>1 DEF CallTyped, CallRecord
<1>5. PICK q : q = Asked(p, nap) /\ Typed(q) /\ Follows(p, q)
  BY <1>1, <1>4, AskedTyped DEF Fresh
<1>6. Follows(Page, q)
  BY <1>1, <1>5, FollowsOn
<1>7. Handled(p) \/ Handled(q)
  BY <1>1, <1>3, <1>5 DEF LocationLands
<1> QED BY <1>1, <1>5, <1>6, <1>7, HandledGoes

LEMMA NapEndsGoes ==
  ASSUME SiteFits, NEW c \in BagToSet(calls), NapEnds(c)
  PROVE  \E q : Goes(q)
<1>1. PICK p : p = Without(c) /\ PageFits(p) /\ Typed(p) /\ Follows(Page, p) /\ p.view = view
  BY SiteParts, WithoutFits, WithoutTyped
<1>2. PICK d \in Days, caught \in BOOLEAN : d = c.day /\ caught = FALSE
  BY SiteParts DEF CallTyped, OfADay, NapEnds
<1>3. PICK q : q = Opened(p, d, caught) /\ Typed(q) /\ Follows(p, q)
  BY <1>1, OpenedTyped
<1>4. Follows(Page, q)
  BY <1>1, <1>3, FollowsOn
<1>5. Handled(p) \/ Handled(q)
  BY <1>1, <1>2, <1>3 DEF NapEnds
<1> QED BY <1>1, <1>3, <1>4, <1>5, HandledGoes

LEMMA PageLandsGoes ==
  ASSUME SiteFits, NEW c \in BagToSet(calls), PageLands(c)
  PROVE  \E q : Goes(q)
<1>1. PICK p : p = Without(c) /\ PageFits(p) /\ Typed(p) /\ Follows(Page, p) /\ p.view = view
  BY SiteParts, WithoutFits, WithoutTyped
<1>2. PICK q : q = Mounts(p, "places") /\ Typed(q) /\ Follows(p, q)
  BY <1>1, MountTyped
<1>3. Follows(Page, q)
  BY <1>1, <1>2, FollowsOn
<1>4. Handled(p) \/ Handled(q)
  BY <1>1, <1>2 DEF PageLands, Mounts
<1> QED BY <1>1, <1>2, <1>3, <1>4, HandledGoes

LEMMA CallFailsGoes ==
  ASSUME SiteFits, NEW c \in BagToSet(calls), CallFails(c)
  PROVE  \E q : Goes(q)
<1>1. PICK p : p = Without(c) /\ PageFits(p) /\ Typed(p) /\ Follows(Page, p) /\ p.view = view
  BY SiteParts, WithoutFits, WithoutTyped
<1>2. PICK mount \in {"none", "list", "places", "search", "error"} : Becomes(Mounts(p, mount))
  <2>1. view.mount \in {"none", "list", "places", "search", "error"}
    BY SiteParts DEF View
  <2>2. Becomes(Mounts(p, "error")) \/ Becomes(Mounts(p, "places")) \/ Becomes(Mounts(p, view.mount))
    BY <1>1 DEF CallFails, Mounts
  <2> QED BY <2>1, <2>2
<1>3. PICK q : q = Mounts(p, mount) /\ Typed(q) /\ Follows(p, q) /\ Becomes(q)
  BY <1>1, <1>2, MountTyped
<1>4. Follows(Page, q)
  BY <1>1, <1>3, FollowsOn
<1> QED BY <1>3, <1>4, FollowingGoes

LEMMA DayEventGoes ==
  ASSUME SiteFits, DayEvent
  PROVE  \E q : Goes(q)
<1>1. PICK p : p = Page /\ PageFits(p) /\ Typed(p)
  BY SiteParts
<1>2. CASE Becomes(p)
  <2>1. Follows(p, p)
    BY DEF Follows
  <2> QED BY <1>1, <1>2, <2>1, FollowingGoes
<1>3. CASE Becomes(Refetched(p))
  <2>1. PICK q : q = Refetched(p) /\ Typed(q) /\ Follows(p, q)
    BY <1>1, RefetchedTyped
  <2> QED BY <1>1, <1>3, <2>1, FollowingGoes
<1>4. CASE hash.page = "day" /\ hash.day = Head(feed) /\ Becomes(Opened(p, Head(feed), TRUE))
  <2>1. Head(feed) \in Days
    BY HeadTailProperties DEF DayEvent, SiteFits
  <2>2. PICK d \in Days, caught \in BOOLEAN : d = Head(feed) /\ caught = TRUE
    BY <2>1
  <2>3. PICK q : q = Opened(p, d, caught) /\ Typed(q) /\ Follows(p, q)
    BY <1>1, OpenedTyped
  <2> QED BY <1>1, <1>4, <2>2, <2>3, FollowingGoes
<1>5. \/ Becomes(p) \/ Becomes(Refetched(p))
      \/ hash.page = "day" /\ hash.day = Head(feed) /\ Becomes(Opened(p, Head(feed), TRUE))
  BY <1>1 DEF DayEvent
<1> QED BY <1>2, <1>3, <1>4, <1>5

-----------------------------------------------------------------------------
(* The rows that are served and land. *)

\* A page ends where the window ended when it was asked, a refetch where it
\* ended then: what lands is lined up, unless the two were under way together.
LEMMA RowsLandGoes ==
  ASSUME SiteFits, NEW c \in BagToSet(calls), NEW near \in BOOLEAN, RowsLand(c, near)
  PROVE  \E q : Goes(q)
<1>1. PICK p : p = Without(c) /\ PageFits(p) /\ Typed(p) /\ Follows(Page, p) /\ p.view = view
               /\ BagToSet(p.calls) \subseteq BagToSet(calls)
  BY SiteParts, WithoutFits, WithoutTyped
<1>2. CASE c.gen # view.generation
  BY <1>1, <1>2, HandledGoes DEF RowsLand
<1>3. CASE c.gen = view.generation
  <2>1. PICK source : source = IF c.ask = "page" THEN view.source \o c.rows ELSE c.rows
    OBVIOUS
  <2>2. PICK r : /\ Handled(Painted(r, near))
                 /\ r = [p EXCEPT !.view = Reconciled([@ EXCEPT
                           !.source = source, !.exhausted = @ \/ Len(c.rows) < PageSize])]
    <3>1. PICK x : x = [p EXCEPT !.view = Reconciled([@ EXCEPT
                          !.source = source, !.exhausted = @ \/ Len(c.rows) < PageSize])]
      OBVIOUS
    <3>2. Handled(Painted(x, near))
      BY <1>1, <1>3, <2>1, <3>1 DEF RowsLand
    <3> QED BY <3>1, <3>2
  <2>3. source \in Seq(Row)
    <3>1. view.source \in Seq(Row) /\ c.rows \in Seq(Row)
      BY SiteParts DEF View, CallTyped, CallRecord
    <3>2. view.source \o c.rows \in Seq(Row)
      BY <3>1, ConcatProperties, Zenon
    <3> QED BY <2>1, <3>1, <3>2
  <2>4. DOMAIN r = {"view", "calls"} /\ r.calls = p.calls
    BY <1>1, <2>2 DEF PageFits
  <2>5. /\ r.view \in View /\ r.view.source = source /\ r.view.modal = p.view.modal
        /\ r.view.generation = p.view.generation /\ DOMAIN r.view = DOMAIN p.view
    <3>1. today \in Days
      BY SiteParts
    <3>2. "view" \in DOMAIN p /\ p.view \in View
      BY <1>1 DEF PageFits, Typed
    <3> QED BY <2>2, <2>3, <3>1, <3>2 DEF Reconciled, View
  <2>6. PageFits(r) /\ Typed(r)
    BY <1>1, <2>4, <2>5 DEF PageFits, ViewFits, OneTail, Typed
  <2>7. PICK q : q = Painted(r, near) /\ Typed(q) /\ Follows(r, q) /\ Becomes(q)
    BY <2>2, <2>6, PaintedTyped DEF Handled
  <2>8. ASSUME LinesNow(Page), ~PageOverRefetch
         PROVE  LinesNow(q)
    <3>1. PICK W, M : W = scene.written /\ M = Shown(memo.rows) /\ IsFiniteSet(M)
      BY SiteParts
    <3>2. /\ Lined(view.source, W, M)
          /\ \A e \in BagToSet(calls) : CallLined(view.source, e, W, M)
      BY <2>8, <3>1, PageParts DEF LinesNow, Lines
    <3>3. Lined(source, W, M)
      BY <2>1, <3>2 DEF CallLined, RowsLand
    <3>4. \A e \in BagToSet(p.calls) : e.ask # "page"
      <4>1. CASE c.ask = "page"
        <5>1. ~PageInFlight(p.calls)
          BY <1>1, <4>1, WithoutFits, SiteParts
        <5> QED BY <5>1 DEF PageInFlight
      <4>2. CASE c.ask # "page"
        BY <1>1, <2>8, <4>2 DEF PageOverRefetch, PageInFlight, RowsLand
      <4> QED BY <4>1, <4>2
    <3>5. \A e \in BagToSet(r.calls) : CallLined(r.view.source, e, W, M)
      BY <1>1, <2>4, <3>2, <3>4 DEF CallLined
    <3>6. Lines(r, W, M)
      BY <2>5, <3>3, <3>5 DEF Lines
    <3>7. Lines(q, W, M)
      BY <2>7, <3>1, <3>6, FollowsLined
    <3> QED BY <3>1, <3>7 DEF LinesNow
  <2> QED BY <2>7, <2>8 DEF Goes
<1> QED BY <1>2, <1>3

\* A call keeps everything but its answer.
LEMMA AnsweredGoes ==
  ASSUME SiteFits, NEW c \in BagToSet(calls), NEW e, CallTyped(e), view' = view,
         e.ask = c.ask, e.gen = c.gen, e.at = c.at, calls' = Asked(Without(c), e).calls,
         LinesNow(Page) => CallLined(view.source, e, scene.written, Shown(memo.rows))
  PROVE  \E q : Goes(q)
<1>1. PICK p : p = Without(c) /\ PageFits(p) /\ Typed(p) /\ Follows(Page, p) /\ p.view = view
               /\ (c.ask = "page" => ~PageInFlight(p.calls))
  BY SiteParts, WithoutFits, WithoutTyped
<1>2. c.ask = "page" => c.gen = view.generation
  BY PageParts, SiteParts DEF PageFits, OneTail
<1>3. PICK q : q = Asked(p, e)
  OBVIOUS
<1>4. {"ask", "gen"} \subseteq DOMAIN e
  BY DEF CallTyped, CallRecord
<1>5. PageFits(q) /\ q.view = p.view /\ BagToSet(q.calls) = BagToSet(p.calls) \cup {e}
  BY <1>1, <1>2, <1>3, <1>4, AskedFits
<1>6. Typed(q) /\ Becomes(q)
  BY <1>1, <1>3, <1>5 DEF Typed, Becomes
<1>7. ASSUME LinesNow(Page)
      PROVE  LinesNow(q)
  <2>1. PICK W, M : W = scene.written /\ M = Shown(memo.rows) /\ IsFiniteSet(M)
    BY SiteParts
  <2>2. PICK o : o = Page
    OBVIOUS
  <2>3. Lines(p, W, M)
    BY <1>1, <1>7, <2>1, <2>2, FollowsLined DEF LinesNow
  <2> QED BY <1>1, <1>5, <1>7, <2>1, <2>3 DEF LinesNow, Lines
<1> QED BY <1>6, <1>7 DEF Goes

LEMMA ServeGoes ==
  ASSUME SiteFits, Kept, NEW c \in BagToSet(calls), Serve(c)
  PROVE  \E q : Goes(q)
<1>1. c \in CallRecord /\ CallTyped(c)
  BY SiteParts DEF CallTyped
<1>2. PICK rows \in Rows : rows = memo.rows
  BY SiteParts
<1>3. PICK W, M : W = scene.written /\ M = Shown(memo.rows) /\ rows = memo.rows
  BY <1>2
<1>4. PICK source \in Seq(Row) : source = view.source
  BY SiteParts DEF View
<1>5. CASE c.ask \in {"page", "refetch"} /\ memo.known
  <2>1. PICK window : window = Window(c, rows)
    OBVIOUS
  <2>2. W \subseteq Shown(rows)
    BY <1>3, <1>5 DEF Kept, Holds, Shown
  <2>3. c.at \in Nat
    BY <1>1 DEF CallRecord
  <2>4. c.ask # "page" => window \in Seq(Row) /\ Lined(window, W, M)
    BY <1>3, <2>1, <2>2, <2>3, RefetchLines
  <2>5. c.ask = "page" => window \in Seq(Row)
    BY <2>1, <2>3, WindowIs
  <2>6. ASSUME LinesNow(Page), c.ask = "page"
        PROVE  Lined(source \o window, W, M)
    <3>1. Lined(source, W, M) /\ c.at = Len(source)
      BY <1>3, <1>4, <2>6, PageParts DEF LinesNow, Lines, CallLined
    <3> QED BY <1>3, <2>1, <2>2, <2>6, <3>1, PageLines
  <2>7. PICK e : e = [c EXCEPT !.served = TRUE, !.rows = window]
    OBVIOUS
  <2>8. /\ CallTyped(e) /\ e.ask = c.ask /\ e.gen = c.gen /\ e.at = c.at
        /\ e.served = TRUE /\ e.rows = window
    BY <1>1, <2>4, <2>5, <2>7 DEF CallTyped, CallRecord
  <2>9. LinesNow(Page) => CallLined(source, e, W, M)
    <3>1. CASE c.ask = "page"
      <4>1. LinesNow(Page) => c.at = Len(source)
        BY <1>3, <1>4, <3>1, PageParts DEF LinesNow, Lines, CallLined
      <4> QED BY <2>6, <2>8, <3>1, <4>1 DEF CallLined
    <3>2. CASE c.ask = "refetch"
      BY <2>4, <2>8, <3>2 DEF CallLined
    <3> QED BY <1>5, <3>1, <3>2
  <2>10. view' = view /\ calls' = Asked(Without(c), e).calls
    BY <1>3, <1>5, <2>1, <2>7 DEF Serve
  <2> QED BY <1>3, <1>4, <2>8, <2>9, <2>10, AnsweredGoes
<1>6. CASE c.ask \in {"page", "refetch"} /\ ~memo.known
  <2>1. UNCHANGED <<view, calls>>
    BY <1>6 DEF Serve
  <2> QED BY <2>1, StandingGoes
<1>7. CASE c.ask = "journal"
  <2>1. JournalOf(c.day) \in Reports
    <3>1. journals \in [Days -> Nat] /\ c.day \in Days
      BY <1>1, <1>7, PreviewsParts DEF CallTyped, OfADay, SiteFits, Rows
    <3> QED BY <3>1 DEF JournalOf, Reports, Writing, Nothing
  <2>2. PICK e : e = [c EXCEPT !.served = TRUE, !.report = JournalOf(c.day)]
    OBVIOUS
  <2>3. CallTyped(e) /\ e.ask = c.ask /\ e.gen = c.gen /\ e.at = c.at
    BY <1>1, <2>1, <2>2 DEF CallTyped, CallRecord
  <2>4. CallLined(view.source, e, scene.written, Shown(memo.rows))
    BY <1>7, <2>3 DEF CallLined
  <2>5. view' = view /\ calls' = Asked(Without(c), e).calls
    BY <1>7, <2>2 DEF Serve
  <2> QED BY <2>3, <2>4, <2>5, AnsweredGoes
<1> QED BY <1>5, <1>6, <1>7 DEF Serve

LEMMA SiteGoes ==
  ASSUME SiteFits, Kept, [JournalNext]_journalVars
  PROVE  \E q : Goes(q)
<1>1. CASE \E c \in BagToSet(calls) : Serve(c) \/ Land(c) \/ CallFails(c)
  <2>1. PICK c \in BagToSet(calls) : Serve(c) \/ Land(c) \/ CallFails(c)
    BY <1>1
  <2>2. CASE Land(c)
    BY <2>2, RowsLandGoes, ModalLandsGoes, LocationLandsGoes, NapEndsGoes, PageLandsGoes DEF Land
  <2> QED BY <2>1, <2>2, ServeGoes, CallFailsGoes
<1>2. CASE Connect \/ Drop \/ ServerGoesOn \/ UNCHANGED journalVars
  <2>1. UNCHANGED <<view, calls>>
    BY <1>2 DEF Connect, Drop, ServerGoesOn, journalVars, clientVars
  <2> QED BY <2>1, StandingGoes
<1> QED BY <1>1, <1>2, ReaderGoes, HashChangeGoes, TopGoes, DayEventGoes DEF JournalNext

LEMMA BecomesTyped ==
  ASSUME NEW q, Becomes(q), Typed(q)
  PROVE  Typed(Page)'
<1>1. view' = q.view /\ calls' = q.calls
  BY DEF Becomes
<1>2. Page'.view = view' /\ Page'.calls = calls'
  BY DEF Page
<1>3. q.view \in View /\ \A c \in BagToSet(q.calls) : CallTyped(c)
  BY DEF Typed
<1>4. Page'.view \in View /\ \A c \in BagToSet(Page'.calls) : CallTyped(c)
  BY <1>1, <1>2, <1>3
<1> QED BY <1>4 DEF Typed

\* The stream, its updates and the viewer's day.
LEMMA StreamStep ==
  ASSUME SiteFits, [JournalNext]_journalVars
  PROVE  /\ closing' \in BOOLEAN /\ stream' \in BOOLEAN /\ feed' \in Seq(Days)
         /\ today' \in visit'.first..visit'.last
<1>1. /\ closing \in BOOLEAN /\ stream \in BOOLEAN /\ feed \in Seq(Days)
      /\ today \in visit.first..visit.last /\ hub \in Seq(Days)
  BY PreviewsParts DEF SiteFits
<1>2. CASE UNCHANGED <<stream, feed, today, visit>> /\ closing' \in BOOLEAN
  BY <1>1, <1>2
<1>3. CASE UNCHANGED <<closing, today, visit>> /\ (Connect \/ Drop \/ DayEvent \/ ServerGoesOn)
  <2>1. CASE Connect
    BY <1>1, <1>3, <2>1 DEF Connect
  <2>2. CASE Drop
    <3>1. << >> \in Seq(Days)
      OBVIOUS
    <3> QED BY <1>1, <1>3, <2>2, <3>1 DEF Drop
  <2>3. CASE DayEvent
    <3>1. Tail(feed) \in Seq(Days)
      BY <1>1, <2>3, HeadTailProperties DEF DayEvent
    <3> QED BY <1>1, <1>3, <2>3, <3>1 DEF DayEvent
  <2>4. CASE ServerGoesOn
    <3>1. \A d \in Days : Append(feed, d) \in Seq(Days)
      BY <1>1, AppendProperties
    <3>2. << >> \in Seq(Days)
      OBVIOUS
    <3>3. stream' \in BOOLEAN /\ feed' \in Seq(Days)
      BY <1>1, <2>4, <3>1, <3>2 DEF ServerGoesOn
    <3> QED BY <1>1, <1>3, <3>3
  <2> QED BY <1>3, <2>1, <2>2, <2>3, <2>4
<1>4. CASE Midnight
  <2>1. visit.first \in Nat /\ visit.last \in Nat
    BY ClientAssumption, PreviewsAssumption, SiteParts
  <2>2. today' \in visit.first..visit.last /\ UNCHANGED <<stream, feed, visit, closing>>
    BY <1>1, <1>4, <2>1 DEF Midnight
  <2> QED BY <1>1, <2>2
<1>5. ASSUME NEW c \in BagToSet(calls), Serve(c) \/ Land(c) \/ CallFails(c)
      PROVE  UNCHANGED <<stream, feed, today, visit, closing>>
  BY <1>5 DEF Serve, Land, RowsLand, JournalLands, TranscriptsLand, LocationLands, NapEnds,
              PageLands, Handled, CallFails
<1>6. CASE (\E r \in visit.pages : Hop(r)) \/ Dismiss \/ CloseEvent \/ HashChange
           \/ (\E near \in BOOLEAN : RefreshToday(near)) \/ Scroll \/ UNCHANGED journalVars
  <2>1. UNCHANGED <<stream, feed, today, visit>>
    BY <1>6 DEF Hop, Dismiss, CloseEvent, HashChange, RefreshToday, Scroll, journalVars, clientVars
  <2>2. closing' = closing \/ closing' = TRUE \/ closing' = FALSE \/ closing' = (closing \/ ClosesModal)
    BY <1>6 DEF Hop, Dismiss, CloseEvent, HashChange, RefreshToday, Scroll, journalVars, clientVars
  <2> QED BY <1>1, <1>2, <2>1, <2>2
<1>7. CASE Connect \/ Drop \/ DayEvent \/ ServerGoesOn
  <2>1. UNCHANGED <<closing, today, visit>>
    BY <1>7 DEF Connect, Drop, DayEvent, ServerGoesOn
  <2> QED BY <1>3, <1>7, <2>1
<1> QED BY <1>1, <1>2, <1>4, <1>5, <1>6, <1>7 DEF JournalNext

LEMMA SiteStep ==
  ASSUME SiteFits, Kept, [JournalNext]_journalVars
  PROVE  SiteFits' /\ Kept' /\ scene' = scene
<1>1. PreviewsInv /\ PageInv
  BY DEF SiteFits
<1>2. [PreviewsNext]_previewVars
  BY PageStepIsAPreviewsStep
<1>3. PreviewsInv' /\ Kept' /\ scene' = scene
  BY <1>1, <1>2, PreviewsStep, KeptStep
<1>4. PageInv'
  BY <1>1, JournalStep
<1>5. Typed(Page)'
  BY SiteGoes, BecomesTyped DEF Goes
<1> QED BY <1>3, <1>4, <1>5, StreamStep DEF SiteFits

\* The rows stay lined up as long as the server loses none and no page is under
\* way over a refetch.
LEMMA LinesStep ==
  ASSUME SiteFits, Kept, [JournalNext]_journalVars,
         LinesNow(Page), ~PageOverRefetch, ~RowsLost
  PROVE  LinesNow(Page)'
<1>1. PICK q : Becomes(q) /\ Typed(q) /\ LinesNow(q)
  BY SiteGoes DEF Goes
<1>2. PICK W, M : W = scene.written /\ M = Shown(memo.rows)
  OBVIOUS
<1>3. PICK N : N = Shown(memo'.rows)
  OBVIOUS
<1>4. M \subseteq N /\ IsFiniteSet(N)
  <2>1. memo'.rows \in Rows
    BY SiteStep DEF SiteFits, PreviewsInv, PreviewsTypeOK, Rows
  <2> QED BY <1>2, <1>3, <2>1, ShownFinite DEF RowsLost
<1>5. Lines(q, W, M)
  BY <1>1, <1>2 DEF LinesNow
<1>6. q.view.source \in Seq(Row)
  BY <1>1 DEF Typed, View
<1>7. ASSUME NEW c \in BagToSet(q.calls)
      PROVE  CallLined(q.view.source, c, W, N)
  <2>1. CallLined(q.view.source, c, W, M) /\ c.rows \in Seq(Row)
    BY <1>1, <1>5 DEF Lines, Typed, CallTyped, CallRecord
  <2>2. q.view.source \o c.rows \in Seq(Row)
    BY <1>6, <2>1, ConcatProperties
  <2>3. c.ask = "refetch" /\ c.served => Lined(c.rows, W, N)
    BY <1>4, <2>1, LinedGrows DEF CallLined
  <2>4. c.ask = "page" /\ c.served => Lined(q.view.source \o c.rows, W, N)
    BY <1>4, <2>1, <2>2, LinedGrows DEF CallLined
  <2> QED BY <2>1, <2>3, <2>4 DEF CallLined
<1>8. Lined(q.view.source, W, N)
  BY <1>4, <1>5, <1>6, LinedGrows DEF Lines
<1>9. Lines(q, W, N)
  BY <1>7, <1>8 DEF Lines
<1>10. view' = q.view /\ calls' = q.calls /\ Page'.view = view' /\ Page'.calls = calls'
  BY <1>1 DEF Becomes, Page
<1>11. scene' = scene
  BY SiteStep
<1>12. Lines(Page', W, N)
  BY <1>9, <1>10 DEF Lines
<1> QED BY <1>2, <1>3, <1>11, <1>12 DEF LinesNow

LEMMA SiteStarts ==
  ASSUME JournalInit
  PROVE  SiteFits /\ Kept /\ LinesNow(Page) /\ ~PageOverRefetch
<1>1. PreviewsInv /\ Kept /\ PageInv
  BY PreviewsStarts, KeptStarts, JournalStarts DEF JournalInit
<1>2. PICK v \in Visits : ClientStart(v)
  BY DEF JournalInit
<1>3. /\ view = [mount |-> "none", table |-> FALSE, source |-> <<>>, top |-> 0,
                 exhausted |-> FALSE, generation |-> 0,
                 modal |-> [open |-> FALSE, title |-> 0, day |-> 0, report |-> Loading]]
      /\ calls = EmptyBag /\ closing = FALSE /\ stream = FALSE /\ feed = << >>
      /\ today = v.first /\ visit = v
  BY <1>2 DEF ClientStart
<1>4. BagToSet(calls) = {}
  BY <1>3 DEF EmptyBag, SetToBag, BagToSet
<1>5. view \in View
  <2>1. << >> \in Seq(Row) /\ Loading \in Reports
    BY DEF Reports
  <2> QED BY <1>3, <2>1 DEF View, Modal
<1>6. Typed(Page)
  BY <1>4, <1>5, PageParts DEF Typed
<1>7. today \in visit.first..visit.last
  <2>1. v.first \in Nat /\ v.last \in Nat /\ v.first <= v.last
    BY ClientAssumption, PreviewsAssumption
  <2> QED BY <1>3, <2>1
<1>8. << >> \in Seq(Days)
  OBVIOUS
<1>9. SiteFits
  BY <1>1, <1>3, <1>6, <1>7, <1>8 DEF SiteFits
<1>10. LinesNow(Page)
  <2>1. IsFiniteSet(Shown(memo.rows)) /\ Page.view.source = << >>
    BY <1>3, <1>9, SiteParts, PageParts
  <2> QED BY <1>4, <2>1, PageParts, NoRowsLined DEF LinesNow, Lines
<1>11. ~PageOverRefetch
  BY <1>4 DEF PageOverRefetch, PageInFlight
<1> QED BY <1>1, <1>9, <1>10, <1>11

LEMMA SiteIsTyped ==
  ASSUME SiteFits
  PROVE  JournalTypeOK
<1>1. PreviewsTypeOK
  BY DEF SiteFits, PreviewsInv
<1>2. /\ view \in View /\ hash \in Routes /\ PageFits(Page)
      /\ moved \in Nat /\ closing \in BOOLEAN /\ stream \in BOOLEAN /\ feed \in Seq(Days)
  BY SiteParts DEF SiteFits, PageInv
<1>3. /\ view.mount \in {"none", "list", "places", "search", "error"}
      /\ view.source \in Seq([day : Days, edition : Nat \ {0}])
      /\ view.top \in Days \cup {0} /\ view.modal \in Modal
  BY <1>2 DEF View, Row
<1>4. view.modal.title \in Days \cup {0} /\ view.modal.report \in Nat \cup {Loading, Writing}
  BY <1>3 DEF Modal, Reports
<1>5. /\ IsABag(calls)
      /\ \A c, e \in BagToSet(calls) :
           c.ask = "page" => c.gen = view.generation /\ calls[c] = 1 /\ (e.ask = "page" => c = e)
  BY <1>2, PageParts DEF PageFits, OneTail
<1> QED BY <1>1, <1>2, <1>3, <1>4, <1>5 DEF JournalTypeOK, ClientTypeOK

\* The page and its calls are of their types, whatever answers come in whatever
\* order: a modal's day is a day, a page's rows are rows (lib/lifelog/client).
THEOREM JournalIsTyped == JournalSpec => []JournalTypeOK
<1>1. JournalInit => SiteFits /\ Kept
  BY SiteStarts
<1>2. (SiteFits /\ Kept) /\ [JournalNext]_journalVars => (SiteFits /\ Kept)'
  BY SiteStep
<1>3. SiteFits /\ Kept => JournalTypeOK
  BY SiteIsTyped
<1> QED BY <1>1, <1>2, <1>3, PTL DEF JournalSpec

LinedUp ==
  /\ SiteFits /\ Kept /\ crossed \in BOOLEAN
  /\ crossed \/ (LinesNow(Page) /\ ~PageOverRefetch)

LEMMA LinedUpStep ==
  ASSUME LinedUp, [JournalNext]_journalVars, [Crossing]_<<crossed, journalVars>>
  PROVE  LinedUp'
<1>1. SiteFits' /\ Kept' /\ scene' = scene
  BY SiteStep DEF LinedUp
<1>2. CASE crossed = FALSE /\ crossed' = FALSE /\ Crossing
  <2>1. ~PageOverRefetch' /\ ~RowsLost
    BY <1>2 DEF Crossing
  <2>2. LinesNow(Page)'
    BY <1>2, <2>1, LinesStep DEF LinedUp
  <2> QED BY <1>1, <1>2, <2>1, <2>2 DEF LinedUp
<1>3. CASE crossed' = TRUE
  BY <1>1, <1>3 DEF LinedUp
<1>4. CASE UNCHANGED <<crossed, journalVars>>
  <2>1. Page' = Page /\ PageOverRefetch' = PageOverRefetch /\ memo' = memo /\ crossed' = crossed
    BY <1>4 DEF journalVars, clientVars, previewVars, Page, PageOverRefetch, PageInFlight
  <2>2. LinesNow(Page) => LinesNow(Page)'
    BY <1>1, <2>1 DEF LinesNow
  <2> QED BY <1>1, <2>1, <2>2 DEF LinedUp
<1>5. crossed' \in BOOLEAN /\ (crossed => crossed')
  BY DEF Crossing, LinedUp
<1> QED BY <1>2, <1>3, <1>4, <1>5 DEF LinedUp

\* A window whose rows are lined up has no holes.
LEMMA LinedHasNoHoles ==
  ASSUME Lined(view.source, scene.written, Shown(memo.rows))
  PROVE  Holes(view) = {}
BY DEF Lined, DaysIn, Holes

\* The list never skips a day that had a journal all along, however its pages,
\* refetches, reloads and failures interleave, unless a page was under way over
\* a refetch or the server lost a row (lib/lifelog/client, loadPage and
\* refreshLoadedRows).
THEOREM PagesAreLinedUp ==
  JournalSpec /\ crossed = FALSE /\ [][Crossing]_<<crossed, journalVars>> => []PagesLineUp
<1>1. JournalInit /\ crossed = FALSE => LinedUp
  BY SiteStarts DEF LinedUp
<1>2. LinedUp /\ [JournalNext]_journalVars /\ [Crossing]_<<crossed, journalVars>> => LinedUp'
  BY LinedUpStep
<1>3. LinedUp => PagesLineUp
  BY LinedHasNoHoles, PageParts DEF LinedUp, PagesLineUp, LinesNow, Lines
<1> QED BY <1>1, <1>2, <1>3, PTL DEF JournalSpec
=============================================================================
