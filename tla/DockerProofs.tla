----------------------------- MODULE DockerProofs -----------------------------
(***************************************************************************)
(* Proofs about MiniDocker, for any containers, images, goroutines and     *)
(* bounds: no two commands run on an entity, a removal runs once for what  *)
(* was asked, and the news of docker are read.                             *)
(*                                                                         *)
(* Shapes says what the session, the goroutines, the list being read and   *)
(* the refresh request look like; each of the three properties has an      *)
(* invariant of its own beside it.                                         *)
(***************************************************************************)
EXTENDS MiniDocker, FiniteSetTheorems, SequenceTheorems, TLAPS

SessionFields == {"scope", "page", "selected", "pending", "inFlight", "available", "rows", "form",
                  "seed"}
\* The last page there is room for, of what LastPage depends on.
Room(scope, rows) == LastPage([scope |-> scope, rows |-> rows])
SessionFits(s) ==
  /\ DOMAIN s = SessionFields /\ s.scope \in Scopes
  /\ DOMAIN s.rows = Scopes /\ DOMAIN s.available = Scopes
  /\ s.page \in 0..Room(s.scope, s.rows)

Kinds == Commands \cup {"idle", "refresh", "to-start", "to-stop", "to-restart", "to-confirm",
                        "to-run", "to-form", "form"}
Tabs == Scopes \cup {"active", "stale"}
JobFields == {"kind", "scope", "id", "seed", "todo"}
\* A goroutine reads lists only when it has done with its command, the poller always.
JobFits(t, w) ==
  /\ DOMAIN w = JobFields /\ w.kind \in Kinds /\ w.todo \in Seq(Tabs)
  /\ t = Poller => w.kind = "idle"
  /\ t # Poller => w.todo = <<>> \/ w.kind = "refresh"
  /\ w.kind \in Commands => w.scope \in Scopes
WorkFits == DOMAIN work = Threads /\ \A t \in Threads : JobFits(t, work[t])

ListingFits ==
  listing # None =>
    /\ listing.by \in Threads /\ work[listing.by].todo # <<>>
    /\ listing.scope \in Scopes

Requests == [containers : BOOLEAN, active : BOOLEAN, stale : BOOLEAN]
InputIs == input # None => DOMAIN input = {"node", "fresh"}

Shapes ==
  /\ SessionFits(session) /\ WorkFits /\ ListingFits /\ refresh \in Requests /\ InputIs
  /\ open \in BOOLEAN

USE DockerAssumption DEF Scopes, Threads, Poller

-----------------------------------------------------------------------------
(* The session.                                                            *)

LEMMA RoomIs ==
  ASSUME NEW s
  PROVE  LastPage(s) = Room(s.scope, s.rows) /\ LastPage(s) \in Nat
<1> DEFINE present(r) == Present(r, r.scope)
           r == [scope |-> s.scope, rows |-> s.rows]
<1>1. present(r) = present(s)
  BY DEF Present
<1>2. LastPage(s) = Room(s.scope, s.rows)
  BY <1>1 DEF LastPage, Room
<1>3. Cardinality(present(s)) \in Nat
  <2>1. present(s) \subseteq Containers \cup Images
    BY DEF Present, Entities
  <2>2. QED
    BY <2>1, FS_Subset, FS_CardinalityType
<1> HIDE DEF present
<1>4. LastPage(s) \in Nat
  <2>1. LastPage(s) = IF Cardinality(present(s)) = 0 THEN 0
                      ELSE (Cardinality(present(s)) - 1) \div PageSize
    BY DEF LastPage, present
  <2>2. \A n \in Nat : n # 0 => (n - 1) \div PageSize \in Nat
    OBVIOUS
  <2>3. QED
    BY <1>3, <2>1, <2>2
<1>5. QED
  BY <1>2, <1>4
\* It depends on the rows of its own scope only.
LEMMA RoomOf ==
  ASSUME NEW scope, NEW rows, NEW more, rows[scope] = more[scope]
  PROVE  Room(scope, rows) = Room(scope, more)
<1> DEFINE a == [scope |-> scope, rows |-> rows]
           b == [scope |-> scope, rows |-> more]
<1>1. Present(a, scope) = Present(b, scope) /\ a.scope = scope /\ b.scope = scope
  BY DEF Present
<1> HIDE DEF a, b
<1>2. LastPage(a) = LastPage(b)
  BY <1>1 DEF LastPage
<1>3. QED
  BY <1>2 DEF Room, a, b
LEMMA RoomNat == \A scope, rows : Room(scope, rows) \in Nat
  BY RoomIs DEF Room

\* s is r but for what is shown and chosen.
Agrees(s, r) == SessionFits(s) /\ s.inFlight = r.inFlight /\ s.rows = r.rows

LEMMA SetScopeShape ==
  ASSUME NEW s, SessionFits(s), NEW scope \in Scopes
  PROVE  /\ Agrees(SetScope(s, scope), s)
         /\ SetScope(s, scope).pending = (IF scope = s.scope THEN s.pending ELSE None)
  BY RoomNat DEF SetScope, Agrees, SessionFits, SessionFields

LEMMA MovePageShape ==
  ASSUME NEW s, SessionFits(s), NEW page
  PROVE  /\ Agrees(MovePage(s, page), s) /\ MovePage(s, page).pending \in {s.pending, None}
         /\ s.available[s.scope] /\ page \in 0..LastPage(s) => MovePage(s, page).pending = None
  BY RoomIs, RoomNat DEF MovePage, Agrees, SessionFits, SessionFields

LEMMA ChooseShape ==
  ASSUME NEW s, SessionFits(s), NEW e, NEW valid
  PROVE  /\ Agrees(Select(s, e), s) /\ Select(s, e).pending = s.pending
         /\ Agrees(Edit(s, valid), s) /\ Edit(s, valid).pending = s.pending
         /\ Agrees(Disarm(s), s) /\ Disarm(s).pending = None
         /\ Agrees([s EXCEPT !.form = None], s) /\ [s EXCEPT !.form = None].pending = s.pending
         /\ Agrees(Arm(s, e), s)
         /\ CanRemove(s, s.scope, e) => Arm(s, e).pending = [scope |-> s.scope, id |-> e]
<1>1. /\ Agrees(Select(s, e), s) /\ Select(s, e).pending = s.pending
      /\ Agrees(Disarm(s), s) /\ Disarm(s).pending = None
  BY DEF Select, Disarm, Agrees, SessionFits, SessionFields
<1>2. /\ Agrees(Edit(s, valid), s) /\ Edit(s, valid).pending = s.pending
      /\ Agrees([s EXCEPT !.form = None], s) /\ [s EXCEPT !.form = None].pending = s.pending
  BY DEF Edit, Agrees, SessionFits, SessionFields
<1>3. /\ Agrees(Arm(s, e), s)
      /\ CanRemove(s, s.scope, e) => Arm(s, e).pending = [scope |-> s.scope, id |-> e]
  BY DEF Arm, Agrees, SessionFits, SessionFields
<1>4. QED
  BY <1>1, <1>2, <1>3

\* A list that was not read: nothing but what is available.
LEMMA FailsShape ==
  ASSUME NEW s, SessionFits(s), NEW scope \in Scopes
  PROVE  Agrees(Fails(s, scope), s) /\ Fails(s, scope).pending = s.pending
  BY DEF Fails, Agrees, SessionFits, SessionFields

\* A list that was read: its rows are replaced, and a removal that is still armed is of
\* an entity that is there.
LEMMA ListsShape ==
  ASSUME NEW s, SessionFits(s), NEW scope \in Scopes, NEW rows
  PROVE  LET l == Lists(s, scope, rows) IN
         /\ SessionFits(l) /\ l.inFlight = s.inFlight
         /\ l.rows = [s.rows EXCEPT ![scope] = rows]
         /\ l.pending \in {s.pending, None}
         /\ l.pending # None => (s.pending.scope = scope => Has(l, scope, s.pending.id))
<1> DEFINE new == [s EXCEPT !.available[scope] = TRUE, !.rows[scope] = rows]
           here == s.scope = scope
           cut == here /\ s.page > LastPage(new)
           page == IF cut THEN LastPage(new) ELSE s.page
           stays(e) == /\ ~cut
                       /\ Has(new, scope, e) /\ PageOf(new, scope, e) = page
           gone(e) == here /\ e # None /\ ~stays(e)
           leaves == \/ gone(new.pending.id)
                     \/ new.pending.scope = scope /\ ~Has(new, scope, new.pending.id)
           l == Lists(s, scope, rows)
<1>1. /\ DOMAIN new = SessionFields /\ new.scope = s.scope /\ DOMAIN new.available = Scopes
      /\ new.inFlight = s.inFlight /\ new.pending = s.pending
      /\ new.rows = [s.rows EXCEPT ![scope] = rows]
  BY DEF SessionFits, SessionFields
<1>2. l = [new EXCEPT !.page = page, !.selected = IF gone(new.selected) THEN None ELSE new.selected,
                      !.pending = IF new.pending # None /\ leaves THEN None ELSE new.pending]
  BY Zenon DEF Lists
<1> HIDE DEF new
<1>0. page \in 0..Room(s.scope, new.rows)
  <2>1. LastPage(new) = Room(s.scope, new.rows) /\ LastPage(new) \in Nat
    BY <1>1, RoomIs
  <2>2. s.page \in 0..Room(s.scope, s.rows) /\ Room(s.scope, s.rows) \in Nat
    BY RoomNat DEF SessionFits
  <2>3. ~here => Room(s.scope, s.rows) = Room(s.scope, new.rows)
    <3>1. ~here => s.rows[s.scope] = new.rows[s.scope]
      BY <1>1 DEF SessionFits
    <3>2. QED
      BY <3>1, RoomOf
  <2>4. QED
    BY <2>1, <2>2, <2>3
<1> HIDE DEF gone, page, l
<1>3. /\ SessionFits(l) /\ l.inFlight = new.inFlight /\ l.rows = new.rows
      /\ l.pending = (IF new.pending # None /\ leaves THEN None ELSE new.pending)
  BY <1>0, <1>1, <1>2 DEF SessionFits, SessionFields
<1>4. \A e : Has(l, scope, e) <=> Has(new, scope, e)
  BY <1>3 DEF Has, Present
<1>5. QED
  BY <1>1, <1>3, <1>4 DEF l

-----------------------------------------------------------------------------
(* What each property needs beside the shapes.                             *)

\* The removal that is armed is the one the user asked for, of an entity that is there;
\* and a click that still counts is on a button that is there.
PendingFits ==
  session.pending # None =>
    /\ session.pending = armed /\ armed.scope \in Scopes
    /\ armed = [scope |-> armed.scope, id |-> armed.id]
    /\ Has(session, armed.scope, armed.id)
InputFits == input # None /\ input.fresh => input.node \in Buttons(session)

\* The lists that a thread has not begun to read.
ToRead(t) == IF listing # None /\ listing.by = t THEN Tail(work[t].todo) ELSE work[t].todo
NewsFits ==
  unlisted => \/ watch = "debounce" \/ refresh.containers
              \/ \E t \in Threads : "containers" \in Range(ToRead(t))

-----------------------------------------------------------------------------
(* The goroutines.                                                         *)

LEMMA TailElements ==
  ASSUME NEW S, NEW s \in Seq(S), s # <<>>
  PROVE  /\ Tail(s) \in Seq(S) /\ Range(s) = {Head(s)} \cup Range(Tail(s))
         /\ Len(s) = 1 => Tail(s) = <<>>
<1>1. /\ Tail(s) \in Seq(S) /\ Len(s) \in Nat \ {0} /\ Len(Tail(s)) = Len(s) - 1
      /\ \A i \in 1..(Len(s) - 1) : Tail(s)[i] = s[i + 1]
      /\ Head(s) = s[1] /\ DOMAIN s = 1..Len(s) /\ DOMAIN Tail(s) = 1..(Len(s) - 1)
  BY HeadTailProperties, LenProperties, EmptySeq
<1>2. Range(Tail(s)) \subseteq Range(s) /\ Head(s) \in Range(s)
  <2>1. ASSUME NEW i \in DOMAIN Tail(s) PROVE Tail(s)[i] \in Range(s)
    <3>1. i + 1 \in DOMAIN s /\ Tail(s)[i] = s[i + 1]
      BY <1>1
    <3>2. QED
      BY <3>1 DEF Range
  <2>2. QED
    BY <1>1, <2>1 DEF Range
<1>3. ASSUME NEW i \in DOMAIN s, i # 1 PROVE s[i] \in Range(Tail(s))
  <2>1. i - 1 \in DOMAIN Tail(s) /\ Tail(s)[i - 1] = s[i]
    BY <1>1, <1>3
  <2>2. QED
    BY <2>1 DEF Range
<1>4. Range(s) \subseteq {Head(s)} \cup Range(Tail(s))
  BY <1>1, <1>3 DEF Range
<1>5. Len(s) = 1 => Tail(s) = <<>>
  BY <1>1, EmptySeq
<1>6. QED
  BY <1>1, <1>2, <1>4, <1>5

\* What a request is read as.
LEMMA ReadsShape ==
  ASSUME NEW request, request \in Requests
  PROVE  /\ Reads(request) \in Seq(Tabs)
         /\ request.containers => "containers" \in Range(Reads(request))
<1> DEFINE first == IF request.containers \/ (request.active /\ session.scope = "containers")
                    THEN <<"containers">> ELSE <<>>
           rest == IF ~request.active THEN <<>>
                   ELSE IF request.stale THEN <<"stale">> ELSE <<"active">>
<1>1. first \in Seq(Tabs) /\ rest \in Seq(Tabs)
  <2>1. \A x \in Tabs : <<x>> \in Seq(Tabs)
    OBVIOUS
  <2>2. <<>> \in Seq(Tabs) /\ {"containers", "stale", "active"} \subseteq Tabs
    BY DEF Tabs
  <2>3. QED
    BY <2>1, <2>2
<1>2. Reads(request) = first \o rest
  BY DEF Reads
<1>3. Reads(request) \in Seq(Tabs)
  BY <1>1, <1>2, ConcatProperties
<1>4. ASSUME request.containers PROVE "containers" \in Range(Reads(request))
  <2>1. first = <<"containers">> /\ Len(first) = 1 /\ first[1] = "containers"
    BY <1>4
  <2> HIDE DEF first, rest
  <2>2. Len(first \o rest) = 1 + Len(rest) /\ (first \o rest)[1] = "containers" /\ Len(rest) \in Nat
    BY <1>1, <2>1, ConcatProperties, LenProperties
  <2>3. 1 \in DOMAIN (first \o rest)
    BY <1>2, <1>3, <2>2, LenProperties
  <2>4. QED
    BY <1>2, <2>2, <2>3 DEF Range
<1>5. QED
  BY <1>3, <1>4

LEMMA AdvanceShape ==
  ASSUME NEW t \in Threads, JobFits(t, work[t]), work[t].todo # <<>>
  PROVE  /\ JobFits(t, Advance(t)) /\ Advance(t).todo = Tail(work[t].todo)
         /\ work[t].kind \in {"idle", "refresh"} /\ Advance(t).kind \in {"idle", "refresh"}
<1> DEFINE todo == work[t].todo
<1>1. /\ DOMAIN work[t] = JobFields /\ work[t].kind \in {"idle", "refresh"}
      /\ t = Poller => work[t].kind = "idle"
      /\ t # Poller => work[t].kind = "refresh"
  BY DEF JobFits
<1>2. todo \in Seq(Tabs) /\ Tail(todo) \in Seq(Tabs) /\ (Len(todo) = 1 => Tail(todo) = <<>>)
  BY TailElements DEF JobFits
<1>3. CASE t # Poller /\ Len(todo) = 1
  <2>1. Advance(t) = Idle
    BY <1>3 DEF Advance
  <2>2. QED
    BY <1>1, <1>2, <1>3, <2>1 DEF Idle, JobFits, JobFields, Kinds, Commands
<1>4. CASE ~(t # Poller /\ Len(todo) = 1)
  <2>1. Advance(t) = [work[t] EXCEPT !.todo = Tail(todo)]
    BY <1>4 DEF Advance
  <2>2. /\ Advance(t).todo = Tail(todo) /\ Advance(t).kind = work[t].kind
        /\ DOMAIN Advance(t) = JobFields
    BY <1>1, <2>1 DEF JobFields
  <2>3. QED
    BY <1>1, <1>2, <2>2 DEF JobFits, Kinds, Commands
<1>5. QED
  BY <1>3, <1>4

\* One goroutine is given another job.
LEMMA OneJob ==
  ASSUME WorkFits, NEW t \in Threads, NEW w, JobFits(t, w), work' = [work EXCEPT ![t] = w]
  PROVE  /\ WorkFits' /\ work'[t] = w
         /\ \A u \in Threads : u # t => work'[u] = work[u]
  BY DEF WorkFits, JobFits

LEMMA IdleFits == \A t \in Workers : JobFits(t, Idle)
  BY DEF JobFits, Idle, JobFields, Kinds, Commands

-----------------------------------------------------------------------------
(* What the steps have in common.                                          *)

LEMMA EnqueueShape ==
  ASSUME refresh \in Requests, NEW request \in Requests, Enqueue(request)
  PROVE  refresh' \in Requests /\ (refresh.containers \/ request.containers => refresh'.containers)
  BY DEF Enqueue, Merged, Request, NoRequest, Requests

LEMMA RequestIs ==
  ASSUME NEW a \in BOOLEAN, NEW b \in BOOLEAN, NEW c \in BOOLEAN
  PROVE  Request(a, b, c) \in Requests /\ Request(a, b, c).containers = a
  BY DEF Request, Requests

\* A publish: a click on its way counts only when the controls are as they were.
LEMMA ShowsShape ==
  ASSUME NEW s, NEW waiting, Shows(s, waiting),
         waiting # None => DOMAIN waiting = {"node", "fresh"},
         waiting # None /\ waiting.fresh => waiting.node \in Buttons(session)
  PROVE  session' = s /\ InputIs' /\ InputFits'
<1>1. session' = s
  BY DEF Shows
<1>2. CASE waiting = None \/ Signature(s) = Signature(session)
  <2>1. input' = waiting
    BY <1>2 DEF Shows
  <2>2. waiting # None => Buttons(s) = Buttons(session)
    BY <1>2 DEF Signature
  <2>3. Buttons(s) = Buttons(session)'
    BY <1>1
  <2>4. QED
    BY <1>1, <2>1, <2>2, <2>3 DEF InputIs, InputFits
<1>3. CASE ~(waiting = None \/ Signature(s) = Signature(session))
  <2>1. input' = [waiting EXCEPT !.fresh = FALSE]
    BY <1>3 DEF Shows
  <2>2. DOMAIN input' = {"node", "fresh"} /\ ~input'.fresh
    BY <1>3, <2>1
  <2>3. QED
    BY <1>1, <2>2 DEF InputIs, InputFits
<1>4. QED
  BY <1>2, <1>3

LEMMA ShowsInput ==
  ASSUME NEW s, Shows(s, input), InputIs, InputFits PROVE session' = s /\ InputIs' /\ InputFits'
  BY ShowsShape DEF InputIs, InputFits
LEMMA ShowsNothing ==
  ASSUME NEW s, Shows(s, None) PROVE session' = s /\ InputIs' /\ InputFits'
  BY ShowsShape

-----------------------------------------------------------------------------
(* Steps that neither read lists nor touch the goroutines.                 *)

LEMMA SessionKept ==
  ASSUME Shapes, UNCHANGED <<work, listing>>, SessionFits(session'), refresh' \in Requests, InputIs',
         open' \in BOOLEAN
  PROVE  Shapes'
<1>1. WorkFits'
  BY DEF Shapes, WorkFits
<1>2. ListingFits'
  BY DEF Shapes, ListingFits
<1>3. SessionFits(session)'
  BY DEF SessionFits
<1>4. QED
  BY <1>1, <1>2, <1>3 DEF Shapes

\* The shapes of a step that changes one goroutine, which reads no list, and the session.
LEMMA JobShape ==
  ASSUME Shapes, NEW t \in Workers, NEW w, JobFits(t, w), work' = [work EXCEPT ![t] = w],
         work[t].todo = <<>>, UNCHANGED <<listing, refresh, open>>, SessionFits(session'),
         InputIs'
  PROVE  /\ Shapes' /\ work'[t] = w
         /\ \A u \in Threads : u # t => work'[u] = work[u]
<1>1. WorkFits' /\ work'[t] = w /\ \A u \in Threads : u # t => work'[u] = work[u]
  BY OneJob DEF Shapes
<1>2. ListingFits'
  <2>1. ASSUME listing # None PROVE listing.by # t
    BY <2>1 DEF Shapes, ListingFits
  <2>2. QED
    BY <1>1, <2>1 DEF Shapes, ListingFits
<1>3. SessionFits(session)'
  BY DEF SessionFits
<1>4. QED
  BY <1>1, <1>2, <1>3 DEF Shapes

\* What they leave alone is enough for the two properties of commands and removals.
OutsideStep ==
  /\ Click \/ HandleStale \/ OpenPanel \/ ClosePanel \/ DockerChanges \/ StreamOpens
     \/ StreamEnds \/ Debounced
LEMMA OutsideShape ==
  ASSUME Shapes, OutsideStep
  PROVE  /\ Shapes' /\ UNCHANGED <<session, work, listing, armed>>
         /\ refresh.containers => refresh'.containers
         /\ InputFits => InputFits'
<1>1. UNCHANGED <<session, work, listing, armed>>
  BY DEF OutsideStep, Click, HandleStale, OpenPanel, ClosePanel, DockerChanges, StreamOpens,
         StreamEnds, Debounced
<1>2. /\ refresh' \in Requests /\ (refresh.containers => refresh'.containers)
  <2>1. \/ UNCHANGED refresh
        \/ \E a, b \in BOOLEAN : Enqueue(Request(a, b, FALSE))
    BY DEF OutsideStep, Click, HandleStale, OpenPanel, ClosePanel, DockerChanges, StreamOpens,
           StreamEnds, Debounced
  <2>2. QED
    BY <2>1, RequestIs, EnqueueShape DEF Shapes
<1>3. InputIs' /\ (InputFits => InputFits')
  <2>1. \/ input' \in {input, None}
        \/ \E node \in Buttons(session) : input' = [node |-> node, fresh |-> TRUE]
    BY DEF OutsideStep, Click, HandleStale, OpenPanel, ClosePanel, DockerChanges, StreamOpens,
           StreamEnds, Debounced
  <2>2. Buttons(session)' = Buttons(session)
    BY <1>1
  <2>3. QED
    BY <2>1, <2>2 DEF Shapes, InputIs, InputFits
<1>4. open' \in BOOLEAN
  BY DEF OutsideStep, Click, HandleStale, OpenPanel, ClosePanel, DockerChanges, StreamOpens,
         StreamEnds, Debounced, Shapes
<1>5. QED
  BY <1>1, <1>2, <1>3, <1>4, SessionKept DEF Shapes

-----------------------------------------------------------------------------
(* Steps that read lists.                                                  *)

\* The poller begins with a request.
LEMMA PollShape ==
  ASSUME Shapes, TakeRequest \/ Tick
  PROVE  /\ Shapes' /\ UNCHANGED <<session, listing, armed, input, watch, unlisted>>
         /\ work[Poller].todo = <<>>
         /\ refresh.containers => refresh'.containers \/ "containers" \in Range(work'[Poller].todo)
         /\ work'[Poller].kind = "idle"
         /\ \A t \in Workers : work'[t] = work[t]
<1>1. /\ UNCHANGED <<session, listing, armed, input, watch, unlisted, open>>
      /\ work[Poller].todo = <<>>
  BY DEF TakeRequest, Tick
<1>2. PICK r \in Requests :
        /\ work' = [work EXCEPT ![Poller].todo = Reads(r)]
        /\ refresh.containers => refresh'.containers \/ r.containers
        /\ refresh' \in Requests
  <2>1. CASE TakeRequest
    BY <2>1 DEF TakeRequest, Shapes, NoRequest, Request, Requests
  <2>2. CASE Tick
    <3>1. \E b \in BOOLEAN : work' = [work EXCEPT ![Poller].todo = Reads(Request(TRUE, b, FALSE))]
      BY <2>2 DEF Tick, Shapes
    <3>2. QED
      BY <2>2, <3>1, RequestIs DEF Tick, Shapes
  <2>3. QED
    BY <2>1, <2>2
<1>3. Poller \in Threads /\ Poller \notin Workers
  OBVIOUS
<1> DEFINE w == [work[Poller] EXCEPT !.todo = Reads(r)]
<1>4. /\ JobFits(Poller, work[Poller]) /\ DOMAIN work = Threads
  BY <1>3 DEF Shapes, WorkFits
<1>5. work' = [work EXCEPT ![Poller] = w]
  BY <1>2
<1>6. JobFits(Poller, w) /\ w.todo = Reads(r) /\ w.kind = "idle"
  BY <1>4, ReadsShape DEF JobFits, JobFields
<1> HIDE DEF w
<1>7. WorkFits' /\ work'[Poller] = w /\ \A t \in Threads : t # Poller => work'[t] = work[t]
  BY <1>3, <1>5, <1>6, OneJob DEF Shapes
<1>8. ListingFits'
  <2>1. listing # None => listing.by # Poller
    BY <1>1 DEF Shapes, ListingFits
  <2>2. QED
    BY <1>1, <1>7, <2>1 DEF Shapes, ListingFits
<1>9. SessionFits(session)' /\ InputIs'
  BY <1>1 DEF Shapes, SessionFits, InputIs
<1>10. Shapes'
  BY <1>1, <1>2, <1>7, <1>8, <1>9 DEF Shapes
<1>11. QED
  BY <1>1, <1>2, <1>3, <1>6, <1>7, <1>10, ReadsShape

LEMMA SkipShape ==
  ASSUME Shapes, NEW t \in Threads, SkipTab(t)
  PROVE  /\ Shapes' /\ UNCHANGED <<session, listing, armed, input, refresh, watch, unlisted>>
         /\ listing = None /\ work[t].todo # <<>> /\ Head(work[t].todo) # "containers"
         /\ work'[t].todo = Tail(work[t].todo)
         /\ work[t].kind \in {"idle", "refresh"} /\ work'[t].kind \in {"idle", "refresh"}
         /\ \A u \in Threads : u # t => work'[u] = work[u]
<1>1. /\ UNCHANGED <<session, listing, armed, input, refresh, watch, unlisted, open>>
      /\ listing = None /\ work[t].todo # <<>> /\ Head(work[t].todo) # "containers"
      /\ work' = [work EXCEPT ![t] = Advance(t)]
  BY DEF SkipTab
<1>2. /\ JobFits(t, Advance(t)) /\ Advance(t).todo = Tail(work[t].todo)
      /\ work[t].kind \in {"idle", "refresh"} /\ Advance(t).kind \in {"idle", "refresh"}
  BY <1>1, AdvanceShape DEF Shapes, WorkFits
<1>3. /\ WorkFits' /\ work'[t] = Advance(t)
      /\ \A u \in Threads : u # t => work'[u] = work[u]
  BY <1>1, <1>2, OneJob DEF Shapes
<1>4. ListingFits'
  BY <1>1 DEF ListingFits
<1>5. Shapes'
  BY <1>1, <1>3, <1>4 DEF Shapes, SessionFits, InputIs
<1>6. QED
  BY <1>1, <1>2, <1>3, <1>5

LEMMA BeginShape ==
  ASSUME Shapes, NEW t \in Threads, BeginList(t)
  PROVE  /\ Shapes' /\ UNCHANGED <<session, work, armed, input, refresh, watch>>
         /\ listing = None /\ work[t].todo # <<>> /\ listing'.by = t
         /\ unlisted' => unlisted /\ Head(work[t].todo) # "containers"
<1> DEFINE scope == IF Head(work[t].todo) \in Scopes THEN Head(work[t].todo) ELSE session.scope
<1>1. /\ UNCHANGED <<session, work, armed, input, refresh, watch, open>>
      /\ listing = None /\ work[t].todo # <<>>
      /\ \/ listing' = [by |-> t, scope |-> scope, rows |-> actual[scope]]
         \/ listing' = [by |-> t, scope |-> scope, rows |-> None]
      /\ unlisted' = (unlisted /\ scope # "containers")
  BY DEF BeginList
<1>2. scope \in Scopes
  BY DEF Shapes, SessionFits
<1>3. unlisted' => unlisted /\ Head(work[t].todo) # "containers"
  BY <1>1
<1> HIDE DEF scope
<1>4. listing'.by = t /\ listing'.scope \in Scopes
  BY <1>1, <1>2
<1>5. ListingFits'
  BY <1>1, <1>4 DEF ListingFits
<1>6. Shapes'
  BY <1>1, <1>5 DEF Shapes, SessionFits, InputIs, WorkFits
<1>7. QED
  BY <1>1, <1>3, <1>4, <1>6

\* The rows that were read replace those of their scope, and nothing else is armed.
LEMMA FinishShape ==
  ASSUME Shapes, FinishList
  PROVE  /\ Shapes' /\ UNCHANGED <<refresh, watch, unlisted>>
         /\ listing # None /\ listing' = None /\ listing.by \in Threads
         /\ work[listing.by].todo # <<>>
         /\ work'[listing.by].todo = Tail(work[listing.by].todo)
         /\ work[listing.by].kind \in {"idle", "refresh"}
         /\ work'[listing.by].kind \in {"idle", "refresh"}
         /\ \A u \in Threads : u # listing.by => work'[u] = work[u]
         /\ InputFits => InputFits'
         /\ session'.inFlight = session.inFlight
         /\ PendingFits => PendingFits'
<1>1. /\ UNCHANGED <<refresh, watch, unlisted, open>> /\ listing # None /\ listing' = None
      /\ listing.by \in Threads /\ work[listing.by].todo # <<>> /\ listing.scope \in Scopes
      /\ work' = [work EXCEPT ![listing.by] = Advance(listing.by)]
  BY DEF FinishList, Shapes, ListingFits
<1> DEFINE t == listing.by
           s == IF listing.rows = None THEN Fails(session, listing.scope)
                ELSE Lists(session, listing.scope, listing.rows)
<1>2. /\ JobFits(t, Advance(t)) /\ Advance(t).todo = Tail(work[t].todo)
      /\ work[t].kind \in {"idle", "refresh"} /\ Advance(t).kind \in {"idle", "refresh"}
  BY <1>1, AdvanceShape DEF Shapes, WorkFits
<1>3. /\ WorkFits' /\ work'[t] = Advance(t)
      /\ \A u \in Threads : u # t => work'[u] = work[u]
  BY <1>1, <1>2, OneJob DEF Shapes
<1>4. /\ SessionFits(s) /\ s.inFlight = session.inFlight
      /\ s.pending \in {session.pending, None}
      /\ \A scope \in Scopes \ {listing.scope} : s.rows[scope] = session.rows[scope]
      /\ s.pending # None /\ session.pending.scope = listing.scope
           => /\ Has(session, listing.scope, session.pending.id)
                   => Has(s, listing.scope, session.pending.id)
  <2>1. CASE listing.rows = None
    <3>1. Agrees(s, session) /\ s.pending = session.pending
      BY <1>1, <2>1, FailsShape DEF Shapes
    <3>2. QED
      BY <3>1 DEF Agrees, Has, Present
  <2>2. CASE listing.rows # None
    <3>1. /\ SessionFits(s) /\ s.inFlight = session.inFlight
          /\ s.rows = [session.rows EXCEPT ![listing.scope] = listing.rows]
          /\ s.pending \in {session.pending, None}
          /\ s.pending # None => (session.pending.scope = listing.scope
                                    => Has(s, listing.scope, session.pending.id))
      BY <1>1, <2>2, ListsShape DEF Shapes
    <3> HIDE DEF s
    <3>2. QED
      BY <1>1, <3>1 DEF Shapes, SessionFits
  <2>3. QED
    BY <2>1, <2>2
<1>5. /\ Shows(s, input)
      /\ armed' = IF armed # None /\ armed.scope = listing.scope /\ ~Has(session', armed.scope, armed.id)
                  THEN None ELSE armed
  BY DEF FinishList
<1> HIDE DEF s
<1>6. session' = s /\ InputIs' /\ (InputFits => InputFits')
  BY <1>5, ShowsInput, ShowsShape DEF Shapes, InputIs, Shows
<1>7. Shapes'
  BY <1>1, <1>3, <1>4, <1>6 DEF Shapes, ListingFits, SessionFits
<1>8. ASSUME PendingFits PROVE PendingFits'
  <2> SUFFICES ASSUME s.pending # None
               PROVE  /\ s.pending = armed' /\ armed'.scope \in Scopes
                      /\ armed' = [scope |-> armed'.scope, id |-> armed'.id]
                      /\ Has(s, armed'.scope, armed'.id)
    BY <1>6 DEF PendingFits
  <2>1. /\ s.pending = session.pending /\ session.pending = armed /\ armed.scope \in Scopes
        /\ armed = [scope |-> armed.scope, id |-> armed.id]
        /\ Has(session, armed.scope, armed.id)
    BY <1>4, <1>8 DEF PendingFits
  <2>2. Has(s, armed.scope, armed.id)
    <3>1. CASE armed.scope = listing.scope
      BY <1>4, <2>1, <3>1
    <3>2. CASE armed.scope # listing.scope
      BY <1>4, <2>1, <3>2 DEF Has, Present
    <3>3. QED
      BY <3>1, <3>2
  <2>3. armed' = armed
    BY <1>5, <1>6, <2>2
  <2>4. QED
    BY <2>1, <2>2, <2>3
<1>9. QED
  BY <1>1, <1>2, <1>3, <1>4, <1>6, <1>7, <1>8

-----------------------------------------------------------------------------
(* The goroutines: a step begins a command, ends one, or neither.          *)

Others(t) == \A u \in Threads : u # t => work'[u] = work[u]
Of(w) == <<w.scope, w.kind, w.id>>
Begins(t) ==
  /\ ~InCommand(t) /\ work'[t].kind \in Commands
  /\ session'.inFlight = session.inFlight \cup {Of(work'[t])}
  /\ ~ActsOn(session, work'[t].scope, work'[t].id)
Ends(t) ==
  /\ InCommand(t) /\ work'[t].kind \notin Commands
  /\ session'.inFlight = session.inFlight \ {Of(work[t])}
Neither(t) ==
  ~InCommand(t) /\ work'[t].kind \notin Commands /\ session'.inFlight = session.inFlight

LEMMA PendingKept ==
  ASSUME PendingFits, session'.rows = session.rows,
         session'.pending = None \/ (session'.pending = session.pending /\ armed' = armed)
  PROVE  PendingFits'
  BY DEF PendingFits, Has, Present

LEMMA WorkerIs ==
  ASSUME Shapes, NEW t \in Threads, work[t].kind \notin {"idle", "refresh"}
  PROVE  t \in Workers /\ work[t].todo = <<>>
  BY DEF Shapes, WorkFits, JobFits

\* A command is reserved.
LEMMA ReserveShape ==
  ASSUME Shapes, NEW t \in Workers, work[t].todo = <<>>, ~InCommand(t), NEW kind \in Commands,
         NEW scope \in Scopes, NEW e, NEW seed, NEW s, Agrees(s, session),
         Runs(t, kind, scope, e, seed),
         Shows([s EXCEPT !.inFlight = @ \cup {<<scope, kind, e>>}], input),
         ~ActsOn(session, scope, e), UNCHANGED <<listing, refresh, open>>, InputFits
  PROVE  /\ Shapes' /\ InputFits' /\ Others(t) /\ Begins(t)
         /\ work'[t].kind = kind /\ work'[t].scope = scope /\ work'[t].id = e
         /\ session'.rows = session.rows /\ session'.pending = s.pending
<1> DEFINE w == [Idle EXCEPT !.kind = kind, !.scope = scope, !.id = e, !.seed = seed]
           r == [s EXCEPT !.inFlight = @ \cup {<<scope, kind, e>>}]
<1>1. work' = [work EXCEPT ![t] = w]
  BY DEF Runs
<1>2. JobFits(t, w) /\ w.kind = kind /\ w.scope = scope /\ w.id = e
  BY DEF JobFits, Idle, JobFields, Kinds
<1>3. /\ SessionFits(r) /\ r.rows = session.rows /\ r.pending = s.pending
      /\ r.inFlight = session.inFlight \cup {<<scope, kind, e>>}
  BY DEF Agrees, SessionFits, SessionFields
<1>4. session' = r /\ InputIs' /\ InputFits'
  BY ShowsInput DEF Shapes
<1> HIDE DEF w, r
<1>5. Shapes' /\ work'[t] = w /\ Others(t)
  BY <1>1, <1>2, <1>3, <1>4, JobShape DEF Others
<1>6. QED
  BY <1>2, <1>3, <1>4, <1>5 DEF Begins, Of

\* A goroutine ends, or goes on to something that is not a command.
LEMMA NeitherShape ==
  ASSUME Shapes, InputFits, NEW t \in Workers, work[t].todo = <<>>, ~InCommand(t),
         NEW w, JobFits(t, w), w.kind \notin Commands, work' = [work EXCEPT ![t] = w],
         NEW s, Agrees(s, session), session' = s, InputIs', InputFits',
         UNCHANGED <<listing, refresh, open>>
  PROVE  /\ Shapes' /\ Others(t) /\ Neither(t) /\ work'[t] = w
         /\ session'.rows = session.rows /\ session'.pending = s.pending
<1>1. Shapes' /\ work'[t] = w /\ Others(t)
  BY JobShape DEF Agrees, Others
<1>2. QED
  BY <1>1 DEF Neither, Agrees

LEMMA SessionAgrees == ASSUME NEW s, SessionFits(s) PROVE Agrees(s, s)
  BY DEF Agrees

LEMMA StopShape ==
  ASSUME Shapes, InputFits, NEW t \in Workers, work[t].todo = <<>>, ~InCommand(t), Stops(t),
         NEW s, Agrees(s, session), session' = s, InputIs', InputFits',
         UNCHANGED <<listing, refresh, open>>
  PROVE  /\ Shapes' /\ Others(t) /\ Neither(t) /\ work'[t] = Idle
         /\ session'.rows = session.rows /\ session'.pending = s.pending
<1>1. JobFits(t, Idle) /\ Idle.kind \notin Commands /\ work' = [work EXCEPT ![t] = Idle]
  BY IdleFits DEF Stops, Idle, Commands
<1> HIDE DEF Idle
<1>2. QED
  BY <1>1, NeitherShape

\* The panel's commands on a container: it is checked again whether it can be.
LEMMA ActShape ==
  ASSUME Shapes, InputFits, NEW t \in Threads, StartAct(t)
  PROVE  /\ Shapes' /\ InputFits' /\ t \in Workers /\ work[t].todo = <<>>
         /\ Others(t) /\ (Begins(t) \/ Neither(t)) /\ work'[t].kind # "remove"
         /\ PendingFits => PendingFits'
<1>1. /\ t \in Workers /\ work[t].todo = <<>> /\ ~InCommand(t)
      /\ Verb(t) \in {"start", "stop", "restart"}
  <2>1. work[t].kind \in {"to-start", "to-stop", "to-restart"}
    BY DEF StartAct, StartsVerb
  <2>2. QED
    BY <2>1, WorkerIs DEF InCommand, Commands, Verb
<1>2. UNCHANGED <<listing, refresh, open, armed>>
  BY DEF StartAct
<1>3. SessionFits(session) /\ Agrees(session, session)
  BY SessionAgrees DEF Shapes
<1>4. CASE Eligible(session, Verb(t), work[t].id)
  <2> DEFINE e == work[t].id
             verb == Verb(t)
  <2>1. ~ActsOn(session, "containers", e)
    BY <1>4 DEF Eligible
  <2>2. PICK seed : /\ Runs(t, verb, "containers", e, seed)
                    /\ Shows([session EXCEPT !.inFlight = @ \cup {<<"containers", verb, e>>}], input)
    BY <1>4 DEF StartAct, Reserves
  <2>3. verb \in Commands /\ verb # "remove"
    BY <1>1 DEF Commands
  <2> HIDE DEF e, verb
  <2>4. /\ Shapes' /\ InputFits' /\ Others(t) /\ Begins(t) /\ work'[t].kind = verb
        /\ session'.rows = session.rows /\ session'.pending = session.pending
    BY <1>1, <1>2, <1>3, <2>1, <2>2, <2>3, ReserveShape
  <2>5. QED
    BY <1>1, <1>2, <2>3, <2>4, PendingKept
<1>5. CASE ~Eligible(session, Verb(t), work[t].id)
  <2>1. Stops(t) /\ UNCHANGED <<session, input>>
    BY <1>5 DEF StartAct
  <2>2. InputIs' /\ InputFits'
    BY <2>1 DEF Shapes, InputIs, InputFits
  <2>3. /\ Shapes' /\ Others(t) /\ Neither(t) /\ work'[t] = Idle
        /\ session'.rows = session.rows /\ session'.pending = session.pending
    BY <1>1, <1>2, <1>3, <2>1, <2>2, StopShape
  <2>4. QED
    BY <1>1, <1>2, <2>2, <2>3, PendingKept DEF Idle
<1>6. QED
  BY <1>4, <1>5

\* The armed removal is consumed, and begins only as the one that was asked for.
LEMMA RemovalShape ==
  ASSUME Shapes, InputFits, NEW t \in Threads, StartRemoval(t)
  PROVE  /\ Shapes' /\ InputFits' /\ t \in Workers /\ work[t].todo = <<>>
         /\ Others(t) /\ (Begins(t) \/ Neither(t))
         /\ PendingFits =>
              /\ PendingFits'
              /\ work'[t].kind = "remove" =>
                   armed = [scope |-> work'[t].scope, id |-> work'[t].id] /\ armed' = None
<1>1. t \in Workers /\ work[t].todo = <<>> /\ ~InCommand(t)
  BY WorkerIs DEF StartRemoval, InCommand, Commands
<1>2. UNCHANGED <<listing, refresh, open>>
  BY DEF StartRemoval
<1> DEFINE calm == Disarm(session)
           target == session.pending
           sure == target # None /\ target.scope = session.scope
                   /\ CanRemove(session, target.scope, target.id)
<1>3. Agrees(calm, session) /\ calm.pending = None
  BY ChooseShape DEF Shapes
<1>4. CASE sure
  <2>1. /\ Runs(t, "remove", target.scope, target.id, 0) /\ armed' = None
        /\ Shows([calm EXCEPT !.inFlight = @ \cup {<<target.scope, "remove", target.id>>}], input)
    BY <1>4 DEF StartRemoval
  <2>2. /\ "remove" \in Commands /\ ~ActsOn(session, target.scope, target.id)
        /\ target.scope \in Scopes
    BY <1>4 DEF CanRemove, Commands, Shapes, SessionFits
  <2> HIDE DEF calm, target
  <2>3. /\ Shapes' /\ InputFits' /\ Others(t) /\ Begins(t)
        /\ work'[t].scope = target.scope /\ work'[t].id = target.id
        /\ session'.rows = session.rows /\ session'.pending = None
    BY <1>1, <1>2, <1>3, <2>1, <2>2, ReserveShape
  <2>4. PendingFits => armed = [scope |-> target.scope, id |-> target.id]
    BY <1>4 DEF PendingFits, target
  <2>5. PendingFits => PendingFits'
    BY <2>3, PendingKept
  <2>6. QED
    BY <1>1, <2>1, <2>3, <2>4, <2>5
<1>5. CASE ~sure
  <2>1. Stops(t) /\ Shows(calm, input)
    BY <1>5 DEF StartRemoval
  <2> HIDE DEF calm
  <2>2. session' = calm /\ InputIs' /\ InputFits'
    BY <2>1, ShowsInput DEF Shapes
  <2>3. /\ Shapes' /\ Others(t) /\ Neither(t) /\ work'[t] = Idle
        /\ session'.rows = session.rows /\ session'.pending = None
    BY <1>1, <1>2, <1>3, <2>1, <2>2, StopShape
  <2>4. PendingFits => PendingFits'
    BY <2>3, PendingKept
  <2>5. QED
    BY <1>1, <2>2, <2>3, <2>4 DEF Idle
<1>6. QED
  BY <1>4, <1>5

\* A run is reserved for the image of the form.
LEMMA RunShape ==
  ASSUME Shapes, InputFits, NEW t \in Threads, StartRun(t)
  PROVE  /\ Shapes' /\ InputFits' /\ t \in Workers /\ work[t].todo = <<>>
         /\ Others(t) /\ (Begins(t) \/ Neither(t)) /\ work'[t].kind # "remove"
         /\ PendingFits => PendingFits'
<1>1. t \in Workers /\ work[t].todo = <<>> /\ ~InCommand(t)
  BY WorkerIs DEF StartRun, InCommand, Commands
<1>2. UNCHANGED <<listing, refresh, open, armed>>
  BY DEF StartRun
<1>3. SessionFits(session) /\ Agrees(session, session)
  BY SessionAgrees DEF Shapes
<1> DEFINE e == session.form.image
           sure == /\ session.form # None /\ Passes(session, session.form)
                   /\ ~ActsOn(session, "images", e)
<1>4. CASE sure
  <2>1. PICK seed : /\ Runs(t, "run", "images", e, seed)
                    /\ Shows([session EXCEPT !.inFlight = @ \cup {<<"images", "run", e>>}], input)
    BY <1>4 DEF StartRun, Reserves
  <2>2. "run" \in Commands /\ ~ActsOn(session, "images", e)
    BY <1>4 DEF Commands
  <2> HIDE DEF e
  <2>3. /\ Shapes' /\ InputFits' /\ Others(t) /\ Begins(t) /\ work'[t].kind = "run"
        /\ session'.rows = session.rows /\ session'.pending = session.pending
    BY <1>1, <1>2, <1>3, <2>1, <2>2, ReserveShape
  <2>4. QED
    BY <1>1, <1>2, <2>3, PendingKept
<1>5. CASE ~sure
  <2>1. Stops(t) /\ UNCHANGED <<session, input>>
    BY <1>5 DEF StartRun
  <2>2. InputIs' /\ InputFits'
    BY <2>1 DEF Shapes, InputIs, InputFits
  <2>3. /\ Shapes' /\ Others(t) /\ Neither(t) /\ work'[t] = Idle
        /\ session'.rows = session.rows /\ session'.pending = session.pending
    BY <1>1, <1>2, <1>3, <2>1, <2>2, StopShape
  <2>4. QED
    BY <1>1, <1>2, <2>2, <2>3, PendingKept DEF Idle
<1>6. QED
  BY <1>4, <1>5

\* The form is begun, and opened when the networks have been read.
LEMMA FormShape ==
  ASSUME Shapes, InputFits, NEW t \in Threads, StartForm(t) \/ OpenForm(t)
  PROVE  /\ Shapes' /\ InputFits' /\ t \in Workers /\ work[t].todo = <<>>
         /\ Others(t) /\ Neither(t) /\ work'[t].kind # "remove"
         /\ PendingFits => PendingFits'
<1>1. t \in Workers /\ work[t].todo = <<>> /\ ~InCommand(t)
  BY WorkerIs DEF StartForm, OpenForm, InCommand, Commands
<1>2. UNCHANGED <<listing, refresh, open, armed>>
  BY DEF StartForm, OpenForm
<1>3. SessionFits(session) /\ Agrees(session, session)
  BY SessionAgrees DEF Shapes
<1>4. PICK s : /\ Agrees(s, session) /\ s.pending = session.pending
               /\ session' = s /\ InputIs' /\ InputFits'
  <2>1. CASE UNCHANGED <<session, input>>
    BY <1>3, <2>1 DEF Shapes, InputIs, InputFits
  <2>2. CASE OpenForm(t) /\ Pictured(work[t].id)
    <3> DEFINE s == [session EXCEPT !.seed = @ + 1,
                                    !.form = [image |-> work[t].id, seed |-> session.seed + 1,
                                              valid |-> TRUE]]
    <3>1. Shows(s, input)
      BY <2>2 DEF OpenForm
    <3>2. Agrees(s, session) /\ s.pending = session.pending
      BY <1>3 DEF Agrees, SessionFits, SessionFields
    <3> HIDE DEF s
    <3>3. session' = s /\ InputIs' /\ InputFits'
      BY <3>1, ShowsInput DEF Shapes
    <3>4. QED
      BY <3>2, <3>3
  <2>3. QED
    BY <2>1, <2>2 DEF StartForm, OpenForm
<1>5. PICK w : JobFits(t, w) /\ w.kind \notin Commands /\ work' = [work EXCEPT ![t] = w]
  <2> DEFINE w == [Idle EXCEPT !.kind = "form", !.scope = "images", !.id = work[t].id, !.seed = 0]
  <2>1. JobFits(t, w) /\ w.kind \notin Commands
    BY <1>1 DEF JobFits, Idle, JobFields, Kinds, Commands
  <2>2. JobFits(t, Idle) /\ Idle.kind \notin Commands
    BY <1>1, IdleFits DEF Idle, Commands
  <2>3. work' = [work EXCEPT ![t] = w] \/ work' = [work EXCEPT ![t] = Idle]
    BY DEF StartForm, OpenForm, Runs, Stops
  <2> HIDE DEF w, Idle
  <2>4. QED
    BY <2>1, <2>2, <2>3
<1>6. /\ Shapes' /\ Others(t) /\ Neither(t) /\ work'[t] = w
      /\ session'.rows = session.rows /\ session'.pending = s.pending
  BY <1>1, <1>2, <1>4, <1>5, NeitherShape
<1>7. QED
  BY <1>1, <1>2, <1>4, <1>5, <1>6, PendingKept DEF Commands

\* A command has ended: its entity is free, and its goroutine reads the list again.
LEMMA EndShape ==
  ASSUME Shapes, InputFits, NEW t \in Threads, EndCommand(t)
  PROVE  /\ Shapes' /\ InputFits' /\ t \in Workers /\ work[t].todo = <<>>
         /\ Others(t) /\ Ends(t) /\ work'[t].kind # "remove"
         /\ PendingFits => PendingFits'
         /\ watch' = "debounce" \/ (UNCHANGED watch /\ (unlisted' => unlisted))
<1>1. t \in Workers /\ work[t].todo = <<>> /\ InCommand(t) /\ JobFits(t, work[t])
  BY WorkerIs DEF EndCommand, InCommand, Commands, Shapes, WorkFits
<1>2. UNCHANGED <<listing, refresh, open, armed>>
  BY DEF EndCommand
<1> DEFINE k == work[t]
           free == session.inFlight \ {Of(k)}
           done == [session EXCEPT !.inFlight = @ \ {Of(k)}]
           ended == {done, [done EXCEPT !.form = None], [done EXCEPT !.form.valid = FALSE]}
           reads(todo) == [Idle EXCEPT !.kind = "refresh", !.todo = todo]
           next == {Idle, reads(<<"containers", "images">>), reads(<<k.scope>>)}
<1>3. PICK worked \in BOOLEAN, answered \in BOOLEAN :
        LET w == work[t]
            was == actual[w.scope][w.id]
            now == IF worked THEN Effect(w.kind, was) ELSE was
            fine == worked /\ answered
            mine == w.kind = "run" /\ session.form # None /\ session.form.seed = w.seed
        IN /\ Told(w.scope, now # was)
           /\ Shows(IF mine /\ fine THEN [done EXCEPT !.form = None]
                    ELSE IF mine THEN [done EXCEPT !.form.valid = FALSE] ELSE done, input)
           /\ work' = [work EXCEPT ![t] =
                         IF w.kind = "run" /\ ~fine THEN Idle
                         ELSE reads(IF w.kind = "run" THEN <<"containers", "images">>
                                    ELSE <<w.scope>>)]
  BY DEF EndCommand, Of
<1>4. watch' = "debounce" \/ (UNCHANGED watch /\ (unlisted' => unlisted))
  <2>1. \E scope, changed : Told(scope, changed)
    BY Zenon DEF EndCommand
  <2>2. QED
    BY <2>1 DEF Told
<1>5. PICK s \in ended : Shows(s, input)
  BY <1>3
<1>6. /\ SessionFits(s) /\ s.rows = session.rows /\ s.pending = session.pending
      /\ s.inFlight = free
  BY DEF Shapes, SessionFits, SessionFields
<1>7. session' = s /\ InputIs' /\ InputFits'
  BY <1>5, ShowsInput DEF Shapes
<1>8. PICK w \in next : work' = [work EXCEPT ![t] = w]
  BY <1>3
<1>9. JobFits(t, w) /\ w.kind \notin Commands
  <2>1. /\ <<"containers", "images">> \in Seq(Tabs)
        /\ <<k.scope>> \in Seq(Tabs)
    <3>1. k.scope \in Tabs
      BY <1>1 DEF JobFits, InCommand, Tabs
    <3>2. QED
      BY <3>1 DEF Tabs
  <2>2. ASSUME NEW todo \in Seq(Tabs)
        PROVE  JobFits(t, reads(todo)) /\ reads(todo).kind \notin Commands
    BY <1>1 DEF JobFits, Idle, JobFields, Kinds, Commands
  <2>3. JobFits(t, Idle) /\ Idle.kind \notin Commands
    BY <1>1, IdleFits DEF Idle, Commands
  <2> HIDE DEF reads, Idle
  <2>4. QED
    BY <1>1, <2>1, <2>2, <2>3
<1> HIDE DEF k, free, done, ended, next
<1>10. /\ Shapes' /\ work'[t] = w
       /\ \A u \in Threads : u # t => work'[u] = work[u]
  BY <1>1, <1>2, <1>6, <1>7, <1>8, <1>9, JobShape
<1>11. Ends(t)
  BY <1>1, <1>6, <1>7, <1>9, <1>10 DEF Ends, free, k
<1>12. PendingFits => PendingFits'
  BY <1>2, <1>6, <1>7, PendingKept
<1>13. QED
  BY <1>1, <1>4, <1>7, <1>9, <1>10, <1>11, <1>12 DEF Others, Commands

-----------------------------------------------------------------------------
(* Clicks.                                                                 *)

\* What a button says of the session it is drawn from.
LEMMA ButtonIs ==
  ASSUME NEW s, SessionFits(s), NEW node \in Buttons(s)
  PROVE  /\ node.name = "remove" => CanRemove(s, s.scope, node.id) /\ Has(s, s.scope, node.id)
         /\ node.name = "next" => s.available[s.scope] /\ s.page < LastPage(s)
         /\ node.name = "previous" => s.available[s.scope] /\ s.page > 0
<1> DEFINE e == Detail(s)
<1>1. \/ node.name \in {"refresh", "form:cancel", "edit", "run-submit"} \cup Scopes
      \/ node \in ListButtons(s)
      \/ e # None /\ node \in DetailButtons(s, e)
  BY DEF Buttons, FormButtons, Node
<1>2. ASSUME node \in ListButtons(s)
      PROVE  /\ node.name \in {"select", "previous", "next"}
             /\ node.name = "next" => s.available[s.scope] /\ s.page < LastPage(s)
             /\ node.name = "previous" => s.available[s.scope] /\ s.page > 0
  BY <1>2 DEF ListButtons, Node
<1>3. ASSUME e # None, node \in DetailButtons(s, e)
      PROVE  /\ node.name \in {"cancel", "confirm", "remove", "run", "start", "stop", "restart"}
             /\ node.name = "remove" => CanRemove(s, s.scope, node.id) /\ Has(s, s.scope, node.id)
  <2>1. s.available[s.scope] /\ Has(s, s.scope, e)
    BY <1>3 DEF Detail, OnPage
  <2> DEFINE free == ~ActsOn(s, s.scope, e)
             ready == s.available["containers"]
  <2>2. \/ node \in {Node("cancel", None), Node("confirm", None), Node("run", e), Node("start", e),
                     Node("stop", e), Node("restart", e)}
        \/ node = Node("remove", e) /\ free /\ ready /\ s.rows[s.scope][e] = "idle"
    BY <1>3 DEF DetailButtons
  <2>3. QED
    BY <2>1, <2>2 DEF Node, CanRemove
<1>4. QED
  BY <1>1, <1>2, <1>3

\* A click that sends a goroutine on its way.
LEMMA LaunchShape ==
  ASSUME Shapes, HandleLaunch
  PROVE  /\ Shapes' /\ InputFits' /\ UNCHANGED <<session, listing, refresh, watch, unlisted, armed>>
         /\ \E t \in Workers : work[t].todo = <<>> /\ Others(t) /\ Neither(t)
<1>1. /\ UNCHANGED <<session, listing, refresh, watch, unlisted, armed, open>> /\ input' = None
  BY DEF HandleLaunch
<1>a. PICK kind \in {"to-start", "to-stop", "to-restart", "to-confirm", "to-run", "to-form"} :
        \E e : Launches(kind, e)
  BY DEF HandleLaunch
<1>2. PICK e : Launches(kind, e)
  BY <1>a
<1>3. PICK t \in Workers : work[t] = Idle /\ Runs(t, kind, None, e, 0)
  BY <1>2 DEF Launches
<1> DEFINE w == [Idle EXCEPT !.kind = kind, !.scope = None, !.id = e, !.seed = 0]
<1>4. work' = [work EXCEPT ![t] = w]
  BY <1>3 DEF Runs
<1>5. /\ JobFits(t, w) /\ w.kind \notin Commands
      /\ work[t].todo = <<>> /\ ~InCommand(t)
  BY <1>3 DEF JobFits, Idle, JobFields, Kinds, Commands, InCommand
<1>6. Agrees(session, session) /\ InputIs' /\ InputFits'
  BY <1>1, SessionAgrees DEF Shapes, InputIs, InputFits
<1> HIDE DEF w
<1>7. Shapes' /\ work'[t] = w /\ \A u \in Threads : u # t => work'[u] = work[u]
  BY <1>1, <1>4, <1>5, <1>6, JobShape DEF Agrees
<1>8. QED
  BY <1>1, <1>5, <1>6, <1>7 DEF Others, Neither

\* A click on the panel itself: what it shows, and what it is asked to remove.
LEMMA HandleShape ==
  ASSUME Shapes, InputFits, HandleClick
  PROVE  /\ Shapes' /\ InputFits' /\ UNCHANGED <<work, listing, watch, unlisted>>
         /\ session'.inFlight = session.inFlight
         /\ PendingFits => PendingFits'
         /\ refresh.containers => refresh'.containers
<1> DEFINE node == input.node
           turned == /\ node.name \in {"next", "previous"} /\ UNCHANGED refresh
                     /\ Shows(Turned(session, node.name), None)
<1>1. /\ UNCHANGED <<work, listing, watch, unlisted, open>>
      /\ node \in Buttons(session)
      /\ armed' = CASE node.name = "remove" -> [scope |-> session.scope, id |-> node.id]
                    [] node.name \in {"cancel", "next", "previous"} -> None
                    [] node.name \in Scopes \ {session.scope} -> None
                    [] OTHER -> armed
  BY DEF HandleClick, InputFits
<1>2. refresh' \in Requests /\ (refresh.containers => refresh'.containers)
  <2>1. UNCHANGED refresh \/ \E a \in BOOLEAN, b \in BOOLEAN : Enqueue(Request(a, TRUE, b))
    BY DEF HandleClick
  <2>2. QED
    BY <2>1, RequestIs, EnqueueShape DEF Shapes
<1>3. PICK s :
        /\ Agrees(s, session) /\ session' = s /\ InputIs' /\ InputFits'
        /\ \/ s.pending = None
           \/ /\ s.pending = session.pending
              /\ armed' = armed
           \/ /\ node.name = "remove"
              /\ s.pending = [scope |-> session.scope, id |-> node.id]
  <2> USE DEF Shapes
  <2>1. CASE node.name = "refresh" /\ input' = None /\ UNCHANGED session
    <3>1. Agrees(session, session) /\ session' = session /\ InputIs' /\ InputFits'
      BY <2>1, SessionAgrees DEF InputIs, InputFits
    <3>2. armed' = armed
      BY <1>1, <2>1
    <3>3. QED
      BY <3>1, <3>2
  <2>2. CASE node.name \in Scopes /\ Shows(SetScope(session, node.name), None)
    <3> DEFINE s == SetScope(session, node.name)
    <3>1. Agrees(s, session) /\ s.pending = IF node.name = session.scope THEN session.pending ELSE None
      BY <2>2, SetScopeShape
    <3>2. node.name = session.scope => armed' = armed
      BY <1>1, <2>2
    <3> HIDE DEF s
    <3>3. session' = s /\ InputIs' /\ InputFits'
      BY <2>2, ShowsNothing DEF s
    <3>4. QED
      BY <3>1, <3>2, <3>3
  <2>3. CASE node.name \in {"next", "previous"} /\ Shows(Turned(session, node.name), None)
    <3> DEFINE s == Turned(session, node.name)
               page == IF node.name = "next" THEN session.page + 1 ELSE session.page - 1
    <3>1. /\ session.available[session.scope]
          /\ node.name = "next" => session.page < LastPage(session)
          /\ node.name = "previous" => session.page > 0
      BY <1>1, <2>3, ButtonIs
    <3>2. session.page \in 0..LastPage(session) /\ LastPage(session) \in Nat
      BY RoomIs DEF SessionFits
    <3>3. page \in 0..LastPage(session) /\ s = MovePage(session, page)
      BY <2>3, <3>1, <3>2 DEF Turned
    <3> HIDE DEF s, page
    <3>4. Agrees(s, session) /\ s.pending = None
      BY <3>1, <3>3, MovePageShape
    <3>5. session' = s /\ InputIs' /\ InputFits'
      BY <2>3, ShowsNothing DEF s
    <3>6. QED
      BY <3>4, <3>5
  <2>4. CASE /\ node.name \in {"select", "edit", "form:cancel"}
             /\ \E s : Shows(s, None) /\ Agrees(s, session) /\ s.pending = session.pending
    <3>1. PICK s : Shows(s, None) /\ Agrees(s, session) /\ s.pending = session.pending
      BY <2>4
    <3>2. session' = s /\ InputIs' /\ InputFits'
      BY <3>1, ShowsNothing
    <3>3. armed' = armed
      BY <1>1, <2>4
    <3>4. QED
      BY <3>1, <3>2, <3>3
  <2>5. CASE node.name = "remove" /\ Shows(Arm(session, node.id), None)
    <3> DEFINE s == Arm(session, node.id)
    <3>0. CanRemove(session, session.scope, node.id)
      BY <1>1, <2>5, ButtonIs
    <3> HIDE DEF node
    <3>1. Agrees(s, session) /\ s.pending = [scope |-> session.scope, id |-> node.id]
      BY <3>0 DEF Arm, Agrees, SessionFits, SessionFields
    <3> HIDE DEF s
    <3>2. session' = s /\ InputIs' /\ InputFits'
      BY <2>5, ShowsNothing DEF s
    <3>3. QED
      BY <2>5, <3>1, <3>2
  <2>6. CASE node.name = "cancel" /\ Shows(Disarm(session), None)
    <3> DEFINE s == Disarm(session)
    <3>1. Agrees(s, session) /\ s.pending = None
      BY ChooseShape
    <3> HIDE DEF s
    <3>2. session' = s /\ InputIs' /\ InputFits'
      BY <2>6, ShowsNothing DEF s
    <3>3. QED
      BY <3>1, <3>2
  <2>7. ASSUME node.name \in {"select", "edit", "form:cancel"}
        PROVE  \E s : Shows(s, None) /\ Agrees(s, session) /\ s.pending = session.pending
    <3> DEFINE chosen == Select(session, node.id)
               edited(valid) == Edit(session, valid)
               closed == [session EXCEPT !.form = None]
    <3>1. Agrees(chosen, session) /\ chosen.pending = session.pending
      BY ChooseShape
    <3>2. ASSUME NEW valid
          PROVE  Agrees(edited(valid), session) /\ edited(valid).pending = session.pending
      BY ChooseShape
    <3>3. Agrees(closed, session) /\ closed.pending = session.pending
      BY ChooseShape
    <3>4. \/ Shows(chosen, None)
          \/ \E valid : Shows(edited(valid), None)
          \/ Shows(closed, None)
      BY <2>7 DEF HandleClick
    <3> HIDE DEF chosen, edited, closed
    <3>5. QED
      BY <3>1, <3>2, <3>3, <3>4
  <2>8. \/ node.name = "refresh" /\ input' = None /\ UNCHANGED session
        \/ node.name \in Scopes /\ Shows(SetScope(session, node.name), None)
        \/ node.name \in {"next", "previous"} /\ Shows(Turned(session, node.name), None)
        \/ node.name \in {"select", "edit", "form:cancel"}
        \/ node.name = "remove" /\ Shows(Arm(session, node.id), None)
        \/ node.name = "cancel" /\ Shows(Disarm(session), None)
    BY DEF HandleClick
  <2> HIDE DEF node
  <2>9. QED
    BY <2>1, <2>2, <2>3, <2>4, <2>5, <2>6, <2>7, <2>8
<1>4. Shapes'
  BY <1>1, <1>2, <1>3, SessionKept DEF Agrees, Shapes
<1>5. PendingFits => PendingFits'
  <2>1. session'.rows = session.rows /\ session.scope \in Scopes
    BY <1>3 DEF Agrees, Shapes, SessionFits
  <2>2. CASE node.name = "remove" /\ s.pending = [scope |-> session.scope, id |-> node.id]
    <3>1. armed' = [scope |-> session.scope, id |-> node.id]
      BY <1>1, <2>2
    <3>2. Has(session, session.scope, node.id)
      BY <1>1, <2>2, ButtonIs DEF Shapes
    <3>3. session'.pending = armed' /\ armed'.scope = session.scope /\ armed'.id = node.id
      BY <1>3, <2>2, <3>1
    <3>4. Has(session', armed'.scope, armed'.id)
      BY <2>1, <3>2, <3>3 DEF Has, Present
    <3>5. QED
      BY <2>1, <3>1, <3>3, <3>4 DEF PendingFits
  <2>3. CASE session'.pending = None \/ (session'.pending = session.pending /\ armed' = armed)
    BY <2>1, <2>3, PendingKept
  <2>4. QED
    BY <1>3, <2>2, <2>3
<1>6. QED
  BY <1>1, <1>2, <1>3, <1>4, <1>5 DEF Agrees

-----------------------------------------------------------------------------
(* What keeps each property.                                               *)

DockerInv == Shapes /\ InputFits /\ PendingFits /\ OneCommandEach /\ NewsFits

\* At most one goroutine begins or ends a command, and what it begins was free.
LEMMA CommandsKept ==
  ASSUME OneCommandEach, NEW t \in Threads, Others(t),
         Neither(t) \/ (t \in Workers /\ (Begins(t) \/ Ends(t)))
  PROVE  OneCommandEach'
<1> DEFINE running == {u \in Workers : InCommand(u)}
           after == {u \in Workers : work'[u].kind \in Commands}
<1>1. session.inFlight = {Of(work[u]) : u \in running}
  BY DEF OneCommandEach, Of
<1>2. ASSUME NEW u \in running, NEW v \in running, u # v
      PROVE  <<work[u].scope, work[u].id>> # <<work[v].scope, work[v].id>>
  BY <1>2 DEF OneCommandEach
<1>3. \A u \in Workers : u # t => work'[u] = work[u] /\ (u \in running <=> u \in after)
  BY DEF Others, InCommand
<1>4. /\ session'.inFlight = {Of(work'[u]) : u \in after}
      /\ \A u, v \in after : u # v => <<work'[u].scope, work'[u].id>> # <<work'[v].scope, work'[v].id>>
  <2>1. CASE Neither(t)
    <3>1. after = running /\ t \notin running /\ session'.inFlight = session.inFlight
      BY <1>3, <2>1 DEF Neither
    <3>2. \A u \in running : work'[u] = work[u]
      BY <1>3, <3>1
    <3> HIDE DEF running, after
    <3>3. QED
      BY <1>1, <1>2, <3>1, <3>2
  <2>2. CASE t \in Workers /\ Begins(t)
    <3>1. /\ after = running \cup {t} /\ t \notin running
          /\ session'.inFlight = session.inFlight \cup {Of(work'[t])}
      BY <1>3, <2>2 DEF Begins
    <3>2. \A u \in running : work'[u] = work[u]
      BY <1>3, <3>1
    <3>3. ASSUME NEW u \in running
          PROVE  <<work[u].scope, work[u].id>> # <<work'[t].scope, work'[t].id>>
      <4>1. Of(work[u]) \in session.inFlight /\ work[u].kind \in Commands
        BY <1>1 DEF InCommand
      <4>2. ~ActsOn(session, work'[t].scope, work'[t].id)
        BY <2>2 DEF Begins
      <4>3. QED
        BY <4>1, <4>2 DEF ActsOn, Of, Commands
    <3> HIDE DEF running, after
    <3>4. session'.inFlight = {Of(work'[u]) : u \in after}
      BY <1>1, <3>1, <3>2
    <3>5. QED
      BY <1>2, <3>1, <3>2, <3>3, <3>4
  <2>3. CASE t \in Workers /\ Ends(t)
    <3>1. /\ after = running \ {t} /\ t \in running
          /\ session'.inFlight = session.inFlight \ {Of(work[t])}
      BY <1>3, <2>3 DEF Ends
    <3>2. \A u \in after : work'[u] = work[u] /\ u \in running
      BY <1>3, <3>1
    <3>3. \A u \in after : Of(work[u]) # Of(work[t])
      BY <1>2, <3>1 DEF Of
    <3> HIDE DEF running, after
    <3>4. session'.inFlight = {Of(work'[u]) : u \in after}
      BY <1>1, <3>1, <3>2, <3>3
    <3>5. QED
      BY <1>2, <3>1, <3>2, <3>4
  <2>4. QED
    BY <2>1, <2>2, <2>3
<1>5. QED
  BY <1>4 DEF OneCommandEach, Of, InCommand

\* No other goroutine begins a removal.
LEMMA RemovalKept ==
  ASSUME NEW t \in Threads, Others(t), work'[t].kind # "remove" PROVE RemovalWasAsked
  BY DEF Others, RemovalWasAsked

\* A goroutine with nothing to read changes, and the others read what they were to.
LEMMA ToReadKept ==
  ASSUME Shapes, NEW t \in Threads, Others(t), work[t].todo = <<>>, UNCHANGED listing
  PROVE  \A u \in Threads : "containers" \in Range(ToRead(u)) => "containers" \in Range(ToRead(u)')
<1>1. ToRead(t) = <<>>
  BY DEF Shapes, ListingFits, ToRead
<1>2. Range(<<>>) = {}
  BY DEF Range
<1>3. \A u \in Threads : u # t => ToRead(u)' = ToRead(u)
  BY DEF Others, ToRead
<1>4. QED
  BY <1>1, <1>2, <1>3

LEMMA NewsKept ==
  ASSUME NewsFits, unlisted' => unlisted, UNCHANGED watch, refresh.containers => refresh'.containers,
         \A u \in Threads : "containers" \in Range(ToRead(u)) => "containers" \in Range(ToRead(u)')
  PROVE  NewsFits'
  BY DEF NewsFits

\* The steps of a goroutine that reads no list.
LEMMA JobKept ==
  ASSUME DockerInv, NEW t \in Threads,
         \/ StartAct(t) \/ StartRemoval(t) \/ StartRun(t) \/ StartForm(t) \/ OpenForm(t)
         \/ EndCommand(t)
  PROVE  DockerInv' /\ RemovalWasAsked
<1> USE DEF DockerInv
<1>1. /\ Shapes' /\ InputFits' /\ PendingFits' /\ t \in Workers /\ work[t].todo = <<>>
      /\ Others(t) /\ (Begins(t) \/ Ends(t) \/ Neither(t))
      /\ work'[t].kind = "remove" =>
           armed = [scope |-> work'[t].scope, id |-> work'[t].id] /\ armed' = None
  BY ActShape, RemovalShape, RunShape, FormShape, EndShape
<1>2. OneCommandEach'
  BY <1>1, CommandsKept
<1>3. RemovalWasAsked
  BY <1>1 DEF Others, RemovalWasAsked
<1>4. UNCHANGED <<refresh, listing>>
  BY DEF StartAct, StartRemoval, StartRun, StartForm, OpenForm, EndCommand
<1>5. watch' = "debounce" \/ (UNCHANGED watch /\ (unlisted' => unlisted))
  <2>1. CASE EndCommand(t)
    BY <2>1, EndShape
  <2>2. CASE ~EndCommand(t)
    BY <2>2 DEF StartAct, StartRemoval, StartRun, StartForm, OpenForm
  <2>3. QED
    BY <2>1, <2>2
<1>6. NewsFits'
  <2>1. CASE watch' = "debounce"
    BY <2>1 DEF NewsFits
  <2>2. CASE UNCHANGED watch /\ (unlisted' => unlisted)
    <3>1. \A u \in Threads :
            "containers" \in Range(ToRead(u)) => "containers" \in Range(ToRead(u)')
      BY <1>1, <1>4, ToReadKept
    <3>2. QED
      BY <1>4, <2>2, <3>1, NewsKept
  <2>3. QED
    BY <1>5, <2>1, <2>2
<1>7. QED
  BY <1>1, <1>2, <1>3, <1>6

\* A list is skipped, or begun, or has been read.
LEMMA ReadKept ==
  ASSUME DockerInv, (\E t \in Threads : SkipTab(t) \/ BeginList(t)) \/ FinishList
  PROVE  DockerInv' /\ RemovalWasAsked
<1> USE DEF DockerInv
<1>1. ASSUME NEW t \in Threads, SkipTab(t) PROVE DockerInv' /\ RemovalWasAsked
  <2>1. /\ Shapes' /\ UNCHANGED <<session, listing, armed, input, refresh, watch, unlisted>>
        /\ listing = None /\ work[t].todo # <<>> /\ Head(work[t].todo) # "containers"
        /\ work'[t].todo = Tail(work[t].todo)
        /\ work[t].kind \in {"idle", "refresh"} /\ work'[t].kind \in {"idle", "refresh"}
        /\ Others(t)
    BY <1>1, SkipShape DEF Others
  <2>2. Neither(t) /\ work'[t].kind # "remove"
    BY <2>1 DEF Neither, InCommand, Commands
  <2>3. OneCommandEach' /\ RemovalWasAsked
    BY <2>1, <2>2, CommandsKept, RemovalKept
  <2>4. InputFits' /\ PendingFits'
    BY <2>1, PendingKept DEF InputFits
  <2>5. NewsFits'
    <3>1. Range(work[t].todo) = {Head(work[t].todo)} \cup Range(Tail(work[t].todo))
      BY <2>1, TailElements DEF Shapes, WorkFits, JobFits
    <3>2. \A u \in Threads :
            "containers" \in Range(ToRead(u)) => "containers" \in Range(ToRead(u)')
      BY <2>1, <3>1 DEF ToRead, Others
    <3>3. QED
      BY <2>1, <3>2, NewsKept
  <2>6. QED
    BY <2>1, <2>3, <2>4, <2>5
<1>2. ASSUME NEW t \in Threads, BeginList(t) PROVE DockerInv' /\ RemovalWasAsked
  <2>1. /\ Shapes' /\ UNCHANGED <<session, work, armed, input, refresh, watch>>
        /\ listing = None /\ work[t].todo # <<>> /\ listing'.by = t
        /\ unlisted' => unlisted /\ Head(work[t].todo) # "containers"
    BY <1>2, BeginShape
  <2>2. OneCommandEach' /\ RemovalWasAsked
    BY <2>1 DEF OneCommandEach, InCommand, RemovalWasAsked
  <2>3. InputFits' /\ PendingFits'
    BY <2>1, PendingKept DEF InputFits
  <2>4. ASSUME unlisted' PROVE NewsFits'
    <3>1. Range(work[t].todo) = {Head(work[t].todo)} \cup Range(Tail(work[t].todo))
      BY <2>1, TailElements DEF Shapes, WorkFits, JobFits
    <3>2. \A u \in Threads :
            "containers" \in Range(ToRead(u)) => "containers" \in Range(ToRead(u)')
      BY <2>1, <2>4, <3>1 DEF ToRead
    <3>3. QED
      BY <2>1, <3>2, NewsKept
  <2>5. NewsFits'
    BY <2>4 DEF NewsFits
  <2>6. QED
    BY <2>1, <2>2, <2>3, <2>5
<1>3. ASSUME FinishList PROVE DockerInv' /\ RemovalWasAsked
  <2> DEFINE t == listing.by
  <2>1. /\ Shapes' /\ UNCHANGED <<refresh, watch, unlisted>> /\ InputFits' /\ PendingFits'
        /\ listing # None /\ listing' = None /\ t \in Threads
        /\ work'[t].todo = Tail(work[t].todo)
        /\ work[t].kind \in {"idle", "refresh"} /\ work'[t].kind \in {"idle", "refresh"}
        /\ Others(t) /\ session'.inFlight = session.inFlight
    BY <1>3, FinishShape DEF Others
  <2>2. Neither(t) /\ work'[t].kind # "remove"
    BY <2>1 DEF Neither, InCommand, Commands
  <2>3. OneCommandEach' /\ RemovalWasAsked
    BY <2>1, <2>2, CommandsKept, RemovalKept
  <2>4. \A u \in Threads : ToRead(u)' = ToRead(u)
    BY <2>1 DEF ToRead, Others
  <2>5. NewsFits'
    BY <2>1, <2>4, NewsKept
  <2>6. QED
    BY <2>1, <2>3, <2>5
<1>4. QED
  BY <1>1, <1>2, <1>3

\* The requests and the poller's timer.
LEMMA PollKept ==
  ASSUME DockerInv, TakeRequest \/ Tick PROVE DockerInv' /\ RemovalWasAsked
<1> USE DEF DockerInv
<1>1. /\ Shapes' /\ UNCHANGED <<session, listing, armed, input, watch, unlisted>>
      /\ work[Poller].todo = <<>> /\ work'[Poller].kind = "idle" /\ Others(Poller)
      /\ refresh.containers => refresh'.containers \/ "containers" \in Range(work'[Poller].todo)
  BY PollShape DEF Others
<1>2. Neither(Poller)
  BY <1>1 DEF Neither, InCommand, Commands, Shapes, WorkFits, JobFits
<1>3. OneCommandEach' /\ RemovalWasAsked
  BY <1>1, <1>2, CommandsKept, RemovalKept
<1>4. InputFits' /\ PendingFits'
  BY <1>1, PendingKept DEF InputFits
<1>5. NewsFits'
  <2>1. \A u \in Threads : "containers" \in Range(ToRead(u)) => "containers" \in Range(ToRead(u)')
    BY <1>1, ToReadKept
  <2>2. ToRead(Poller)' = work'[Poller].todo
    BY <1>1 DEF Shapes, ListingFits, ToRead
  <2>3. QED
    BY <1>1, <2>1, <2>2 DEF NewsFits
<1>6. QED
  BY <1>1, <1>3, <1>4, <1>5

\* Clicks that are acted on.
LEMMA ClickKept ==
  ASSUME DockerInv, HandleLaunch \/ HandleClick PROVE DockerInv' /\ RemovalWasAsked
<1> USE DEF DockerInv
<1>1. ASSUME HandleLaunch PROVE DockerInv' /\ RemovalWasAsked
  <2>1. PICK t \in Workers : work[t].todo = <<>> /\ Others(t) /\ Neither(t)
    BY <1>1, LaunchShape
  <2>2. /\ Shapes' /\ InputFits'
        /\ UNCHANGED <<session, listing, refresh, watch, unlisted, armed>>
    BY <1>1, LaunchShape
  <2>3. OneCommandEach' /\ RemovalWasAsked
    BY <2>1, CommandsKept, RemovalKept DEF Neither, Commands
  <2>4. PendingFits'
    BY <2>2, PendingKept
  <2>5. \A u \in Threads : "containers" \in Range(ToRead(u)) => "containers" \in Range(ToRead(u)')
    BY <2>1, <2>2, ToReadKept
  <2>6. NewsFits'
    BY <2>2, <2>5, NewsKept
  <2>7. QED
    BY <2>2, <2>3, <2>4, <2>6
<1>2. ASSUME HandleClick PROVE DockerInv' /\ RemovalWasAsked
  <2>1. /\ Shapes' /\ InputFits' /\ PendingFits' /\ UNCHANGED <<work, listing, watch, unlisted>>
        /\ session'.inFlight = session.inFlight
        /\ refresh.containers => refresh'.containers
    BY <1>2, HandleShape
  <2>2. OneCommandEach' /\ RemovalWasAsked
    BY <2>1 DEF OneCommandEach, InCommand, RemovalWasAsked
  <2>3. \A u \in Threads : ToRead(u)' = ToRead(u)
    BY <2>1 DEF ToRead
  <2>4. NewsFits'
    BY <2>1, <2>3, NewsKept
  <2>5. QED
    BY <2>1, <2>2, <2>4
<1>3. QED
  BY <1>1, <1>2

\* The panel, docker and its stream: news that come are waited for or asked for.
LEMMA OutsideKept ==
  ASSUME DockerInv, OutsideStep PROVE DockerInv' /\ RemovalWasAsked
<1> USE DEF DockerInv
<1>1. /\ Shapes' /\ InputFits' /\ UNCHANGED <<session, work, listing, armed>>
      /\ refresh.containers => refresh'.containers
  BY OutsideShape
<1>2. OneCommandEach' /\ RemovalWasAsked
  BY <1>1 DEF OneCommandEach, InCommand, RemovalWasAsked
<1>3. PendingFits'
  BY <1>1, PendingKept
<1>4. \/ watch' = "debounce"
      \/ (unlisted' => unlisted) /\ (watch = "debounce" => watch' = watch \/ refresh'.containers)
  <2>1. ASSUME Debounced \/ (StreamEnds /\ watch = "debounce") PROVE refresh'.containers
    <3>1. Enqueue(Request(TRUE, FALSE, FALSE))
      BY <2>1 DEF Debounced, StreamEnds
    <3>2. QED
      BY <3>1, RequestIs, EnqueueShape DEF Shapes
  <2>2. ASSUME DockerChanges PROVE watch' = "debounce" \/ (watch' = watch /\ (unlisted' => unlisted))
    <3>1. \E scope : Told(scope, TRUE)
      BY <2>2 DEF DockerChanges
    <3>2. QED
      BY <3>1 DEF Told
  <2>3. ASSUME ~DockerChanges PROVE UNCHANGED unlisted
    BY <2>3 DEF OutsideStep, Click, HandleStale, OpenPanel, ClosePanel, StreamOpens, StreamEnds,
                Debounced
  <2>4. ASSUME ~DockerChanges, ~Debounced, ~StreamEnds PROVE watch = "debounce" => watch' = watch
    BY <2>4 DEF OutsideStep, Click, HandleStale, OpenPanel, ClosePanel, StreamOpens
  <2>5. QED
    BY <2>1, <2>2, <2>3, <2>4
<1>5. NewsFits'
  <2>1. \A u \in Threads : ToRead(u)' = ToRead(u)
    BY <1>1 DEF ToRead
  <2>2. QED
    BY <1>1, <1>4, <2>1 DEF NewsFits
<1>6. QED
  BY <1>1, <1>2, <1>3, <1>5

-----------------------------------------------------------------------------
(* The theorem.                                                            *)

LEMMA DockerStarts == DockerInit => DockerInv
<1> SUFFICES ASSUME DockerInit PROVE DockerInv
  OBVIOUS
<1>1. SessionFits(session) /\ session.pending = None /\ session.inFlight = {}
  BY RoomNat DEF DockerInit, NewSession, SessionFits, SessionFields
<1>2. WorkFits /\ \A t \in Threads : work[t].kind = "idle"
  <2>1. Request(TRUE, TRUE, FALSE) \in Requests
    BY RequestIs
  <2>2. Reads(Request(TRUE, TRUE, FALSE)) \in Seq(Tabs)
    BY <2>1, ReadsShape
  <2> DEFINE todo == Reads(Request(TRUE, TRUE, FALSE))
  <2>3. work = [t \in Threads |-> IF t = Poller THEN [Idle EXCEPT !.todo = todo] ELSE Idle]
    BY DEF DockerInit
  <2> HIDE DEF todo
  <2>4. DOMAIN work = Threads /\ work[Poller] = [Idle EXCEPT !.todo = todo]
        /\ \A t \in Workers : work[t] = Idle
    BY <2>3
  <2>5. JobFits(Poller, [Idle EXCEPT !.todo = todo]) /\ [Idle EXCEPT !.todo = todo].kind = "idle"
    BY <2>2 DEF JobFits, Idle, JobFields, Kinds, Commands, todo
  <2>6. \A t \in Workers : JobFits(t, Idle)
    BY IdleFits
  <2>7. Idle.kind = "idle"
    BY DEF Idle
  <2> HIDE DEF Idle
  <2>8. QED
    BY <2>4, <2>5, <2>6, <2>7 DEF WorkFits
<1>3. listing = None /\ refresh \in Requests /\ input = None /\ open \in BOOLEAN /\ ~unlisted
  BY DEF DockerInit, NoRequest, Request, Requests
<1>4. Shapes
  BY <1>1, <1>2, <1>3 DEF Shapes, ListingFits, InputIs
<1>5. InputFits /\ PendingFits /\ NewsFits
  BY <1>1, <1>3 DEF InputFits, PendingFits, NewsFits
<1>6. OneCommandEach
  BY <1>1, <1>2 DEF OneCommandEach, InCommand, Commands
<1>7. QED
  BY <1>4, <1>5, <1>6 DEF DockerInv

LEMMA DockerStep ==
  DockerInv /\ [DockerNext]_dockerVars => DockerInv' /\ [RemovalWasAsked]_dockerVars
<1> SUFFICES ASSUME DockerInv, [DockerNext]_dockerVars
             PROVE  DockerInv' /\ [RemovalWasAsked]_dockerVars
  OBVIOUS
<1>1. CASE DockerNext
  <2>1. \/ \E t \in Threads : \/ StartAct(t) \/ StartRemoval(t) \/ StartRun(t) \/ StartForm(t)
                              \/ OpenForm(t) \/ EndCommand(t)
        \/ (\E t \in Threads : SkipTab(t) \/ BeginList(t)) \/ FinishList
        \/ TakeRequest \/ Tick
        \/ HandleLaunch \/ HandleClick
        \/ OutsideStep
    BY <1>1 DEF DockerNext, ThreadStep, OutsideStep
  <2>2. DockerInv' /\ RemovalWasAsked
    BY <2>1, JobKept, ReadKept, PollKept, ClickKept, OutsideKept
  <2>3. QED
    BY <2>2
<1>2. CASE UNCHANGED dockerVars
  <2>1. UNCHANGED <<session, open, input, work, listing, refresh, watch, unlisted, armed>>
    BY <1>2 DEF dockerVars
  <2>2. Shapes'
    BY <2>1 DEF DockerInv, Shapes, SessionFits, WorkFits, JobFits, ListingFits, InputIs
  <2>3. InputFits' /\ PendingFits' /\ OneCommandEach' /\ NewsFits'
    BY <2>1 DEF DockerInv, InputFits, PendingFits, OneCommandEach, NewsFits, InCommand, ToRead,
                Has, Present
  <2>4. QED
    BY <1>2, <2>2, <2>3 DEF DockerInv
<1>3. QED
  BY <1>1, <1>2

\* A list that is still to be read is one of those the thread has.
LEMMA NewsIs == Shapes /\ NewsFits => NewsIsRead
<1> SUFFICES ASSUME Shapes, NewsFits PROVE NewsIsRead
  OBVIOUS
<1>1. ASSUME NEW t \in Threads, "containers" \in Range(ToRead(t))
      PROVE  "containers" \in Range(work[t].todo)
  <2>1. CASE listing # None /\ listing.by = t
    <3>1. Range(work[t].todo) = {Head(work[t].todo)} \cup Range(Tail(work[t].todo))
      BY <2>1, TailElements DEF Shapes, WorkFits, JobFits, ListingFits
    <3>2. QED
      BY <1>1, <2>1, <3>1 DEF ToRead
  <2>2. CASE ~(listing # None /\ listing.by = t)
    BY <1>1, <2>2 DEF ToRead
  <2>3. QED
    BY <2>1, <2>2
<1>2. QED
  BY <1>1 DEF NewsFits, NewsIsRead

\* The user of the docker panel is obeyed, whatever there is in docker and however many
\* goroutines there are: no two commands run on an entity and its buttons are disabled
\* while one does; a removal begins only for what was asked and was not withdrawn, and
\* once; and a change that docker has told of is read (service.go).
THEOREM DockerIsObedient == DockerSpec => DockerObeys
<1>1. DockerInit => DockerInv
  BY DockerStarts
<1>2. DockerInv /\ [DockerNext]_dockerVars => DockerInv' /\ [RemovalWasAsked]_dockerVars
  BY DockerStep
<1>3. DockerInv => OneCommandEach /\ NewsIsRead
  BY NewsIs DEF DockerInv
<1>4. QED
  BY <1>1, <1>2, <1>3, PTL DEF DockerSpec, DockerObeys
===============================================================================
