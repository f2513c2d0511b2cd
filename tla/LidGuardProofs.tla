---------------------------- MODULE LidGuardProofs ----------------------------
(***************************************************************************)
(* Lid guard for any number of clicks, service actions and troubles of the *)
(* system: systemd is driven by one goroutine, once for each request, and  *)
(* the host is sent every state.                                           *)
(***************************************************************************)
EXTENDS LidGuardPlugin, SequenceTheorems, TLAPS

Mutating == busy /\ ~refreshing
Unissued == {"locate", "check", "reset", "start", "stop"}

\* The one goroutine runs a check exactly while the status says so; a request
\* waits behind it, and only behind it.
PerformerFits ==
  \A i \in 1..Len(performers) :
    /\ ReadOnly(performers[i].action) <=> refreshing
    /\ ReadOnly(performers[i].action) => performers[i].at \in {"locate", "check", "report"}

QueueFits == queued # "none" <=> busy /\ refreshing

\* The command of the request that runs is counted until it has been reported.
IssuedFits ==
  /\ issued <= finished + (IF Mutating THEN 1 ELSE 0)
  /\ \A i \in 1..Len(performers) : performers[i].at \in Unissued => issued <= finished

CountsTypeOK == {accepted, finished, issued} \subseteq Nat

DriveInv ==
  /\ CountsTypeOK
  /\ DrivesOnce
  /\ PerformerFits
  /\ QueueFits
  /\ IssuedFits

-----------------------------------------------------------------------------
\* What DriveInv says of the sequence of goroutines.
LEMMA Performers ==
  ASSUME DriveInv
  PROVE  /\ performers \in Seq(Performer) /\ Len(performers) \in {0, 1}
         /\ DOMAIN performers = 1..Len(performers)
         /\ \A i \in DOMAIN performers :
              i = 1 /\ Len(performers) = 1 /\ (busy \/ refreshing) /\ performers[1] \in Performer
<1>1. performers \in Seq(Performer) /\ Len(performers) = IF busy \/ refreshing THEN 1 ELSE 0
  BY DEF DriveInv, DrivesOnce, LidTypeOK, OnePerformer
<1>2. DOMAIN performers = 1..Len(performers) /\ performers \in [1..Len(performers) -> Performer]
  BY <1>1, LenProperties
<1>3. QED
  BY <1>1, <1>2

LEMMA NewPerformerType ==
  ASSUME NEW a \in Actions
  PROVE  /\ NewPerformer(a) \in Performer
         /\ NewPerformer(a).action = a
         /\ NewPerformer(a).at = IF ReadOnly(a) THEN "locate" ELSE "check"
BY DEF NewPerformer, Performer, Actions, Mutations, Phases, States

LEMMA RemoveOnly ==
  ASSUME NEW S, NEW s \in Seq(S), Len(s) = 1
  PROVE  RemoveAt(s, 1) = <<>>
<1>1. SubSeq(s, 1, 1 - 1) = <<>> /\ SubSeq(s, 1 + 1, Len(s)) = <<>>
  BY SubSeqEmpty
<1>2. <<>> \in Seq(S)
  OBVIOUS
<1>3. QED
  BY <1>1, <1>2, ConcatEmptySeq DEF RemoveAt

LEMMA AppendFirst ==
  ASSUME NEW S, NEW s \in Seq(S), Len(s) = 0, NEW e \in S
  PROVE  /\ Append(s, e) \in Seq(S) /\ Len(Append(s, e)) = 1 /\ Append(s, e)[1] = e
BY AppendProperties

LEMMA ExceptFirst ==
  ASSUME NEW S, NEW s \in Seq(S), Len(s) = 1, NEW e \in S
  PROVE  LET t == [s EXCEPT ![1] = e] IN t \in Seq(S) /\ Len(t) = 1 /\ t[1] = e
<1>1. 1 \in 1..Len(s)
  OBVIOUS
<1>2. QED
  BY <1>1, ExceptSeq

LEMMA DriveInit == LidInit => DriveInv
<1> SUFFICES ASSUME LidInit PROVE DriveInv
  OBVIOUS
<1> DEFINE p == NewPerformer("refresh")
<1>1. p \in Performer /\ p.action = "refresh" /\ p.at = "locate"
  BY NewPerformerType DEF Actions, ReadOnly
<1> HIDE DEF p
<1>2. performers = <<p>> /\ <<p>> \in Seq(Performer) /\ Len(<<p>>) = 1 /\ <<p>>[1] = p
  BY <1>1 DEF LidInit, p
<1>3. LidTypeOK
  BY <1>2 DEF LidInit, LidTypeOK, States, Units
<1>4. OnePerformer /\ OncePerRequest /\ CountsTypeOK /\ QueueFits
  BY <1>2 DEF LidInit, OnePerformer, OncePerRequest, CountsTypeOK, QueueFits
<1>5. PerformerFits /\ IssuedFits
  BY <1>1, <1>2 DEF LidInit, PerformerFits, IssuedFits, ReadOnly
<1>6. QED
  BY <1>3, <1>4, <1>5 DEF DriveInv, DrivesOnce

\* A request that is accepted waits for the check that runs, or runs at once.
LEMMA AcceptStep ==
  ASSUME DriveInv, NEW a \in Actions, Accept(a)
  PROVE  DriveInv'
<1>1. /\ performers \in Seq(Performer) /\ queued \in Mutations \cup {"none"} /\ state \in States
      /\ refreshing \in BOOLEAN /\ ~busy /\ Len(performers) = IF refreshing THEN 1 ELSE 0
      /\ {accepted, finished, issued} \subseteq Nat /\ accepted = finished /\ issued <= finished
      /\ UNCHANGED <<depsOK, unit, manager, tools, troubles, finished, issued>>
      /\ busy' \in BOOLEAN /\ (busy' <=> ~ReadOnly(a))
      /\ accepted' = IF a \in Mutations THEN accepted + 1 ELSE accepted
      /\ ReadOnly(a) <=> a \notin Mutations
  BY DEF DriveInv, DrivesOnce, LidTypeOK, OnePerformer, OncePerRequest, CountsTypeOK, IssuedFits,
         Mutating, Accept, Accepts, systemVars, ReadOnly, Actions, Mutations
<1>2. /\ state' \in States /\ {token', unsent'} \subseteq BOOLEAN
  BY <1>1 DEF Accept, Cleared, States, PublishLocked, DriveInv, DrivesOnce, LidTypeOK
<1>3. CASE refreshing
  <2>1. ~ReadOnly(a) /\ queued' = a /\ UNCHANGED <<performers, refreshing>>
    BY <1>3 DEF Accept, Accepts, MayRun, MustQueue
  <2>2. LidTypeOK'
    BY <1>1, <1>2, <2>1 DEF DriveInv, DrivesOnce, LidTypeOK
  <2>3. a \in Mutations /\ queued' # "none" /\ busy' /\ refreshing' /\ accepted' = accepted + 1
    BY <1>1, <1>3, <2>1 DEF Mutations
  <2>4. OnePerformer' /\ QueueFits'
    BY <1>1, <1>3, <2>1, <2>3 DEF OnePerformer, QueueFits
  <2>5. OncePerRequest' /\ CountsTypeOK'
    BY <1>1, <2>3 DEF OncePerRequest, CountsTypeOK
  <2>6. PerformerFits' /\ IssuedFits'
    BY <1>1, <1>3, <2>1 DEF DriveInv, PerformerFits, IssuedFits, Mutating
  <2>7. QED
    BY <2>2, <2>4, <2>5, <2>6 DEF DriveInv, DrivesOnce
<1>4. CASE ~refreshing
  <2> DEFINE p == NewPerformer(a)
  <2>1. /\ performers' = Append(performers, p) /\ UNCHANGED queued
        /\ refreshing' \in BOOLEAN /\ (refreshing' <=> ReadOnly(a))
    BY <1>1, <1>4 DEF Accept, MustQueue, ReadOnly
  <2>2. p \in Performer /\ p.action = a /\ p.at = IF ReadOnly(a) THEN "locate" ELSE "check"
    BY NewPerformerType
  <2> HIDE DEF p
  <2>3. performers' \in Seq(Performer) /\ Len(performers') = 1 /\ performers'[1] = p
    <3>1. performers \in Seq(Performer) /\ Len(performers) = 0
      BY <1>1, <1>4
    <3>2. QED
      BY <2>1, <2>2, <3>1, AppendFirst
  <2>4. queued = "none"
    BY <1>1, <1>4 DEF DriveInv, QueueFits
  <2>5. LidTypeOK'
    BY <1>1, <1>2, <2>1, <2>3 DEF DriveInv, DrivesOnce, LidTypeOK
  <2>6. OnePerformer' /\ QueueFits'
    BY <1>1, <1>4, <2>1, <2>3, <2>4 DEF OnePerformer, QueueFits
  <2>7. OncePerRequest' /\ CountsTypeOK'
    BY <1>1 DEF OncePerRequest, CountsTypeOK
  <2>8. PerformerFits'
    BY <2>1, <2>2, <2>3 DEF PerformerFits
  <2>9. IssuedFits'
    BY <1>1 DEF IssuedFits, Mutating
  <2>10. QED
    BY <2>5, <2>6, <2>7, <2>8, <2>9 DEF DriveInv, DrivesOnce
<1>5. QED
  BY <1>1, <1>3, <1>4

\* The goroutine moves on, and may have run its command.
LEMMA MoveStep ==
  ASSUME DriveInv, NEW i \in DOMAIN performers, NEW q \in Performer,
         performers' = [performers EXCEPT ![i] = q],
         q.action = performers[i].action,
         ReadOnly(q.action) => q.at \in {"locate", "check", "report"},
         UNCHANGED <<state, busy, refreshing, queued, token, unsent, accepted, finished>>,
         {depsOK', manager', tools'} \subseteq BOOLEAN, unit' \in Units,
         \/ issued' = issued /\ (q.at \in Unissued => performers[i].at \in Unissued)
         \/ /\ issued' = issued + 1
            /\ ~ReadOnly(q.action) /\ performers[i].at \in Unissued /\ q.at \notin Unissued
  PROVE  DriveInv'
<1>1. /\ performers \in Seq(Performer) /\ i = 1 /\ i \in 1..Len(performers)
      /\ Len(performers) = 1 /\ (busy \/ refreshing)
  BY Performers
<1>2. /\ performers' \in Seq(Performer) /\ Len(performers') = 1 /\ performers'[1] = q
      /\ \A j \in 1..Len(performers') : j = 1
  <2>1. performers' = [performers EXCEPT ![1] = q]
    BY <1>1
  <2>2. performers' \in Seq(Performer) /\ Len(performers') = 1 /\ performers'[1] = q
    BY <1>1, <2>1, ExceptFirst
  <2>3. \A j \in 1..1 : j = 1
    OBVIOUS
  <2>4. QED
    BY <2>2, <2>3, Zenon
<1>3. LidTypeOK'
  <2>1. LidTypeOK
    BY DEF DriveInv, DrivesOnce
  <2>2. QED
    BY <1>2, <2>1 DEF LidTypeOK
<1>4. OnePerformer' /\ QueueFits'
  <2>1. OnePerformer /\ QueueFits
    BY DEF DriveInv, DrivesOnce
  <2>2. QED
    BY <1>1, <1>2, <2>1 DEF OnePerformer, QueueFits
<1>5. PerformerFits'
  <2>1. ReadOnly(q.action) <=> refreshing
    BY <1>1 DEF DriveInv, PerformerFits
  <2>2. QED
    BY <1>2, <2>1 DEF PerformerFits
<1>6. CASE issued' = issued /\ (q.at \in Unissued => performers[i].at \in Unissued)
  <2>1. OncePerRequest' /\ CountsTypeOK'
    BY <1>6 DEF DriveInv, DrivesOnce, OncePerRequest, CountsTypeOK
  <2>2. /\ issued <= finished + (IF Mutating THEN 1 ELSE 0)
        /\ q.at \in Unissued => issued <= finished
    BY <1>1, <1>6 DEF DriveInv, IssuedFits
  <2>3. IssuedFits'
    BY <1>2, <1>6, <2>2 DEF IssuedFits, Mutating
  <2>4. QED
    BY <1>3, <1>4, <1>5, <2>1, <2>3 DEF DriveInv, DrivesOnce
<1>7. CASE /\ issued' = issued + 1
           /\ ~ReadOnly(q.action) /\ performers[i].at \in Unissued /\ q.at \notin Unissued
  <2>1. ~refreshing /\ busy /\ issued <= finished
    BY <1>1, <1>7 DEF DriveInv, PerformerFits, IssuedFits
  <2>2. /\ {accepted, finished, issued} \subseteq Nat
        /\ finished <= accepted /\ accepted - finished = IF busy THEN 1 ELSE 0
    BY DEF DriveInv, DrivesOnce, OncePerRequest, CountsTypeOK
  <2>3. OncePerRequest' /\ CountsTypeOK'
    BY <1>7, <2>1, <2>2 DEF OncePerRequest, CountsTypeOK
  <2>4. IssuedFits'
    <3>1. issued' <= finished' + 1 /\ busy' /\ ~refreshing'
      BY <1>7, <2>1, <2>2
    <3>2. \A j \in 1..Len(performers') : performers'[j].at \notin Unissued
      BY <1>2, <1>7
    <3>3. QED
      BY <3>1, <3>2 DEF IssuedFits, Mutating
  <2>5. QED
    BY <1>3, <1>4, <1>5, <2>3, <2>4 DEF DriveInv, DrivesOnce
<1>8. QED
  BY <1>6, <1>7

\* Where the goroutine goes on to.
LEMMA Moved ==
  ASSUME DriveInv, NEW i \in DOMAIN performers
  PROVE  /\ performers[i] \in Performer
         /\ \A phase \in Phases :
              /\ [performers[i] EXCEPT !.at = phase] \in Performer
              /\ [performers[i] EXCEPT !.at = phase].action = performers[i].action
              /\ [performers[i] EXCEPT !.at = phase].at = phase
         /\ \A s \in States :
              LET q == [performers[i] EXCEPT !.at = "report", !.observed = s]
              IN  q \in Performer /\ q.action = performers[i].action /\ q.at = "report"
         /\ \A s \in {"active", "inactive"} :
              LET q == [performers[i] EXCEPT !.at = "wait", !.want = s]
              IN  q \in Performer /\ q.action = performers[i].action /\ q.at = "wait"
<1>1. performers[i] \in Performer
  BY Performers
<1>2. QED
  BY <1>1 DEF Performer, Phases

LEMMA GotoStep ==
  ASSUME DriveInv, NEW i \in DOMAIN performers, NEW phase \in Phases, Goto(i, phase),
         ReadOnly(performers[i].action) => phase \in {"locate", "check", "report"},
         phase \in Unissued => performers[i].at \in Unissued,
         UNCHANGED <<state, busy, refreshing, queued, token, unsent, accepted, finished, issued>>,
         {depsOK', manager', tools'} \subseteq BOOLEAN, unit' \in Units
  PROVE  DriveInv'
<1> DEFINE q == [performers[i] EXCEPT !.at = phase]
<1>1. q \in Performer /\ q.action = performers[i].action /\ q.at = phase
  BY Moved
<1>2. performers' = [performers EXCEPT ![i] = q]
  BY DEF Goto
<1> HIDE DEF q
<1>3. QED
  BY <1>1, <1>2, MoveStep

LEMMA ReportAsStep ==
  ASSUME DriveInv, NEW i \in DOMAIN performers, NEW s \in States, ReportAs(i, s),
         UNCHANGED <<state, busy, refreshing, queued, token, unsent, accepted, finished>>,
         \/ issued' = issued
         \/ issued' = issued + 1 /\ ~ReadOnly(performers[i].action) /\ performers[i].at \in Unissued,
         {depsOK', manager', tools'} \subseteq BOOLEAN, unit' \in Units
  PROVE  DriveInv'
<1> DEFINE q == [performers[i] EXCEPT !.at = "report", !.observed = s]
<1>1. q \in Performer /\ q.action = performers[i].action /\ q.at = "report"
  BY Moved
<1>2. performers' = [performers EXCEPT ![i] = q]
  BY DEF ReportAs
<1> HIDE DEF q
<1>3. q.at \notin Unissued
  BY <1>1 DEF Unissued
<1>4. QED
  BY <1>1, <1>2, <1>3, MoveStep

LEMMA WaitingStep ==
  ASSUME DriveInv, NEW i \in DOMAIN performers, NEW s \in {"active", "inactive"}, Waiting(i, s),
         ~ReadOnly(performers[i].action), performers[i].at \in Unissued,
         UNCHANGED <<state, busy, refreshing, queued, token, unsent, accepted, finished>>,
         issued' = issued + 1,
         {depsOK', manager', tools'} \subseteq BOOLEAN, unit' \in Units
  PROVE  DriveInv'
<1> DEFINE q == [performers[i] EXCEPT !.at = "wait", !.want = s]
<1>1. q \in Performer /\ q.action = performers[i].action /\ q.at = "wait"
  BY Moved
<1>2. performers' = [performers EXCEPT ![i] = q]
  BY DEF Waiting
<1> HIDE DEF q
<1>3. q.at \notin Unissued
  BY <1>1 DEF Unissued
<1>4. QED
  BY <1>1, <1>2, <1>3, MoveStep

-----------------------------------------------------------------------------
\* The system's part of the type invariant.
LEMMA SystemType ==
  ASSUME DriveInv
  PROVE  /\ {depsOK, manager, tools} \subseteq BOOLEAN /\ unit \in Units
         /\ \A s \in States : Reads(s) => s \in States
         /\ Seen \in States
BY DEF DriveInv, DrivesOnce, LidTypeOK, Seen, Units, States

\* Which actions are at which phase.
LEMMA PhaseFits ==
  ASSUME DriveInv, NEW i \in DOMAIN performers,
         performers[i].at \notin {"locate", "check", "report"}
  PROVE  ~ReadOnly(performers[i].action)
BY Performers DEF DriveInv, PerformerFits

LEMMA QuietSteps ==
  ASSUME DriveInv, NEW i \in DOMAIN performers,
         Locate(i) \/ Check(i) \/ ResetFailed(i) \/ WaitFor(i) \/ GiveUp(i)
  PROVE  DriveInv'
<1>1. /\ UNCHANGED <<state, busy, refreshing, queued, token, unsent, accepted, finished, issued>>
      /\ {depsOK', manager', tools'} \subseteq BOOLEAN /\ unit' \in Units
  BY SystemType DEF Locate, Check, ResetFailed, WaitFor, GiveUp, systemVars, lidHistory, Units
<1>2. \A s \in States : ReportAs(i, s) => DriveInv'
  BY <1>1, ReportAsStep
<1>3. CASE Locate(i)
  <2>1. ReportAs(i, "unavailable") \/ Goto(i, "check")
    BY <1>3 DEF Locate
  <2>2. "check" \in Phases /\ performers[i].at \in Unissued
    BY <1>3 DEF Locate, Unissued, Phases
  <2>3. QED
    BY <1>1, <1>2, <2>1, <2>2, GotoStep DEF States
<1>4. CASE Check(i)
  <2>1. \/ \E s \in States : ReportAs(i, s)
        \/ ~ReadOnly(performers[i].action) /\ (Goto(i, "reset") \/ Goto(i, "stop"))
    BY <1>4 DEF Check
  <2>2. {"reset", "stop"} \subseteq Phases /\ performers[i].at \in Unissued
    BY <1>4 DEF Check, Unissued, Phases
  <2>3. QED
    BY <1>1, <1>2, <2>1, <2>2, GotoStep
<1>5. CASE ResetFailed(i)
  <2>1. Goto(i, "start") /\ "start" \in Phases /\ performers[i].at \in Unissued
    BY <1>5 DEF ResetFailed, Unissued, Phases
  <2>2. ~ReadOnly(performers[i].action)
    BY <1>5, PhaseFits DEF ResetFailed
  <2>3. QED
    BY <1>1, <2>1, <2>2, GotoStep
<1>6. CASE WaitFor(i)
  <2>1. (\E s \in States : ReportAs(i, s)) \/ Goto(i, "poll")
    BY <1>6 DEF WaitFor
  <2>2. ~ReadOnly(performers[i].action)
    BY <1>6, PhaseFits DEF WaitFor
  <2>3. "poll" \in Phases /\ "poll" \notin Unissued
    BY DEF Phases, Unissued
  <2>4. QED
    BY <1>1, <1>2, <2>1, <2>2, <2>3, GotoStep
<1>7. CASE GiveUp(i)
  BY <1>2, <1>7 DEF GiveUp, States
<1>8. QED
  BY <1>3, <1>4, <1>5, <1>6, <1>7

\* The commands that count.
LEMMA CommandSteps ==
  ASSUME DriveInv, NEW i \in DOMAIN performers, Start(i) \/ Stop(i)
  PROVE  DriveInv'
<1>1. /\ UNCHANGED <<state, busy, refreshing, queued, token, unsent, accepted, finished>>
      /\ {depsOK', manager', tools'} \subseteq BOOLEAN /\ issued' = issued + 1
  BY SystemType DEF Start, Stop
<1>2. unit' \in Units
  BY SystemType DEF Start, Stop, Units
<1>3. performers[i].at \in Unissued
  BY DEF Start, Stop, Unissued
<1>4. ~ReadOnly(performers[i].action)
  BY PhaseFits DEF Start, Stop
<1>5. ReportAs(i, "error") \/ \E s \in {"active", "inactive"} : Waiting(i, s)
  BY DEF Start, Stop
<1>6. "error" \in States
  BY DEF States
<1>7. QED
  BY <1>1, <1>2, <1>3, <1>4, <1>5, <1>6, ReportAsStep, WaitingStep

\* The end of a goroutine, which is the end of its request, and the start of the
\* one that waited.
LEMMA ReportStep ==
  ASSUME DriveInv, NEW i \in DOMAIN performers, Report(i)
  PROVE  DriveInv'
<1> DEFINE a == performers[i].action
           s == performers[i].observed
<1>1. /\ performers \in Seq(Performer) /\ i = 1 /\ i \in 1..Len(performers) /\ Len(performers) = 1
      /\ (busy \/ refreshing) /\ performers[i] \in Performer
  BY Performers
<1>2. /\ a \in Actions /\ s \in States /\ (ReadOnly(a) <=> refreshing)
      /\ ReadOnly(a) <=> a \notin Mutations
      /\ queued \in Mutations \cup {"none"} /\ "none" \notin Mutations
      /\ queued # "none" <=> busy /\ refreshing
  BY <1>1 DEF Performer, DriveInv, PerformerFits, QueueFits, DrivesOnce, LidTypeOK, ReadOnly,
              Actions, Mutations
<1>3. /\ {accepted, finished, issued} \subseteq Nat
      /\ accepted - finished = (IF busy THEN 1 ELSE 0)
      /\ issued <= finished + (IF Mutating THEN 1 ELSE 0)
  BY DEF DriveInv, DrivesOnce, CountsTypeOK, OncePerRequest, IssuedFits
<1>4. /\ UNCHANGED <<depsOK, unit, manager, tools, accepted, issued>>
      /\ ~refreshing' /\ refreshing' \in BOOLEAN /\ queued' = "none"
      /\ {token', unsent'} \subseteq BOOLEAN
  BY DEF Report, AfterPerform, PublishLocked, systemVars
<1>5. state' \in States
  BY <1>2 DEF Report, Cleared, States
<1>6. CASE RunsQueued(s)
  <2> DEFINE p == NewPerformer(queued)
  <2>1. /\ performers' = [performers EXCEPT ![i] = p] /\ busy' \in BOOLEAN /\ busy'
        /\ finished' = finished + (IF a \in Mutations THEN 1 ELSE 0) + 0
    BY <1>6 DEF Report, StillBusy, RunsQueued
  <2>2. queued \in Mutations /\ busy /\ refreshing /\ a \notin Mutations
    BY <1>2, <1>6 DEF RunsQueued
  <2>3. p \in Performer /\ p.action = queued /\ p.at = "check" /\ ~ReadOnly(queued)
    BY <2>2, NewPerformerType DEF Actions, Mutations, ReadOnly
  <2> HIDE DEF p
  <2>4. performers' \in Seq(Performer) /\ Len(performers') = 1 /\ performers'[1] = p
    BY <1>1, <2>1, <2>3, ExceptSeq
  <2>5. finished' = finished
    BY <1>3, <2>1, <2>2
  <2>6. LidTypeOK'
    BY <1>4, <1>5, <2>1, <2>4 DEF DriveInv, DrivesOnce, LidTypeOK
  <2>7. OnePerformer' /\ QueueFits'
    BY <1>4, <2>1, <2>4 DEF OnePerformer, QueueFits
  <2>8. OncePerRequest' /\ CountsTypeOK'
    BY <1>3, <1>4, <2>1, <2>2, <2>5 DEF OncePerRequest, CountsTypeOK, Mutating
  <2>9. PerformerFits'
    BY <1>4, <2>3, <2>4 DEF PerformerFits
  <2>10. IssuedFits'
    BY <1>3, <1>4, <2>2, <2>5 DEF IssuedFits, Mutating
  <2>11. QED
    BY <2>6, <2>7, <2>8, <2>9, <2>10 DEF DriveInv, DrivesOnce
<1>7. CASE ~RunsQueued(s)
  <2>1. /\ performers' = RemoveAt(performers, 1) /\ busy' \in BOOLEAN /\ ~busy'
        /\ finished' = finished + (IF a \in Mutations THEN 1 ELSE 0)
                          + (IF queued \in Mutations THEN 1 ELSE 0)
    BY <1>1, <1>7 DEF Report, StillBusy, RunsQueued
  <2>2. performers' = <<>> /\ Len(performers') = 0 /\ performers' \in Seq(Performer)
    <3>1. performers' = <<>>
      BY <1>1, <2>1, RemoveOnly, Zenon
    <3>2. QED
      BY <3>1
  <2>3. finished' = accepted
    BY <1>1, <1>2, <1>3, <2>1
  <2>4. issued <= accepted
    BY <1>3 DEF Mutating
  <2>5. LidTypeOK'
    BY <1>4, <1>5, <2>1, <2>2 DEF DriveInv, DrivesOnce, LidTypeOK
  <2>6. OnePerformer' /\ QueueFits'
    BY <1>4, <2>1, <2>2 DEF OnePerformer, QueueFits
  <2>7. OncePerRequest' /\ CountsTypeOK'
    BY <1>3, <1>4, <2>1, <2>3, <2>4 DEF OncePerRequest, CountsTypeOK
  <2>8. PerformerFits' /\ IssuedFits'
    BY <1>3, <1>4, <2>2, <2>3, <2>4 DEF PerformerFits, IssuedFits
  <2>9. QED
    BY <2>5, <2>6, <2>7, <2>8 DEF DriveInv, DrivesOnce
<1>8. QED
  BY <1>6, <1>7

-----------------------------------------------------------------------------
\* A step that leaves the requests and their goroutines alone.
LEMMA DriveQuiet ==
  ASSUME DriveInv, UNCHANGED <<state, busy, refreshing, queued, performers, accepted, finished, issued>>,
         {depsOK', token', unsent', manager', tools'} \subseteq BOOLEAN, unit' \in Units
  PROVE  DriveInv'
<1>1. LidTypeOK'
  BY DEF DriveInv, DrivesOnce, LidTypeOK
<1>2. OnePerformer' /\ OncePerRequest'
  BY DEF DriveInv, DrivesOnce, OnePerformer, OncePerRequest
<1>3. PerformerFits' /\ QueueFits' /\ IssuedFits' /\ CountsTypeOK'
  BY DEF DriveInv, PerformerFits, QueueFits, IssuedFits, CountsTypeOK, Mutating
<1>4. QED
  BY <1>1, <1>2, <1>3 DEF DriveInv, DrivesOnce

LEMMA DriveStep ==
  ASSUME DriveInv, Perform \/ Settle \/ Outside \/ UNCHANGED lidVars \/ \E a \in Actions : Accept(a)
  PROVE  DriveInv'
<1>0. {depsOK, token, unsent, manager, tools} \subseteq BOOLEAN /\ unit \in Units
  BY DEF DriveInv, DrivesOnce, LidTypeOK
<1>1. CASE Perform
  BY <1>1, QuietSteps, CommandSteps, ReportStep DEF Perform, PerformStep
<1>2. CASE Settle
  BY <1>0, <1>2, DriveQuiet DEF Settle, statusVars, lidHistory, Units
<1>3. CASE Outside
  <2>1. UNCHANGED <<statusVars, lidHistory>> /\ unit' \in Units /\ {manager', tools'} \subseteq BOOLEAN
    BY <1>0, <1>3 DEF Outside, Units
  <2>2. QED
    BY <1>0, <2>1, DriveQuiet DEF statusVars, lidHistory
<1>4. CASE UNCHANGED lidVars
  BY <1>0, <1>4, DriveQuiet DEF lidVars, statusVars, systemVars, lidHistory
<1>5. CASE \E a \in Actions : Accept(a)
  BY <1>5, AcceptStep
<1>6. QED
  BY <1>1, <1>2, <1>3, <1>4, <1>5

-----------------------------------------------------------------------------
(* The plugin in front of it.                                              *)

\* What a step of the plugin does to the service.
LEMMA PluginSteps ==
  ASSUME LidPluginNext
  PROVE  \/ Perform \/ Settle \/ Outside \/ UNCHANGED lidVars \/ \E a \in Actions : Accept(a)
         \/ ReadSnapshot \/ OnUpdate
<1>1. \A a : Ask(a) => UNCHANGED lidVars \/ (a \in Actions /\ Accept(a))
  BY DEF Ask, Accept, Accepts
<1>2. ASSUME OnMessage PROVE UNCHANGED lidVars \/ \E a \in Actions : Accept(a)
  <2>1. \A node \in Nodes : OnClick(node) => UNCHANGED lidVars \/ Ask(Meaning(node))
    BY DEF OnClick
  <2>2. ViewChange => UNCHANGED lidVars
    BY DEF ViewChange
  <2>3. QED
    BY <1>1, <1>2, <2>1, <2>2 DEF OnMessage
<1>3. Tick => Accept("refresh") /\ "refresh" \in Actions
  BY DEF Tick, Actions
<1>4. Publish \/ PanelAnswered \/ Shutdown => UNCHANGED lidVars
  BY DEF Publish, PanelAnswered, Shutdown
<1>5. QED
  BY <1>2, <1>3, <1>4 DEF LidPluginNext, ServiceSteps, SystemSteps

LEMMA DriveNext == DriveInv /\ [LidPluginNext]_allLidVars => DriveInv'
<1> SUFFICES ASSUME DriveInv, [LidPluginNext]_allLidVars PROVE DriveInv'
  OBVIOUS
<1>1. CASE LidPluginNext
  <2>1. ASSUME ReadSnapshot \/ OnUpdate PROVE DriveInv'
    <3>1. {depsOK, token, unsent, manager, tools} \subseteq BOOLEAN /\ unit \in Units
      BY DEF DriveInv, DrivesOnce, LidTypeOK
    <3>2. QED
      BY <2>1, <3>1, DriveQuiet DEF ReadSnapshot, OnUpdate, systemVars, lidHistory
  <2>2. QED
    BY <1>1, <2>1, PluginSteps, DriveStep
<1>2. CASE UNCHANGED allLidVars
  BY <1>2, DriveStep DEF allLidVars
<1>3. QED
  BY <1>1, <1>2

\* service.go: one goroutine at a time drives systemd, exactly while the status
\* says so, and starts or stops the unit at most once for each request.
THEOREM SystemdIsDrivenOnce == LidPluginSpec => []DrivesOnce
<1>1. LidPluginInit => DriveInv
  BY DriveInit DEF LidPluginInit
<1>2. DriveInv => DrivesOnce
  BY DEF DriveInv
<1>3. QED
  BY <1>1, <1>2, DriveNext, PTL DEF LidPluginSpec

-----------------------------------------------------------------------------
(* What the host is sent.                                                  *)

PluginTypeOK ==
  /\ notice \in Actions \cup {"none"}
  /\ {snap.frame, shown} \subseteq Frame
  /\ hostSees \in [state : States, busy : BOOLEAN]
  /\ main \in {"select", "read", "publish", "calling", "exited"}

\* Between two readings of the snapshot every new revision leaves a value in the
\* channel.
RevisionsAnnounced == main # "read" /\ unsent => token

\* The host was sent the last revision, or publish is about to send it.
HostFollows ==
  IF main = "publish"
  THEN /\ snap.news \/ hostSees = Sent(snap.frame)
       /\ unsent \/ Sent(snap.frame) = Sent(Status)
  ELSE unsent \/ hostSees = Sent(Status)

\* What a view shows, or is about to show, may miss the start of a check, and
\* nothing else.
ShowsNow(f) == f.state = state /\ f.busy = busy /\ (f.refreshing => refreshing)
ViewFollows ==
  ~token => /\ main \in {"select", "calling"} => ShowsNow(shown)
            /\ main = "publish" => ShowsNow(snap.frame)

\* An action that the snapshot no longer shows has ended; nobody asks for
\* another one while it is published.
SnapshotEnded == main = "publish" /\ ~snap.frame.busy => ~busy

\* Every notification, sent or due, is for a mutation of its own.
NoticesFit ==
  /\ notices \in Nat
  /\ notices + (IF notice \in Mutations THEN 1 ELSE 0) <= accepted

PluginInv ==
  /\ DriveInv
  /\ PluginTypeOK
  /\ RevisionsAnnounced
  /\ HostFollows
  /\ ViewFollows
  /\ SnapshotEnded
  /\ NoticesFit

LEMMA PluginInit == LidPluginInit => PluginInv
<1> SUFFICES ASSUME LidPluginInit PROVE PluginInv
  OBVIOUS
<1>1. DriveInv
  BY DriveInit DEF LidPluginInit
<1>2. PluginTypeOK
  BY <1>1 DEF LidPluginInit, PluginTypeOK, NoSnap, Frame, Status, Sent, Actions, Mutations,
              DriveInv, DrivesOnce, LidTypeOK, States
<1>3. RevisionsAnnounced /\ HostFollows /\ ViewFollows /\ SnapshotEnded /\ NoticesFit
  BY DEF LidPluginInit, LidInit, RevisionsAnnounced, HostFollows, ViewFollows, SnapshotEnded,
         NoticesFit, Mutations
<1>4. QED
  BY <1>1, <1>2, <1>3 DEF PluginInv

\* What the service may do while the main goroutine is somewhere else, or asks
\* for it.
Quiet == UNCHANGED <<state, busy, token, unsent>> /\ (refreshing' \/ ~refreshing)
Announced == token' /\ unsent' /\ token' \in BOOLEAN /\ unsent' \in BOOLEAN

LEMMA PerformChanges ==
  ASSUME DriveInv, Perform
  PROVE  /\ Quiet \/ Announced
         /\ busy' => busy
         /\ UNCHANGED accepted
<1>1. PICK i \in DOMAIN performers : PerformStep(i)
  BY DEF Perform
<1>2. CASE Report(i)
  <2>1. busy' \in BOOLEAN /\ (busy' => queued # "none")
    BY <1>2 DEF Report, StillBusy, RunsQueued
  <2>2. queued # "none" => busy
    BY DEF DriveInv, QueueFits
  <2>3. QED
    BY <1>2, <2>1, <2>2 DEF Report, PublishLocked, Announced
<1>3. CASE ~Report(i)
  BY <1>1, <1>3 DEF PerformStep, Locate, Check, ResetFailed, Start, Stop, WaitFor, GiveUp,
                    Quiet, lidHistory
<1>4. QED
  BY <1>2, <1>3

LEMMA AcceptChanges ==
  ASSUME DriveInv, NEW a \in Actions, Accept(a)
  PROVE  /\ a \notin Mutations => Quiet /\ accepted' = accepted
         /\ a \in Mutations => Announced /\ accepted' = accepted + 1
<1>1. ReadOnly(a) <=> a \notin Mutations
  BY DEF ReadOnly, Actions, Mutations
<1>2. CASE a \in Mutations
  BY <1>1, <1>2 DEF Accept, PublishLocked, Announced
<1>3. CASE a \notin Mutations
  <2>1. ~busy /\ busy \in BOOLEAN /\ refreshing \in BOOLEAN
    BY DEF Accept, Accepts, DriveInv, DrivesOnce, LidTypeOK
  <2>2. busy' = FALSE /\ UNCHANGED <<state, token, unsent>>
    BY <1>1, <1>3 DEF Accept, ReadOnly
  <2>3. refreshing' \/ ~refreshing
    BY <1>1, <1>3 DEF Accept, MustQueue
  <2>4. QED
    BY <1>3, <2>1, <2>2, <2>3 DEF Accept, Quiet
<1>4. QED
  BY <1>2, <1>3

\* The parts that only look at the service, when the plugin's own part of them
\* stays.
LEMMA FollowsStep ==
  ASSUME PluginInv, Quiet \/ Announced,
         UNCHANGED <<snap, shown, hostSees>>,
         main' = main \/ (main = "select" /\ main' \in {"read", "calling"}),
         main = "publish" => (busy' => busy)
  PROVE  RevisionsAnnounced' /\ HostFollows' /\ ViewFollows' /\ SnapshotEnded'
<1>1. RevisionsAnnounced /\ HostFollows /\ ViewFollows /\ SnapshotEnded
  BY DEF PluginInv
<1>2. RevisionsAnnounced'
  BY <1>1 DEF RevisionsAnnounced, Quiet, Announced
<1>3. HostFollows'
  <2>1. CASE Announced
    BY <1>1, <2>1 DEF HostFollows, Announced
  <2>2. CASE Quiet
    BY <1>1, <2>2 DEF HostFollows, Quiet, Sent, Status
  <2>3. QED
    BY <2>1, <2>2
<1>4. ViewFollows'
  <2>1. CASE Announced
    BY <2>1 DEF ViewFollows, Announced
  <2>2. CASE Quiet
    BY <1>1, <2>2 DEF ViewFollows, Quiet, ShowsNow
  <2>3. QED
    BY <2>1, <2>2
<1>5. SnapshotEnded'
  BY <1>1 DEF SnapshotEnded
<1>6. QED
  BY <1>2, <1>3, <1>4, <1>5

LEMMA PluginNext == PluginInv /\ [LidPluginNext]_allLidVars => PluginInv'
<1> SUFFICES ASSUME PluginInv, [LidPluginNext]_allLidVars PROVE PluginInv'
  OBVIOUS
<1>0. /\ DriveInv /\ DriveInv' /\ PluginTypeOK /\ RevisionsAnnounced /\ HostFollows /\ ViewFollows
      /\ SnapshotEnded /\ NoticesFit /\ accepted \in Nat /\ accepted' \in Nat
      /\ {busy, refreshing, token, unsent} \subseteq BOOLEAN
      /\ {busy', refreshing', token', unsent'} \subseteq BOOLEAN
  BY DriveNext DEF PluginInv, DriveInv, DrivesOnce, LidTypeOK, CountsTypeOK
<1>1. CASE ServiceSteps
  <2>1. (Quiet \/ Announced) /\ (busy' => busy) /\ UNCHANGED <<lidPluginVars, accepted>>
    BY <1>0, <1>1, PerformChanges DEF ServiceSteps
  <2>2. RevisionsAnnounced' /\ HostFollows' /\ ViewFollows' /\ SnapshotEnded'
    BY <2>1, FollowsStep DEF lidPluginVars, mainVars
  <2>3. PluginTypeOK' /\ NoticesFit'
    BY <1>0, <2>1 DEF PluginTypeOK, NoticesFit, lidPluginVars, mainVars
  <2>4. QED
    BY <1>0, <2>2, <2>3 DEF PluginInv
<1>2. CASE SystemSteps \/ PanelAnswered \/ Shutdown \/ UNCHANGED allLidVars
  <2>1. /\ UNCHANGED <<state, busy, refreshing, token, unsent, accepted, notice, snap, shown,
                       hostSees, notices>>
        /\ main' = main \/ (main' \in {"select", "exited"} /\ main \in {"select", "calling"})
    <3>1. CASE SystemSteps
      BY <3>1 DEF SystemSteps, Settle, Outside, statusVars, lidHistory, lidPluginVars, mainVars
    <3>2. CASE PanelAnswered \/ Shutdown
      BY <3>2 DEF PanelAnswered, Shutdown, lidVars, statusVars, lidHistory
    <3>3. CASE UNCHANGED allLidVars
      BY <3>3 DEF allLidVars, lidVars, statusVars, lidHistory, lidPluginVars, mainVars
    <3>4. QED
      BY <1>2, <3>1, <3>2, <3>3
  <2>2. PluginTypeOK' /\ NoticesFit'
    BY <1>0, <2>1 DEF PluginTypeOK, NoticesFit
  <2>3. RevisionsAnnounced' /\ SnapshotEnded'
    BY <1>0, <2>1 DEF RevisionsAnnounced, SnapshotEnded
  <2>4. HostFollows' /\ ViewFollows'
    BY <1>0, <2>1 DEF HostFollows, ViewFollows, Sent, Status, ShowsNow
  <2>5. QED
    BY <1>0, <2>2, <2>3, <2>4 DEF PluginInv
<1>3. CASE ReadSnapshot
  <2>1. /\ main = "read" /\ main' = "publish" /\ ~unsent'
        /\ snap' = [frame |-> Status, news |-> unsent]
        /\ UNCHANGED <<state, busy, refreshing, token, accepted, notice, shown, hostSees, notices>>
    BY <1>3 DEF ReadSnapshot, lidHistory
  <2>2. Status \in Frame /\ Status' = Status
    BY <1>0, <2>1 DEF DriveInv, DrivesOnce, LidTypeOK, Status, Frame
  <2>3. PluginTypeOK' /\ NoticesFit'
    BY <1>0, <2>1, <2>2 DEF PluginTypeOK, NoticesFit
  <2>4. RevisionsAnnounced' /\ SnapshotEnded' /\ ViewFollows'
    BY <1>0, <2>1, <2>2 DEF RevisionsAnnounced, SnapshotEnded, ViewFollows, ShowsNow, Status
  <2>5. HostFollows'
    BY <1>0, <2>1, <2>2 DEF HostFollows
  <2>6. QED
    BY <1>0, <2>3, <2>4, <2>5 DEF PluginInv
<1>4. CASE Publish
  <2>1. /\ main = "publish" /\ main' = "select" /\ snap' = NoSnap
        /\ hostSees' = IF snap.news THEN Sent(snap.frame) ELSE hostSees
        /\ notice' = IF ActionEnded THEN "none" ELSE notice
        /\ notices' = notices + IF ActionEnded /\ notice \in Mutations THEN 1 ELSE 0
        /\ UNCHANGED <<state, busy, refreshing, token, unsent, accepted>>
    BY <1>4 DEF Publish, SendsStatus, lidVars, statusVars, lidHistory
  <2>2. shown' = snap.frame
    BY <1>4 DEF Publish, Redraws
  <2>3. snap.frame \in Frame /\ Sent(snap.frame) \in [state : States, busy : BOOLEAN]
    BY <1>0 DEF PluginTypeOK, Frame, Sent
  <2>4. PluginTypeOK'
    BY <1>0, <2>1, <2>2, <2>3 DEF PluginTypeOK, NoSnap, Frame, States
  <2>5. NoticesFit'
    BY <1>0, <2>1 DEF NoticesFit, Mutations
  <2>6. RevisionsAnnounced' /\ SnapshotEnded'
    BY <1>0, <2>1 DEF RevisionsAnnounced, SnapshotEnded
  <2>7. HostFollows' /\ ViewFollows'
    BY <1>0, <2>1, <2>2 DEF HostFollows, ViewFollows, Sent, Status, ShowsNow
  <2>8. QED
    BY <1>0, <2>4, <2>5, <2>6, <2>7 DEF PluginInv
<1>5. CASE OnUpdate
  <2>1. /\ main' = "read" /\ main # "publish"
        /\ UNCHANGED <<state, busy, refreshing, unsent, accepted, notice, snap, shown, hostSees, notices>>
    BY <1>5 DEF OnUpdate, StartPublish, lidHistory
  <2>2. PluginTypeOK' /\ NoticesFit'
    BY <1>0, <2>1 DEF PluginTypeOK, NoticesFit
  <2>3. RevisionsAnnounced' /\ SnapshotEnded' /\ ViewFollows'
    BY <2>1 DEF RevisionsAnnounced, SnapshotEnded, ViewFollows
  <2>4. HostFollows'
    BY <1>0, <2>1 DEF HostFollows, Sent, Status
  <2>5. QED
    BY <1>0, <2>2, <2>3, <2>4 DEF PluginInv
<1>6. CASE Tick
  <2>1. Quiet /\ UNCHANGED <<accepted, lidPluginVars>> /\ main = "select"
    BY <1>0, <1>6, AcceptChanges DEF Tick, Actions, Mutations
  <2>2. RevisionsAnnounced' /\ HostFollows' /\ ViewFollows' /\ SnapshotEnded'
    BY <2>1, FollowsStep DEF lidPluginVars, mainVars
  <2>3. PluginTypeOK' /\ NoticesFit'
    BY <1>0, <2>1 DEF PluginTypeOK, NoticesFit, lidPluginVars, mainVars
  <2>4. QED
    BY <1>0, <2>2, <2>3 DEF PluginInv
<1>7. CASE OnMessage
  <2>1. main = "select" /\ UNCHANGED <<snap, shown, hostSees, notices>>
    BY <1>7 DEF OnMessage
  <2> DEFINE Asked == \/ /\ \E a \in Actions : Accept(a) /\ notice' = a
                         /\ main' \in {"select", "read"}
                      \/ /\ UNCHANGED <<lidVars, notice>>
                         /\ main' \in {"select", "read", "calling"}
  <2>2. \A a : Ask(a) => Asked
    BY <2>1 DEF Ask, Accept, Accepts, StartPublish
  <2>3. Asked
    <3>1. \A node \in Nodes : OnClick(node) => Asked
      BY <2>1, <2>2 DEF OnClick
    <3>2. ViewChange => Asked
      BY <2>1 DEF ViewChange, StartPublish
    <3>3. QED
      BY <1>7, <2>2, <3>1, <3>2 DEF OnMessage
  <2>4. main' = main \/ (main = "select" /\ main' \in {"read", "calling"})
    BY <2>1, <2>3
  <2>5. /\ Quiet \/ Announced
        /\ \/ notice' \in Actions \ Mutations /\ accepted' = accepted
           \/ notice' \in Mutations /\ accepted' = accepted + 1
           \/ notice' = notice /\ accepted' = accepted
    <3>1. CASE \E a \in Actions : Accept(a) /\ notice' = a
      BY <1>0, <3>1, AcceptChanges
    <3>2. CASE UNCHANGED <<lidVars, notice>>
      BY <3>2 DEF lidVars, statusVars, lidHistory, Quiet
    <3>3. QED
      BY <2>3, <3>1, <3>2
  <2> HIDE DEF Asked
  <2>6. RevisionsAnnounced' /\ HostFollows' /\ ViewFollows' /\ SnapshotEnded'
    BY <2>1, <2>4, <2>5, FollowsStep
  <2>7. PluginTypeOK'
    BY <1>0, <2>1, <2>4, <2>5 DEF PluginTypeOK, Actions, Mutations
  <2>8. NoticesFit'
    BY <1>0, <2>1, <2>5 DEF NoticesFit, Actions, Mutations
  <2>9. QED
    BY <1>0, <2>6, <2>7, <2>8 DEF PluginInv
<1>8. QED
  BY <1>1, <1>2, <1>3, <1>4, <1>5, <1>6, <1>7 DEF LidPluginNext

LEMMA PluginInvariant == LidPluginSpec => []PluginInv
  BY PluginInit, PluginNext, PTL DEF LidPluginSpec

\* cmd/sysc-plugin-lid-guard, publish: when the event loop rests and no update
\* waits, the host was sent the service's state and busy flag and the views show
\* them; a revision is never dropped between the channel and the snapshot.
THEOREM HostIsSentTheStatus == LidPluginSpec => [](LidPluginTypeOK /\ StatusReachesHost)
<1>1. PluginInv => LidPluginTypeOK
  BY DEF PluginInv, DriveInv, DrivesOnce, PluginTypeOK, LidPluginTypeOK
<1>2. PluginInv => StatusReachesHost
  <2> SUFFICES ASSUME PluginInv, main = "select", ~token
               PROVE  /\ hostSees = Sent(Status)
                      /\ shown.state = state /\ shown.busy = busy
                      /\ shown.refreshing => refreshing
    BY DEF StatusReachesHost
  <2>1. hostSees = Sent(Status)
    BY DEF PluginInv, RevisionsAnnounced, HostFollows
  <2>2. ShowsNow(shown)
    BY DEF PluginInv, ViewFollows
  <2>3. QED
    BY <2>1, <2>2 DEF ShowsNow
<1>3. QED
  BY <1>1, <1>2, PluginInvariant, PTL

\* cmd/sysc-plugin-lid-guard, publish: a notification is sent only when every
\* mutation that was accepted has ended, and never one more than was accepted.
THEOREM NotifiesAfterTheEnd == LidPluginSpec => [][NoticeAfterEnd]_allLidVars
<1>1. PluginInv /\ [LidPluginNext]_allLidVars => [NoticeAfterEnd]_allLidVars
  <2> SUFFICES ASSUME PluginInv, [LidPluginNext]_allLidVars, notices' # notices
               PROVE  finished = accepted /\ notices < accepted
    BY DEF NoticeAfterEnd
  <2>1. Publish
    BY DEF LidPluginNext, ServiceSteps, SystemSteps, ReadSnapshot, OnUpdate, Tick, OnMessage,
           PanelAnswered, Shutdown, allLidVars, lidPluginVars, mainVars
  <2>2. notices \in Nat /\ notice \in Mutations /\ ~busy /\ {accepted, finished} \subseteq Nat
    BY <2>1 DEF Publish, ActionEnded, PluginInv, NoticesFit, SnapshotEnded, DriveInv, CountsTypeOK
  <2>3. QED
    BY <2>2 DEF PluginInv, DriveInv, DrivesOnce, OncePerRequest, NoticesFit
<1>2. QED
  BY <1>1, PluginInvariant, PTL DEF LidPluginSpec

\* What lid guard tells of systemd is true, of the service as it is and of the mutations that
\* have ended, for any number of requests, merged updates and troubles (main.go, service.go).
THEOREM NoticesStayTrue == LidPluginSpec => NoticesAreTrue
BY HostIsSentTheStatus, NotifiesAfterTheEnd, PTL DEF NoticesAreTrue
=============================================================================
