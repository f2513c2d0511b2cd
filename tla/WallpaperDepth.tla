---------------------------- MODULE WallpaperDepth ----------------------------
(***************************************************************************)
(* plugins/wallpaper-depth/service.go: the controller that follows the     *)
(* shell's wallpapers and has a depth mask made for each image, one helper *)
(* run at a time, and gives it to the shell.                               *)
(*                                                                         *)
(* The goroutines are the controller, its worker and the plugin's loop,    *)
(* which sends the controller the assignments polled from the shell, the   *)
(* settings and the presses in the panel.  A row's revision is renewed     *)
(* whenever work begun for it is void; here a job carries a flag instead,  *)
(* current, that says whether its revision is still the row's.             *)
(***************************************************************************)
EXTENDS Naturals, Sequences, FiniteSetsExt, SequencesExt

CONSTANTS Outputs, Paths, Params,  \* monitors, image files, threshold and feather
          DefaultParam, AutoChoices, \* how it starts; whether automatic can be off
          LateClicks,  \* whether a press may come from a panel not yet redrawn
          None,        \* no wallpaper, no mask, no job
          MaxEvents,   \* bound: events waiting for the controller
          MaxMoves, MaxPresses, MaxChanges  \* bounds: wallpapers, presses, settings

Settings == [auto : BOOLEAN, param : Params]
DepthAssumption ==
  /\ DefaultParam \in Params /\ AutoChoices \subseteq BOOLEAN /\ LateClicks \in BOOLEAN
  /\ {MaxEvents, MaxMoves, MaxPresses, MaxChanges} \subseteq Nat
  /\ None \notin Outputs \cup Paths \cup Params

VARIABLES ctl,       \* the controller's state
          events,    \* what waits for it
          wallpapers, masks,        \* the shell: its assignments and the masks it was given
          moves, presses, changes   \* counters of the bounds

boundVars == <<moves, presses, changes>>
vars == <<ctl, events, wallpapers, masks, boundVars>>

Controls == {"check", "setup", "clear-cache"}
Job == [op : Controls \cup {"generate"}, output : Outputs \cup {None}, path : Paths \cup {None},
        param : Params \cup {None}, manual : BOOLEAN, current : BOOLEAN]
NoJob == [op |-> None, output |-> None, path |-> None, param |-> None,
          manual |-> FALSE, current |-> FALSE]
Control(op) == [NoJob EXCEPT !.op = op, !.current = TRUE]
NoMask == [path |-> None, param |-> None]
Assignment == [state : {"image"}, path : Paths] \cup [state : {"other", "gone"}, path : {None}]
Gone == [state |-> "gone", path |-> None]
NoRow == [state |-> "gone", path |-> None, status |-> "unsupported", mask |-> NoMask]

IsImage(s, o) == s.rows[o].state = "image"
Works(s) == Range(s.queue) \cup {s.active}
WorksFor(s, o) == {j \in Works(s) : j.output = o /\ j.current}
Busy == ctl.active # NoJob \/ ctl.queue # <<>>
InOrder == SetToSeq(Outputs)

-----------------------------------------------------------------------------
(* Steps of the controller's state s.                                      *)

\* resetRow.
Reset(row) == [row EXCEPT !.mask = NoMask,
                          !.status = IF row.state = "image" THEN "waiting" ELSE "unsupported"]

\* nextRevision: the work for these outputs is void.
Void(s, os) ==
  LET voided(j) == IF j.output \in os THEN [j EXCEPT !.current = FALSE] ELSE j
  IN  [s EXCEPT !.queue = [i \in DOMAIN @ |-> voided(@[i])], !.active = voided(@)]

\* enqueueGenerate, for several outputs in turn.
AlwaysEligible(s, o, manual) == IsImage(s, o) /\ (manual \/ s.ready)
Eligible(s, o, manual) == AlwaysEligible(s, o, manual) /\ WorksFor(s, o) = {}
Generates(s, order, manual) ==
  LET fit == SelectSeq(order, LAMBDA o : Eligible(s, o, manual))
      job(o) == [op |-> "generate", output |-> o, path |-> s.rows[o].path,
                 param |-> s.settings.param, manual |-> manual, current |-> TRUE]
  IN  [s EXCEPT !.queue = @ \o [i \in DOMAIN fit |-> job(fit[i])],
                !.rows = [o \in Outputs |-> IF o \in Range(fit)
                                            THEN [@[o] EXCEPT !.status = "processing"] ELSE @[o]]]

\* enqueueWaitingImages.
WaitingImages(s, order) ==
  SelectSeq(order, LAMBDA o : IsImage(s, o) /\ s.rows[o].status = "waiting")
GeneratesWaiting(s) ==
  IF s.settings.auto /\ s.ready THEN Generates(s, WaitingImages(s, InOrder), FALSE) ELSE s

\* enqueueControl.
Controlled(s, op) ==
  IF \E j \in Works(s) : j.op = op THEN s ELSE [s EXCEPT !.queue = Append(@, Control(op))]

Queued(s) == ToSet(s.queue)
Without(s, jobs) == [s EXCEPT !.queue = SelectSeq(@, LAMBDA j : j \notin jobs)]

-----------------------------------------------------------------------------
(* handle.                                                                 *)

\* poll: rows of outputs that went away are dropped, with their queued work;
\* a row whose wallpaper changed begins anew.
PollGenerates(s) == GeneratesWaiting(s)
Poll(s, assigned) ==
  LET gone == {o \in Outputs : assigned[o] = Gone}
      changed == {o \in Outputs \ gone :
                    <<s.rows[o].state, s.rows[o].path>> # <<assigned[o].state, assigned[o].path>>}
      row(o) == Reset([NoRow EXCEPT !.state = assigned[o].state, !.path = assigned[o].path])
      kept == Void(Without(s, {j \in Queued(s) : j.output \in gone}), gone \cup changed)
  IN  PollGenerates([kept EXCEPT !.rows =
        [o \in Outputs |-> IF o \in gone THEN NoRow ELSE IF o \in changed THEN row(o) ELSE @[o]]])

Images(s) == {o \in Outputs : IsImage(s, o)}
Waits(s, os) ==
  [Void(s, os) EXCEPT !.rows = [o \in Outputs |-> IF o \in os THEN Reset(@[o]) ELSE @[o]]]

\* setSettings, with new parameters: every image begins anew.
SetParam(s, next, order) ==
  LET waiting == Waits(Without([s EXCEPT !.settings = next], {j \in Queued(s) : j.op = "generate"}), Images(s))
  IN  IF next.auto THEN Generates(waiting, SelectSeq(order, LAMBDA o : IsImage(s, o)), FALSE)
      ELSE waiting

\* setSettings, automatic generation switched off: what is queued for it is
\* dropped, except what the user asked for, and so is what it is working at.
DropsAutomatic(j) == j.op = "generate" /\ ~j.manual
SetManual(s, next) ==
  LET spared == {o \in Outputs : s.active.op = "generate" /\ s.active.output = o /\ s.active.manual}
      without == {o \in Images(s) : s.rows[o].mask = NoMask}
  IN  Waits(Without([s EXCEPT !.settings = next], {j \in Queued(s) : DropsAutomatic(j)}), without \ spared)

\* setSettings, automatic generation switched on.
SetAuto(s, next, order) ==
  LET without(o) == IsImage(s, o) /\ s.rows[o].mask = NoMask
      on == [s EXCEPT !.settings = next,
                      !.rows = [o \in Outputs |-> IF s.ready /\ without(o) THEN Reset(@[o]) ELSE @[o]]]
  IN  Generates(on, SelectSeq(order, without), FALSE)

SetSettings(s, next, order) ==
  IF next = s.settings THEN s
  ELSE IF next.param # s.settings.param THEN SetParam(s, next, order)
  ELSE IF next.auto THEN SetAuto(s, next, order) ELSE SetManual(s, next)

\* generate and generateAll; an output with no image gets an error.
Generate(s, os) ==
  LET shown == {o \in os : s.rows[o] # NoRow}
      failed == shown \ Images(s)
      fresh == Waits(s, os \cap Images(s))
  IN  Generates([fresh EXCEPT !.rows = [o \in Outputs |->
                   IF o \in failed THEN [@[o] EXCEPT !.status = "error"] ELSE @[o]]],
                SelectSeq(InOrder, LAMBDA o : o \in os \cap Images(s)), TRUE)

\* clearCache: a second press while the helper clears drops the queue only.
ClearCache(s) ==
  IF s.active.op = "clear-cache" THEN [s EXCEPT !.queue = <<>>]
  ELSE Controlled(Waits([s EXCEPT !.queue = <<>>], {o \in Outputs : s.rows[o] # NoRow}), "clear-cache")

Handled(s, e, order) ==
  CASE e.kind = "poll" -> Poll(s, e.assigned)
    [] e.kind = "settings" -> SetSettings(s, e.settings, order)
    [] e.kind \in {"check", "setup"} -> Controlled(s, e.kind)
    [] e.kind = "generate" -> Generate(s, {e.output})
    [] e.kind = "generate-all" -> Generate(s, Images(s))
    [] e.kind = "clear-cache" -> ClearCache(s)

-----------------------------------------------------------------------------
(* dispatch and finish.                                                    *)

\* dispatch: the worker gets the first item that is not void.
Starts(j) == j.op \in Controls \/ j.current
Dispatched(s) ==
  LET ripe == {i \in DOMAIN s.queue : Starts(s.queue[i])}
  IN  IF s.active # NoJob THEN s
      ELSE IF ripe = {} THEN [s EXCEPT !.queue = <<>>]
      ELSE [s EXCEPT !.active = s.queue[Min(ripe)],
                     !.queue = SubSeq(s.queue, Min(ripe) + 1, Len(s.queue))]

\* finish, for a check, a setup or a clearing that ended well or not.
FinishControl(s, ok, ready) ==
  LET idle == [s EXCEPT !.active = NoJob]
  IN  IF s.active.op = "clear-cache" THEN GeneratesWaiting(idle)
      ELSE IF ok THEN GeneratesWaiting([idle EXCEPT !.ready = ready]) ELSE idle

\* As Accepts, but the generation is not compared.
AcceptsAny(s) == s.rows[s.active.output] # NoRow

\* finish, for a generation: a void one leaves the row alone.
Accepts(s) == s.active.current
Failed(row) == [row EXCEPT !.status = "error"]
FinishGenerate(s, ok) ==
  [s EXCEPT !.active = NoJob,
            !.rows[s.active.output] =
              IF ~Accepts(s) THEN @
              ELSE IF ok THEN [@ EXCEPT !.status = "ready",
                                        !.mask = [path |-> s.active.path, param |-> s.active.param]]
              ELSE Failed(@)]

-----------------------------------------------------------------------------
(* Actions.                                                                *)

Init ==
  /\ ctl = [settings |-> [auto |-> TRUE, param |-> DefaultParam], ready |-> FALSE, queue |-> <<>>, active |-> NoJob,
            rows |-> [o \in Outputs |-> NoRow]]
  /\ events = <<[kind |-> "check"]>>
  /\ wallpapers \in [Outputs -> {a \in Assignment : a.state # "gone"}]
  /\ masks = [o \in Outputs |-> NoMask]
  /\ moves = 0 /\ presses = 0 /\ changes = 0

\* A mask that the controller gives up is withdrawn from the shell by a call
\* that may fail, in which case the shell keeps it.
Withdraws(before, after) ==
  masks' \in {given \in [Outputs -> Range(masks) \cup {NoMask}] :
                \A o \in Outputs : given[o] \in
                  {masks[o]} \cup (IF before[o].mask # NoMask /\ after[o].mask = NoMask
                                   THEN {NoMask} ELSE {})}

HandleEvent ==
  /\ events # <<>>
  /\ \E order \in IF Head(events).kind = "settings" THEN SetToSeqs(Outputs) ELSE {InOrder} :
       ctl' = Dispatched(Handled(ctl, Head(events), order))
  /\ Withdraws(ctl.rows, ctl'.rows)
  /\ events' = Tail(events)
  /\ UNCHANGED <<wallpapers, boundVars>>

\* The helper ends and its result is taken.
FinishControls ==
  /\ ctl.active.op \in Controls
  /\ \E ok, ready \in BOOLEAN : ctl' = Dispatched(FinishControl(ctl, ok, ready))
  /\ UNCHANGED <<events, wallpapers, masks, boundVars>>

\* The mask is given to the shell by a call that may fail, before or after the
\* shell took it.
FinishGeneration ==
  /\ ctl.active.op = "generate"
  /\ \E ok \in BOOLEAN, taken \in BOOLEAN :
       /\ ok => taken
       /\ ctl' = Dispatched(FinishGenerate(ctl, ok))
       /\ masks' = IF taken /\ Accepts(ctl)
                   THEN [masks EXCEPT ![ctl.active.output] =
                           [path |-> ctl.active.path, param |-> ctl.active.param]]
                   ELSE masks
  /\ UNCHANGED <<events, wallpapers, boundVars>>

Send(e) ==
  /\ Len(events) < MaxEvents
  /\ events' = Append(events, e)

\* Every second the shell is asked for its assignments.
PollShell ==
  /\ \A i \in DOMAIN events : events[i].kind # "poll"
  /\ Send([kind |-> "poll", assigned |-> wallpapers])
  /\ UNCHANGED <<ctl, wallpapers, masks, boundVars>>

ShellMoves ==
  /\ moves < MaxMoves
  /\ moves' = moves + 1
  /\ \E o \in Outputs, a \in Assignment :
       a # wallpapers[o] /\ wallpapers' = [wallpapers EXCEPT ![o] = a]
  /\ UNCHANGED <<ctl, events, masks, presses, changes>>

\* The panel disables its buttons while the controller is busy, which a press
\* may overtake.
Presses == {[kind |-> op] : op \in Controls \cup {"generate-all"}}
           \cup [kind : {"generate"}, output : Outputs]
Press ==
  /\ presses < MaxPresses
  /\ presses' = presses + 1
  /\ LateClicks \/ (~Busy /\ \A i \in DOMAIN events : events[i].kind \in {"poll", "settings"})
  /\ \E e \in Presses : Send(e)
  /\ UNCHANGED <<ctl, wallpapers, masks, moves, changes>>

ChooseSettings ==
  /\ changes < MaxChanges
  /\ changes' = changes + 1
  /\ \E next \in [auto : AutoChoices, param : Params] : Send([kind |-> "settings", settings |-> next])
  /\ UNCHANGED <<ctl, wallpapers, masks, moves, presses>>

Next == HandleEvent \/ FinishControls \/ FinishGeneration \/ PollShell \/ ShellMoves \/ Press
        \/ ChooseSettings

\* The goroutines run, the helper's runs and the calls end, and the shell is
\* polled for ever.
Spec ==
  /\ Init
  /\ [][Next]_vars
  /\ WF_vars(HandleEvent) /\ WF_vars(FinishControls) /\ WF_vars(FinishGeneration)
  /\ WF_vars(PollShell)

-----------------------------------------------------------------------------
(* Properties.                                                             *)

\* A ready row's mask is the one the shell has, made of the row's wallpaper
\* with the parameters in force, whatever changed while the helper worked.
ReadyIsRegistered ==
  \A o \in Outputs : ctl.rows[o].status = "ready" =>
    /\ ctl.rows[o].mask = [path |-> ctl.rows[o].path, param |-> ctl.settings.param]
    /\ masks[o] = ctl.rows[o].mask

\* An output has at most one job that is not void: the helper never makes the
\* same mask twice.
OneJobEach ==
  \A o \in Outputs :
    /\ Cardinality({i \in DOMAIN ctl.queue : ctl.queue[i].output = o /\ ctl.queue[i].current})
         + (IF ctl.active.output = o /\ ctl.active.current THEN 1 ELSE 0) <= 1

\* With automatic generation off, only what the user asked for is done: no
\* other job is queued, and a running one is void.
ManualOnly ==
  ~ctl.settings.auto => \A j \in Works(ctl) : j.op = "generate" /\ ~j.manual => ~j.current

=============================================================================
