-------------------------------- MODULE Cat --------------------------------
(***************************************************************************)
(* The Cat plugin: the behaviour state of plugins/cat and the loop of      *)
(* cmd/sysc-plugin-cat that samples the CPU load and plays the acts.       *)
(*                                                                         *)
(* Loads and lines are whole percents, compared as the code compares them. *)
(* Time is counted in units: the sampling period and an ease step are one  *)
(* unit, a sitting spell one or two, the other idle acts one.  Deadlines   *)
(* are kept as what is left of them.  The easing of the pace is the number *)
(* of steps to the pace of the load.  One view stands for all; the poses,  *)
(* the graph and the texts are left out.                                   *)
(***************************************************************************)
EXTENDS Integers

CONSTANTS Loads,       \* the loads of the machine, percent
          Lines,       \* the values of SleepBelow
          TopAt,       \* the load of top speed
          Naps,        \* the values of NapAfter, units
          EaseSteps,   \* the most steps an easing takes
          ChangesMax,  \* bound: changes of the load
          ClicksMax,   \* bound: openings, closings and settings
          None

CatAssumption ==
  /\ Loads \subseteq 0..100 /\ Lines \subseteq 0..99 /\ Naps \subseteq Nat
  /\ \A line \in Lines : line < TopAt
  /\ {TopAt, EaseSteps, ChangesMax, ClicksMax} \subseteq Nat

VARIABLES machine,   \* the load of the machine
          settings,  \* SleepBelow and NapAfter
          cat,       \* Cat
          timers,    \* the sample and the act timer: what is left, or None
          open,      \* some view is open
          budget     \* what is left of the bounds

catVars == <<machine, settings, cat, timers, open, budget>>

SampleEvery == 1
Idle == {"Sit", "Groom", "Scratch", "Stretch", "Sleep"}

----------------------------------------------------------------------------
(* The behaviour: s are the settings, c is the cat *)

Busy(s, c) == c.load # None /\ (s.line = 0 \/ c.load >= s.line)

\* settleAt: three points under the line, or half of it.
SettlesAt(s, load) == 2 * load < 2 * s.line - (IF s.line < 6 THEN s.line ELSE 6)

\* locomotion: from 38 % of the band on it runs, and a running cat down to 32 %.
AtLeast(s, load, share) == 100 * (load - s.line) >= share * (TopAt - s.line)
Gait(s, c) ==
  IF AtLeast(s, c.load, 38) \/ (c.act = "Run" /\ AtLeast(s, c.load, 32)) THEN "Run" ELSE "Walk"

Move(s, c) ==
  [c EXCEPT !.act = Gait(s, c), !.pace = c.load, !.steps = 0,
            !.left = None, !.ease = None, !.idleFor = None]

\* begin: a sitting cat and a single act have an end, the others go on.
Spells(act) == CASE act = "Sit" -> {1, 2} [] act = "Sleep" -> {None} [] OTHER -> {1}
Begin(c, act) ==
  {[c EXCEPT !.act = act, !.left = l, !.steps = 0, !.ease = None] : l \in Spells(act)}

\* settle: the load has dropped below the line.
Settle(s, c) == Begin([c EXCEPT !.idleFor = 0], IF s.nap = 0 THEN "Sleep" ELSE "Sit")

\* As Ease, but the steps are left to the next change of the load.
EasesLater(c) == [c EXCEPT !.pace = c.load, !.steps = EaseSteps]

\* A new target: the pace comes to it step by step, from now on.
Ease(c) == [c EXCEPT !.pace = c.load, !.steps = EaseSteps, !.ease = 0]

\* Observe: what the cat does about a reading.
Observe(s, load, before) ==
  LET c == [before EXCEPT !.load = load]
      idle == c.act \in Idle IN
  IF idle /\ ~Busy(s, c) THEN IF c.idleFor = None THEN Settle(s, c) ELSE {c}
  ELSE IF ~idle /\ s.line > 0 /\ SettlesAt(s, load) THEN Settle(s, c)
  ELSE IF c.act = "Sleep" THEN Begin(c, "Stretch")
  ELSE IF c.act = "Stretch" THEN {c}
  ELSE IF Gait(s, c) # c.act THEN {Move(s, c)}
  ELSE IF c.pace # c.load THEN {Ease(c)} ELSE {c}

\* Tick, the easing: half of the gap at a time.
Eased(c) ==
  IF c.ease # 0 THEN c
  ELSE LET left == IF c.steps = 0 THEN 0 ELSE c.steps - 1 IN
       [c EXCEPT !.steps = left, !.ease = IF left = 0 THEN None ELSE 1]

\* Tick, the end of a sitting spell: a nap when it is time, else another idle act.
SitsOut(s, c) ==
  IF s.nap > 0 /\ c.idleFor # None /\ c.idleFor >= s.nap THEN Begin(c, "Sleep")
  ELSE UNION {Begin(c, act) : act \in Idle \ {"Sleep"}}

Tick(s, before) ==
  LET c == Eased(before) IN
  IF c.left # 0 THEN {c}
  ELSE CASE c.act = "Stretch" -> IF Busy(s, c) THEN {Move(s, c)} ELSE Begin(c, "Sit")
         [] c.act = "Sit" -> SitsOut(s, c)
         [] OTHER -> Begin(c, "Sit")

\* Next: the earlier of the two deadlines.
Next(c) ==
  IF c.ease = None THEN c.left
  ELSE IF c.left = None THEN c.ease ELSE IF c.ease < c.left THEN c.ease ELSE c.left

----------------------------------------------------------------------------
(* The loop *)

Click == budget.clicks > 0 /\ budget' = [budget EXCEPT !.clicks = @ - 1]

\* schedule: the act timer is armed for the next deadline, and only for eyes that see it.
Scheduled(t, c) == [t EXCEPT !.act = IF open' THEN Next(c) ELSE None]

TakeSample ==
  /\ timers.sample = 0
  /\ \/ cat' \in Observe(settings, machine, cat)
        /\ UNCHANGED open /\ timers' = Scheduled([timers EXCEPT !.sample = SampleEvery], cat')
        /\ UNCHANGED budget
     \/ /\ Click   \* /proc/stat cannot be read, or nothing was accounted
        /\ timers' = [timers EXCEPT !.sample = SampleEvery] /\ UNCHANGED <<cat, open>>
  /\ UNCHANGED <<machine, settings>>

Act ==
  /\ timers.act = 0 /\ cat' \in Tick(settings, cat)
  /\ UNCHANGED <<machine, settings, open, budget>> /\ timers' = Scheduled(timers, cat')

\* wake: the first sample comes at once.
Wakes == IF cat.load = None THEN 0 ELSE SampleEvery

OpenView ==
  /\ ~open /\ Click /\ open' = TRUE
  /\ timers' = Scheduled([timers EXCEPT !.sample = Wakes], cat)
  /\ UNCHANGED <<machine, settings, cat>>

CloseView ==
  /\ open /\ Click /\ open' = FALSE /\ timers' = [sample |-> None, act |-> None]
  /\ UNCHANGED <<machine, settings, cat>>

\* A new sampling period starts at once, when the load is sampled at all.
Rearmed(t) == IF open THEN [t EXCEPT !.sample = SampleEvery] ELSE t

\* SetThresholds: the act is decided again on the load that is known.
SettingsChanged ==
  /\ Click /\ settings' \in [line : Lines, nap : Naps]
  /\ IF cat.load = None THEN UNCHANGED cat ELSE cat' \in Observe(settings', cat.load, cat)
  /\ UNCHANGED <<machine, open>>
  /\ \E period \in BOOLEAN :
       timers' = Scheduled(IF period THEN Rearmed(timers) ELSE timers, cat')

----------------------------------------------------------------------------
(* Time and the machine *)

Down(n) == IF n \in {None, 0} THEN n ELSE n - 1
Longest == CHOOSE n \in Naps : \A m \in Naps : m <= n

Pass ==
  /\ timers.sample # 0 /\ timers.act # 0
  /\ timers' = [sample |-> Down(timers.sample), act |-> Down(timers.act)]
  /\ cat' = [cat EXCEPT !.left = Down(@), !.ease = Down(@),
               !.idleFor = IF @ = None THEN None ELSE IF @ < Longest THEN @ + 1 ELSE @]
  /\ UNCHANGED <<machine, settings, open, budget>>

LoadChanges ==
  /\ budget.changes > 0 /\ budget' = [budget EXCEPT !.changes = @ - 1]
  /\ machine' \in Loads /\ UNCHANGED <<settings, cat, timers, open>>

CatInit ==
  /\ machine \in Loads /\ settings \in [line : Lines, nap : Naps]
  /\ cat = [load |-> None, act |-> "Sit", left |-> None, ease |-> None, steps |-> 0,
            pace |-> None, idleFor |-> None]
  /\ timers = [sample |-> None, act |-> None] /\ open = FALSE
  /\ budget = [changes |-> ChangesMax, clicks |-> ClicksMax]

Timers == TakeSample \/ Act
CatNext == Timers \/ OpenView \/ CloseView \/ SettingsChanged \/ Pass \/ LoadChanges

\* Time passes and a timer that is due fires.
CatSpec == CatInit /\ [][CatNext]_catVars /\ WF_catVars(Timers) /\ WF_catVars(Pass)

----------------------------------------------------------------------------
(* Properties *)

\* While someone looks, the load is sampled and the next change of the cat is due in
\* time; while nobody does, no timer runs (main.go:156).
TimersServe ==
  IF open THEN timers.sample # None /\ timers.act = Next(cat)
  ELSE timers = [sample |-> None, act |-> None]

\* What the cat should do about the load of the machine once it stays as it is.
Fits ==
  IF settings.line = 0 \/ machine >= settings.line
  THEN cat.act \in {"Walk", "Run"} /\ cat.pace = machine /\ cat.steps = 0
  ELSE SettlesAt(settings, machine) => cat.act \in Idle /\ (settings.nap > 0 => cat.act = "Sleep")

\* A watched cat ends doing what the load asks for: it moves at the pace of the load, or it
\* settles and, in time, naps (Cat, "whose behaviour follows CPU load").
AtEnd == open => Fits

=============================================================================
