----------------------------- MODULE Screenshot -----------------------------
(***************************************************************************)
(* The Screenshot plugin: the launcher of plugins/screenshot, whose acts   *)
(* run in goroutines of their own, and the loop of                         *)
(* cmd/sysc-plugin-screenshot that paints the panel.                       *)
(*                                                                         *)
(* The host opens and closes the one panel and its shell captures or       *)
(* refuses.  The three capture modes are one; the bar, the tooltip and the *)
(* texts are left out.                                                     *)
(***************************************************************************)
EXTENDS Absent, Naturals

CONSTANTS Acts,         \* goroutines that may run at a time
          Directories,  \* save directories
          PressesMax    \* bound: what the user does

ScreenshotAssumption == PressesMax \in Nat

VARIABLES launcher,   \* the model: the directory and the error
          acts,       \* what each goroutine does next, or None
          signals,    \* goroutines that wrote the model and have not yet signalled
          repaint,    \* the channel of one place
          loop,       \* the loop: at its select, about to paint, or sending a tree
          screen,     \* the host: the panel, and what it shows
          presses     \* what is left of the bound

screenshotVars == <<launcher, acts, signals, repaint, loop, screen, presses>>

ClosedPanel == [open |-> FALSE, dir |-> None, error |-> FALSE]
Painted(model) == [open |-> TRUE, dir |-> model.dir, error |-> model.error]
AtSelect == [at |-> "select", tree |-> None]
ToPaint == [at |-> "paint", tree |-> None]

----------------------------------------------------------------------------
(* The launcher *)

\* set: the model under its lock; the signal comes after it.
Set(a, model) == launcher' = model /\ signals' = signals \cup {a}

At(a, stage) == acts[a] = stage /\ a \notin signals
Runs(a, stage) == acts' = [acts EXCEPT ![a] = stage]

\* As Signals, but a signal that finds the loop busy is dropped: a channel without a place.
SignalsNow(a) ==
  /\ a \in signals /\ signals' = signals \ {a}
  /\ repaint' = (repaint \/ loop.at = "select")
  /\ UNCHANGED <<launcher, acts, loop, screen, presses>>

\* The signal: a full channel has one already.
Signals(a) ==
  /\ a \in signals /\ signals' = signals \ {a} /\ repaint' = TRUE
  /\ UNCHANGED <<launcher, acts, loop, screen, presses>>

\* The panel closes at the host.  It opens empty when the loop is at its select, takes the
\* view.open and goes to paint it; the act that reads the directory may be early by that.
ClosesPanel == screen' = ClosedPanel
OpensPanel ==
  IF screen.open THEN UNCHANGED <<screen, loop>>
  ELSE /\ loop.at = "select" /\ loop' = ToPaint
       /\ screen' = [ClosedPanel EXCEPT !.open = TRUE]

\* Refresh: a directory that cannot be read leaves none.
Refresh(a) ==
  /\ At(a, "refresh")
  /\ \E dir \in Directories \cup {None} : Set(a, [launcher EXCEPT !.dir = dir])
  /\ Runs(a, None) /\ UNCHANGED <<repaint, loop, screen, presses>>

\* capture: the error goes, the panel goes, and after CloseDelay the shell is asked.
Capture(a) ==
  /\ UNCHANGED <<repaint, loop, presses>>
  /\ \/ /\ At(a, "capture") /\ Set(a, [launcher EXCEPT !.error = FALSE])
        /\ Runs(a, "close") /\ UNCHANGED screen
     \/ At(a, "close") /\ ClosesPanel /\ Runs(a, "delay") /\ UNCHANGED <<launcher, signals>>
     \/ At(a, "delay") /\ Runs(a, "start") /\ UNCHANGED <<launcher, signals, screen>>

\* The reply of screenshot.start: a refusal is told in the panel, which comes back.
Answered(a) ==
  /\ At(a, "start") /\ UNCHANGED <<repaint, loop, screen, presses>>
  /\ \/ Runs(a, None) /\ UNCHANGED <<launcher, signals>>
     \/ Set(a, [launcher EXCEPT !.error = TRUE]) /\ Runs(a, "reopen")

\* panel.open: the new view is painted, and has the directory read.
Reopens(a) ==
  /\ At(a, "reopen") /\ OpensPanel
  /\ Runs(a, IF screen.open THEN None ELSE "refresh")
  /\ UNCHANGED <<launcher, signals, repaint, presses>>

\* folder: without a directory, or without xdg-open, the panel says so.
Folder(a) ==
  /\ At(a, "folder") /\ Runs(a, None) /\ UNCHANGED <<repaint, loop, presses>>
  /\ \/ launcher.dir # None /\ ClosesPanel /\ UNCHANGED <<launcher, signals>>
     \/ Set(a, [launcher EXCEPT !.error = TRUE]) /\ UNCHANGED screen

----------------------------------------------------------------------------
(* The loop and the user *)

\* The loop takes the signal, reads the model, and sends what it drew: a view that has
\* gone meanwhile takes nothing.
Repaint ==
  /\ UNCHANGED <<launcher, acts, signals, presses>>
  /\ \/ /\ loop.at = "select" /\ repaint /\ repaint' = FALSE
        /\ loop' = ToPaint /\ UNCHANGED screen
     \/ /\ loop.at = "paint" /\ loop' = [at |-> "send", tree |-> Painted(launcher)]
        /\ UNCHANGED <<repaint, screen>>
     \/ /\ loop.at = "send" /\ loop' = AtSelect
        /\ screen' = IF screen.open THEN loop.tree ELSE screen
        /\ UNCHANGED repaint

\* Each press is an act of its own; a panel that opens has the directory read.
PressButton ==
  /\ presses > 0 /\ presses' = presses - 1
  /\ \/ screen.open /\ ClosesPanel /\ UNCHANGED <<acts, loop>>
     \/ \E a \in Acts : At(a, None) /\
          \/ /\ screen.open /\ \E act \in {"capture", "folder"} : Runs(a, act)
             /\ UNCHANGED <<screen, loop>>
          \/ ~screen.open /\ OpensPanel /\ Runs(a, "refresh")
  /\ UNCHANGED <<launcher, signals, repaint>>

ScreenshotInit ==
  /\ launcher = [dir |-> None, error |-> FALSE] /\ acts = [a \in Acts |-> None]
  /\ signals = {} /\ repaint = FALSE /\ loop = AtSelect
  /\ screen = ClosedPanel /\ presses = PressesMax

Works(a) == Signals(a) \/ Refresh(a) \/ Capture(a) \/ Answered(a) \/ Reopens(a) \/ Folder(a)
ScreenshotNext == Repaint \/ PressButton \/ \E a \in Acts : Works(a)

ScreenshotSpec == ScreenshotInit /\ [][ScreenshotNext]_screenshotVars

----------------------------------------------------------------------------
(* Properties *)

\* The model will be painted: its signal is to be given or taken, or the loop is about
\* to read it or sends it.
PaintComes ==
  signals # {} \/ repaint \/ loop.at = "paint" \/ loop.tree = Painted(launcher)

\* An open panel shows the model, or will: no change that several acts make at a time is
\* lost between its write and its signal, in the one place of the channel, or while the
\* loop draws what it has read before (launcher.go, main.go).
PanelShowsModel == screen.open => screen = Painted(launcher) \/ PaintComes
=============================================================================
