------------------------------ MODULE ProtonVpn ------------------------------
(* ProtonVPN: cmd/sysc-plugin-protonvpn in front of plugins/protonvpn.  The    *)
(* event loop marks a command at once and leaves it to one worker, which runs  *)
(* the slow protonvpn CLI; results come back as closures that the loop applies *)
(* to a machine that may have moved on.  Status, account and settings readings *)
(* carry the generation of the command that they were asked after.             *)
(* A status names the tunnel as up or down; servers, countries and addresses   *)
(* do not matter to what is done, the toggles of Protection are one.           *)
EXTENDS Absent, Naturals, Sequences, FiniteSets, Functions

CONSTANTS QueueSize,     \* cliJobQueueSize
          AsyncSize,     \* capacity of async
          CommandsMax,   \* bound: commands of the user
          MishapsMax     \* bound: failing calls, changes made elsewhere, deadlines that pass

VARIABLES
  proton,    \* outside: the tunnel, the account, the setting
  vpn,       \* the Machine: phase and the last readings
  shown,     \* the phase that the views show
  gens,      \* statusGeneration, infoGeneration, configGeneration
  cancel,    \* generation of the connect that connectCancel ends, or 0
  stopped,   \* generations of the connects whose context has been cancelled
  jobs,      \* cliJobs
  polls,     \* the one-place polls channel
  worker,    \* "looks" for a job, "waits" for either, or what it does
  async,     \* closures for the loop
  linkCheckPending,
  commands, mishaps

vpnVars == <<proton, vpn, shown, gens, cancel, stopped, jobs, polls, worker, async,
             linkCheckPending, commands, mishaps>>

Parts == {"status", "info", "config"}
Settled == {"down", "up"}
InTransition == vpn.phase \in {"connecting", "disconnecting"}
GensOf(parts, all) == [p \in Parts |-> IF p \in parts THEN all[p] ELSE 0]
NoPoll == [wants |-> {}, gens |-> GensOf({}, [p \in Parts |-> 0])]

-----------------------------------------------------------------------------
(* The machine (state.go).                                                 *)

\* As SetStatus, but an error stays until the next command.
KeepsError(m, tunnel) ==
  IF m.phase = "error" THEN [m EXCEPT !.status = tunnel]
  ELSE [m EXCEPT !.phase = tunnel, !.status = tunnel]
SetStatus(m, tunnel) == [m EXCEPT !.phase = tunnel, !.status = tunnel]
StartConnect(m) == [m EXCEPT !.phase = "connecting"]
StartDisconnect(m) == [m EXCEPT !.phase = "disconnecting"]
Fail(m) == [m EXCEPT !.phase = "error"]

\* A change that a closure or the tick makes is shown; so is every activation.
ShowsChange(m) == vpn' = m /\ shown' = IF m # vpn THEN m.phase ELSE shown
Activates(m) == vpn' = m /\ shown' = m.phase

-----------------------------------------------------------------------------
(* Requests.                                                               *)

\* A request replaces a waiting one, takes over what that asked for, and reads it
\* for the generations of now.
RequestPoll(wants) ==
  polls' = [wants |-> wants \cup polls.wants, gens |-> GensOf(wants \cup polls.wants, gens)]

HasRoom == Len(jobs) < QueueSize
Changes(kind) ==
  CASE kind \in {"connect", "disconnect"} -> {"status"}
    [] kind = "signout" -> {"status", "info"}
    [] kind = "config" -> {"config"}
    [] OTHER -> {}
Remembers(kind) ==
  CASE kind = "config" -> vpn.config
    [] kind = "signout" -> [status |-> vpn.status, account |-> vpn.account]
    [] OTHER -> None
EnqueueCLI(kind) ==
  jobs' = Append(jobs, [kind |-> kind, gens |-> GensOf(Changes(kind), gens'),
                        was |-> Remembers(kind)])
Acts == commands < CommandsMax /\ commands' = commands + 1
Bumped(kind) == gens' = [p \in Parts |-> IF p \in Changes(kind) THEN gens[p] + 1 ELSE gens[p]]

\* What the one button of the card does in a phase, what the bar's right button
\* does, and when the targets of the Connections tab connect.
CardAction == CASE vpn.phase \in {"down", "error"} -> "connect"
                [] vpn.phase \in {"connecting", "up"} -> "disconnect" [] OTHER -> "nothing"
QuickAction == IF vpn.phase = "connecting" THEN "nothing" ELSE CardAction
TargetsConnect == ~InTransition

\* connect: from the card or a target (activations), or from the bar's right
\* button, which publishes nothing.
Connect(byButton) ==
  /\ Acts
  /\ IF byButton THEN CardAction = "connect" \/ TargetsConnect ELSE QuickAction = "connect"
  /\ Bumped("connect")
  /\ LET m == IF HasRoom THEN StartConnect(vpn) ELSE Fail(vpn)
     IN IF byButton THEN Activates(m) ELSE vpn' = m /\ UNCHANGED shown
  /\ IF HasRoom THEN EnqueueCLI("connect") /\ cancel' = gens'.status
     ELSE cancel' = 0 /\ UNCHANGED jobs
  /\ UNCHANGED <<proton, stopped, polls, worker, async, linkCheckPending, mishaps>>

CancelsConnect ==
  cancel' = 0 /\ stopped' = IF cancel = 0 THEN stopped ELSE stopped \cup {cancel}

Disconnect(byButton) ==
  /\ Acts
  /\ (IF byButton THEN CardAction ELSE QuickAction) = "disconnect"
  /\ CancelsConnect /\ Bumped("disconnect")
  /\ LET m == IF HasRoom THEN StartDisconnect(vpn) ELSE Fail(vpn)
     IN IF byButton THEN Activates(m) ELSE vpn' = m /\ UNCHANGED shown
  /\ IF HasRoom THEN EnqueueCLI("disconnect") ELSE UNCHANGED jobs
  /\ UNCHANGED <<proton, polls, worker, async, linkCheckPending, mishaps>>

SignOut ==
  /\ Acts /\ vpn.account /\ vpn.phase # "disconnecting"
  /\ CancelsConnect /\ Bumped("signout")
  /\ Activates(IF HasRoom THEN StartDisconnect(vpn) ELSE Fail(vpn))
  /\ IF HasRoom THEN EnqueueCLI("signout") ELSE UNCHANGED jobs
  /\ UNCHANGED <<proton, polls, worker, async, linkCheckPending, mishaps>>

\* A toggle asks for the opposite of what the panel shows.  The card of the kill
\* switch is locked while connected, those of the others are not.
SetConfig ==
  /\ Acts
  /\ Bumped("config")
  /\ Activates(IF HasRoom THEN vpn ELSE [vpn EXCEPT !.complains = TRUE])
  /\ IF HasRoom THEN EnqueueCLI("config") ELSE UNCHANGED jobs
  /\ UNCHANGED <<proton, cancel, stopped, polls, worker, async, linkCheckPending, mishaps>>

\* The button is part of the account card of somebody who is signed in.
RefreshAll ==
  /\ Acts /\ vpn.account
  /\ Activates(vpn) /\ RequestPoll(Parts)
  /\ UNCHANGED <<proton, gens, cancel, stopped, jobs, worker, async, linkCheckPending, mishaps>>

-----------------------------------------------------------------------------
(* The ticker.  Which of its intervals have passed is left open.           *)

VpnTick ==
  /\ \E pollDue, expired, linkDue \in BOOLEAN :
       LET fails == pollDue /\ expired /\ InTransition
           link == linkDue /\ ~linkCheckPending /\ vpn.phase = "up"
       IN /\ pollDue \/ linkDue
          /\ expired => fails /\ mishaps < MishapsMax
          /\ mishaps' = IF fails THEN mishaps + 1 ELSE mishaps
          /\ IF pollDue THEN RequestPoll({"status"}) ELSE UNCHANGED polls
          /\ ShowsChange(IF fails THEN Fail(vpn) ELSE vpn)
          /\ gens' = gens
          /\ linkCheckPending' = (linkCheckPending \/ (link /\ HasRoom))
          /\ IF link /\ HasRoom THEN EnqueueCLI("link") ELSE UNCHANGED jobs
  /\ UNCHANGED <<proton, cancel, stopped, worker, async, commands>>

-----------------------------------------------------------------------------
(* The worker (runCLIWorker): it prefers a job when it looks, but not once it  *)
(* waits for either.                                                           *)

Work(kind, of) == [kind |-> kind, of |-> of]
Looking == Work("looks", None)
IsCancelled(job) == job.kind = "connect" /\ job.gens.status \in stopped

TakeJob ==
  /\ worker.kind \in {"looks", "waits"} /\ jobs # <<>>
  /\ jobs' = Tail(jobs)
  /\ LET skips == IsCancelled(Head(jobs))
     IN /\ worker' = IF skips THEN Looking ELSE Work("job", Head(jobs))
        /\ stopped' = IF skips THEN stopped \ {Head(jobs).gens.status} ELSE stopped
  /\ UNCHANGED <<proton, vpn, shown, gens, cancel, polls, async, linkCheckPending, commands,
                 mishaps>>

FindNoJob ==
  /\ worker.kind = "looks" /\ jobs = <<>>
  /\ worker' = Work("waits", None)
  /\ UNCHANGED <<proton, vpn, shown, gens, cancel, stopped, jobs, polls, async,
                 linkCheckPending, commands, mishaps>>

\* The readings of a poll are taken together; each may fail.
Reading(read, now) == [read |-> read, proton |-> IF read = {} THEN None ELSE now,
                       seen |-> IF "status" \in read THEN gens.status ELSE 0]
PollFails(parts) ==
  /\ mishaps + Cardinality(parts) <= MishapsMax
  /\ mishaps' = mishaps + Cardinality(parts)
TakePoll ==
  /\ worker.kind = "waits" /\ polls # NoPoll
  /\ \E failed \in SUBSET polls.wants :
       /\ PollFails(failed)
       /\ worker' = Work("poll", [gens |-> polls.gens,
                                  got |-> Reading(polls.wants \ failed, proton)])
  /\ polls' = NoPoll
  /\ UNCHANGED <<proton, vpn, shown, gens, cancel, stopped, jobs, async, linkCheckPending,
                 commands>>

Posts(closure) == Len(async) < AsyncSize /\ async' = Append(async, closure) /\ worker' = Looking
Closure(kind, of, ok, got) == [kind |-> kind, gens |-> of.gens, ok |-> ok, got |-> got,
                               was |-> IF kind = "poll" THEN None ELSE of.was]

EndPoll ==
  /\ worker.kind = "poll"
  /\ Posts(Closure("poll", worker.of, TRUE, worker.of.got))
  /\ UNCHANGED <<proton, vpn, shown, gens, cancel, stopped, jobs, polls, linkCheckPending,
                 commands, mishaps>>

\* What the CLI does outside; a call that fails or is cut off may have done it.
CliEffect(kind, was) ==
  CASE kind = "connect" -> [proton EXCEPT !.status = IF proton.info THEN "up" ELSE @]
    [] kind = "disconnect" -> [proton EXCEPT !.status = "down"]
    [] kind = "signout" -> [proton EXCEPT !.status = "down", !.info = FALSE]
    [] kind = "config" -> [proton EXCEPT !.config = ~was]
    [] OTHER -> proton

\* What a command reads once it has worked.
CommandReads(kind) ==
  CASE kind = "config" -> {"config"} [] kind = "signout" -> {"status", "info"} [] OTHER -> {}

EndJob ==
  /\ worker.kind = "job"
  /\ LET job == worker.of
     IN \E ok, worked \in BOOLEAN, failed \in SUBSET Parts :
          /\ ok => worked /\ (job.kind = "connect" => proton.info)
          /\ job.kind = "link" => ok
          /\ failed \subseteq (IF ok THEN CommandReads(job.kind) ELSE {})
          /\ proton' = IF worked THEN CliEffect(job.kind, job.was) ELSE proton
          /\ LET read == (IF ok THEN CommandReads(job.kind) ELSE {}) \ failed
             IN Posts(Closure(job.kind, job, ok, Reading(read, proton')))
          /\ stopped' = stopped \ {job.gens.status}
  /\ UNCHANGED <<vpn, shown, gens, cancel, jobs, polls, linkCheckPending, commands, mishaps>>

-----------------------------------------------------------------------------
(* Closures, on the loop.                                                  *)

Takes(f, part) == part \in f.got.read /\ f.gens[part] = gens[part]
Arrived(kinds) == async # <<>> /\ Head(async).kind \in kinds /\ async' = Tail(async)

ApplyPoll ==
  /\ Arrived({"poll"})
  /\ LET f == Head(async)
         a == IF Takes(f, "status") THEN SetStatus(vpn, f.got.proton.status) ELSE vpn
         b == IF Takes(f, "info") THEN [a EXCEPT !.account = f.got.proton.info] ELSE a
     IN ShowsChange(IF Takes(f, "config")
                    THEN [b EXCEPT !.config = f.got.proton.config, !.read = TRUE] ELSE b)
  /\ UNCHANGED <<proton, gens, cancel, stopped, jobs, polls, worker, linkCheckPending,
                 commands, mishaps>>

\* As ApplyCommand, with the cancel function dropped before the generations are compared.
ForgetsCancel ==
  /\ Arrived({"connect", "disconnect"})
  /\ LET f == Head(async)
     IN /\ cancel' = IF f.kind = "connect" THEN 0 ELSE cancel
        /\ IF f.gens.status # gens.status THEN UNCHANGED <<vpn, shown, polls>>
           ELSE IF f.ok THEN RequestPoll({"status"}) /\ UNCHANGED <<vpn, shown>>
                ELSE ShowsChange(Fail(vpn)) /\ UNCHANGED polls
  /\ UNCHANGED <<proton, gens, stopped, jobs, worker, linkCheckPending, commands,
                 mishaps>>
ApplyCommand ==
  /\ Arrived({"connect", "disconnect"})
  /\ LET f == Head(async)
     IN IF f.gens.status # gens.status THEN UNCHANGED <<vpn, shown, cancel, polls>>
        ELSE /\ cancel' = IF f.kind = "connect" THEN 0 ELSE cancel
             /\ IF f.ok THEN RequestPoll({"status"}) /\ UNCHANGED <<vpn, shown>>
                ELSE ShowsChange(Fail(vpn)) /\ UNCHANGED polls
  /\ UNCHANGED <<proton, gens, stopped, jobs, worker, linkCheckPending, commands,
                 mishaps>>

ApplySignOut ==
  /\ Arrived({"signout"})
  /\ LET f == Head(async)
         status == IF f.ok /\ "status" \in f.got.read THEN f.got.proton.status ELSE f.was.status
         account == IF "info" \in f.got.read THEN f.got.proton.info ELSE f.was.account
         m == IF f.gens.status = gens.status THEN SetStatus(vpn, status) ELSE vpn
     IN ShowsChange(IF f.ok /\ f.gens.info = gens.info THEN [m EXCEPT !.account = account] ELSE m)
  /\ UNCHANGED <<proton, gens, cancel, stopped, jobs, polls, worker, linkCheckPending,
                 commands, mishaps>>

\* Only the last change of a setting reports.
ApplyConfig ==
  /\ Arrived({"config"})
  /\ LET f == Head(async)
     IN ShowsChange(
          IF f.gens.config # gens.config THEN vpn
          ELSE IF ~f.ok \/ "config" \notin f.got.read THEN [vpn EXCEPT !.complains = TRUE]
          ELSE [vpn EXCEPT !.config = f.got.proton.config, !.read = TRUE, !.complains = FALSE])
  /\ UNCHANGED <<proton, gens, cancel, stopped, jobs, polls, worker, linkCheckPending,
                 commands, mishaps>>

\* The machine has no Interface, so whatever the link check finds is dropped.
ApplyLink ==
  /\ Arrived({"link"})
  /\ linkCheckPending' = FALSE
  /\ UNCHANGED <<proton, vpn, shown, gens, cancel, stopped, jobs, polls, worker, commands,
                 mishaps>>

-----------------------------------------------------------------------------
Elsewhere ==
  /\ mishaps < MishapsMax /\ mishaps' = mishaps + 1
  /\ \E tunnel \in Settled : /\ tunnel # proton.status /\ (tunnel = "up" => proton.info)
                             /\ proton' = [proton EXCEPT !.status = tunnel]
  /\ UNCHANGED <<vpn, shown, gens, cancel, stopped, jobs, polls, worker, async,
                 linkCheckPending, commands>>

VpnInit ==
  /\ proton \in [status : Settled, info : {TRUE}, config : {TRUE}]
  /\ vpn = [phase |-> "down", status |-> "down", account |-> FALSE, config |-> FALSE,
                read |-> FALSE, complains |-> FALSE]
  /\ shown = "down" /\ gens = [p \in Parts |-> 0] /\ cancel = 0 /\ stopped = {}
  /\ jobs = <<>> /\ polls = [wants |-> Parts, gens |-> gens]
  /\ worker = Looking /\ async = <<>> /\ linkCheckPending = FALSE
  /\ commands = 0 /\ mishaps = 0

Worker == TakeJob \/ FindNoJob \/ TakePoll \/ EndPoll \/ EndJob
RunClosure == ApplyPoll \/ ApplyCommand \/ ApplySignOut \/ ApplyConfig \/ ApplyLink
VpnNext ==
  \/ \E byButton \in BOOLEAN : Connect(byButton) \/ Disconnect(byButton)
  \/ SignOut \/ SetConfig \/ RefreshAll \/ VpnTick \/ Worker \/ RunClosure \/ Elsewhere

\* The ticker never stops, the worker and the loop go on, and the worker, which
\* chooses at random, does not prefer the link checks for ever.
VpnFairness ==
  /\ WF_vpnVars(Worker) /\ SF_vpnVars(FindNoJob) /\ SF_vpnVars(TakePoll)
  /\ WF_vpnVars(RunClosure) /\ WF_vpnVars(VpnTick /\ polls'.wants # {})
VpnSpec == VpnInit /\ [][VpnNext]_vpnVars /\ VpnFairness

-----------------------------------------------------------------------------
(* Properties.                                                             *)

\* A status that was read is applied only if it was read after the last command
\* was asked: what the CLI said before a click never undoes the click (runPoll,
\* signOut).
StatusIsNew ==
  /\ vpn'.status # vpn.status
  /\ "status" \in Head(async).got.read
  => Head(async).got.seen = gens.status

\* While the last command is a connect that has not ended, the panel's Cancel
\* ends that connect: no closure of an earlier command has taken its place in
\* connectCancel.
CancelReaches ==
  \A job \in Range(jobs) \cup (IF worker.kind = "job" THEN {worker.of} ELSE {}) :
    job.kind = "connect" /\ job.gens.status = gens.status => cancel = gens.status

\* With no change under way the toggles tell the truth, or the panel complains.
ConfigHonest ==
  \/ ~vpn.read \/ vpn.complains
  \/ \E job \in Range(jobs) \cup Range(async) : job.kind = "config"
  \/ worker.kind = "job" /\ worker.of.kind = "config"
  \/ vpn.config = proton.config

\* Cancel ends the connect that is shown, no status from before a command undoes it, and
\* the toggles tell the truth or the panel complains (main.go).
TunnelObeys == [](CancelReaches /\ ConfigHonest) /\ [][StatusIsNew]_vpnVars

\* In the end the views show whether the tunnel is up, whatever was clicked,
\* cancelled, timed out, failed or changed elsewhere.
AtEnd == shown = vpn.phase /\ vpn.phase = proton.status
=============================================================================
