----------------------------- MODULE Lifecycle -----------------------------
(***************************************************************************)
(* The daemonless lifecycle of one application: the short-lived CLI        *)
(* commands `app start`, `app status` and `app stop` (and their            *)
(* `appport-*` twins, which run the same code on the same record), the     *)
(* server processes they spawn, and the single file that ties them         *)
(* together, ~/.appboundry/runtime/<Application ID>/runtime.json.          *)
(*                                                                         *)
(* No lock protects the file.  Every system call of a command that touches *)
(* shared state (the record, a pid, a signal, the child's stdout) is one   *)
(* action, so that commands interleave exactly where the operating system  *)
(* lets them.  One Application ID is modelled, hence one record and one    *)
(* TCP port; `app run` is the same server started by hand, unrecorded.     *)
(*                                                                         *)
(* Abstractions: a record is its pid (all its other fields are copies of   *)
(* the prepared application); timeouts may fire at any moment; a signalled *)
(* process makes no further progress of its own before it dies.            *)
(***************************************************************************)
EXTENDS Naturals, FiniteSets

CONSTANTS
    Cmds,      \* CLI invocations that may be in flight at once
    Pids,      \* process identifiers of the host
    Faults,    \* what may go wrong: "crash" of a command, "io" errors, "fork" errors,
               \* "pid_reuse" by an unrelated process
    NoPid,     \* a command holds no pid (no record read, no child spawned)
    NoCmd,     \* a process whose spawning command is gone, or that never had one
    Shell,     \* the interactive parent of an `app run` or of an unrelated process
    Absent,    \* runtime.json does not exist
    Torn       \* runtime.json exists but does not parse (empty or half overwritten)

ASSUME SentinelsDistinct ==
    /\ NoPid \notin Pids
    /\ Absent \notin Pids /\ Torn \notin Pids /\ Absent # Torn
    /\ NoCmd \notin Cmds /\ Shell \notin Cmds /\ NoCmd # Shell
    /\ Faults \subseteq {"crash", "io", "fork", "pid_reuse"}

VARIABLES
    record,    \* contents of runtime.json
    proc,      \* stage of the process that last held each pid
    sig,       \* signal sent to a process and not yet acted upon
    parent,    \* who will reap a process and reads its stdout
    said,      \* the process has printed "<name> listening on <endpoint>"
    pc,        \* next system call of each command
    op,        \* which subcommand each command is
    seen,      \* pid found in the record this command read
    child,     \* pid of the server this start spawned
    fd,        \* this start's open runtime.json: is it still the file at the path?
    acked      \* live servers whose start told its user "Started ... PID"

fileVars == <<record, fd>>
procVars == <<proc, sig, parent, said, acked>>
cmdVars  == <<pc, op, seen, child>>
vars     == <<record, proc, sig, parent, said, pc, op, seen, child, fd, acked>>

Ops      == {"start", "status", "stop"}
Ended    == {"idle", "ok", "failed"}
Stages   == {"free", "booting", "bound", "serving", "other", "gone"}

TypeOK ==
    /\ record \in Pids \cup {Absent, Torn}
    /\ proc   \in [Pids -> Stages]
    /\ sig    \in [Pids -> {"none", "term", "kill"}]
    /\ parent \in [Pids -> Cmds \cup {NoCmd, Shell}]
    /\ said   \in [Pids -> BOOLEAN]
    /\ pc     \in [Cmds -> Ended \cup {"load", "exists", "open", "probe", "stale", "spawn",
                                       "wait", "truncate", "write", "term", "poll", "clear"}]
    /\ op     \in [Cmds -> Ops]
    /\ seen   \in [Cmds -> Pids \cup {NoPid}]
    /\ child  \in [Cmds -> Pids \cup {NoPid}]
    /\ fd     \in [Cmds -> {"closed", "linked", "unlinked"}]
    /\ acked  \subseteq Pids

Init ==
    /\ record = Absent
    /\ proc   = [p \in Pids |-> "free"]
    /\ sig    = [p \in Pids |-> "none"]
    /\ parent = [p \in Pids |-> NoCmd]
    /\ said   = [p \in Pids |-> FALSE]
    /\ pc     = [c \in Cmds |-> "idle"]
    /\ op     = [c \in Cmds |-> "status"]
    /\ seen   = [c \in Cmds |-> NoPid]
    /\ child  = [c \in Cmds |-> NoPid]
    /\ fd     = [c \in Cmds |-> "closed"]
    /\ acked  = {}

-----------------------------------------------------------------------------
(* What the operating system knows of a pid.                               *)

Live(p)   == proc[p] \in {"booting", "bound", "serving", "other"}

\* A dead child is a zombie until the command that spawned it exits.
Zombie(p) == proc[p] = "gone" /\ parent[p] \in Cmds

\* `kill -0 pid` succeeds.  A zombie answers too, and so does an unrelated
\* process of the same user that has inherited the number.
ProcessRunning(p) == Live(p) \/ Zombie(p)

\* process_running runs the program `kill`, and takes a failure to run it for
\* the answer "no".
SeemsGone(p) == ~ProcessRunning(p) \/ "fork" \in Faults

Allocatable(p) ==
    \/ proc[p] = "free"
    \/ "pid_reuse" \in Faults /\ proc[p] = "gone" /\ ~Zombie(p)

PortFree == \A p \in Pids : proc[p] \notin {"bound", "serving"}

\* A process created with number p.
Fork(p, stage, by) ==
    /\ Allocatable(p)
    /\ proc'   = [proc EXCEPT ![p] = stage]
    /\ sig'    = [sig EXCEPT ![p] = "none"]
    /\ parent' = [parent EXCEPT ![p] = by]
    /\ said'   = [said EXCEPT ![p] = FALSE]
    /\ UNCHANGED acked

Dies(p) ==
    /\ proc'  = [proc EXCEPT ![p] = "gone"]
    /\ sig'   = [sig EXCEPT ![p] = "none"]
    /\ acked' = acked \ {p}

\* Signalling a zombie or a free number changes nothing.
Signalled(p, s) ==
    IF p \in Pids /\ Live(p) /\ sig[p] # "kill"
      THEN [sig EXCEPT ![p] = s]
      ELSE sig

\* The command's process exits: init adopts its child and reaps a dead one.
Orphaned(c) == [p \in Pids |-> IF parent[p] = c THEN NoCmd ELSE parent[p]]

Goto(c, label) == pc' = [pc EXCEPT ![c] = label]

Exit(c, outcome) ==
    /\ Goto(c, outcome)
    /\ parent' = Orphaned(c)

-----------------------------------------------------------------------------
(* The steps the three commands share.                                     *)

Begin(c, o) ==
    /\ pc[c] \in Ended
    /\ Goto(c, "load")
    /\ op'    = [op EXCEPT ![c] = o]
    /\ seen'  = [seen EXCEPT ![c] = NoPid]
    /\ child' = [child EXCEPT ![c] = NoPid]
    /\ UNCHANGED <<fileVars, procVars>>

\* Manifest, artifact hash, secrets and host state are checked first; any
\* error ends the command before it looks at the record.
Load(c) ==
    /\ pc[c] = "load"
    /\ \E next \in {"exists", "failed"} : Goto(c, next)
    /\ UNCHANGED <<fileVars, procVars, op, seen, child>>

\* read_record, first half: path.exists().
RecordExists(c) ==
    /\ pc[c] = "exists"
    /\ IF record # Absent
         THEN Goto(c, "open")
         ELSE Goto(c, CASE op[c] = "start"  -> "spawn"
                        [] op[c] = "status" -> "ok"
                        [] op[c] = "stop"   -> "failed")
    /\ UNCHANGED <<fileVars, procVars, op, seen, child>>

\* Mutant: a torn record is taken for a pid.
RecordOpenUnparsed(c) ==
    /\ pc[c] = "open"
    /\ IF record # Absent
         THEN Goto(c, "probe") /\ seen' = [seen EXCEPT ![c] = record]
         ELSE Goto(c, "failed") /\ UNCHANGED seen
    /\ UNCHANGED <<fileVars, procVars, op, child>>

\* read_record, second half: open and parse.  The file may have been removed
\* or truncated since exists() saw it; either way the command ends in error.
RecordOpen(c) ==
    /\ pc[c] = "open"
    /\ IF record \in Pids
         THEN Goto(c, "probe") /\ seen' = [seen EXCEPT ![c] = record]
         ELSE Goto(c, "failed") /\ UNCHANGED seen
    /\ UNCHANGED <<fileVars, procVars, op, child>>

\* Mutant: start does not refuse, it replaces the record of a live server.
ProbeRecordedReplaces(c) ==
    /\ pc[c] = "probe"
    /\ \/ /\ ProcessRunning(seen[c])
          /\ Goto(c, CASE op[c] = "start"  -> "stale"
                       [] op[c] = "status" -> "ok"
                       [] op[c] = "stop"   -> "term")
       \/ SeemsGone(seen[c]) /\ Goto(c, "stale")
    /\ UNCHANGED <<fileVars, procVars, op, seen, child>>

\* process_running(record.pid), and what each command makes of the answer.
ProbeRecorded(c) ==
    /\ pc[c] = "probe"
    /\ \/ /\ ProcessRunning(seen[c])
          /\ Goto(c, CASE op[c] = "start"  -> "failed"
                       [] op[c] = "status" -> "ok"
                       [] op[c] = "stop"   -> "term")
       \/ SeemsGone(seen[c]) /\ Goto(c, "stale")
    /\ UNCHANGED <<fileVars, procVars, op, seen, child>>

\* remove_record works on the path, whatever file is there by now; a writer
\* that has that file open keeps writing to the unlinked one.
Unlink ==
    /\ record' = Absent
    /\ fd' = [d \in Cmds |-> IF fd[d] = "linked" THEN "unlinked" ELSE fd[d]]

RemoveStale(c) ==
    /\ pc[c] = "stale"
    /\ \/ /\ Unlink
          /\ Goto(c, CASE op[c] = "start"  -> "spawn"
                       [] op[c] = "status" -> "ok"
                       [] op[c] = "stop"   -> "failed")
       \/ /\ "io" \in Faults
          /\ Goto(c, "failed")
          /\ UNCHANGED fileVars
    /\ UNCHANGED <<procVars, op, seen, child>>

-----------------------------------------------------------------------------
(* app start: spawn `app run` with a piped stdout, wait up to a minute for  *)
(* its "listening on" line, then write the record and report success.       *)

Spawn(c) ==
    /\ pc[c] = "spawn"
    /\ \E p \in Pids :
          /\ Fork(p, "booting", c)
          /\ child' = [child EXCEPT ![c] = p]
    /\ Goto(c, "wait")
    /\ UNCHANGED <<fileVars, op, seen>>

\* spawn() fails, in particular when the process table is full.
SpawnFails(c) ==
    /\ pc[c] = "spawn"
    /\ "fork" \in Faults \/ \A p \in Pids : ~Allocatable(p)
    /\ Goto(c, "failed")
    /\ UNCHANGED <<fileVars, procVars, op, seen, child>>

\* child.kill() and an error exit.
Abandon(c) ==
    /\ Exit(c, "failed")
    /\ sig' = Signalled(child[c], "kill")
    /\ UNCHANGED <<proc, said, acked>>

\* Mutant: do not wait for the line.
WaitListeningSkipped(c) ==
    /\ pc[c] = "wait"
    /\ Goto(c, "truncate")
    /\ UNCHANGED <<fileVars, procVars, op, seen, child>>

WaitListening(c) ==
    /\ pc[c] = "wait"
    /\ said[child[c]]
    /\ Goto(c, "truncate")
    /\ UNCHANGED <<fileVars, procVars, op, seen, child>>

\* The child closed its stdout without a line: it died while booting.
WaitEof(c) ==
    /\ pc[c] = "wait"
    /\ ~said[child[c]] /\ proc[child[c]] = "gone"
    /\ Abandon(c)
    /\ UNCHANGED <<fileVars, op, seen, child>>

\* Mutants: the minute never ends; the slow child is left running.
WaitTimeoutNever(c) ==
    /\ pc[c] = "wait"
    /\ proc[child[c]] = "gone"
    /\ Abandon(c)
    /\ UNCHANGED <<fileVars, op, seen, child>>

WaitTimeoutNoKill(c) ==
    /\ pc[c] = "wait"
    /\ Exit(c, "failed")
    /\ UNCHANGED <<fileVars, proc, sig, said, acked, op, seen, child>>

\* recv_timeout gives up, even if the line is just arriving.
WaitTimeout(c) ==
    /\ pc[c] = "wait"
    /\ Abandon(c)
    /\ UNCHANGED <<fileVars, op, seen, child>>

\* record_started: fs::write first opens with O_CREAT|O_TRUNC, which leaves an
\* empty file that no reader can parse ...
OpenRecord(c) ==
    /\ pc[c] = "truncate"
    /\ record' = Torn
    /\ fd' = [fd EXCEPT ![c] = "linked"]
    /\ Goto(c, "write")
    /\ UNCHANGED <<procVars, op, seen, child>>

OpenRecordFails(c) ==
    /\ pc[c] = "truncate"
    /\ "io" \in Faults
    /\ Abandon(c)
    /\ UNCHANGED <<fileVars, op, seen, child>>

\* What the path holds after c writes at offset 0 of the file it opened.  If
\* another start wrote a complete record in between, c's text overlays it and a
\* longer one leaves a tail behind.
Written(c) ==
    IF fd[c] = "unlinked" THEN {record}
    ELSE IF record \in Pids THEN {child[c], Torn}
    ELSE {child[c]}

\* ... then writes it; start prints "Started" and exits.
WriteRecord(c) ==
    /\ pc[c] = "write"
    /\ record' \in Written(c)
    /\ fd' = [fd EXCEPT ![c] = "closed"]
    /\ acked' = IF Live(child[c]) THEN acked \cup {child[c]} ELSE acked
    /\ Exit(c, "ok")
    /\ UNCHANGED <<proc, sig, said, op, seen, child>>

\* The write itself fails (disk full): the truncated file stays behind.
WriteRecordFails(c) ==
    /\ pc[c] = "write"
    /\ "io" \in Faults
    /\ fd' = [fd EXCEPT ![c] = "closed"]
    /\ Abandon(c)
    /\ UNCHANGED <<record, op, seen, child>>

-----------------------------------------------------------------------------
(* app stop: SIGTERM, poll for five seconds, SIGKILL, remove the record.   *)

Terminate(c) ==
    /\ pc[c] = "term"
    /\ ProcessRunning(seen[c])
    /\ Goto(c, "poll")
    /\ sig' = Signalled(seen[c], "term")
    /\ UNCHANGED <<fileVars, proc, parent, said, acked, op, seen, child>>

\* The process is gone since it was probed, or `kill` cannot be run: the record
\* stays.
TerminateFails(c) ==
    /\ pc[c] = "term"
    /\ SeemsGone(seen[c])
    /\ Goto(c, "failed")
    /\ UNCHANGED <<fileVars, procVars, op, seen, child>>

PollGone(c) ==
    /\ pc[c] = "poll"
    /\ SeemsGone(seen[c])
    /\ Goto(c, "clear")
    /\ UNCHANGED <<fileVars, procVars, op, seen, child>>

\* Mutant: give up after five seconds without SIGKILL.
PollDeadlineNoKill(c) ==
    /\ pc[c] = "poll"
    /\ Goto(c, "clear")
    /\ UNCHANGED <<fileVars, procVars, op, seen, child>>

PollDeadline(c) ==
    /\ pc[c] = "poll"
    /\ sig' = Signalled(seen[c], "kill")
    /\ Goto(c, "clear")
    /\ UNCHANGED <<fileVars, proc, parent, said, acked, op, seen, child>>

\* `kill -9` cannot be run: stop fails and the record stays.
PollDeadlineFails(c) ==
    /\ pc[c] = "poll"
    /\ "fork" \in Faults
    /\ Goto(c, "failed")
    /\ UNCHANGED <<fileVars, procVars, op, seen, child>>

ClearRecord(c) ==
    /\ pc[c] = "clear"
    /\ \/ Unlink /\ Goto(c, "ok")
       \/ "io" \in Faults /\ Goto(c, "failed") /\ UNCHANGED fileVars
    /\ UNCHANGED <<procVars, op, seen, child>>

\* The CLI process is killed between two of its steps; its descriptors close
\* and its children are adopted.
CrashCmd(c) ==
    /\ "crash" \in Faults
    /\ pc[c] \notin Ended
    /\ Exit(c, "idle")
    /\ fd'    = [fd EXCEPT ![c] = "closed"]
    /\ seen'  = [seen EXCEPT ![c] = NoPid]
    /\ child' = [child EXCEPT ![c] = NoPid]
    /\ UNCHANGED <<record, proc, sig, said, acked, op>>

CliStep(c) ==
    \/ Load(c) \/ RecordExists(c) \/ RecordOpen(c) \/ ProbeRecorded(c) \/ RemoveStale(c)
    \/ Spawn(c) \/ SpawnFails(c) \/ WaitListening(c) \/ WaitEof(c) \/ WaitTimeout(c)
    \/ OpenRecord(c) \/ OpenRecordFails(c) \/ WriteRecord(c) \/ WriteRecordFails(c)
    \/ Terminate(c) \/ TerminateFails(c) \/ PollGone(c) \/ PollDeadline(c)
    \/ PollDeadlineFails(c) \/ ClearRecord(c)

-----------------------------------------------------------------------------
(* The server processes, and the unrelated ones that may inherit a pid.    *)

\* `app run` by hand: the same server, no record and no check for one.
RunServer(p) ==
    /\ Fork(p, "booting", Shell)
    /\ UNCHANGED <<fileVars, cmdVars>>

\* Mutant: the listener shares its port (SO_REUSEPORT).
BindShared(p) ==
    /\ proc[p] = "booting" /\ sig[p] = "none"
    /\ proc' = [proc EXCEPT ![p] = "bound"]
    /\ UNCHANGED <<fileVars, cmdVars, sig, parent, said, acked>>

Bind(p) ==
    /\ proc[p] = "booting" /\ sig[p] = "none"
    /\ PortFree
    /\ proc' = [proc EXCEPT ![p] = "bound"]
    /\ UNCHANGED <<fileVars, cmdVars, sig, parent, said, acked>>

\* println! of the listening line.  With the reading start gone the pipe is
\* broken and println! panics, which ends the server.
Announce(p) ==
    /\ proc[p] = "bound" /\ sig[p] = "none"
    /\ IF parent[p] = NoCmd
         THEN Dies(p) /\ UNCHANGED said
         ELSE /\ proc' = [proc EXCEPT ![p] = "serving"]
              /\ said' = [said EXCEPT ![p] = TRUE]
              /\ UNCHANGED <<sig, acked>>
    /\ UNCHANGED <<fileVars, cmdVars, parent>>

\* An error return: loading, bind (the port is taken), log_line, or any `?` of
\* the accept loop.
ServerExits(p) ==
    /\ proc[p] \in {"booting", "bound", "serving"} /\ sig[p] = "none"
    /\ Dies(p)
    /\ UNCHANGED <<fileVars, cmdVars, parent, said>>

\* Neither a server nor an unrelated process handles SIGTERM.
SignalDelivered(p) ==
    /\ Live(p) /\ sig[p] # "none"
    /\ Dies(p)
    /\ UNCHANGED <<fileVars, cmdVars, parent, said>>

OtherProcess(p) ==
    /\ proc[p] = "gone"
    /\ Fork(p, "other", Shell)
    /\ UNCHANGED <<fileVars, cmdVars>>

OtherExits(p) ==
    /\ proc[p] = "other" /\ sig[p] = "none"
    /\ Dies(p)
    /\ UNCHANGED <<fileVars, cmdVars, parent, said>>

HostStep(p) ==
    \/ RunServer(p) \/ Bind(p) \/ Announce(p) \/ ServerExits(p)
    \/ SignalDelivered(p) \/ OtherProcess(p) \/ OtherExits(p)

Next ==
    \/ \E c \in Cmds : CliStep(c) \/ CrashCmd(c) \/ \E o \in Ops : Begin(c, o)
    \/ \E p \in Pids : HostStep(p)

Spec == Init /\ [][Next]_vars

\* The operating system schedules a command that can take a step (a pending
\* read or poll always can: its timer is running), and SIGKILL cannot be
\* ignored.  Nothing is assumed of the servers, which may hang.
FairSpec ==
    /\ Spec
    /\ \A c \in Cmds : WF_vars(CliStep(c))
    /\ \A p \in Pids : WF_vars(SignalDelivered(p) /\ sig[p] = "kill")

-----------------------------------------------------------------------------
(* What every interleaving of commands, failures and crashes preserves.    *)

Dead(p) == ~Live(p) \/ sig[p] = "kill"

\* runtime.json only ever names a process that reached its accept loop:
\* record_started runs after the listening line and never before, whatever
\* timed out, crashed or raced with it.
RecordNamesAListener == record \in Pids => said[record]

\* A start that reported failure leaves no server behind: whichever step
\* failed after the spawn, the child is dead or has SIGKILL on its way.
FailedStartLeavesNoServer ==
    \A c \in Cmds :
        pc[c] = "failed" /\ op[c] = "start" /\ child[c] # NoPid => Dead(child[c])

\* A stop that reported "stopped" did end the process its record named.  The
\* process may still hold the port for a moment when the record is gone.
StoppedIsDoomed ==
    \A c \in Cmds : pc[c] = "ok" /\ op[c] = "stop" => Dead(seen[c])

\* Two starts that raced past reject_if_running never both end up with a live
\* server they announced: the losing child cannot bind and is not waited out.
OneStartedServer == \A p, q \in acked : p = q

\* While commands run one at a time, a server whose start reported success is
\* the one in the record until it is told to stop, so status sees it and stop
\* reaches it.  Overlapping commands break this (see lifecycle_overlap), and so
\* does a `kill` that cannot be run: the server is judged stale.
StartedServerIsRecorded ==
    \A p \in acked : Live(p) /\ sig[p] = "none" => record = p

\* The same when no command is in flight: a status or stop that begins now
\* finds the server.  This is what overlapping commands really lose.
StartedServerIsFound ==
    (\A c \in Cmds : pc[c] \in Ended) => StartedServerIsRecorded

\* start refuses with "already running" only on account of a server that is
\* in fact serving this application.  A recycled pid breaks this.
RefusalMeansServing ==
    [][\A c \in Cmds :
          op[c] = "start" /\ pc[c] = "probe" /\ pc'[c] = "failed"
            => proc[seen[c]] = "serving"]_vars

\* Every command comes to an end, whatever its child or its target does.
CommandsEnd == \A c \in Cmds : (pc[c] \notin Ended) ~> (pc[c] \in Ended)

\* After a successful stop the stopped process does go away.
StoppedProcessDies ==
    \A c \in Cmds : \A p \in Pids :
        (pc[c] = "ok" /\ op[c] = "stop" /\ seen[c] = p) ~> ~Live(p)
=============================================================================
