----------------------------- MODULE Deployment -----------------------------
(***************************************************************************)
(* The application that target/ holds, and the servers that were started   *)
(* from it: Artifacts composed with start, stop and status.                *)
(*                                                                         *)
(* A start loads the artifact twice.  The command loads it to learn the    *)
(* Application ID and the endpoint (prepare_start), and the server that it *)
(* spawns loads it again to learn what to serve.  The record is named by   *)
(* the first load; what stop and status look for is named by a third.      *)
(* `app build` takes no notice of any of them, and no command of another.  *)
(*                                                                         *)
(* Abstractions: an Application ID is the pair it is computed from;        *)
(* reading runtime.json, probing the process it names, signalling it,      *)
(* removing the file and writing it are one step each (Lifecycle has the   *)
(* system calls inside these, torn records, the crashes of a start that    *)
(* has a child, and the recycling of pids); the pid of a server is the     *)
(* start that spawned it; an endpoint is the digits of its port, and the   *)
(* name of an application does not look like one.                          *)
(***************************************************************************)
EXTENDS Artifacts, FiniteSets, SequencesExt

CONSTANTS
    Starts,         \* start commands
    Stops,          \* stop and status commands
    MaxStarting,    \* bound: starts under way at once
    Port            \* http.listen in each version of app.toml, as its digits

ASSUME DeploymentOK ==
    /\ Loaders = Starts \cup Stops /\ Starts \cap Stops = {}
    /\ MaxStarting \in Nat \ {0}
    /\ Port \in [Specs -> Seq(0..9)]
    /\ IsFiniteSet(Starts) /\ None \notin Loaders

VARIABLES
    phase,      \* what each command does next
    found,      \* the record that a command has read and is about to act on
    prepared,   \* the Application ID under which it has read it
    serving,    \* what the server of a start has loaded and serves
    records,    \* runtime.json of each Application ID: the server it names
    rebuilt,    \* history: starts between whose loads a build wrote to target/
    crossed     \* history: starts recorded when another command had already read the record

deployment == <<phase, found, prepared, serving, records, rebuilt, crossed>>
allVars    == <<vars, deployment>>

Preparing == {"preparing", "probing", "removing", "spawning", "spawned"}
Acting    == {"probing", "terminating", "removing", "spawning", "spawned", "listening"}

Starting(s) == phase[s] \in Preparing

DeploymentTypeOK ==
    /\ phase    \in [Loaders -> Acting \cup {"idle", "preparing", "finding"}]
    /\ found    \in [Loaders -> Starts \cup {None}]
    /\ prepared \in [Loaders -> Pairs \cup {None}]
    /\ serving  \in [Starts -> Pairs \cup {None}]
    /\ records  \in [Pairs -> Starts \cup {None}]
    /\ rebuilt  \subseteq Starts
    /\ crossed  \subseteq Starts
    /\ \A p, q \in Pairs : records[p] = records[q] /\ records[p] # None => p = q

DeploymentInit ==
    /\ Init
    /\ phase    = [l \in Loaders |-> "idle"]
    /\ found    = [l \in Loaders |-> None]
    /\ prepared = [l \in Loaders |-> None]
    /\ serving  = [s \in Starts |-> None]
    /\ records  = [p \in Pairs |-> None]
    /\ rebuilt  = {}
    /\ crossed  = {}

Phase(l, x) == phase' = [phase EXCEPT ![l] = x]
Forget(l)   == found' = [found EXCEPT ![l] = None]

\* The command exits.
Ends(l) == Phase(l, "idle") /\ Forget(l) /\ prepared' = [prepared EXCEPT ![l] = None]

-----------------------------------------------------------------------------
(* Builds and loads go on as they do in Artifacts.                         *)

BuildGoesOn(b) ==
    /\ BuildStep(b)
    /\ rebuilt' = IF <<wasm, manifest>>' = <<wasm, manifest>> THEN rebuilt
                  ELSE rebuilt \cup {s \in Starts : Starting(s)}
    /\ UNCHANGED <<phase, found, prepared, serving, records, crossed>>

EditGoesOn == Edit /\ UNCHANGED deployment

LoadGoesOn(l) == (ReadManifest(l) \/ ReadModule(l)) /\ UNCHANGED deployment

\* The command, or the server it spawned, could not load the artifact, or could not
\* when start and status read the manifest once more for the path to print; a server
\* that is gone ends wait_for_started at once.
LoadFails(l) ==
    /\ phase[l] \in {"preparing", "spawned", "finding"}
    /\ pc[l] = "idle" \/ (pc[l] = "ok" /\ manifest \notin Pairs)
    /\ Ends(l)
    /\ UNCHANGED <<vars, serving, records, rebuilt, crossed>>

-----------------------------------------------------------------------------
(* The record, as reject_if_running, status and stop use it: read, probe,  *)
(* remove.  Between any two of these another command may do anything.      *)

Alive(s) == s # None /\ serving[s] # None

\* read_record for the Application ID of what the command has loaded; stop and status
\* are done when there is none.
Look(l) ==
    /\ phase[l] \in {"preparing", "finding"} /\ pc[l] = "ok"
    /\ IF records[loaded[l]] = None /\ l \in Stops
         THEN Ends(l)
         ELSE /\ found'    = [found EXCEPT ![l] = records[loaded[l]]]
              /\ prepared' = [prepared EXCEPT ![l] = loaded[l]]
              /\ Phase(l, IF records[loaded[l]] = None THEN "spawning" ELSE "probing")
    /\ UNCHANGED <<vars, serving, records, rebuilt, crossed>>

\* process_running.  Of a live server start says "already running", status "running".
FindAlive(l) ==
    /\ phase[l] = "probing" /\ Alive(found[l])
    /\ Ends(l)
    /\ UNCHANGED <<vars, serving, records, rebuilt, crossed>>

FindDead(l) ==
    /\ phase[l] = "probing" /\ ~Alive(found[l])
    /\ Forget(l) /\ Phase(l, "removing")
    /\ UNCHANGED <<vars, prepared, serving, records, rebuilt, crossed>>

\* remove_record, whatever the file holds by now.
RemoveRecord(l) ==
    /\ phase[l] = "removing"
    /\ records' = [records EXCEPT ![prepared[l]] = None]
    /\ IF l \in Stops THEN Ends(l) ELSE Phase(l, "spawning") /\ UNCHANGED <<found, prepared>>
    /\ UNCHANGED <<vars, serving, rebuilt, crossed>>

\* An error between these steps, or a signal, ends the command.
GivesUp(l) ==
    /\ phase[l] \in {"probing", "terminating", "removing", "spawning"}
    /\ Ends(l)
    /\ UNCHANGED <<vars, serving, records, rebuilt, crossed>>

-----------------------------------------------------------------------------
(* app start.                                                              *)

\* A pid is not used again while a process has it, a record names it or a command has
\* read it.
PrepareStart(s) ==
    /\ phase[s] = "idle" /\ serving[s] = None /\ \A p \in Pairs : records[p] # s
    /\ \A l \in Loaders : found[l] # s
    /\ Cardinality({r \in Starts : phase[r] # "idle"}) < MaxStarting
    /\ BeginLoad(s)
    /\ Phase(s, "preparing")
    /\ rebuilt' = rebuilt \ {s}
    /\ crossed' = crossed \ {s}
    /\ UNCHANGED <<found, prepared, serving, records>>

\* The spawn of `app run`, which begins to load in its turn.
Spawn(s) ==
    /\ phase[s] = "spawning"
    /\ BeginLoad(s)
    /\ Phase(s, "spawned")
    /\ UNCHANGED <<found, prepared, serving, records, rebuilt, crossed>>

\* The server binds its port and announces where it listens, or it exits.
Listen(s) ==
    /\ phase[s] = "spawned" /\ pc[s] = "ok"
    /\ IF \E r \in Starts : Alive(r) /\ Port[serving[r].spec] = Port[loaded[s].spec]
         THEN Ends(s) /\ UNCHANGED serving
         ELSE /\ serving' = [serving EXCEPT ![s] = loaded[s]]
              /\ Phase(s, "listening") /\ UNCHANGED <<found, prepared>>
    /\ UNCHANGED <<vars, records, rebuilt, crossed>>

\* wait_for_started looks for the endpoint of its own load in the server's line: a port
\* whose digits go on after those of the expected one will do as well.
Expected(s) == IsPrefix(Port[prepared[s].spec], Port[loaded[s].spec])

\* Another command has read the record that s is about to write, and will act on it.
Recorded(s) ==
    crossed' = IF \E l \in Loaders \ {s} : phase[l] \in Acting /\ prepared[l] = prepared[s]
                 THEN crossed \cup {s} ELSE crossed

\* Mutant: any line will do.
RecordAnyServer(s) ==
    /\ phase[s] = "listening"
    /\ records' = [records EXCEPT ![prepared[s]] = s]
    /\ Recorded(s)
    /\ Ends(s)
    /\ UNCHANGED <<vars, serving, rebuilt>>

\* Mutant: the server that is not wanted is left alone.
RecordOrLeave(s) ==
    /\ phase[s] = "listening"
    /\ records' = IF Expected(s) THEN [records EXCEPT ![prepared[s]] = s] ELSE records
    /\ Recorded(s)
    /\ Ends(s)
    /\ UNCHANGED <<vars, serving, rebuilt>>

\* Mutant: the ID is computed from what target/ holds by now.
RecordWhatIsThere(s) ==
    /\ phase[s] = "listening" /\ manifest \in Pairs
    /\ records' = [records EXCEPT ![manifest] = s]
    /\ Recorded(s)
    /\ Ends(s)
    /\ UNCHANGED <<vars, serving, rebuilt>>

\* Mutant: the server files a record of its own as well.
RecordTwice(s) ==
    /\ phase[s] = "listening"
    /\ records' = [records EXCEPT ![prepared[s]] = s, ![loaded[s]] = s]
    /\ Recorded(s)
    /\ Ends(s)
    /\ UNCHANGED <<vars, serving, rebuilt>>

\* record_started, once wait_for_started is content with the line.
RecordStarted(s) ==
    /\ phase[s] = "listening" /\ Expected(s)
    /\ records' = [records EXCEPT ![prepared[s]] = s]
    /\ Recorded(s)
    /\ Ends(s)
    /\ UNCHANGED <<vars, serving, rebuilt>>

\* The line is another one, or does not come in time, or the record cannot be written:
\* the child is killed.
AbandonServer(s) ==
    /\ phase[s] \in {"spawned", "listening"}
    /\ serving' = [serving EXCEPT ![s] = None]
    /\ Ends(s)
    /\ UNCHANGED <<vars, records, rebuilt, crossed>>

ServerDies(s) ==
    /\ Alive(s)
    /\ serving' = [serving EXCEPT ![s] = None]
    /\ UNCHANGED <<vars, phase, found, prepared, records, rebuilt, crossed>>

-----------------------------------------------------------------------------
(* app stop and app status.                                                *)

PrepareStop(t) ==
    /\ phase[t] = "idle"
    /\ BeginLoad(t)
    /\ Phase(t, "finding")
    /\ UNCHANGED <<found, prepared, serving, records, rebuilt, crossed>>

\* Where status ends, stop goes on.
FindToStop(t) ==
    /\ phase[t] = "probing" /\ Alive(found[t])
    /\ Phase(t, "terminating")
    /\ UNCHANGED <<vars, found, prepared, serving, records, rebuilt, crossed>>

\* terminate: when it returns, the process is gone.
Terminate(t) ==
    /\ phase[t] = "terminating"
    /\ serving' = [serving EXCEPT ![found[t]] = None]
    /\ Forget(t) /\ Phase(t, "removing")
    /\ UNCHANGED <<vars, prepared, records, rebuilt, crossed>>

RecordStep(l) ==
    Look(l) \/ FindAlive(l) \/ FindDead(l) \/ RemoveRecord(l) \/ GivesUp(l)

StartStep(s) ==
    \/ PrepareStart(s) \/ Spawn(s) \/ Listen(s) \/ RecordStarted(s) \/ AbandonServer(s)
    \/ ServerDies(s)

StopStep(t) == PrepareStop(t) \/ FindToStop(t) \/ Terminate(t)

DeploymentNext ==
    \/ EditGoesOn
    \/ \E b \in Builders : BuildGoesOn(b)
    \/ \E l \in Loaders  : LoadGoesOn(l) \/ LoadFails(l) \/ RecordStep(l)
    \/ \E s \in Starts   : StartStep(s)
    \/ \E t \in Stops    : StopStep(t)

DeploymentSpec == DeploymentInit /\ [][DeploymentNext]_allVars

-----------------------------------------------------------------------------
(* Properties.                                                             *)

\* A record names a server of just the Application ID it is filed under, unless a
\* build wrote to target/ between the two loads of that start.
RecordedIsServed ==
    \A p \in Pairs : Alive(records[p]) /\ records[p] \notin rebuilt => serving[records[p]] = p

\* Even then it listens on a port whose digits begin with those of the recorded one: on
\* the recorded endpoint, or on one that contains it as a text.
EndpointIsServed ==
    \A p \in Pairs :
        Alive(records[p]) => IsPrefix(Port[p.spec], Port[serving[records[p]].spec])

\* Whatever is built and however many commands run, a server is not left behind without
\* a record: it is in the hands of the start that spawned it, or there is an Application
\* ID under which stop and status find it.  The exception is a server whose start wrote
\* its record when another command had already read what was there before.
ServersAreFindable ==
    \A s \in Starts : Alive(s) /\ s \notin crossed =>
        phase[s] = "listening" \/ \E p \in Pairs : records[p] = s
=============================================================================
