-------------------------- MODULE ExecutionUnits --------------------------
(***************************************************************************)
(* The processes that execute one application's guest, and the runtime.log *)
(* they share.  A server (`app run`) accepts one request after another and *)
(* runs each in an execution unit of its own; `appport-invoke` runs a      *)
(* single unit and exits.  Every unit reports its stages to the log, and   *)
(* the log is also where a new process learns the number of the last unit  *)
(* (highest_logged_execution_unit).                                        *)
(*                                                                         *)
(* log_line is `writeln!` on an unbuffered file opened for appending: the  *)
(* text and the newline are two writes.  A process that dies in between    *)
(* leaves a torn line, and whatever is appended next is glued to it.  A    *)
(* process that finds neither HOME nor APP_RUNTIME_LOG in its environment  *)
(* has no log (log_path is None): its log_line succeeds and writes nothing. *)
(*                                                                         *)
(* Abstractions: the log is what the numbering reads of it, the highest    *)
(* number at the start of a line and whether the last line is unfinished;  *)
(* a guest writes lines of output (fd_write), none of which looks like the *)
(* line of a unit, and completes or fails; a fuel that cannot be set       *)
(* (set_fuel) does not occur, because invoke uses the engine for it.       *)
(***************************************************************************)
EXTENDS Naturals, Sequences

CONSTANTS
    Procs,      \* process slots: a slot is reused when its process has ended
    Kinds,      \* which programs are run: "server", "invoke"
    Faults,     \* what may go wrong: "kill", "io" (log), "client" (connection), "home" (not set)
    MaxRequests,\* resources.max_concurrent_requests, 1 when not declared
    MaxUnits    \* bound on unit numbers: no unit is created beyond it

ASSUME ParametersOK ==
    /\ Kinds \subseteq {"server", "invoke"}
    /\ Faults \subseteq {"kill", "io", "client", "home"}
    /\ MaxRequests \in Nat \ {0}
    /\ MaxUnits \in Nat

VARIABLES
    highest,   \* runtime.log: highest number that starts a line
    tail,      \* runtime.log: is its last line "ended" or "torn", without a newline yet?
    issued,    \* history: numbers of the create lines, in the order they were written
    pc,        \* what each process does next; in LogEvents, the line it is writing
    half,      \* processes that have written the text of their line, not its newline
    kind,      \* program of each process
    logless,   \* processes whose HostState.log_path is None
    counter,   \* HostState.execution_units
    unit,      \* number of the current (or last) unit
    active,    \* RequestLimiter.active
    result,    \* what invoke returned, or is about to return
    logged,    \* history: lines of the current unit that reached the log
    lost,      \* history: lines of the current request for which log_line returned Err
    numbering  \* history: "spoilt" once something has happened that numbering does not survive

logVars  == <<highest, tail, issued, half, numbering>>
unitVars == <<counter, unit, active, result, logged, logless>>
vars     == <<logVars, pc, kind, unitVars, lost>>

UnitEvents == {"create", "execute", "complete", "fail", "dispose"}
LogEvents  == UnitEvents \cup {"listening", "error", "output"}
Ended      == {"off", "killed"}

TypeOK ==
    /\ highest \in 0..MaxUnits
    /\ tail    \in {"ended", "torn"}
    /\ issued  \in Seq(1..MaxUnits)
    /\ pc      \in [Procs -> LogEvents \cup Ended
                          \cup {"boot", "bind", "accept", "read", "enter", "guest", "reply"}]
    /\ half    \subseteq Procs
    /\ kind    \in [Procs -> {"server", "invoke"}]
    /\ counter \in [Procs -> 0..MaxUnits]
    /\ unit    \in [Procs -> 0..MaxUnits]
    /\ active  \in [Procs -> 0..MaxRequests]
    /\ result  \in [Procs -> {"ok", "err"}]
    /\ logged  \in [Procs -> SUBSET UnitEvents]
    /\ lost    \in [Procs -> SUBSET LogEvents]
    /\ logless \subseteq Procs
    /\ numbering \in {"sound", "spoilt"}

Init ==
    /\ highest = 0
    /\ tail    = "ended"
    /\ issued  = <<>>
    /\ pc      = [p \in Procs |-> "off"]
    /\ half    = {}
    /\ kind    \in [Procs -> Kinds]
    /\ counter = [p \in Procs |-> 0]
    /\ unit    = [p \in Procs |-> 0]
    /\ active  = [p \in Procs |-> 0]
    /\ result  = [p \in Procs |-> "ok"]
    /\ logged  = [p \in Procs |-> {}]
    /\ lost    = [p \in Procs |-> {}]
    /\ logless = {}
    /\ numbering = "sound"

Goto(p, label) == pc' = [pc EXCEPT ![p] = label]

\* The bound of the model: numbers, and the length of the history.
BelowBound(p) == counter[p] < MaxUnits /\ Len(issued) < MaxUnits

\* A process that may write to the log.
Logging(p) == p \notin logless /\ pc[p] \notin Ended \cup {"boot"}

-----------------------------------------------------------------------------
(* log_line                                                                *)

\* A number counts only at the start of a line.
AppendText(n) ==
    /\ highest' = IF tail = "torn" \/ n <= highest THEN highest ELSE n
    /\ tail' = "torn"

\* First write.  The line of a unit starts with its number.  The create line of a
\* one-shot unit may be glued to a torn line, and is then not found again.
WriteText(p) ==
    /\ pc[p] \in LogEvents /\ p \notin half /\ p \notin logless
    /\ AppendText(IF pc[p] \in UnitEvents THEN unit[p] ELSE 0)
    /\ half'   = half \cup {p}
    /\ issued' = IF pc[p] = "create" THEN Append(issued, unit[p]) ELSE issued
    /\ logged' = IF pc[p] \in UnitEvents
                   THEN [logged EXCEPT ![p] = @ \cup {pc[p]}] ELSE logged
    /\ numbering' = IF kind[p] = "invoke" /\ pc[p] = "create" /\ tail = "torn"
                      THEN "spoilt" ELSE numbering
    /\ UNCHANGED <<pc, kind, counter, unit, active, result, logless, lost>>

\* log_line returns Ok: after the second write, or at once without a log.
LineDone(p, event) ==
    /\ pc[p] = event
    /\ \/ p \in half /\ tail' = "ended" /\ half' = half \ {p}
       \/ p \in logless /\ UNCHANGED <<tail, half>>
    /\ UNCHANGED <<highest, issued, lost, numbering>>

\* The file cannot be opened, or either write fails: log_line returns Err.
LineFails(p, event) ==
    /\ "io" \in Faults
    /\ pc[p] = event /\ p \notin logless
    /\ half' = half \ {p}
    /\ lost' = [lost EXCEPT ![p] = @ \cup {event}]
    /\ numbering' = "spoilt"
    /\ UNCHANGED <<highest, tail, issued>>

-----------------------------------------------------------------------------
(* From the start of a process to its first request.                       *)

\* A one-shot process is run only below the bound.
Start(p) ==
    /\ pc[p] \in Ended
    /\ \E k \in Kinds :
          /\ k = "invoke" => highest < MaxUnits /\ Len(issued) < MaxUnits
          /\ kind' = [kind EXCEPT ![p] = k]
    /\ Goto(p, "boot")
    /\ UNCHANGED <<logVars, unitVars, lost>>

\* The counter of a process that has a log is seeded from it; a log that cannot be
\* read counts as empty.  The seed is soon stale if another process is at work.
SeedFromLog(p) ==
    /\ logless' = logless \ {p}
    /\ \E n \in {highest} \cup (IF "io" \in Faults THEN {0} ELSE {}) :
          /\ counter'   = [counter EXCEPT ![p] = n]
          /\ numbering' = IF n # highest \/ \E q \in Procs \ {p} : Logging(q)
                            THEN "spoilt" ELSE numbering

WithoutLog(p) ==
    /\ "home" \in Faults
    /\ logless' = logless \cup {p}
    /\ counter' = [counter EXCEPT ![p] = 0]
    /\ UNCHANGED numbering

\* Mutant: every process numbers its units from 1.
HostStateUnseeded(p) ==
    /\ pc[p] = "boot"
    /\ logless' = logless \ {p}
    /\ counter' = [counter EXCEPT ![p] = 0]
    /\ active'  = [active EXCEPT ![p] = 0]
    /\ logged'  = [logged EXCEPT ![p] = {}]
    /\ lost'    = [lost EXCEPT ![p] = {}]
    /\ Goto(p, IF kind[p] = "server" THEN "bind" ELSE "enter")
    /\ UNCHANGED <<logVars, kind, unit, result>>

BuildHostState(p) ==
    /\ pc[p] = "boot"
    /\ SeedFromLog(p) \/ WithoutLog(p)
    /\ active' = [active EXCEPT ![p] = 0]
    /\ logged' = [logged EXCEPT ![p] = {}]
    /\ lost'   = [lost EXCEPT ![p] = {}]
    /\ Goto(p, IF kind[p] = "server" THEN "bind" ELSE "enter")
    /\ UNCHANGED <<highest, tail, issued, half, kind, unit, result>>

Listening(p) == kind[p] = "server" /\ pc[p] \notin Ended \cup {"boot", "bind"}

\* The wasm module is compiled between host_state and bind.
Bind(p) ==
    /\ pc[p] = "bind"
    /\ Goto(p, IF \E q \in Procs : Listening(q) THEN "off" ELSE "listening")
    /\ UNCHANGED <<logVars, kind, unitVars, lost>>

ListeningLine(p) ==
    /\ \/ LineDone(p, "listening") /\ Goto(p, "accept")
       \/ LineFails(p, "listening") /\ Goto(p, "off")
    /\ UNCHANGED <<kind, unitVars>>

\* A client connects.
Accept(p) ==
    /\ pc[p] = "accept" /\ BelowBound(p)
    /\ Goto(p, "read")
    /\ UNCHANGED <<logVars, kind, unitVars, lost>>

\* Whatever the client sends, or its end of stream, is a request.  Until then the
\* server, which has one thread and no timeout, waits.
ReadRequest(p) ==
    /\ pc[p] = "read"
    /\ Goto(p, "enter")
    /\ UNCHANGED <<logVars, kind, unitVars, lost>>

-----------------------------------------------------------------------------
(* invoke: one execution unit.                                             *)

\* Where invoke's caller goes on: the server logs an error before it answers.
Returned(p, outcome) ==
    CASE kind[p] = "invoke"                   -> "off"
      [] kind[p] = "server" /\ outcome = "ok"  -> "reply"
      [] kind[p] = "server" /\ outcome = "err" -> "error"

\* ExecutionUnit::create up to its log line: RequestLimiter.enter, then the
\* next number.
Enter(p) ==
    /\ pc[p] = "enter"
    /\ IF active[p] >= MaxRequests
         THEN /\ result' = [result EXCEPT ![p] = "err"]
              /\ Goto(p, Returned(p, "err"))
              /\ UNCHANGED <<counter, unit, active, logged, lost>>
         ELSE /\ BelowBound(p)
              /\ active'  = [active EXCEPT ![p] = @ + 1]
              /\ counter' = [counter EXCEPT ![p] = @ + 1]
              /\ unit'    = [unit EXCEPT ![p] = counter[p] + 1]
              /\ logged'  = [logged EXCEPT ![p] = {}]
              /\ lost'    = [lost EXCEPT ![p] = {}]
              /\ Goto(p, "create")
              /\ UNCHANGED result
    /\ UNCHANGED <<logVars, kind, logless>>

\* Mutants: the permit of a unit that was never built is not returned; it is
\* returned, and then again by the unit's dispose.
CreateLineLeaks(p) ==
    /\ \/ LineDone(p, "create") /\ Goto(p, "execute") /\ UNCHANGED <<active, result>>
       \/ /\ LineFails(p, "create")
          /\ result' = [result EXCEPT ![p] = "err"]
          /\ Goto(p, Returned(p, "err"))
          /\ UNCHANGED active
    /\ UNCHANGED <<kind, counter, unit, logged, logless>>

CreateLineDisposes(p) ==
    /\ \/ LineDone(p, "create") /\ Goto(p, "execute") /\ UNCHANGED <<active, result>>
       \/ /\ LineFails(p, "create")
          /\ active' = [active EXCEPT ![p] = @ - 1]
          /\ result' = [result EXCEPT ![p] = "err"]
          /\ Goto(p, "dispose")
    /\ UNCHANGED <<kind, counter, unit, logged, logless>>

\* Without its create line the unit is not built: no dispose, only the permit
\* is dropped.
CreateLine(p) ==
    /\ \/ LineDone(p, "create") /\ Goto(p, "execute") /\ UNCHANGED <<active, result>>
       \/ /\ LineFails(p, "create")
          /\ active' = [active EXCEPT ![p] = @ - 1]
          /\ result' = [result EXCEPT ![p] = "err"]
          /\ Goto(p, Returned(p, "err"))
    /\ UNCHANGED <<kind, counter, unit, logged, logless>>

ExecuteLine(p) ==
    /\ \/ LineDone(p, "execute") /\ Goto(p, "guest") /\ UNCHANGED result
       \/ /\ LineFails(p, "execute")
          /\ result' = [result EXCEPT ![p] = "err"]
          /\ Goto(p, "dispose")
    /\ UNCHANGED <<kind, counter, unit, active, logged, logless>>

\* instantiate, _initialize, handle_request: any trap, denied capability,
\* exhausted fuel or memory limit is an error.
GuestEnds(p) ==
    /\ pc[p] = "guest"
    /\ \E event \in {"complete", "fail"} : Goto(p, event)
    /\ UNCHANGED <<logVars, kind, unitVars, lost>>

\* fd_write.
GuestWrites(p) ==
    /\ pc[p] = "guest"
    /\ Goto(p, "output")
    /\ UNCHANGED <<logVars, kind, unitVars, lost>>

\* Output that cannot be logged is a trap.
OutputLine(p) ==
    /\ \/ LineDone(p, "output") /\ Goto(p, "guest")
       \/ LineFails(p, "output") /\ Goto(p, "fail")
    /\ UNCHANGED <<kind, unitVars>>

\* Mutant: an unlogged completion is ignored like an unlogged failure.
CompleteLineIgnored(p) ==
    /\ LineDone(p, "complete") \/ LineFails(p, "complete")
    /\ result' = [result EXCEPT ![p] = "ok"]
    /\ Goto(p, "dispose")
    /\ UNCHANGED <<kind, counter, unit, active, logged, logless>>

\* `self.log("complete")?`: an unlogged completion is an error.
CompleteLine(p) ==
    /\ \/ LineDone(p, "complete") /\ result' = [result EXCEPT ![p] = "ok"]
       \/ LineFails(p, "complete") /\ result' = [result EXCEPT ![p] = "err"]
    /\ Goto(p, "dispose")
    /\ UNCHANGED <<kind, counter, unit, active, logged, logless>>

\* `self.fail(&error).ok()`
FailLine(p) ==
    /\ LineDone(p, "fail") \/ LineFails(p, "fail")
    /\ result' = [result EXCEPT ![p] = "err"]
    /\ Goto(p, "dispose")
    /\ UNCHANGED <<kind, counter, unit, active, logged, logless>>

\* Drop for ExecutionUnit, then for its permit.
DisposeLine(p) ==
    /\ LineDone(p, "dispose") \/ LineFails(p, "dispose")
    /\ active' = [active EXCEPT ![p] = @ - 1]
    /\ Goto(p, Returned(p, result[p]))
    /\ UNCHANGED <<kind, counter, unit, result, logged, logless>>

-----------------------------------------------------------------------------
(* The answer, and the ways a process ends.                                *)

\* Mutant: an error of the guest ends the accept loop.
ErrorLineFatal(p) ==
    /\ LineDone(p, "error") \/ LineFails(p, "error")
    /\ Goto(p, "off")
    /\ UNCHANGED <<kind, unitVars>>

ErrorLine(p) ==
    /\ \/ LineDone(p, "error") /\ Goto(p, "reply")
       \/ LineFails(p, "error") /\ Goto(p, "off")
    /\ UNCHANGED <<kind, unitVars>>

\* Mutant: the connection is kept for the client's next request.
ReplyKeepsOpen(p) ==
    /\ pc[p] = "reply"
    /\ Goto(p, "read")
    /\ UNCHANGED <<logVars, kind, unitVars, lost>>

\* 200 or 500, as result says.
Reply(p) ==
    /\ pc[p] = "reply"
    /\ Goto(p, "accept")
    /\ UNCHANGED <<logVars, kind, unitVars, lost>>

\* accept, read or write_all fails: the `?` ends the server.
ClientFails(p) ==
    /\ "client" \in Faults
    /\ pc[p] \in {"accept", "read", "reply"}
    /\ Goto(p, "off")
    /\ UNCHANGED <<logVars, kind, unitVars, lost>>

\* `app stop`, which is the normal end of a server, or any other kill.
Killed(p) ==
    /\ "kill" \in Faults
    /\ pc[p] \notin Ended
    /\ Goto(p, "killed")
    /\ half' = half \ {p}
    /\ UNCHANGED <<highest, tail, issued, numbering, kind, unitVars, lost>>

UnitStep(p) ==
    \/ Enter(p) \/ CreateLine(p) \/ ExecuteLine(p) \/ GuestEnds(p)
    \/ GuestWrites(p) \/ OutputLine(p)
    \/ CompleteLine(p) \/ FailLine(p) \/ DisposeLine(p)

\* What a process does by itself, once it has a request.
OwnStep(p) ==
    \/ BuildHostState(p) \/ Bind(p) \/ WriteText(p) \/ ListeningLine(p)
    \/ UnitStep(p) \/ ErrorLine(p) \/ Reply(p)

Next ==
    \E p \in Procs : Start(p) \/ Accept(p) \/ ReadRequest(p) \/ OwnStep(p) \/ ClientFails(p) \/ Killed(p)

Spec == Init /\ [][Next]_vars

\* A running process is scheduled, and guests end, however much they write: they
\* are metered by fuel when the application declares [resources].  Nothing is
\* assumed of the clients.
FairSpec == Spec /\ \A p \in Procs : WF_vars(OwnStep(p)) /\ SF_vars(GuestEnds(p))

-----------------------------------------------------------------------------
(* Properties.                                                             *)

\* The create lines of the log count the units: the n-th is number n.
LogCountsUnits == \A i \in 1..Len(issued) : issued[i] = i

\* Processes that follow one another, servers or one-shot units, number their units in
\* this way, wherever each is killed: the torn lines of a server never hide a number,
\* because the next server's listening line absorbs them.  What the numbering does not
\* survive is an overlap of two processes, an error of the log, and the line of a unit
\* that is torn by a kill and followed by a one-shot unit.
NthUnitIsNumberN == numbering = "sound" => LogCountsUnits

\* No error path of invoke keeps a permit: a process that is not inside a unit
\* has returned every permit, so that the next request is not refused.
InUnit(p) == pc[p] \in UnitEvents \cup {"guest", "output"}
PermitsReturned ==
    \A p \in Procs : pc[p] \notin Ended \cup {"boot"} /\ ~InUnit(p) => active[p] = 0

\* A client is answered 200 only when every line that its unit owed the log until its
\* completion was written, if there is a log; and 500 only when the log, if there is
\* one, shows the unit failed or one of these lines could not be written.  A unit whose
\* completion was logged is never answered 500.
AnswersAgreeWithLog ==
    \A p \in Procs : pc[p] = "reply" =>
        /\ result[p] = "ok" =>
              /\ "fail" \notin logged[p]
              /\ lost[p] \subseteq {"dispose"}
              /\ p \in logless \/ {"create", "execute", "complete"} \subseteq logged[p]
        /\ result[p] = "err" =>
              /\ \/ p \in logless
                 \/ "fail" \in logged[p]
                 \/ lost[p] \cap {"create", "execute", "complete", "fail"} # {}
              /\ "complete" \in logged[p] => "complete" \in lost[p]

\* A request is answered, whatever its guest does and writes, unless the server is
\* killed or cannot log the error: a failing guest does not take the server down.
RequestsAnswered ==
    \A p \in Procs : (pc[p] = "enter" /\ kind[p] = "server")
                       ~> (pc[p] \in {"reply", "killed"} \/ "error" \in lost[p])

\* A server that stays up always gets back to accepting connections, unless it
\* waits forever for a client that has connected and sends nothing.
OnlySilenceBlocks ==
    \A p \in Procs : []<>(pc[p] \in Ended \cup {"accept"}) \/ <>[](pc[p] = "read")
=============================================================================
