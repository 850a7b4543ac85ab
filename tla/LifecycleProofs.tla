-------------------------- MODULE LifecycleProofs --------------------------
(***************************************************************************)
(* Machine-checked invariance proofs about Lifecycle, for any number of    *)
(* commands and pids.  Five invariants build on one another:               *)
(*                                                                         *)
(*   Shaped     what a command's program counter says of its other         *)
(*              variables;                                                 *)
(*   Heard      who has printed the listening line, while pids are not     *)
(*              recycled: carries RecordNamesAListener, OneStartedServer;  *)
(*   Doomed     which processes cannot survive: carries                    *)
(*              FailedStartLeavesNoServer and StoppedIsDoomed;             *)
(*   Alone      what the record is at each step of the only command:       *)
(*              carries StartedServerIsRecorded;                           *)
(*   Kept       who may be a zombie; with Heard it carries                 *)
(*              RefusalMeansServing.                                       *)
(***************************************************************************)
EXTENDS Lifecycle, TLAPS

\* No pid is ever handed to an unrelated process.
FreshPids == "pid_reuse" \notin Faults

\* `kill` can always be run.
KillRuns == "fork" \notin Faults

\* The application's commands are run one at a time.
OneAtATime == \A c, d \in Cmds : c = d

-----------------------------------------------------------------------------
(* The shape of a command.                                                 *)

Shape(c) ==
    /\ pc[c] \in {"load", "exists", "open", "probe", "stale", "spawn"} => child[c] = NoPid
    /\ pc[c] \in {"spawn", "wait", "truncate", "write"} => op[c] = "start"
    /\ pc[c] \in {"wait", "truncate", "write"} => child[c] \in Pids
    /\ pc[c] \in {"probe", "stale", "term", "poll", "clear"} => seen[c] \in Pids
    /\ pc[c] \in {"term", "poll", "clear"} => op[c] = "stop"
    /\ pc[c] = "ok" /\ op[c] = "stop" => seen[c] \in Pids

Shaped == TypeOK /\ \A c \in Cmds : Shape(c)

\* Nothing runs initially.
LEMMA ShapedInit == Init => Shaped
BY SentinelsDistinct DEF Init, Shaped, Shape, TypeOK, Ended, Ops, Stages

\* WriteRecord acknowledges its child: the shape says that it has one.
LEMMA ShapedStep ==
  Shaped /\ [Next]_vars => Shaped'
<1>. SUFFICES ASSUME Shaped, [Next]_vars
              PROVE  Shaped'
  OBVIOUS
<1>. USE SentinelsDistinct DEF Shaped, Shape, TypeOK, Ended, Ops, Stages
<1>1. ASSUME NEW c \in Cmds, NEW o \in Ops, Begin(c, o)
      PROVE  Shaped'
  BY <1>1 DEF Begin, Goto, fileVars, procVars, Ops
<1>2. ASSUME NEW c \in Cmds, Load(c)  PROVE  Shaped'
  BY <1>2 DEF Load, Goto, fileVars, procVars
<1>3. ASSUME NEW c \in Cmds, RecordExists(c)  PROVE  Shaped'
  BY <1>3 DEF RecordExists, Goto, fileVars, procVars
<1>4. ASSUME NEW c \in Cmds, RecordOpen(c)  PROVE  Shaped'
  BY <1>4 DEF RecordOpen, Goto, fileVars, procVars
<1>5. ASSUME NEW c \in Cmds, ProbeRecorded(c)  PROVE  Shaped'
  BY <1>5 DEF ProbeRecorded, Goto, fileVars, procVars
<1>6. ASSUME NEW c \in Cmds, RemoveStale(c)  PROVE  Shaped'
  BY <1>6 DEF RemoveStale, Unlink, Goto, fileVars, procVars
<1>7. ASSUME NEW c \in Cmds, Spawn(c)  PROVE  Shaped'
  BY <1>7 DEF Spawn, Fork, Goto, fileVars
<1>8. ASSUME NEW c \in Cmds, SpawnFails(c)  PROVE  Shaped'
  BY <1>8 DEF SpawnFails, Goto, fileVars, procVars
<1>9. ASSUME NEW c \in Cmds, WaitListening(c)  PROVE  Shaped'
  BY <1>9 DEF WaitListening, Goto, fileVars, procVars
<1>10. ASSUME NEW c \in Cmds, WaitEof(c)  PROVE  Shaped'
  BY <1>10 DEF WaitEof, Abandon, Exit, Goto, Orphaned, Signalled, fileVars
<1>11. ASSUME NEW c \in Cmds, WaitTimeout(c)  PROVE  Shaped'
  BY <1>11 DEF WaitTimeout, Abandon, Exit, Goto, Orphaned, Signalled, fileVars
<1>12. ASSUME NEW c \in Cmds, OpenRecord(c)  PROVE  Shaped'
  BY <1>12 DEF OpenRecord, Goto, procVars
<1>13. ASSUME NEW c \in Cmds, OpenRecordFails(c)  PROVE  Shaped'
  BY <1>13 DEF OpenRecordFails, Abandon, Exit, Goto, Orphaned, Signalled, fileVars
<1>14. ASSUME NEW c \in Cmds, WriteRecord(c)  PROVE  Shaped'
  BY <1>14 DEF WriteRecord, Written, Exit, Goto, Orphaned, Live
<1>15. ASSUME NEW c \in Cmds, WriteRecordFails(c)  PROVE  Shaped'
  BY <1>15 DEF WriteRecordFails, Abandon, Exit, Goto, Orphaned, Signalled
<1>16. ASSUME NEW c \in Cmds, Terminate(c)  PROVE  Shaped'
  BY <1>16 DEF Terminate, Goto, Signalled, fileVars
<1>17. ASSUME NEW c \in Cmds, TerminateFails(c)  PROVE  Shaped'
  BY <1>17 DEF TerminateFails, Goto, fileVars, procVars
<1>18. ASSUME NEW c \in Cmds, PollGone(c)  PROVE  Shaped'
  BY <1>18 DEF PollGone, Goto, fileVars, procVars
<1>19. ASSUME NEW c \in Cmds, PollDeadline(c)  PROVE  Shaped'
  BY <1>19 DEF PollDeadline, Goto, Signalled, fileVars
<1>20. ASSUME NEW c \in Cmds, PollDeadlineFails(c)  PROVE  Shaped'
  BY <1>20 DEF PollDeadlineFails, Goto, fileVars, procVars
<1>21. ASSUME NEW c \in Cmds, ClearRecord(c)  PROVE  Shaped'
  BY <1>21 DEF ClearRecord, Unlink, Goto, fileVars, procVars
<1>22. ASSUME NEW c \in Cmds, CrashCmd(c)  PROVE  Shaped'
  BY <1>22 DEF CrashCmd, Exit, Goto, Orphaned
<1>23. ASSUME NEW p \in Pids, RunServer(p)  PROVE  Shaped'
  BY <1>23 DEF RunServer, Fork, fileVars, cmdVars
<1>24. ASSUME NEW p \in Pids, Bind(p)  PROVE  Shaped'
  BY <1>24 DEF Bind, fileVars, cmdVars
<1>25. ASSUME NEW p \in Pids, Announce(p)  PROVE  Shaped'
  BY <1>25 DEF Announce, Dies, fileVars, cmdVars
<1>26. ASSUME NEW p \in Pids, ServerExits(p)  PROVE  Shaped'
  BY <1>26 DEF ServerExits, Dies, fileVars, cmdVars
<1>27. ASSUME NEW p \in Pids, SignalDelivered(p)  PROVE  Shaped'
  BY <1>27 DEF SignalDelivered, Dies, fileVars, cmdVars
<1>28. ASSUME NEW p \in Pids, OtherProcess(p)  PROVE  Shaped'
  BY <1>28 DEF OtherProcess, Fork, fileVars, cmdVars
<1>29. ASSUME NEW p \in Pids, OtherExits(p)  PROVE  Shaped'
  BY <1>29 DEF OtherExits, Dies, fileVars, cmdVars
<1>30. CASE UNCHANGED vars
  BY <1>30 DEF vars
<1>. HIDE DEF Shaped
<1>. QED
  BY <1>1, <1>2, <1>3, <1>4, <1>5, <1>6, <1>7, <1>8, <1>9, <1>10, <1>11, <1>12, <1>13,
      <1>14, <1>15, <1>16, <1>17, <1>18, <1>19, <1>20, <1>21, <1>22, <1>23, <1>24, <1>25,
      <1>26, <1>27, <1>28, <1>29, <1>30
  DEF Next, CliStep, HostStep

\* Shaped holds of every reachable state, whatever goes wrong.
LEMMA ShapedAlways == Spec => []Shaped
BY ShapedInit, ShapedStep, PTL DEF Spec

\* Every variable keeps its type, for any number of commands and pids and any
\* faults: in particular a start that writes a record has a child to name.
THEOREM TypeCorrect == Spec => []TypeOK
<1>1. Shaped => TypeOK
  BY DEF Shaped
<1>. QED
  BY <1>1, ShapedAlways, PTL

-----------------------------------------------------------------------------
(* Who has printed the listening line.                                     *)

Heard ==
    /\ \A p \in Pids : said[p] => proc[p] \in {"serving", "gone"}
    /\ record \in Pids => said[record]
    /\ \A c \in Cmds : seen[c] \in Pids => said[seen[c]]
    /\ \A c \in Cmds : pc[c] \in {"truncate", "write"} => said[child[c]]
    /\ \A c \in Cmds : child[c] \in Pids => proc[child[c]] # "free"
    /\ \A p \in acked : proc[p] = "serving"
    /\ \A p, q \in Pids : proc[p] \in {"bound", "serving"}
                          /\ proc[q] \in {"bound", "serving"} => p = q

\* Nothing has been printed initially.
LEMMA HeardInit == Init => Heard
BY SentinelsDistinct DEF Init, Heard

\* A pid's line is forgotten only by Fork, which takes a free pid that no record,
\* no command and no acknowledgement can mention.
LEMMA HeardStep ==
  ASSUME FreshPids
  PROVE  Shaped /\ Heard /\ [Next]_vars => Heard'
<1>. SUFFICES ASSUME Shaped, Heard, [Next]_vars
              PROVE  Heard'
  OBVIOUS
<1>. USE SentinelsDistinct, FreshPids
     DEF FreshPids, Heard, Shaped, Shape, TypeOK, Ended, Ops, Stages
<1>1. ASSUME NEW c \in Cmds, NEW o \in Ops, Begin(c, o)
      PROVE  Heard'
  BY <1>1 DEF Begin, Goto, fileVars, procVars, Ops
<1>2. ASSUME NEW c \in Cmds, Load(c)  PROVE  Heard'
  BY <1>2 DEF Load, Goto, fileVars, procVars
<1>3. ASSUME NEW c \in Cmds, RecordExists(c)  PROVE  Heard'
  BY <1>3 DEF RecordExists, Goto, fileVars, procVars
<1>4. ASSUME NEW c \in Cmds, RecordOpen(c)  PROVE  Heard'
  BY <1>4 DEF RecordOpen, Goto, fileVars, procVars
<1>5. ASSUME NEW c \in Cmds, ProbeRecorded(c)  PROVE  Heard'
  BY <1>5 DEF ProbeRecorded, Goto, fileVars, procVars
<1>6. ASSUME NEW c \in Cmds, RemoveStale(c)  PROVE  Heard'
  BY <1>6 DEF RemoveStale, Unlink, Goto, fileVars, procVars
<1>7. ASSUME NEW c \in Cmds, Spawn(c)  PROVE  Heard'
  BY <1>7 DEF Spawn, Fork, Goto, fileVars, Allocatable
<1>8. ASSUME NEW c \in Cmds, SpawnFails(c)  PROVE  Heard'
  BY <1>8 DEF SpawnFails, Goto, fileVars, procVars
<1>9. ASSUME NEW c \in Cmds, WaitListening(c)  PROVE  Heard'
  BY <1>9 DEF WaitListening, Goto, fileVars, procVars
<1>10. ASSUME NEW c \in Cmds, WaitEof(c)  PROVE  Heard'
  BY <1>10 DEF WaitEof, Abandon, Exit, Goto, Orphaned, Signalled, fileVars
<1>11. ASSUME NEW c \in Cmds, WaitTimeout(c)  PROVE  Heard'
  BY <1>11 DEF WaitTimeout, Abandon, Exit, Goto, Orphaned, Signalled, fileVars
<1>12. ASSUME NEW c \in Cmds, OpenRecord(c)  PROVE  Heard'
  BY <1>12 DEF OpenRecord, Goto, procVars
<1>13. ASSUME NEW c \in Cmds, OpenRecordFails(c)  PROVE  Heard'
  BY <1>13 DEF OpenRecordFails, Abandon, Exit, Goto, Orphaned, Signalled, fileVars
<1>14. ASSUME NEW c \in Cmds, WriteRecord(c)  PROVE  Heard'
  BY <1>14 DEF WriteRecord, Written, Exit, Goto, Orphaned, Live
<1>15. ASSUME NEW c \in Cmds, WriteRecordFails(c)  PROVE  Heard'
  BY <1>15 DEF WriteRecordFails, Abandon, Exit, Goto, Orphaned, Signalled
<1>16. ASSUME NEW c \in Cmds, Terminate(c)  PROVE  Heard'
  BY <1>16 DEF Terminate, Goto, Signalled, fileVars
<1>17. ASSUME NEW c \in Cmds, TerminateFails(c)  PROVE  Heard'
  BY <1>17 DEF TerminateFails, Goto, fileVars, procVars
<1>18. ASSUME NEW c \in Cmds, PollGone(c)  PROVE  Heard'
  BY <1>18 DEF PollGone, Goto, fileVars, procVars
<1>19. ASSUME NEW c \in Cmds, PollDeadline(c)  PROVE  Heard'
  BY <1>19 DEF PollDeadline, Goto, Signalled, fileVars
<1>20. ASSUME NEW c \in Cmds, PollDeadlineFails(c)  PROVE  Heard'
  BY <1>20 DEF PollDeadlineFails, Goto, fileVars, procVars
<1>21. ASSUME NEW c \in Cmds, ClearRecord(c)  PROVE  Heard'
  BY <1>21 DEF ClearRecord, Unlink, Goto, fileVars, procVars
<1>22. ASSUME NEW c \in Cmds, CrashCmd(c)  PROVE  Heard'
  BY <1>22 DEF CrashCmd, Exit, Goto, Orphaned
<1>23. ASSUME NEW p \in Pids, RunServer(p)  PROVE  Heard'
  BY <1>23 DEF RunServer, Fork, fileVars, cmdVars, Allocatable
<1>24. ASSUME NEW p \in Pids, Bind(p)  PROVE  Heard'
  BY <1>24 DEF Bind, fileVars, cmdVars, PortFree
<1>25. ASSUME NEW p \in Pids, Announce(p)  PROVE  Heard'
  BY <1>25 DEF Announce, Dies, fileVars, cmdVars
<1>26. ASSUME NEW p \in Pids, ServerExits(p)  PROVE  Heard'
  BY <1>26 DEF ServerExits, Dies, fileVars, cmdVars
<1>27. ASSUME NEW p \in Pids, SignalDelivered(p)  PROVE  Heard'
  BY <1>27 DEF SignalDelivered, Dies, fileVars, cmdVars
<1>28. ASSUME NEW p \in Pids, OtherProcess(p)  PROVE  Heard'
  BY <1>28 DEF OtherProcess, Fork, fileVars, cmdVars, Allocatable
<1>29. ASSUME NEW p \in Pids, OtherExits(p)  PROVE  Heard'
  BY <1>29 DEF OtherExits, Dies, fileVars, cmdVars
<1>30. CASE UNCHANGED vars
  BY <1>30 DEF vars
<1>. QED
  BY <1>1, <1>2, <1>3, <1>4, <1>5, <1>6, <1>7, <1>8, <1>9, <1>10, <1>11, <1>12, <1>13,
      <1>14, <1>15, <1>16, <1>17, <1>18, <1>19, <1>20, <1>21, <1>22, <1>23, <1>24, <1>25,
      <1>26, <1>27, <1>28, <1>29, <1>30
  DEF Next, CliStep, HostStep

\* Heard holds of every reachable state, unless pids are recycled.
LEMMA HeardAlways ==
  ASSUME FreshPids
  PROVE  Spec => []Heard
<1>1. Shaped /\ Heard /\ [Next]_vars => Heard'
  BY HeardStep
<1>. QED
  BY <1>1, HeardInit, ShapedAlways, PTL DEF Spec

\* record_started only ever records a server that has announced itself, however
\* many commands overlap, crash or fail.
THEOREM ListenerRecorded ==
  ASSUME FreshPids
  PROVE  Spec => []RecordNamesAListener
<1>1. Heard => RecordNamesAListener
  BY DEF Heard, RecordNamesAListener
<1>. QED
  BY <1>1, HeardAlways, PTL

\* However many starts race past reject_if_running, at most one live server has
\* been announced to a user: the port admits one listener, and only a listener
\* prints the line that start waits for.
THEOREM OneServerAnnounced ==
  ASSUME FreshPids
  PROVE  Spec => []OneStartedServer
<1>1. Shaped /\ Heard => OneStartedServer
  BY DEF Shaped, TypeOK, Heard, OneStartedServer
<1>. QED
  BY <1>1, ShapedAlways, HeardAlways, PTL

-----------------------------------------------------------------------------
(* Which processes cannot survive.                                         *)

Doomed ==
    /\ FailedStartLeavesNoServer
    /\ KillRuns => \A c \in Cmds : pc[c] = "clear" => Dead(seen[c])
    /\ KillRuns => StoppedIsDoomed

\* No command has ended initially with a child or a target.
LEMMA DoomedInit == Init => Doomed
BY SentinelsDistinct DEF Init, Doomed, FailedStartLeavesNoServer, StoppedIsDoomed

\* A dead process stays dead: Fork takes only free pids, SIGKILL is never
\* downgraded to SIGTERM, and a process with a signal pending does not advance.
LEMMA DoomedStep ==
  ASSUME FreshPids
  PROVE  Shaped /\ Heard /\ Doomed /\ [Next]_vars => Doomed'
<1>. SUFFICES ASSUME Shaped, Heard, Doomed, [Next]_vars
              PROVE  Doomed'
  OBVIOUS
<1>. USE SentinelsDistinct, FreshPids
     DEF FreshPids, KillRuns, Doomed, FailedStartLeavesNoServer, StoppedIsDoomed, Dead,
      Live,
         Heard, Shaped, Shape, TypeOK, Ended, Ops, Stages
<1>1. ASSUME NEW c \in Cmds, NEW o \in Ops, Begin(c, o)
      PROVE  Doomed'
  BY <1>1 DEF Begin, Goto, fileVars, procVars, Ops
<1>2. ASSUME NEW c \in Cmds, Load(c)  PROVE  Doomed'
  BY <1>2 DEF Load, Goto, fileVars, procVars
<1>3. ASSUME NEW c \in Cmds, RecordExists(c)  PROVE  Doomed'
  BY <1>3 DEF RecordExists, Goto, fileVars, procVars
<1>4. ASSUME NEW c \in Cmds, RecordOpen(c)  PROVE  Doomed'
  BY <1>4 DEF RecordOpen, Goto, fileVars, procVars
<1>5. ASSUME NEW c \in Cmds, ProbeRecorded(c)  PROVE  Doomed'
  BY <1>5 DEF ProbeRecorded, Goto, fileVars, procVars
<1>6. ASSUME NEW c \in Cmds, RemoveStale(c)  PROVE  Doomed'
  BY <1>6 DEF RemoveStale, Unlink, Goto, fileVars, procVars
<1>7. ASSUME NEW c \in Cmds, Spawn(c)  PROVE  Doomed'
  BY <1>7 DEF Spawn, Fork, Goto, fileVars, Allocatable
<1>8. ASSUME NEW c \in Cmds, SpawnFails(c)  PROVE  Doomed'
  BY <1>8 DEF SpawnFails, Goto, fileVars, procVars
<1>9. ASSUME NEW c \in Cmds, WaitListening(c)  PROVE  Doomed'
  BY <1>9 DEF WaitListening, Goto, fileVars, procVars
<1>10. ASSUME NEW c \in Cmds, WaitEof(c)  PROVE  Doomed'
  BY <1>10 DEF WaitEof, Abandon, Exit, Goto, Orphaned, Signalled, fileVars
<1>11. ASSUME NEW c \in Cmds, WaitTimeout(c)  PROVE  Doomed'
  BY <1>11 DEF WaitTimeout, Abandon, Exit, Goto, Orphaned, Signalled, fileVars
<1>12. ASSUME NEW c \in Cmds, OpenRecord(c)  PROVE  Doomed'
  BY <1>12 DEF OpenRecord, Goto, procVars
<1>13. ASSUME NEW c \in Cmds, OpenRecordFails(c)  PROVE  Doomed'
  BY <1>13 DEF OpenRecordFails, Abandon, Exit, Goto, Orphaned, Signalled, fileVars
<1>14. ASSUME NEW c \in Cmds, WriteRecord(c)  PROVE  Doomed'
  BY <1>14 DEF WriteRecord, Written, Exit, Goto, Orphaned
<1>15. ASSUME NEW c \in Cmds, WriteRecordFails(c)  PROVE  Doomed'
  BY <1>15 DEF WriteRecordFails, Abandon, Exit, Goto, Orphaned, Signalled
<1>16. ASSUME NEW c \in Cmds, Terminate(c)  PROVE  Doomed'
  BY <1>16 DEF Terminate, Goto, Signalled, fileVars
<1>17. ASSUME NEW c \in Cmds, TerminateFails(c)  PROVE  Doomed'
  BY <1>17 DEF TerminateFails, Goto, fileVars, procVars
<1>18. ASSUME NEW c \in Cmds, PollGone(c)  PROVE  Doomed'
  BY <1>18 DEF PollGone, Goto, fileVars, procVars, SeemsGone, ProcessRunning
<1>19. ASSUME NEW c \in Cmds, PollDeadline(c)  PROVE  Doomed'
  BY <1>19 DEF PollDeadline, Goto, Signalled, fileVars
<1>20. ASSUME NEW c \in Cmds, PollDeadlineFails(c)  PROVE  Doomed'
  BY <1>20 DEF PollDeadlineFails, Goto, fileVars, procVars
<1>21. ASSUME NEW c \in Cmds, ClearRecord(c)  PROVE  Doomed'
  BY <1>21 DEF ClearRecord, Unlink, Goto, fileVars, procVars
<1>22. ASSUME NEW c \in Cmds, CrashCmd(c)  PROVE  Doomed'
  BY <1>22 DEF CrashCmd, Exit, Goto, Orphaned
<1>23. ASSUME NEW p \in Pids, RunServer(p)  PROVE  Doomed'
  BY <1>23 DEF RunServer, Fork, fileVars, cmdVars, Allocatable
<1>24. ASSUME NEW p \in Pids, Bind(p)  PROVE  Doomed'
  BY <1>24 DEF Bind, fileVars, cmdVars
<1>25. ASSUME NEW p \in Pids, Announce(p)  PROVE  Doomed'
  BY <1>25 DEF Announce, Dies, fileVars, cmdVars
<1>26. ASSUME NEW p \in Pids, ServerExits(p)  PROVE  Doomed'
  BY <1>26 DEF ServerExits, Dies, fileVars, cmdVars
<1>27. ASSUME NEW p \in Pids, SignalDelivered(p)  PROVE  Doomed'
  BY <1>27 DEF SignalDelivered, Dies, fileVars, cmdVars
<1>28. ASSUME NEW p \in Pids, OtherProcess(p)  PROVE  Doomed'
  BY <1>28 DEF OtherProcess, Fork, fileVars, cmdVars, Allocatable
<1>29. ASSUME NEW p \in Pids, OtherExits(p)  PROVE  Doomed'
  BY <1>29 DEF OtherExits, Dies, fileVars, cmdVars
<1>30. CASE UNCHANGED vars
  BY <1>30 DEF vars
<1>. QED
  BY <1>1, <1>2, <1>3, <1>4, <1>5, <1>6, <1>7, <1>8, <1>9, <1>10, <1>11, <1>12, <1>13,
      <1>14, <1>15, <1>16, <1>17, <1>18, <1>19, <1>20, <1>21, <1>22, <1>23, <1>24, <1>25,
      <1>26, <1>27, <1>28, <1>29, <1>30
  DEF Next, CliStep, HostStep

\* Doomed holds of every reachable state, unless pids are recycled.
LEMMA DoomedAlways ==
  ASSUME FreshPids
  PROVE  Spec => []Doomed
<1>1. Shaped /\ Heard /\ Doomed /\ [Next]_vars => Doomed'
  BY DoomedStep
<1>. QED
  BY <1>1, DoomedInit, ShapedAlways, HeardAlways, PTL DEF Spec

\* A start that fails after its spawn has killed its child or found it dead, at
\* whichever of its steps it failed.
THEOREM FailedStartIsClean ==
  ASSUME FreshPids
  PROVE  Spec => []FailedStartLeavesNoServer
<1>1. Doomed => FailedStartLeavesNoServer
  BY DEF Doomed
<1>. QED
  BY <1>1, DoomedAlways, PTL

\* A stop that reports success has ended the process it found in the record,
\* provided `kill` can be run: otherwise it takes a living process for gone.
THEOREM StopDooms ==
  ASSUME FreshPids, KillRuns
  PROVE  Spec => []StoppedIsDoomed
<1>1. Doomed => StoppedIsDoomed
  BY KillRuns DEF Doomed
<1>. QED
  BY <1>1, DoomedAlways, PTL

-----------------------------------------------------------------------------
(* The record at each step of the only command.                            *)

Alone ==
    /\ \A p \in acked : Live(p)
    /\ StartedServerIsRecorded
    /\ \A c \in Cmds : pc[c] \in {"probe", "stale", "term", "poll",
      "clear"} => record = seen[c]
    /\ \A c \in Cmds : pc[c] \in {"stale", "spawn", "wait", "truncate", "write", "poll",
      "clear"}
                          => \A p \in acked : sig[p] # "none"
    /\ \A c \in Cmds : pc[c] = "write" => fd[c] = "linked" /\ record = Torn

\* No server has been announced initially.
LEMMA AloneInit == Init => Alone
BY SentinelsDistinct DEF Init, Alone, StartedServerIsRecorded, Ended

\* The single command that runs is the only one to touch the record: what it read
\* is still there when it acts, and by the time it removes or overwrites the record
\* no announced server is left that has not been signalled.
LEMMA AloneStep ==
  ASSUME OneAtATime, KillRuns
  PROVE  Shaped /\ Alone /\ [Next]_vars => Alone'
<1>. SUFFICES ASSUME Shaped, Alone, [Next]_vars
              PROVE  Alone'
  OBVIOUS
<1>. USE SentinelsDistinct, OneAtATime, KillRuns
     DEF OneAtATime, KillRuns, Alone, StartedServerIsRecorded, Live,
         Shaped, Shape, TypeOK, Ended, Ops, Stages
<1>1. ASSUME NEW c \in Cmds, NEW o \in Ops, Begin(c, o)
      PROVE  Alone'
  BY <1>1 DEF Begin, Goto, fileVars, procVars, Ops
<1>2. ASSUME NEW c \in Cmds, Load(c)  PROVE  Alone'
  BY <1>2 DEF Load, Goto, fileVars, procVars
<1>3. ASSUME NEW c \in Cmds, RecordExists(c)  PROVE  Alone'
  BY <1>3 DEF RecordExists, Goto, fileVars, procVars
<1>4. ASSUME NEW c \in Cmds, RecordOpen(c)  PROVE  Alone'
  BY <1>4 DEF RecordOpen, Goto, fileVars, procVars
<1>5. ASSUME NEW c \in Cmds, ProbeRecorded(c)  PROVE  Alone'
  BY <1>5 DEF ProbeRecorded, Goto, fileVars, procVars, SeemsGone, ProcessRunning
<1>6. ASSUME NEW c \in Cmds, RemoveStale(c)  PROVE  Alone'
  BY <1>6 DEF RemoveStale, Unlink, Goto, fileVars, procVars
<1>7. ASSUME NEW c \in Cmds, Spawn(c)  PROVE  Alone'
  BY <1>7 DEF Spawn, Fork, Goto, fileVars, Allocatable
<1>8. ASSUME NEW c \in Cmds, SpawnFails(c)  PROVE  Alone'
  BY <1>8 DEF SpawnFails, Goto, fileVars, procVars
<1>9. ASSUME NEW c \in Cmds, WaitListening(c)  PROVE  Alone'
  BY <1>9 DEF WaitListening, Goto, fileVars, procVars
<1>10. ASSUME NEW c \in Cmds, WaitEof(c)  PROVE  Alone'
  BY <1>10 DEF WaitEof, Abandon, Exit, Goto, Orphaned, Signalled, fileVars
<1>11. ASSUME NEW c \in Cmds, WaitTimeout(c)  PROVE  Alone'
  BY <1>11 DEF WaitTimeout, Abandon, Exit, Goto, Orphaned, Signalled, fileVars
<1>12. ASSUME NEW c \in Cmds, OpenRecord(c)  PROVE  Alone'
  BY <1>12 DEF OpenRecord, Goto, procVars
<1>13. ASSUME NEW c \in Cmds, OpenRecordFails(c)  PROVE  Alone'
  BY <1>13 DEF OpenRecordFails, Abandon, Exit, Goto, Orphaned, Signalled, fileVars
<1>14. ASSUME NEW c \in Cmds, WriteRecord(c)  PROVE  Alone'
  BY <1>14 DEF WriteRecord, Written, Exit, Goto, Orphaned
<1>15. ASSUME NEW c \in Cmds, WriteRecordFails(c)  PROVE  Alone'
  BY <1>15 DEF WriteRecordFails, Abandon, Exit, Goto, Orphaned, Signalled
<1>16. ASSUME NEW c \in Cmds, Terminate(c)  PROVE  Alone'
  BY <1>16 DEF Terminate, Goto, Signalled, fileVars
<1>17. ASSUME NEW c \in Cmds, TerminateFails(c)  PROVE  Alone'
  BY <1>17 DEF TerminateFails, Goto, fileVars, procVars
<1>18. ASSUME NEW c \in Cmds, PollGone(c)  PROVE  Alone'
  BY <1>18 DEF PollGone, Goto, fileVars, procVars, SeemsGone, ProcessRunning
<1>19. ASSUME NEW c \in Cmds, PollDeadline(c)  PROVE  Alone'
  BY <1>19 DEF PollDeadline, Goto, Signalled, fileVars
<1>20. ASSUME NEW c \in Cmds, PollDeadlineFails(c)  PROVE  Alone'
  BY <1>20 DEF PollDeadlineFails, Goto, fileVars, procVars
<1>21. ASSUME NEW c \in Cmds, ClearRecord(c)  PROVE  Alone'
  BY <1>21 DEF ClearRecord, Unlink, Goto, fileVars, procVars
<1>22. ASSUME NEW c \in Cmds, CrashCmd(c)  PROVE  Alone'
  BY <1>22 DEF CrashCmd, Exit, Goto, Orphaned
<1>23. ASSUME NEW p \in Pids, RunServer(p)  PROVE  Alone'
  BY <1>23 DEF RunServer, Fork, fileVars, cmdVars, Allocatable
<1>24. ASSUME NEW p \in Pids, Bind(p)  PROVE  Alone'
  BY <1>24 DEF Bind, fileVars, cmdVars
<1>25. ASSUME NEW p \in Pids, Announce(p)  PROVE  Alone'
  BY <1>25 DEF Announce, Dies, fileVars, cmdVars
<1>26. ASSUME NEW p \in Pids, ServerExits(p)  PROVE  Alone'
  BY <1>26 DEF ServerExits, Dies, fileVars, cmdVars
<1>27. ASSUME NEW p \in Pids, SignalDelivered(p)  PROVE  Alone'
  BY <1>27 DEF SignalDelivered, Dies, fileVars, cmdVars
<1>28. ASSUME NEW p \in Pids, OtherProcess(p)  PROVE  Alone'
  BY <1>28 DEF OtherProcess, Fork, fileVars, cmdVars, Allocatable
<1>29. ASSUME NEW p \in Pids, OtherExits(p)  PROVE  Alone'
  BY <1>29 DEF OtherExits, Dies, fileVars, cmdVars
<1>30. CASE UNCHANGED vars
  BY <1>30 DEF vars
<1>. QED
  BY <1>1, <1>2, <1>3, <1>4, <1>5, <1>6, <1>7, <1>8, <1>9, <1>10, <1>11, <1>12, <1>13,
      <1>14, <1>15, <1>16, <1>17, <1>18, <1>19, <1>20, <1>21, <1>22, <1>23, <1>24, <1>25,
      <1>26, <1>27, <1>28, <1>29, <1>30
  DEF Next, CliStep, HostStep

\* While the application's commands run one at a time and `kill` can be run, an
\* announced server is the recorded one until it is told to stop, through crashes
\* of commands, I/O errors and recycled pids.
THEOREM StartedIsRecorded ==
  ASSUME OneAtATime, KillRuns
  PROVE  Spec => []StartedServerIsRecorded
<1>1. Shaped /\ Alone /\ [Next]_vars => Alone'
  BY AloneStep
<1>2. Alone => StartedServerIsRecorded
  BY DEF Alone
<1>. QED
  BY <1>1, <1>2, AloneInit, ShapedAlways, PTL DEF Spec

-----------------------------------------------------------------------------
(* A process has a parent command only while that command waits for it, and *)
(* is not in the record before.                                            *)

Kept ==
    /\ \A p \in Pids : parent[p] \in Cmds =>
          pc[parent[p]] \in {"wait", "truncate", "write"} /\ child[parent[p]] = p
    /\ \A c \in Cmds : pc[c] \in {"wait", "truncate", "write"} => parent[child[c]] = c
    /\ record \in Pids => parent[record] \notin Cmds
    /\ \A c \in Cmds : seen[c] \in Pids => parent[seen[c]] \notin Cmds

\* No process has a parent command initially.
LEMMA KeptInit == Init => Kept
BY SentinelsDistinct DEF Init, Kept

\* A command leaves the steps from Spawn to WriteRecord only by exiting, which
\* orphans its child.
LEMMA KeptStep ==
  ASSUME FreshPids
  PROVE  Shaped /\ Heard /\ Kept /\ [Next]_vars => Kept'
<1>. SUFFICES ASSUME Shaped, Heard, Kept, [Next]_vars
              PROVE  Kept'
  OBVIOUS
<1>. USE SentinelsDistinct DEF Kept, Shaped, Shape, TypeOK, Ended, Ops, Stages
<1>1. ASSUME NEW c \in Cmds, NEW o \in Ops, Begin(c, o)
      PROVE  Kept'
  BY <1>1 DEF Begin, Goto, fileVars, procVars, Ops
<1>2. ASSUME NEW c \in Cmds, Load(c)  PROVE  Kept'
  BY <1>2 DEF Load, Goto, fileVars, procVars
<1>3. ASSUME NEW c \in Cmds, RecordExists(c)  PROVE  Kept'
  BY <1>3 DEF RecordExists, Goto, fileVars, procVars
<1>4. ASSUME NEW c \in Cmds, RecordOpen(c)  PROVE  Kept'
  BY <1>4 DEF RecordOpen, Goto, fileVars, procVars
<1>5. ASSUME NEW c \in Cmds, ProbeRecorded(c)  PROVE  Kept'
  BY <1>5 DEF ProbeRecorded, Goto, fileVars, procVars
<1>6. ASSUME NEW c \in Cmds, RemoveStale(c)  PROVE  Kept'
  BY <1>6 DEF RemoveStale, Unlink, Goto, fileVars, procVars
<1>7. ASSUME NEW c \in Cmds, Spawn(c)  PROVE  Kept'
  BY <1>7, FreshPids DEF Spawn, Fork, Goto, fileVars, Allocatable, FreshPids, Heard
<1>8. ASSUME NEW c \in Cmds, SpawnFails(c)  PROVE  Kept'
  BY <1>8 DEF SpawnFails, Goto, fileVars, procVars
<1>9. ASSUME NEW c \in Cmds, WaitListening(c)  PROVE  Kept'
  BY <1>9 DEF WaitListening, Goto, fileVars, procVars
<1>10. ASSUME NEW c \in Cmds, WaitEof(c)  PROVE  Kept'
  BY <1>10 DEF WaitEof, Abandon, Exit, Goto, Orphaned, Signalled, fileVars
<1>11. ASSUME NEW c \in Cmds, WaitTimeout(c)  PROVE  Kept'
  BY <1>11 DEF WaitTimeout, Abandon, Exit, Goto, Orphaned, Signalled, fileVars
<1>12. ASSUME NEW c \in Cmds, OpenRecord(c)  PROVE  Kept'
  BY <1>12 DEF OpenRecord, Goto, procVars
<1>13. ASSUME NEW c \in Cmds, OpenRecordFails(c)  PROVE  Kept'
  BY <1>13 DEF OpenRecordFails, Abandon, Exit, Goto, Orphaned, Signalled, fileVars
<1>14. ASSUME NEW c \in Cmds, WriteRecord(c)  PROVE  Kept'
  BY <1>14 DEF WriteRecord, Written, Exit, Goto, Orphaned
<1>15. ASSUME NEW c \in Cmds, WriteRecordFails(c)  PROVE  Kept'
  BY <1>15 DEF WriteRecordFails, Abandon, Exit, Goto, Orphaned, Signalled
<1>16. ASSUME NEW c \in Cmds, Terminate(c)  PROVE  Kept'
  BY <1>16 DEF Terminate, Goto, Signalled, fileVars
<1>17. ASSUME NEW c \in Cmds, TerminateFails(c)  PROVE  Kept'
  BY <1>17 DEF TerminateFails, Goto, fileVars, procVars
<1>18. ASSUME NEW c \in Cmds, PollGone(c)  PROVE  Kept'
  BY <1>18 DEF PollGone, Goto, fileVars, procVars
<1>19. ASSUME NEW c \in Cmds, PollDeadline(c)  PROVE  Kept'
  BY <1>19 DEF PollDeadline, Goto, Signalled, fileVars
<1>20. ASSUME NEW c \in Cmds, PollDeadlineFails(c)  PROVE  Kept'
  BY <1>20 DEF PollDeadlineFails, Goto, fileVars, procVars
<1>21. ASSUME NEW c \in Cmds, ClearRecord(c)  PROVE  Kept'
  BY <1>21 DEF ClearRecord, Unlink, Goto, fileVars, procVars
<1>22. ASSUME NEW c \in Cmds, CrashCmd(c)  PROVE  Kept'
  BY <1>22 DEF CrashCmd, Exit, Goto, Orphaned
<1>23. ASSUME NEW p \in Pids, RunServer(p)  PROVE  Kept'
  BY <1>23, FreshPids DEF RunServer, Fork, fileVars, cmdVars, Allocatable, FreshPids, Heard
<1>24. ASSUME NEW p \in Pids, Bind(p)  PROVE  Kept'
  BY <1>24 DEF Bind, fileVars, cmdVars
<1>25. ASSUME NEW p \in Pids, Announce(p)  PROVE  Kept'
  BY <1>25 DEF Announce, Dies, fileVars, cmdVars
<1>26. ASSUME NEW p \in Pids, ServerExits(p)  PROVE  Kept'
  BY <1>26 DEF ServerExits, Dies, fileVars, cmdVars
<1>27. ASSUME NEW p \in Pids, SignalDelivered(p)  PROVE  Kept'
  BY <1>27 DEF SignalDelivered, Dies, fileVars, cmdVars
<1>28. ASSUME NEW p \in Pids, OtherProcess(p)  PROVE  Kept'
  BY <1>28, FreshPids DEF OtherProcess, Fork, fileVars, cmdVars, Allocatable, FreshPids, Heard
<1>29. ASSUME NEW p \in Pids, OtherExits(p)  PROVE  Kept'
  BY <1>29 DEF OtherExits, Dies, fileVars, cmdVars
<1>30. CASE UNCHANGED vars
  BY <1>30 DEF vars
<1>. QED
  BY <1>1, <1>2, <1>3, <1>4, <1>5, <1>6, <1>7, <1>8, <1>9, <1>10, <1>11, <1>12, <1>13,
      <1>14, <1>15, <1>16, <1>17, <1>18, <1>19, <1>20, <1>21, <1>22, <1>23, <1>24, <1>25,
      <1>26, <1>27, <1>28, <1>29, <1>30
  DEF Next, CliStep, HostStep

\* A probe that made start refuse was answered, and not by a zombie: a recorded pid
\* has no parent command any more.
LEMMA RefusalStep ==
  ASSUME FreshPids,
         Shaped, Heard, Kept, [Next]_vars, NEW c \in Cmds,
         op[c] = "start", pc[c] = "probe", pc'[c] = "failed"
  PROVE  proc[seen[c]] = "serving"
<1>1. ProbeRecorded(c)
  <2>. USE SentinelsDistinct DEF Shaped, TypeOK, Goto, Exit, Abandon, Ended
  <2>1. ASSUME NEW d \in Cmds, CliStep(d) \/ CrashCmd(d) \/ \E o \in Ops : Begin(d, o)
        PROVE  d = c
    BY <2>1 DEF CliStep, Begin, Load, RecordExists, RecordOpen, ProbeRecorded, RemoveStale,
      Spawn, SpawnFails, WaitListening, WaitEof, WaitTimeout, OpenRecord,
      OpenRecordFails, WriteRecord, WriteRecordFails, Terminate, TerminateFails,
      PollGone, PollDeadline, PollDeadlineFails, ClearRecord, CrashCmd
  <2>2. CliStep(c) => ProbeRecorded(c)
    BY DEF CliStep, Load, RecordExists, RecordOpen, RemoveStale,
      Spawn, SpawnFails, WaitListening, WaitEof, WaitTimeout, OpenRecord,
      OpenRecordFails, WriteRecord, WriteRecordFails, Terminate, TerminateFails,
      PollGone, PollDeadline, PollDeadlineFails, ClearRecord
  <2>3. ~CrashCmd(c) /\ \A o \in Ops : ~Begin(c, o)
    BY DEF CrashCmd, Begin
  <2>4. \A p \in Pids : ~HostStep(p)
    BY DEF HostStep, RunServer, Bind, Announce, ServerExits, SignalDelivered, OtherProcess,
      OtherExits, cmdVars
  <2>5. ~UNCHANGED vars
    BY DEF vars
  <2>. QED
    BY <2>1, <2>2, <2>3, <2>4, <2>5 DEF Next
<1>2. ProcessRunning(seen[c])
  BY <1>1, SentinelsDistinct DEF ProbeRecorded, Goto, Shaped, TypeOK
<1>3. ~Zombie(seen[c])
  BY DEF Zombie, Kept, Shaped, Shape, TypeOK
<1>4. said[seen[c]]
  BY DEF Heard, Shaped, Shape
<1>. QED
  BY <1>2, <1>3, <1>4 DEF ProcessRunning, Live, Heard, Shaped, Shape, TypeOK

\* While pids are not recycled, start says "already running" only of a server that
\* is serving, however many commands overlap.
THEOREM RefusalIsHonest ==
  ASSUME FreshPids
  PROVE  Spec => RefusalMeansServing
<1>1. Shaped /\ Heard /\ Kept /\ [Next]_vars
        => [\A c \in Cmds : op[c] = "start" /\ pc[c] = "probe" /\ pc'[c] = "failed"
                              => proc[seen[c]] = "serving"]_vars
  BY RefusalStep
<1>2. Shaped /\ Heard /\ Kept /\ [Next]_vars => Kept'
  BY KeptStep
<1>. QED
  BY <1>1, <1>2, KeptInit, ShapedAlways, HeardAlways, PTL DEF Spec, RefusalMeansServing
=============================================================================
