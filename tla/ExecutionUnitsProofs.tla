----------------------- MODULE ExecutionUnitsProofs -----------------------
(***************************************************************************)
(* Machine-checked proofs about ExecutionUnits, for any number of          *)
(* processes, any limit and any bound.  Four invariants:                   *)
(*                                                                         *)
(*   Permitted  where a process holds a request permit:                    *)
(*              carries PermitsReturned;                                   *)
(*   Typed      the types of numbers and lines;                            *)
(*   Reported   what the log holds of the current unit at each of its      *)
(*              stages, and which lines failed: carries AnswersAgreeWithLog; *)
(*   Numbered   how the log, the counter and the unit's number are related *)
(*              until something spoils the numbering: carries              *)
(*              NthUnitIsNumberN.                                          *)
(***************************************************************************)
EXTENDS ExecutionUnits, TLAPS

-----------------------------------------------------------------------------
(* Permits.                                                                *)

\* enter and Drop for RequestPermit: one permit inside a unit, none outside.
Permitted ==
    /\ pc \in [Procs -> LogEvents \cup Ended \cup {"boot", "bind", "accept", "read", "enter",
      "guest", "reply"}]
    /\ kind \in [Procs -> {"server", "invoke"}]
    /\ result \in [Procs -> {"ok", "err"}]
    /\ active \in [Procs -> Nat]
    /\ half \subseteq Procs
    /\ logless \subseteq Procs
    /\ \A p \in half : pc[p] \in LogEvents /\ p \notin logless
    /\ \A p \in Procs : InUnit(p) => active[p] = 1
    /\ PermitsReturned

\* No process runs initially.
LEMMA PermittedInit == Init => Permitted
<1>. SUFFICES ASSUME Init  PROVE  Permitted
  OBVIOUS
<1>1. kind \in [Procs -> {"server", "invoke"}]
  BY ParametersOK DEF Init
<1>2. pc = [p \in Procs |-> "off"] /\ half = {} /\ logless = {} /\ active = [p \in Procs |-> 0]
      /\ result = [p \in Procs |-> "ok"]
  BY DEF Init
<1>. QED
  BY <1>1, <1>2 DEF Permitted, PermitsReturned, InUnit, LogEvents, UnitEvents, Ended

\* enter is called with no permit out, so that it grants one; every way out of the
\* unit gives it back.
LEMMA PermittedStep == Permitted /\ [Next]_vars => Permitted'
<1>. SUFFICES ASSUME Permitted, [Next]_vars
              PROVE  Permitted'
  OBVIOUS
<1>. USE ParametersOK DEF Permitted, PermitsReturned, InUnit, LogEvents, UnitEvents, Ended
<1>1. ASSUME NEW p \in Procs, Start(p)  PROVE  Permitted'
  BY <1>1 DEF Start, Goto, logVars, unitVars
<1>2. ASSUME NEW p \in Procs, Accept(p)  PROVE  Permitted'
  BY <1>2 DEF Accept, Goto, logVars, unitVars
<1>3. ASSUME NEW p \in Procs, BuildHostState(p)  PROVE  Permitted'
  BY <1>3 DEF BuildHostState, SeedFromLog, WithoutLog, Goto
<1>4. ASSUME NEW p \in Procs, Bind(p)  PROVE  Permitted'
  BY <1>4 DEF Bind, Goto, logVars, unitVars
<1>5. ASSUME NEW p \in Procs, WriteText(p)  PROVE  Permitted'
  BY <1>5 DEF WriteText, AppendText
<1>6. ASSUME NEW p \in Procs, ListeningLine(p)  PROVE  Permitted'
  BY <1>6 DEF ListeningLine, LineDone, LineFails, Goto, unitVars
<1>7. ASSUME NEW p \in Procs, Enter(p)  PROVE  Permitted'
  <2>1. active[p] = 0 /\ ~(active[p] >= MaxRequests)
    BY <1>7 DEF Enter
  <2>2. /\ pc' = [pc EXCEPT ![p] = "create"] /\ half' = half
        /\ active' = [active EXCEPT ![p] = 1] /\ UNCHANGED <<kind, result, logless>>
    BY <1>7, <2>1 DEF Enter, Goto, logVars
  <2>. QED
    BY <2>1, <2>2
<1>8. ASSUME NEW p \in Procs, CreateLine(p)  PROVE  Permitted'
  <2>1. /\ pc[p] = "create" /\ active[p] = 1 /\ half' = half \ {p}
        /\ logless' = logless /\ kind' = kind /\ result' \in [Procs -> {"ok", "err"}]
    BY <1>8 DEF CreateLine, LineDone, LineFails
  <2>2. CASE active' = active /\ pc' = [pc EXCEPT ![p] = "execute"]
    BY <2>1, <2>2
  <2>3. CASE /\ active' = [active EXCEPT ![p] = 0]
             /\ \/ pc' = [pc EXCEPT ![p] = "off"]
                \/ pc' = [pc EXCEPT ![p] = "reply"]
                \/ pc' = [pc EXCEPT ![p] = "error"]
    BY <2>1, <2>3
  <2>. QED
    BY <1>8, <2>1, <2>2, <2>3 DEF CreateLine, Returned, Goto
<1>9. ASSUME NEW p \in Procs, ExecuteLine(p)  PROVE  Permitted'
  BY <1>9 DEF ExecuteLine, LineDone, LineFails, Goto
<1>10. ASSUME NEW p \in Procs, GuestEnds(p) \/ GuestWrites(p)  PROVE  Permitted'
  BY <1>10 DEF GuestEnds, GuestWrites, Goto, logVars, unitVars
<1>11. ASSUME NEW p \in Procs, CompleteLine(p)  PROVE  Permitted'
  BY <1>11 DEF CompleteLine, LineDone, LineFails, Goto
<1>12. ASSUME NEW p \in Procs, FailLine(p)  PROVE  Permitted'
  BY <1>12 DEF FailLine, LineDone, LineFails, Goto
<1>13. ASSUME NEW p \in Procs, DisposeLine(p)  PROVE  Permitted'
  <2>1. /\ pc[p] = "dispose" /\ active[p] = 1 /\ half' = half \ {p}
        /\ UNCHANGED <<kind, result, logless>>
    BY <1>13 DEF DisposeLine, LineDone, LineFails
  <2>2. active' = [active EXCEPT ![p] = 0]
    BY <1>13, <2>1 DEF DisposeLine
  <2>3. \/ pc' = [pc EXCEPT ![p] = "off"]
        \/ pc' = [pc EXCEPT ![p] = "reply"]
        \/ pc' = [pc EXCEPT ![p] = "error"]
    BY <1>13 DEF DisposeLine, Returned, Goto
  <2>. QED
    BY <2>1, <2>2, <2>3
<1>14. ASSUME NEW p \in Procs, ErrorLine(p)  PROVE  Permitted'
  BY <1>14 DEF ErrorLine, LineDone, LineFails, Goto, unitVars
<1>15. ASSUME NEW p \in Procs, Reply(p)  PROVE  Permitted'
  BY <1>15 DEF Reply, Goto, logVars, unitVars
<1>16. ASSUME NEW p \in Procs, ClientFails(p)  PROVE  Permitted'
  BY <1>16 DEF ClientFails, Goto, logVars, unitVars
<1>17. ASSUME NEW p \in Procs, Killed(p)  PROVE  Permitted'
  BY <1>17 DEF Killed, Goto, unitVars
<1>18. ASSUME NEW p \in Procs, ReadRequest(p)  PROVE  Permitted'
  BY <1>18 DEF ReadRequest, Goto, logVars, unitVars
<1>19. ASSUME NEW p \in Procs, OutputLine(p)  PROVE  Permitted'
  BY <1>19 DEF OutputLine, LineDone, LineFails, Goto, unitVars
<1>20. CASE UNCHANGED vars
  BY <1>20 DEF vars, logVars, unitVars
<1>. QED
  BY <1>1, <1>2, <1>3, <1>4, <1>5, <1>6, <1>7, <1>8, <1>9, <1>10, <1>11, <1>12, <1>13,
      <1>14, <1>15, <1>16, <1>17, <1>18, <1>19, <1>20
  DEF Next, OwnStep, UnitStep

\* Permitted holds of every reachable state.
LEMMA PermittedAlways == Spec => []Permitted
BY PermittedInit, PermittedStep, PTL DEF Spec

\* Whatever fails, the log included, invoke returns every permit it took: a process
\* is never refused its next request, for any max_concurrent_requests.
THEOREM PermitsAlwaysReturned == Spec => []PermitsReturned
<1>1. Permitted => PermitsReturned
  BY DEF Permitted
<1>. QED
  BY <1>1, PermittedAlways, PTL

-----------------------------------------------------------------------------
(* Types.                                                                  *)

\* The variables of TypeOK that Permitted does not type.  A unit has a number between 1
\* and the bound.
Typed ==
    /\ highest \in 0..MaxUnits
    /\ tail    \in {"ended", "torn"}
    /\ issued  \in Seq(1..MaxUnits)
    /\ counter \in [Procs -> 0..MaxUnits]
    /\ unit    \in [Procs -> 0..MaxUnits]
    /\ active  \in [Procs -> 0..MaxRequests]
    /\ logged  \in [Procs -> SUBSET UnitEvents]
    /\ \A p \in Procs : InUnit(p) => unit[p] \in 1..MaxUnits

\* Nothing has been created initially.
LEMMA TypedInit == Init => Typed
BY ParametersOK DEF Init, Typed, InUnit, UnitEvents

\* A step that writes no number and enters no unit.
LEMMA TypedQuietly ==
    ASSUME Typed,
           UNCHANGED <<highest, issued, counter, unit, logged>>,
           tail' \in {"ended", "torn"},
           active' \in [Procs -> 0..MaxRequests],
           \A q \in Procs : InUnit(q)' => InUnit(q)
    PROVE  Typed'
BY DEF Typed

\* Enter takes the next number only below the bound, and a process has one permit out
\* at a time.
LEMMA TypedStep == Permitted /\ Typed /\ [Next]_vars => Typed'
<1>. SUFFICES ASSUME Permitted, Typed, [Next]_vars
              PROVE  Typed'
  OBVIOUS
<1>1. /\ pc \in [Procs -> LogEvents \cup Ended \cup {"boot", "bind", "accept", "read", "enter",
                           "guest", "reply"}]
      /\ \A p \in Procs : InUnit(p) => active[p] = 1
  BY DEF Permitted
<1>2. active \in [Procs -> 0..MaxRequests] /\ tail \in {"ended", "torn"}
  BY DEF Typed
<1>3. ASSUME NEW p \in Procs, Start(p)  PROVE  Typed'
  <2>1. /\ UNCHANGED <<highest, issued, counter, unit, logged, active>>
        /\ tail' \in {"ended", "torn"}
    BY <1>3, <1>2 DEF Start, Goto, logVars, unitVars
  <2>2. \A q \in Procs : InUnit(q)' => InUnit(q)
    BY <1>3, <1>1 DEF Start, Goto, InUnit, UnitEvents, Ended
  <2>. QED
    BY <1>2, <2>1, <2>2, TypedQuietly
<1>4. ASSUME NEW p \in Procs, Accept(p)  PROVE  Typed'
  <2>1. /\ UNCHANGED <<highest, issued, counter, unit, logged, active>>
        /\ tail' \in {"ended", "torn"}
    BY <1>4, <1>2 DEF Accept, Goto, logVars, unitVars
  <2>2. \A q \in Procs : InUnit(q)' => InUnit(q)
    BY <1>4, <1>1 DEF Accept, Goto, InUnit, UnitEvents, Ended
  <2>. QED
    BY <1>2, <2>1, <2>2, TypedQuietly
<1>5. ASSUME NEW p \in Procs, Bind(p)  PROVE  Typed'
  <2>1. /\ UNCHANGED <<highest, issued, counter, unit, logged, active>>
        /\ tail' \in {"ended", "torn"}
    BY <1>5, <1>2 DEF Bind, Goto, logVars, unitVars
  <2>2. \A q \in Procs : InUnit(q)' => InUnit(q)
    BY <1>5, <1>1 DEF Bind, Goto, InUnit, UnitEvents, Ended
  <2>. QED
    BY <1>2, <2>1, <2>2, TypedQuietly
<1>6. ASSUME NEW p \in Procs, ReadRequest(p)  PROVE  Typed'
  <2>1. /\ UNCHANGED <<highest, issued, counter, unit, logged, active>>
        /\ tail' \in {"ended", "torn"}
    BY <1>6, <1>2 DEF ReadRequest, Goto, logVars, unitVars
  <2>2. \A q \in Procs : InUnit(q)' => InUnit(q)
    BY <1>6, <1>1 DEF ReadRequest, Goto, InUnit, UnitEvents, Ended
  <2>. QED
    BY <1>2, <2>1, <2>2, TypedQuietly
<1>7. ASSUME NEW p \in Procs, GuestEnds(p)  PROVE  Typed'
  <2>1. /\ UNCHANGED <<highest, issued, counter, unit, logged, active>>
        /\ tail' \in {"ended", "torn"}
    BY <1>7, <1>2 DEF GuestEnds, Goto, logVars, unitVars
  <2>2. \A q \in Procs : InUnit(q)' => InUnit(q)
    BY <1>7, <1>1 DEF GuestEnds, Goto, InUnit, UnitEvents, Ended
  <2>. QED
    BY <1>2, <2>1, <2>2, TypedQuietly
<1>8. ASSUME NEW p \in Procs, GuestWrites(p)  PROVE  Typed'
  <2>1. /\ UNCHANGED <<highest, issued, counter, unit, logged, active>>
        /\ tail' \in {"ended", "torn"}
    BY <1>8, <1>2 DEF GuestWrites, Goto, logVars, unitVars
  <2>2. \A q \in Procs : InUnit(q)' => InUnit(q)
    BY <1>8, <1>1 DEF GuestWrites, Goto, InUnit, UnitEvents, Ended
  <2>. QED
    BY <1>2, <2>1, <2>2, TypedQuietly
<1>9. ASSUME NEW p \in Procs, Reply(p)  PROVE  Typed'
  <2>1. /\ UNCHANGED <<highest, issued, counter, unit, logged, active>>
        /\ tail' \in {"ended", "torn"}
    BY <1>9, <1>2 DEF Reply, Goto, logVars, unitVars
  <2>2. \A q \in Procs : InUnit(q)' => InUnit(q)
    BY <1>9, <1>1 DEF Reply, Goto, InUnit, UnitEvents, Ended
  <2>. QED
    BY <1>2, <2>1, <2>2, TypedQuietly
<1>10. ASSUME NEW p \in Procs, ClientFails(p)  PROVE  Typed'
  <2>1. /\ UNCHANGED <<highest, issued, counter, unit, logged, active>>
        /\ tail' \in {"ended", "torn"}
    BY <1>10, <1>2 DEF ClientFails, Goto, logVars, unitVars
  <2>2. \A q \in Procs : InUnit(q)' => InUnit(q)
    BY <1>10, <1>1 DEF ClientFails, Goto, InUnit, UnitEvents, Ended
  <2>. QED
    BY <1>2, <2>1, <2>2, TypedQuietly
<1>11. ASSUME NEW p \in Procs, Killed(p)  PROVE  Typed'
  <2>1. /\ UNCHANGED <<highest, issued, counter, unit, logged, active>>
        /\ tail' \in {"ended", "torn"}
    BY <1>11, <1>2 DEF Killed, Goto, unitVars
  <2>2. \A q \in Procs : InUnit(q)' => InUnit(q)
    BY <1>11, <1>1 DEF Killed, Goto, InUnit, UnitEvents, Ended
  <2>. QED
    BY <1>2, <2>1, <2>2, TypedQuietly
<1>12. ASSUME NEW p \in Procs, ListeningLine(p)  PROVE  Typed'
  <2>1. /\ UNCHANGED <<highest, issued, counter, unit, logged, active>>
        /\ tail' \in {"ended", "torn"}
    BY <1>12, <1>2 DEF ListeningLine, LineDone, LineFails, Goto, unitVars
  <2>2. \A q \in Procs : InUnit(q)' => InUnit(q)
    BY <1>12, <1>1 DEF ListeningLine, LineDone, LineFails, Goto, InUnit, UnitEvents, Ended
  <2>. QED
    BY <1>2, <2>1, <2>2, TypedQuietly
<1>13. ASSUME NEW p \in Procs, ErrorLine(p)  PROVE  Typed'
  <2>1. /\ UNCHANGED <<highest, issued, counter, unit, logged, active>>
        /\ tail' \in {"ended", "torn"}
    BY <1>13, <1>2 DEF ErrorLine, LineDone, LineFails, Goto, unitVars
  <2>2. \A q \in Procs : InUnit(q)' => InUnit(q)
    BY <1>13, <1>1 DEF ErrorLine, LineDone, LineFails, Goto, InUnit, UnitEvents, Ended
  <2>. QED
    BY <1>2, <2>1, <2>2, TypedQuietly
<1>14. ASSUME NEW p \in Procs, OutputLine(p)  PROVE  Typed'
  <2>1. /\ UNCHANGED <<highest, issued, counter, unit, logged, active>>
        /\ tail' \in {"ended", "torn"}
    BY <1>14, <1>2 DEF OutputLine, LineDone, LineFails, Goto, unitVars
  <2>2. \A q \in Procs : InUnit(q)' => InUnit(q)
    BY <1>14, <1>1 DEF OutputLine, LineDone, LineFails, Goto, InUnit, UnitEvents, Ended
  <2>. QED
    BY <1>2, <2>1, <2>2, TypedQuietly
<1>15. ASSUME NEW p \in Procs, ExecuteLine(p)  PROVE  Typed'
  <2>1. /\ UNCHANGED <<highest, issued, counter, unit, logged, active>>
        /\ tail' \in {"ended", "torn"}
    BY <1>15, <1>2 DEF ExecuteLine, LineDone, LineFails, Goto
  <2>2. \A q \in Procs : InUnit(q)' => InUnit(q)
    BY <1>15, <1>1 DEF ExecuteLine, LineDone, LineFails, Goto, InUnit, UnitEvents, Ended
  <2>. QED
    BY <1>2, <2>1, <2>2, TypedQuietly
<1>16. ASSUME NEW p \in Procs, CompleteLine(p)  PROVE  Typed'
  <2>1. /\ UNCHANGED <<highest, issued, counter, unit, logged, active>>
        /\ tail' \in {"ended", "torn"}
    BY <1>16, <1>2 DEF CompleteLine, LineDone, LineFails, Goto
  <2>2. \A q \in Procs : InUnit(q)' => InUnit(q)
    BY <1>16, <1>1 DEF CompleteLine, LineDone, LineFails, Goto, InUnit, UnitEvents, Ended
  <2>. QED
    BY <1>2, <2>1, <2>2, TypedQuietly
<1>17. ASSUME NEW p \in Procs, FailLine(p)  PROVE  Typed'
  <2>1. /\ UNCHANGED <<highest, issued, counter, unit, logged, active>>
        /\ tail' \in {"ended", "torn"}
    BY <1>17, <1>2 DEF FailLine, LineDone, LineFails, Goto
  <2>2. \A q \in Procs : InUnit(q)' => InUnit(q)
    BY <1>17, <1>1 DEF FailLine, LineDone, LineFails, Goto, InUnit, UnitEvents, Ended
  <2>. QED
    BY <1>2, <2>1, <2>2, TypedQuietly
<1>18. ASSUME NEW p \in Procs, BuildHostState(p)  PROVE  Typed'
  <2>1. /\ UNCHANGED <<highest, tail, issued, unit>>
        /\ pc[p] = "boot"
        /\ logged' = [logged EXCEPT ![p] = {}]
        /\ active' = [active EXCEPT ![p] = 0]
        /\ \/ pc' = [pc EXCEPT ![p] = "bind"]
           \/ pc' = [pc EXCEPT ![p] = "enter"]
    BY <1>18 DEF BuildHostState, SeedFromLog, WithoutLog, Goto
  <2>2. counter' \in [Procs -> 0..MaxUnits]
    <3>1. CASE SeedFromLog(p)
      <4>1. PICK n \in {highest} \cup {0} : counter' = [counter EXCEPT ![p] = n]
        BY <3>1 DEF SeedFromLog
      <4>2. n \in 0..MaxUnits
        BY <4>1, ParametersOK DEF Typed
      <4>. QED
        BY <4>1, <4>2 DEF Typed
    <3>2. CASE WithoutLog(p)
      BY <3>2, ParametersOK DEF WithoutLog, Typed
    <3>. QED
      BY <1>18, <3>1, <3>2 DEF BuildHostState
  <2>3. \A q \in Procs : InUnit(q)' => InUnit(q)
    BY <1>1, <2>1 DEF InUnit, UnitEvents
  <2>4. active' \in [Procs -> 0..MaxRequests] /\ logged' \in [Procs -> SUBSET UnitEvents]
    BY <2>1, ParametersOK DEF Typed
  <2>5. \A q \in Procs : InUnit(q)' => unit'[q] \in 1..MaxUnits
    BY <2>1, <2>3 DEF Typed
  <2>. QED
    BY <2>1, <2>2, <2>4, <2>5 DEF Typed
<1>19. ASSUME NEW p \in Procs, WriteText(p)  PROVE  Typed'
  <2>1. /\ UNCHANGED <<pc, counter, unit, active>>
        /\ tail' \in {"ended", "torn"}
    BY <1>19 DEF WriteText, AppendText
  <2>2. \A q \in Procs : InUnit(q)' <=> InUnit(q)
    BY <2>1 DEF InUnit
  <2>3. /\ unit[p] \in 0..MaxUnits /\ 0 \in 0..MaxUnits
        /\ pc[p] \in UnitEvents => unit[p] \in 1..MaxUnits
    BY ParametersOK DEF Typed, InUnit
  <2>4. highest' \in 0..MaxUnits
    BY <1>19, <2>3 DEF WriteText, AppendText, Typed
  <2>5. issued' \in Seq(1..MaxUnits)
    <3>1. CASE pc[p] = "create"
      BY <1>19, <2>3, <3>1 DEF WriteText, Typed, UnitEvents
    <3>2. CASE pc[p] # "create"
      BY <1>19, <3>2 DEF WriteText, Typed
    <3>. QED
      BY <3>1, <3>2
  <2>6. logged' \in [Procs -> SUBSET UnitEvents]
    <3>1. CASE pc[p] \in UnitEvents
      BY <1>19, <3>1 DEF WriteText, Typed
    <3>2. CASE pc[p] \notin UnitEvents
      BY <1>19, <3>2 DEF WriteText, Typed
    <3>. QED
      BY <3>1, <3>2
  <2>. QED
    BY <2>1, <2>2, <2>4, <2>5, <2>6 DEF Typed
<1>20. ASSUME NEW p \in Procs, Enter(p)  PROVE  Typed'
  <2>1. active[p] = 0 /\ ~(active[p] >= MaxRequests)
    BY <1>20, ParametersOK DEF Enter, Permitted, PermitsReturned, InUnit, UnitEvents, Ended
  <2>2. /\ UNCHANGED <<highest, tail, issued>>
        /\ pc' = [pc EXCEPT ![p] = "create"]
        /\ active'  = [active EXCEPT ![p] = 1]
        /\ counter' = [counter EXCEPT ![p] = counter[p] + 1]
        /\ unit'    = [unit EXCEPT ![p] = counter[p] + 1]
        /\ logged'  = [logged EXCEPT ![p] = {}]
        /\ counter[p] < MaxUnits
    BY <1>20, <2>1, <1>2 DEF Enter, Goto, logVars, BelowBound, Typed
  <2>3. counter[p] + 1 \in 1..MaxUnits
    BY <2>2, ParametersOK DEF Typed
  <2>4. \A q \in Procs : InUnit(q)' => unit'[q] \in 1..MaxUnits
    BY <1>1, <2>2, <2>3 DEF Typed, InUnit
  <2>. QED
    BY <2>2, <2>3, <2>4, ParametersOK DEF Typed
<1>21. ASSUME NEW p \in Procs, CreateLine(p)  PROVE  Typed'
  <2>1. /\ UNCHANGED <<highest, issued, counter, unit, logged>>
        /\ tail' \in {"ended", "torn"}
        /\ pc[p] = "create"
    BY <1>21, <1>2 DEF CreateLine, LineDone, LineFails
  <2>2. active[p] = 1
    BY <1>1, <2>1 DEF InUnit, UnitEvents
  <2>3. active' \in [Procs -> 0..MaxRequests]
    BY <1>21, <1>2, <2>2, ParametersOK DEF CreateLine
  <2>4. \A q \in Procs : q # p => pc'[q] = pc[q]
    BY <1>21, <1>1 DEF CreateLine, Goto
  <2>5. InUnit(p)
    BY <2>1 DEF InUnit, UnitEvents
  <2>6. \A q \in Procs : InUnit(q)' => InUnit(q)
    BY <2>4, <2>5 DEF InUnit
  <2>. QED
    BY <2>1, <2>3, <2>6, TypedQuietly
<1>22. ASSUME NEW p \in Procs, DisposeLine(p)  PROVE  Typed'
  <2>1. /\ UNCHANGED <<highest, issued, counter, unit, logged>>
        /\ tail' \in {"ended", "torn"}
        /\ pc[p] = "dispose"
    BY <1>22, <1>2 DEF DisposeLine, LineDone, LineFails
  <2>2. active[p] = 1
    BY <1>1, <2>1 DEF InUnit, UnitEvents
  <2>3. active' \in [Procs -> 0..MaxRequests]
    BY <1>22, <1>2, <2>2, ParametersOK DEF DisposeLine
  <2>4. \A q \in Procs : q # p => pc'[q] = pc[q]
    BY <1>22, <1>1 DEF DisposeLine, Goto
  <2>5. InUnit(p)
    BY <2>1 DEF InUnit, UnitEvents
  <2>6. \A q \in Procs : InUnit(q)' => InUnit(q)
    BY <2>4, <2>5 DEF InUnit
  <2>. QED
    BY <2>1, <2>3, <2>6, TypedQuietly
<1>23. CASE UNCHANGED vars
  BY <1>23 DEF vars, logVars, unitVars, Typed, InUnit
<1>. QED
  BY <1>3, <1>4, <1>5, <1>6, <1>7, <1>8, <1>9, <1>10, <1>11, <1>12, <1>13, <1>14,
      <1>15, <1>16, <1>17, <1>18, <1>19, <1>20, <1>21, <1>22, <1>23
  DEF Next, OwnStep, UnitStep

\* Typed holds of every reachable state.
LEMMA TypedAlways == Spec => []Typed
BY PermittedAlways, TypedInit, TypedStep, PTL DEF Spec

-----------------------------------------------------------------------------
(* What the log holds of the current unit.                                 *)

\* invoke's result agrees with the log.
Justified(p) ==
    /\ result[p] = "ok" =>
          /\ "fail" \notin logged[p]
          /\ lost[p] \subseteq {"dispose"}
          /\ p \in logless \/ {"create", "execute", "complete"} \subseteq logged[p]
    /\ result[p] = "err" =>
          /\ \/ p \in logless
             \/ "fail" \in logged[p]
             \/ lost[p] \cap {"create", "execute", "complete", "fail"} # {}
          /\ "complete" \in logged[p] => "complete" \in lost[p]

\* The lines of a process's unit that are in the log at each of its stages, and those
\* that could not be written.
Stage(p) ==
    /\ pc[p] \in {"create", "execute", "guest", "output"}
         => "complete" \notin logged[p] /\ "fail" \notin logged[p]
    /\ pc[p] \in {"create", "execute", "guest", "output", "complete"} => lost[p] = {}
    /\ pc[p] \in {"create", "execute", "complete", "fail"} /\ p \in half
         => pc[p] \in logged[p]
    /\ pc[p] \in {"execute", "guest", "output", "complete"}
         => p \in logless \/ "create" \in logged[p]
    /\ pc[p] \in {"guest", "output", "complete"}
         => p \in logless \/ "execute" \in logged[p]
    /\ pc[p] = "complete" => "fail" \notin logged[p]
    /\ pc[p] = "complete" /\ p \notin half => "complete" \notin logged[p]
    /\ pc[p] = "fail" => "complete" \notin logged[p]
    /\ pc[p] \in {"dispose", "error", "reply"} => Justified(p)

Reported ==
    /\ logged \in [Procs -> SUBSET UnitEvents]
    /\ lost \in [Procs -> SUBSET LogEvents]
    /\ \A p \in Procs : Stage(p)

\* A step of another process.
LEMMA StageKept ==
  ASSUME NEW q \in Procs, Stage(q),
         pc'[q] = pc[q], result'[q] = result[q], logged'[q] = logged[q], lost'[q] = lost[q],
         q \in half' <=> q \in half, q \in logless' <=> q \in logless
  PROVE  Stage(q)'
BY DEF Stage, Justified

\* Every stage is logged before invoke's result depends on it.
LEMMA ReportedStep == Permitted /\ Reported /\ [Next]_vars => Reported'
<1>. SUFFICES ASSUME Permitted, Reported, [Next]_vars
              PROVE  Reported'
  OBVIOUS
<1>. USE ParametersOK DEF Reported, Stage, Justified, Permitted, LogEvents, UnitEvents, Ended
<1>1. ASSUME NEW p \in Procs, Start(p)  PROVE  Reported'
  BY <1>1 DEF Start, Goto, logVars, unitVars
<1>2. ASSUME NEW p \in Procs, Accept(p)  PROVE  Reported'
  BY <1>2 DEF Accept, Goto, logVars, unitVars
<1>3. ASSUME NEW p \in Procs, BuildHostState(p)  PROVE  Reported'
  BY <1>3 DEF BuildHostState, SeedFromLog, WithoutLog, Goto
<1>4. ASSUME NEW p \in Procs, Bind(p)  PROVE  Reported'
  BY <1>4 DEF Bind, Goto, logVars, unitVars
<1>5. ASSUME NEW p \in Procs, WriteText(p)  PROVE  Reported'
  BY <1>5 DEF WriteText, AppendText
<1>6. ASSUME NEW p \in Procs, ListeningLine(p)  PROVE  Reported'
  BY <1>6 DEF ListeningLine, LineDone, LineFails, Goto, unitVars
<1>7. ASSUME NEW p \in Procs, Enter(p)  PROVE  Reported'
  <2>1. ~(active[p] >= MaxRequests)
    BY <1>7 DEF Enter, Permitted, PermitsReturned, InUnit
  <2>2. /\ pc' = [pc EXCEPT ![p] = "create"] /\ half' = half /\ UNCHANGED result
        /\ logged' = [logged EXCEPT ![p] = {}] /\ lost' = [lost EXCEPT ![p] = {}]
        /\ logless' = logless
    BY <1>7, <2>1 DEF Enter, Goto, logVars
  <2>. QED
    <3>. HIDE DEF Stage
    <3>1. \A q \in Procs : q # p => Stage(q)'
      BY <2>2, StageKept
    <3>2. Stage(p)'
      <4>1. /\ pc'[p] = "create" /\ logged'[p] = {} /\ lost'[p] = {}
            /\ p \notin half'
        BY <1>7, <2>2 DEF Enter
      <4>. HIDE DEF Reported, Permitted
      <4>. QED
        BY <4>1 DEF Stage
    <3>. QED
      BY <2>2, <3>1, <3>2
<1>8. ASSUME NEW p \in Procs, CreateLine(p)  PROVE  Reported'
  BY <1>8 DEF CreateLine, LineDone, LineFails, Returned, Goto
<1>9. ASSUME NEW p \in Procs, ExecuteLine(p)  PROVE  Reported'
  <2>. HIDE DEF Stage
  <2>1. UNCHANGED <<logged, logless>> /\ lost' \in [Procs -> SUBSET LogEvents]
    BY <1>9 DEF ExecuteLine, LineDone, LineFails
  <2>2. ASSUME NEW q \in Procs, q # p  PROVE  Stage(q)'
    <3>1. /\ pc'[q] = pc[q] /\ result'[q] = result[q] /\ lost'[q] = lost[q]
          /\ q \in half' <=> q \in half
      BY <1>9, <2>2 DEF ExecuteLine, LineDone, LineFails, Goto
    <3>. QED
      BY <2>1, <3>1, StageKept
  <2>3. Stage(p)'
    <3>1. Stage(p) /\ pc[p] = "execute" /\ logged'[p] = logged[p] /\ logless' = logless
      BY <1>9, <2>1 DEF ExecuteLine, LineDone, LineFails
    <3>2. CASE LineDone(p, "execute") /\ Goto(p, "guest")
      <4>1. /\ pc'[p] = "guest" /\ lost'[p] = lost[p]
            /\ p \in half \/ p \in logless
        BY <3>2 DEF LineDone, Goto
      <4>. HIDE DEF Reported, Permitted
      <4>. QED
        BY <3>1, <4>1 DEF Stage, Justified
    <3>3. CASE /\ LineFails(p, "execute") /\ Goto(p, "dispose")
               /\ result' = [result EXCEPT ![p] = "err"]
      <4>1. /\ pc'[p] = "dispose" /\ result'[p] = "err" /\ "execute" \in lost'[p]
        BY <3>3 DEF LineFails, Goto
      <4>. HIDE DEF Reported, Permitted
      <4>. QED
        BY <3>1, <4>1 DEF Stage, Justified
    <3>. QED
      BY <1>9, <3>2, <3>3 DEF ExecuteLine
  <2>. QED
    BY <2>1, <2>2, <2>3
<1>10. ASSUME NEW p \in Procs, GuestEnds(p) \/ GuestWrites(p)  PROVE  Reported'
  BY <1>10 DEF GuestEnds, GuestWrites, Goto, logVars, unitVars
<1>11. ASSUME NEW p \in Procs, CompleteLine(p)  PROVE  Reported'
  BY <1>11 DEF CompleteLine, LineDone, LineFails, Goto
<1>12. ASSUME NEW p \in Procs, FailLine(p)  PROVE  Reported'
  BY <1>12 DEF FailLine, LineDone, LineFails, Goto
<1>13. ASSUME NEW p \in Procs, DisposeLine(p)  PROVE  Reported'
  BY <1>13 DEF DisposeLine, LineDone, LineFails, Returned, Goto
<1>14. ASSUME NEW p \in Procs, ErrorLine(p)  PROVE  Reported'
  BY <1>14 DEF ErrorLine, LineDone, LineFails, Goto, unitVars
<1>15. ASSUME NEW p \in Procs, Reply(p)  PROVE  Reported'
  BY <1>15 DEF Reply, Goto, logVars, unitVars
<1>16. ASSUME NEW p \in Procs, ClientFails(p)  PROVE  Reported'
  BY <1>16 DEF ClientFails, Goto, logVars, unitVars
<1>17. ASSUME NEW p \in Procs, Killed(p)  PROVE  Reported'
  BY <1>17 DEF Killed, Goto, unitVars
<1>18. ASSUME NEW p \in Procs, ReadRequest(p)  PROVE  Reported'
  BY <1>18 DEF ReadRequest, Goto, logVars, unitVars
<1>19. ASSUME NEW p \in Procs, OutputLine(p)  PROVE  Reported'
  BY <1>19 DEF OutputLine, LineDone, LineFails, Goto, unitVars
<1>20. CASE UNCHANGED vars
  BY <1>20 DEF vars, logVars, unitVars
<1>. QED
  BY <1>1, <1>2, <1>3, <1>4, <1>5, <1>6, <1>7, <1>8, <1>9, <1>10, <1>11, <1>12, <1>13,
      <1>14, <1>15, <1>16, <1>17, <1>18, <1>19, <1>20
  DEF Next, OwnStep, UnitStep

\* A client is answered 200 only for a unit that wrote every line it owed the log until
\* its completion, and 500 only for one the log shows failed or that could not log a
\* stage, with a log or without.
THEOREM AnswersAlwaysAgree == Spec => []AnswersAgreeWithLog
<1>1. Init => Reported
  BY DEF Init, Reported, Stage, Justified
<1>2. Reported => AnswersAgreeWithLog
  BY DEF Reported, Stage, Justified, AnswersAgreeWithLog
<1>. QED
  BY <1>1, <1>2, ReportedStep, PermittedAlways, PTL DEF Spec
-----------------------------------------------------------------------------
(* Numbering.                                                              *)

\* The log, the counter of a process and the number of its unit at each stage.
Place(p) ==
    /\ p \in half => tail = "torn"
    /\ pc[p] \in {"execute", "output", "complete", "fail", "dispose", "error"}
         => (tail = "torn" <=> p \in half)
    /\ pc[p] \in {"guest", "reply"} => tail = "ended"
    /\ kind[p] = "server" =>
         /\ pc[p] \in {"accept", "read", "enter"} => tail = "ended"
         /\ pc[p] = "create" => (tail = "torn" <=> p \in half)
    /\ pc[p] \in {"bind", "listening", "accept", "read", "enter", "reply", "error"}
         => counter[p] = highest
    /\ pc[p] = "create" =>
         /\ unit[p] = counter[p]
         /\ counter[p] = IF p \in half THEN highest ELSE highest + 1
    /\ pc[p] \in {"execute", "guest", "output", "complete", "fail", "dispose"}
         => unit[p] = highest /\ counter[p] = highest

\* One process at a time writes the log, and knows its highest number.
Counted ==
    /\ highest = Len(issued)
    /\ LogCountsUnits
    /\ \A p, q \in Procs : Logging(p) /\ Logging(q) => p = q
    /\ \A p \in Procs : Logging(p) => Place(p)

Numbered ==
    /\ numbering \in {"sound", "spoilt"}
    /\ numbering = "sound" => Counted

\* The log is empty initially.
LEMMA NumberedInit == Init => Numbered
BY DEF Init, Numbered, Counted, LogCountsUnits, Logging, Ended

\* Nothing restores a numbering that is spoilt.
LEMMA SpoiltStays ==
  Numbered /\ [Next]_vars
    => /\ numbering' \in {"sound", "spoilt"}
       /\ numbering' = "sound" => Counted
BY DEF Numbered, Next, OwnStep, UnitStep, Start, Accept, BuildHostState, SeedFromLog, WithoutLog,
    Bind, WriteText, ListeningLine, Enter, CreateLine, ExecuteLine, GuestEnds, GuestWrites,
    OutputLine, ReadRequest, CompleteLine, FailLine, DisposeLine, ErrorLine, Reply, ClientFails,
    Killed, LineDone, LineFails, logVars, unitVars, vars

\* A step of the process that writes the log.
LEMMA WriterMoves ==
  ASSUME Counted, NEW p \in Procs, Logging(p),
         \A q \in Procs : q # p => pc'[q] = pc[q],
         logless' = logless, highest' = Len(issued'), LogCountsUnits', Place(p)'
  PROVE  Counted'
<1>1. \A q \in Procs : Logging(q)' => q = p
  BY DEF Counted, Logging
<1>. QED
  BY <1>1 DEF Counted

\* A step of a process that has no log.
LEMMA LoglessMoves ==
  ASSUME Counted, NEW p \in Procs, p \in logless,
         \A q \in Procs : q # p => pc'[q] = pc[q] /\ counter'[q] = counter[q]
                                    /\ unit'[q] = unit[q],
         kind' = kind, logless' = logless, highest' = highest, tail' = tail,
         issued' = issued, half' = half
  PROVE  Counted'
BY DEF Counted, Logging, Place, LogCountsUnits

\* A create line is written at the start of a line and carries the next number: the
\* listening line has ended whatever line the previous process left torn.
LEMMA CountedStep ==
  Permitted /\ Typed /\ Counted /\ [Next]_vars /\ numbering' = "sound" => Counted'
<1>. SUFFICES ASSUME Permitted, Typed, Counted, [Next]_vars, numbering' = "sound"
              PROVE  Counted'
  OBVIOUS
<1>. USE ParametersOK
     DEF Counted, Place, LogCountsUnits, Logging, Permitted, Typed, PermitsReturned, InUnit,
      LogEvents, UnitEvents, Ended
<1>0. \A p \in Procs, e \in LogEvents : ~LineFails(p, e)
  BY DEF LineFails
<1>1. ASSUME NEW p \in Procs, Start(p)  PROVE  Counted'
  BY <1>0, <1>1 DEF Start, Goto, logVars, unitVars
<1>2. ASSUME NEW p \in Procs, Accept(p)  PROVE  Counted'
  BY <1>0, <1>2 DEF Accept, Goto, logVars, unitVars
<1>3. ASSUME NEW p \in Procs, BuildHostState(p)  PROVE  Counted'
  BY <1>0, <1>3 DEF BuildHostState, SeedFromLog, WithoutLog, Goto
<1>4. ASSUME NEW p \in Procs, Bind(p)  PROVE  Counted'
  BY <1>0, <1>4 DEF Bind, Goto, logVars, unitVars
<1>5. ASSUME NEW p \in Procs, WriteText(p)  PROVE  Counted'
  <2>1. Logging(p)
    BY <1>5 DEF WriteText
  <2>2. /\ UNCHANGED <<pc, logless, kind, counter, unit>> /\ Place(p)
        /\ half' = half \cup {p} /\ tail' = "torn" /\ p \notin half
        /\ pc[p] \in LogEvents
    BY <1>5, <2>1 DEF WriteText, AppendText
  <2>3. CASE pc[p] = "create"
    <3>1. /\ tail = "ended" /\ unit[p] = highest + 1 /\ counter[p] = highest + 1
          /\ issued' = Append(issued, unit[p]) /\ highest' = highest + 1
      BY <1>5, <2>2, <2>3 DEF WriteText, AppendText
    <3>2. highest' = Len(issued') /\ LogCountsUnits'
      BY <3>1
    <3>3. Place(p)'
      BY <2>2, <2>3, <3>1
    <3>. QED
      BY <2>1, <2>2, <3>2, <3>3, WriterMoves
  <2>4. CASE pc[p] # "create"
    <3>1. issued' = issued /\ highest' = highest
      BY <1>5, <2>2, <2>4 DEF WriteText, AppendText
    <3>2. Place(p)'
      BY <2>2, <2>4, <3>1
    <3>. QED
      BY <2>1, <2>2, <3>1, <3>2, WriterMoves
  <2>. QED
    BY <2>3, <2>4
<1>6. ASSUME NEW p \in Procs, ListeningLine(p)  PROVE  Counted'
  <2>1. CASE p \in logless
    <3>1. /\ \A q \in Procs : q # p => pc'[q] = pc[q] /\ counter'[q] = counter[q]
                                       /\ unit'[q] = unit[q]
          /\ kind' = kind /\ logless' = logless /\ highest' = highest /\ tail' = tail
          /\ issued' = issued /\ half' = half
      BY <1>0, <1>6, <2>1 DEF ListeningLine, LineDone, Goto, unitVars
    <3>. HIDE DEF Counted, Place, LogCountsUnits, Logging, Permitted, Typed
    <3>. QED
      BY <2>1, <3>1, LoglessMoves
  <2>2. CASE p \notin logless
    <3>1. /\ Logging(p) /\ logless' = logless /\ UNCHANGED <<highest, issued>>
          /\ \A q \in Procs : q # p => pc'[q] = pc[q]
      BY <1>0, <1>6, <2>2 DEF ListeningLine, LineDone, Goto, unitVars
    <3>2. Place(p)'
      BY <1>0, <1>6, <2>2, <3>1 DEF ListeningLine, LineDone, Goto, unitVars
    <3>. QED
      BY <3>1, <3>2, WriterMoves
  <2>. QED
    BY <2>1, <2>2
<1>7. ASSUME NEW p \in Procs, Enter(p)  PROVE  Counted'
  <2>1. CASE p \in logless
    <3>1. /\ \A q \in Procs : q # p => pc'[q] = pc[q] /\ counter'[q] = counter[q]
                                       /\ unit'[q] = unit[q]
          /\ kind' = kind /\ logless' = logless /\ highest' = highest /\ tail' = tail
          /\ issued' = issued /\ half' = half
      BY <1>0, <1>7, <2>1 DEF Enter, BelowBound, Returned, Goto, logVars
    <3>. HIDE DEF Counted, Place, LogCountsUnits, Logging, Permitted, Typed
    <3>. QED
      BY <2>1, <3>1, LoglessMoves
  <2>2. CASE p \notin logless
    <3>1. /\ Logging(p) /\ logless' = logless /\ UNCHANGED <<highest, issued>>
          /\ \A q \in Procs : q # p => pc'[q] = pc[q]
      BY <1>0, <1>7, <2>2 DEF Enter, BelowBound, Returned, Goto, logVars
    <3>2. /\ pc[p] = "enter" /\ pc'[p] = "create" /\ UNCHANGED <<tail, half, kind, highest>>
          /\ counter'[p] = counter[p] + 1 /\ unit'[p] = counter[p] + 1
      <4>1. pc[p] = "enter"
        BY <1>7 DEF Enter
      <4>. HIDE DEF Counted, Place, Typed, Logging
      <4>2. active[p] = 0
        BY <4>1
      <4>3. ~(active[p] >= MaxRequests)
        BY <4>2
      <4>. QED
        BY <1>7, <4>1, <4>3 DEF Enter, Goto, logVars, Typed
    <3>3. Place(p) /\ p \notin half
      BY <3>1, <3>2
    <3>4. Place(p)'
      BY <3>2, <3>3
    <3>. QED
      BY <3>1, <3>4, WriterMoves
  <2>. QED
    BY <2>1, <2>2
<1>8. ASSUME NEW p \in Procs, CreateLine(p)  PROVE  Counted'
  <2>1. CASE p \in logless
    <3>1. /\ \A q \in Procs : q # p => pc'[q] = pc[q] /\ counter'[q] = counter[q]
                                       /\ unit'[q] = unit[q]
          /\ kind' = kind /\ logless' = logless /\ highest' = highest /\ tail' = tail
          /\ issued' = issued /\ half' = half
      BY <1>0, <1>8, <2>1 DEF CreateLine, LineDone, Returned, Goto
    <3>. HIDE DEF Counted, Place, LogCountsUnits, Logging, Permitted, Typed
    <3>. QED
      BY <2>1, <3>1, LoglessMoves
  <2>2. CASE p \notin logless
    <3>1. /\ Logging(p) /\ logless' = logless /\ UNCHANGED <<highest, issued>>
          /\ \A q \in Procs : q # p => pc'[q] = pc[q]
      BY <1>0, <1>8, <2>2 DEF CreateLine, LineDone, Returned, Goto
    <3>2. Place(p)'
      BY <1>0, <1>8, <2>2, <3>1 DEF CreateLine, LineDone, Returned, Goto
    <3>. QED
      BY <3>1, <3>2, WriterMoves
  <2>. QED
    BY <2>1, <2>2
<1>9. ASSUME NEW p \in Procs, ExecuteLine(p)  PROVE  Counted'
  <2>1. CASE p \in logless
    <3>1. /\ \A q \in Procs : q # p => pc'[q] = pc[q] /\ counter'[q] = counter[q]
                                       /\ unit'[q] = unit[q]
          /\ kind' = kind /\ logless' = logless /\ highest' = highest /\ tail' = tail
          /\ issued' = issued /\ half' = half
      BY <1>0, <1>9, <2>1 DEF ExecuteLine, LineDone, Goto
    <3>. HIDE DEF Counted, Place, LogCountsUnits, Logging, Permitted, Typed
    <3>. QED
      BY <2>1, <3>1, LoglessMoves
  <2>2. CASE p \notin logless
    <3>1. /\ Logging(p) /\ logless' = logless /\ UNCHANGED <<highest, issued>>
          /\ \A q \in Procs : q # p => pc'[q] = pc[q]
      BY <1>0, <1>9, <2>2 DEF ExecuteLine, LineDone, Goto
    <3>2. Place(p)'
      BY <1>0, <1>9, <2>2, <3>1 DEF ExecuteLine, LineDone, Goto
    <3>. QED
      BY <3>1, <3>2, WriterMoves
  <2>. QED
    BY <2>1, <2>2
<1>10. ASSUME NEW p \in Procs, GuestEnds(p)  PROVE  Counted'
  BY <1>0, <1>10 DEF GuestEnds, Goto, logVars, unitVars
<1>11. ASSUME NEW p \in Procs, GuestWrites(p)  PROVE  Counted'
  BY <1>0, <1>11 DEF GuestWrites, Goto, logVars, unitVars
<1>12. ASSUME NEW p \in Procs, CompleteLine(p)  PROVE  Counted'
  BY <1>0, <1>12 DEF CompleteLine, LineDone, Goto
<1>13. ASSUME NEW p \in Procs, FailLine(p)  PROVE  Counted'
  BY <1>0, <1>13 DEF FailLine, LineDone, Goto
<1>14. ASSUME NEW p \in Procs, DisposeLine(p)  PROVE  Counted'
  BY <1>0, <1>14 DEF DisposeLine, LineDone, Returned, Goto
<1>15. ASSUME NEW p \in Procs, ErrorLine(p)  PROVE  Counted'
  <2>1. CASE p \in logless
    <3>1. /\ \A q \in Procs : q # p => pc'[q] = pc[q] /\ counter'[q] = counter[q]
                                       /\ unit'[q] = unit[q]
          /\ kind' = kind /\ logless' = logless /\ highest' = highest /\ tail' = tail
          /\ issued' = issued /\ half' = half
      BY <1>0, <1>15, <2>1 DEF ErrorLine, LineDone, Goto, unitVars
    <3>. HIDE DEF Counted, Place, LogCountsUnits, Logging, Permitted, Typed
    <3>. QED
      BY <2>1, <3>1, LoglessMoves
  <2>2. CASE p \notin logless
    <3>1. /\ Logging(p) /\ logless' = logless /\ UNCHANGED <<highest, issued>>
          /\ \A q \in Procs : q # p => pc'[q] = pc[q]
      BY <1>0, <1>15, <2>2 DEF ErrorLine, LineDone, Goto, unitVars
    <3>2. Place(p)'
      BY <1>0, <1>15, <2>2, <3>1 DEF ErrorLine, LineDone, Goto, unitVars
    <3>. QED
      BY <3>1, <3>2, WriterMoves
  <2>. QED
    BY <2>1, <2>2
<1>16. ASSUME NEW p \in Procs, Reply(p)  PROVE  Counted'
  BY <1>0, <1>16 DEF Reply, Goto, logVars, unitVars
<1>17. ASSUME NEW p \in Procs, ClientFails(p)  PROVE  Counted'
  BY <1>0, <1>17 DEF ClientFails, Goto, logVars, unitVars
<1>18. ASSUME NEW p \in Procs, Killed(p)  PROVE  Counted'
  BY <1>0, <1>18 DEF Killed, Goto, unitVars
<1>19. ASSUME NEW p \in Procs, ReadRequest(p)  PROVE  Counted'
  BY <1>0, <1>19 DEF ReadRequest, Goto, logVars, unitVars
<1>20. ASSUME NEW p \in Procs, OutputLine(p)  PROVE  Counted'
  <2>1. CASE p \in logless
    <3>1. /\ \A q \in Procs : q # p => pc'[q] = pc[q] /\ counter'[q] = counter[q]
                                       /\ unit'[q] = unit[q]
          /\ kind' = kind /\ logless' = logless /\ highest' = highest /\ tail' = tail
          /\ issued' = issued /\ half' = half
      BY <1>0, <1>20, <2>1 DEF OutputLine, LineDone, Goto, unitVars
    <3>. HIDE DEF Counted, Place, LogCountsUnits, Logging, Permitted, Typed
    <3>. QED
      BY <2>1, <3>1, LoglessMoves
  <2>2. CASE p \notin logless
    <3>1. /\ Logging(p) /\ logless' = logless /\ UNCHANGED <<highest, issued>>
          /\ \A q \in Procs : q # p => pc'[q] = pc[q]
      BY <1>0, <1>20, <2>2 DEF OutputLine, LineDone, Goto, unitVars
    <3>2. Place(p)'
      BY <1>0, <1>20, <2>2, <3>1 DEF OutputLine, LineDone, Goto, unitVars
    <3>. QED
      BY <3>1, <3>2, WriterMoves
  <2>. QED
    BY <2>1, <2>2
<1>21. CASE UNCHANGED vars
  BY <1>0, <1>21 DEF vars, logVars, unitVars
<1>. QED
  BY <1>1, <1>2, <1>3, <1>4, <1>5, <1>6, <1>7, <1>8, <1>9, <1>10, <1>11, <1>12, <1>13,
      <1>14, <1>15, <1>16, <1>17, <1>18, <1>19, <1>20, <1>21
  DEF Next, OwnStep, UnitStep

LEMMA NumberedStep == Permitted /\ Typed /\ Numbered /\ [Next]_vars => Numbered'
BY SpoiltStays, CountedStep DEF Numbered

\* For any number of processes: until two that write the log overlap, the log fails, or
\* the torn line of a killed process is followed by a one-shot unit, units are numbered
\* 1, 2, 3, ... without a gap or a repetition, wherever the processes are killed.
THEOREM NthUnitAlwaysNumberN == Spec => []NthUnitIsNumberN
<1>1. Permitted /\ Typed /\ Numbered /\ [Next]_vars => Numbered'
  BY NumberedStep
<1>2. Numbered => NthUnitIsNumberN
  BY DEF Numbered, Counted, NthUnitIsNumberN
<1>. QED
  BY <1>1, <1>2, NumberedInit, PermittedAlways, TypedAlways, PTL DEF Spec

\* Every variable keeps its type, the log and the counters stay inside the bound, and
\* the permits never exceed max_concurrent_requests.
THEOREM UnitsTyped == Spec => []TypeOK
<1>1. Permitted /\ Typed /\ Reported /\ Numbered => TypeOK
  BY DEF Permitted, Typed, Reported, Numbered, TypeOK
<1>2. Init => Reported
  BY DEF Init, Reported, Stage, Justified
<1>3. Permitted /\ Reported /\ [Next]_vars => Reported'
  BY ReportedStep
<1>4. Permitted /\ Typed /\ Numbered /\ [Next]_vars => Numbered'
  BY NumberedStep
<1>. QED
  BY <1>1, <1>2, <1>3, <1>4, NumberedInit, PermittedAlways, TypedAlways, PTL DEF Spec
=============================================================================
