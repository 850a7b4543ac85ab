------------------------ MODULE StateProvidersProofs ------------------------
(***************************************************************************)
(* Theorems about StateProviders, for any number of guests, keys, values   *)
(* and files, any nesting of the paths and any faults.                     *)
(***************************************************************************)
EXTENDS StateProviders, TLAPS

FileSteps  == {"mkdir", "open", "fill", "scan", "unlink"}
FeltSteps  == {"get", "put", "remove"}
Outcomes   == Contents \cup {"done", "broken", Failed}

-----------------------------------------------------------------------------
(* Types, steps and files.                                                 *)

\* The types alone.
Types ==
    /\ provider \in {"filesystem", "feltdb"}
    /\ name \in [Keys -> Files \cup {NoFile}]
    /\ data \in [Files -> Values \cup {Empty, Mixed}]
    /\ dirs \subseteq Keys
    /\ db   \in [Keys -> Values \cup {Missing}]
    /\ pc   \in [Calls -> Steps]
    /\ call \in [Calls -> Requests \cup {Idle}]
    /\ open \in [Calls -> Files \cup {NoFile}]
    /\ found \subseteq Calls /\ orphans \subseteq Calls /\ alone \subseteq Calls
    /\ answer  \in [Calls -> Outcomes \cup {Idle}]
    /\ settled \in [Keys -> Contents \cup {"unsettled"}]

\* A call is at a step of its own operation and of the provider in use.
Staged ==
    \A c \in Calls :
        /\ pc[c] = "idle" <=> call[c] = Idle
        /\ pc[c] = "done" <=> answer[c] # Idle
        /\ pc[c] \in FileSteps => provider = "filesystem"
        /\ pc[c] \in FeltSteps => provider = "feltdb"
        /\ pc[c] \in {"mkdir", "fill", "put"} => call[c].op = "write"
        /\ pc[c] \in {"open", "get"}          => call[c].op \in {"read", "write"}
        /\ pc[c] = "scan"                     => call[c].op = "read"
        /\ pc[c] \in {"unlink", "remove"}     => call[c].op = "delete"

\* A call has a file open between open and close; the file has no name but the one
\* the call asked for, no two names are one file, and a directory is above some key
\* and is no file.
Linked ==
    /\ \A c \in Calls : open[c] # NoFile <=> pc[c] \in {"fill", "scan"}
    /\ \A c \in Calls, k \in Keys : open[c] # NoFile /\ name[k] = open[c] => k = call[c].key
    /\ \A j, k \in Keys : name[j] = name[k] /\ name[j] # NoFile => j = k
    /\ \A k \in dirs : name[k] = NoFile /\ \E j \in Keys : <<k, j>> \in Below

Sound == Types /\ Staged /\ Linked

\* What a request consists of.
LEMMA RequestIs ==
    ASSUME NEW r \in Requests
    PROVE  /\ r.key \in Keys
           /\ r.op \in {"read", "write", "delete"}
           /\ r.op = "write" => r.value \in Values
           /\ r # Idle
           /\ r \in Abstract!Requests
BY ProvidersOK DEF Requests, Abstract!Requests

\* What a call asks for, once it has begun.
LEMMA CallIs ==
    ASSUME Types, Staged, NEW c \in Calls, pc[c] # "idle"
    PROVE  /\ call[c] \in Requests
           /\ call[c].key \in Keys
           /\ call[c].op \in {"read", "write", "delete"}
           /\ call[c].op = "write" => call[c].value \in Values
<1>1. call[c] \in Requests
  BY DEF Types, Staged
<1>. QED
  BY <1>1, RequestIs

\* The end of an operation.
LEMMA OutcomeIs ==
    ASSUME Types, Staged, NEW c \in Calls, pc[c] # "idle", NEW x \in Outcomes, Outcome(c, x)
    PROVE  /\ pc' = [pc EXCEPT ![c] = "done"] /\ pc' \in [Calls -> Steps]
           /\ answer' = [answer EXCEPT ![c] = x] /\ answer' \in [Calls -> Outcomes \cup {Idle}]
           /\ x # Idle
           /\ alone' = alone \ {c} /\ alone' \subseteq Calls
           /\ settled' \in [Keys -> Contents \cup {"unsettled"}]
<1>1. x # Idle
  BY ProvidersOK DEF Outcomes
<1>2. (IF call[c].op = "write" THEN call[c].value ELSE Missing) \in Contents
  BY CallIs DEF Contents
<1>3. settled' \in [Keys -> Contents \cup {"unsettled"}]
  BY <1>2 DEF Outcome, Types
<1>. QED
  BY <1>1, <1>3 DEF Outcome, Types, Steps

\* No call, no file and no record at first.
LEMMA SoundInit == Init => Sound
<1>. SUFFICES ASSUME Init  PROVE  Sound
  OBVIOUS
<1>1. Idle \notin Outcomes /\ provider \in {"filesystem", "feltdb"}
  BY ProvidersOK DEF Init, Outcomes
<1>2. Types
  BY <1>1 DEF Init, Types, Steps, Contents
<1>3. Staged /\ Linked
  BY DEF Init, Staged, Linked, FileSteps, FeltSteps
<1>. QED
  BY <1>2, <1>3 DEF Sound

\* A call that has no file open any more, whatever file it removed.
LEMMA ClosedLinked ==
    ASSUME Sound, NEW c \in Calls,
           open' = open \/ open' = [open EXCEPT ![c] = NoFile],
           open'[c] = NoFile,
           pc'[c] \notin {"fill", "scan"},
           \A d \in Calls : d # c => pc'[d] = pc[d],
           \A k \in Keys : name'[k] \in {name[k], NoFile},
           UNCHANGED <<call, dirs>>
    PROVE  Linked'
<1>. USE DEF Sound, Types, Linked
<1>1. \A d \in Calls : d # c => open'[d] = open[d]
  OBVIOUS
<1>2. \A d \in Calls : open'[d] # NoFile <=> pc'[d] \in {"fill", "scan"}
  BY <1>1
<1>3. \A d \in Calls, k \in Keys :
        open'[d] # NoFile /\ name'[k] = open'[d] => k = call'[d].key
  BY <1>1
<1>4. \A j, k \in Keys : name'[j] = name'[k] /\ name'[j] # NoFile => j = k
  OBVIOUS
<1>5. \A k \in dirs' : name'[k] = NoFile /\ \E j \in Keys : <<k, j>> \in Below
  OBVIOUS
<1>. QED
  BY <1>2, <1>3, <1>4, <1>5

\* Every system call keeps directories, files and open files consistent.
LEMMA SoundStep == Sound /\ [Next]_vars => Sound'
<1>. SUFFICES ASSUME Sound, [Next]_vars
              PROVE  Sound'
  OBVIOUS
<1>. USE DEF Sound
<1>1. ASSUME NEW c \in Calls, NEW r \in Requests, Begin(c, r)  PROVE  Sound'
  <2>1. Types'
    <3>1. settled' \in [Keys -> Contents \cup {"unsettled"}]
      BY <1>1 DEF Begin, Types
    <3>2. alone' \subseteq Calls
      BY <1>1 DEF Begin, Types
    <3>3. FirstStep(r) \in Steps
      BY RequestIs DEF FirstStep, Steps
    <3>. QED
      BY <1>1, <3>1, <3>2, <3>3 DEF Begin, Types, stateVars
  <2>2. /\ r # Idle /\ pc[c] = "idle"
        /\ pc' = [pc EXCEPT ![c] = FirstStep(r)] /\ pc'[c] = FirstStep(r)
        /\ call' = [call EXCEPT ![c] = r] /\ call'[c] = r
        /\ r.op \in {"read", "write", "delete"}
        /\ UNCHANGED <<provider, answer, open, name, dirs>>
    BY <1>1, RequestIs DEF Begin, Types, stateVars
  <2>3. Staged'
    BY <2>2 DEF Types, FirstStep, Staged, FileSteps, FeltSteps
  <2>4. Linked'
    BY <2>2 DEF Types, FirstStep, Linked
  <2>. QED
    BY <2>1, <2>3, <2>4
<1>2. ASSUME NEW c \in Calls, pc[c] # "idle", Ends(c)  PROVE  Sound'
  <2>1. Types'
    BY <1>2 DEF Ends, stateVars, Types, Steps
  <2>2. Staged'
    BY <1>2 DEF Ends, stateVars, Types, Staged, FileSteps, FeltSteps
  <2>3. Linked'
    BY <1>2 DEF Ends, stateVars, Types, Linked
  <2>. QED
    BY <2>1, <2>2, <2>3
<1>3. ASSUME NEW c \in Calls, HostFails(c)  PROVE  Sound'
  <2>1. pc[c] \notin {"idle", "done"} /\ "broken" \in Outcomes
    BY <1>3 DEF HostFails, InFlight, Outcomes
  <2>2. Types'
    BY <1>3, <2>1, OutcomeIs DEF HostFails, Types, stateVars
  <2>3. Staged'
    BY <1>3, <2>1, OutcomeIs DEF HostFails, Types, Staged, stateVars, FileSteps, FeltSteps
  <2>4. Linked'
    BY <1>3, <2>1, OutcomeIs DEF HostFails, Types, Linked, stateVars
  <2>. QED
    BY <2>2, <2>3, <2>4
<1>4. ASSUME NEW c \in Calls, ProcessKilled(c)  PROVE  Sound'
  <2>1. CASE provider = "feltdb" /\ InFlight(c)
    <3>1. /\ orphans' = orphans \cup {c}
          /\ UNCHANGED <<provider, name, data, dirs, db, pc, call, open, found, answer,
                         alone, settled>>
      BY <1>4, <2>1 DEF ProcessKilled, stateVars, history
    <3>2. Types'
      BY <3>1 DEF Types
    <3>3. Staged' /\ Linked'
      BY <3>1 DEF Staged, Linked
    <3>. QED
      BY <3>2, <3>3
  <2>2. CASE ~ (provider = "feltdb" /\ InFlight(c))
    BY <1>4, <1>2, <2>2 DEF ProcessKilled
  <2>. QED
    BY <2>1, <2>2
<1>5. ASSUME NEW c \in Calls, BridgeKilled(c)  PROVE  Sound'
  <2>1. pc[c] \notin {"idle", "done"} /\ "broken" \in Outcomes /\ provider = "feltdb"
    BY <1>5 DEF BridgeKilled, InFlight, Outcomes
  <2>2. CASE c \in orphans
    BY <1>5, <1>2, <2>1, <2>2 DEF BridgeKilled
  <2>3. CASE c \notin orphans
    <3>1. Outcome(c, "broken") /\ UNCHANGED <<provider, stateVars, call, open, found, orphans>>
      BY <1>5, <2>3 DEF BridgeKilled
    <3>2. Types'
      BY <3>1, <2>1, OutcomeIs DEF Types, stateVars
    <3>3. Staged'
      BY <3>1, <2>1, OutcomeIs DEF Types, Staged, stateVars, FileSteps, FeltSteps
    <3>4. open[c] = NoFile /\ pc' = [pc EXCEPT ![c] = "done"]
      BY <2>1, <3>1 DEF Types, Staged, Linked, FileSteps, Outcome
    <3>5. Linked'
      BY <3>1, <3>4, ClosedLinked DEF Types, stateVars
    <3>. QED
      BY <3>2, <3>3, <3>5
  <2>. QED
    BY <2>2, <2>3
<1>6. ASSUME NEW c \in Calls, MakeParents(c)  PROVE  Sound'
  <2>. DEFINE above == {j \in Keys : <<j, call[c].key>> \in Below}
  <2>1. /\ pc[c] = "mkdir" /\ Failed \in Outcomes /\ call[c].key \in Keys
        /\ open[c] = NoFile
        /\ UNCHANGED <<provider, name, data, db, call, open, found, orphans>>
    BY <1>6, CallIs DEF MakeParents, Outcomes, callVars, Linked, Types
  <2>2. CASE \A j \in above : name[j] = NoFile
    <3>1. /\ dirs' = dirs \cup above
          /\ pc' = [pc EXCEPT ![c] = "open"]
          /\ UNCHANGED <<answer, alone, settled>>
      BY <1>6, <2>2 DEF MakeParents, Continue, history
    <3>2. Types'
      BY <2>1, <3>1 DEF Types, Steps
    <3>3. Staged'
      BY <2>1, <3>1 DEF Types, Staged, FileSteps, FeltSteps
    <3>4. Linked'
      <4>1. \A k \in dirs' : name'[k] = NoFile /\ \E j \in Keys : <<k, j>> \in Below
        BY <2>1, <2>2, <3>1 DEF Linked
      <4>2. \A d \in Calls : open'[d] # NoFile <=> pc'[d] \in {"fill", "scan"}
        BY <2>1, <3>1 DEF Linked, Types
      <4>. QED
        BY <2>1, <4>1, <4>2 DEF Linked
    <3>. QED
      BY <3>2, <3>3, <3>4
  <2>3. CASE ~ \A j \in above : name[j] = NoFile
    <3>1. Outcome(c, Failed) /\ UNCHANGED dirs
      BY <1>6, <2>3 DEF MakeParents
    <3>2. Types'
      BY <2>1, <3>1, OutcomeIs DEF Types
    <3>3. Staged'
      BY <2>1, <3>1, OutcomeIs DEF Types, Staged, FileSteps, FeltSteps
    <3>4. pc' = [pc EXCEPT ![c] = "done"]
      BY <3>1 DEF Outcome
    <3>5. Linked'
      BY <2>1, <3>1, <3>4, ClosedLinked DEF Types
    <3>. QED
      BY <3>2, <3>3, <3>5
  <2>. QED
    BY <2>2, <2>3
<1>7. ASSUME NEW c \in Calls, OpenFile(c)  PROVE  Sound'
  <2>. DEFINE k == call[c].key
  <2>1. /\ pc[c] = "open" /\ k \in Keys /\ k \notin dirs /\ call[c].op = "write"
        /\ open[c] = NoFile
        /\ UNCHANGED <<provider, dirs, db, call, found, orphans, answer, alone, settled>>
        /\ pc' = [pc EXCEPT ![c] = "fill"]
    BY <1>7, CallIs DEF OpenFile, Continue, history, Linked, Types
  <2>2. PICK f \in IF name[k] = NoFile THEN FreeFiles ELSE {name[k]} :
           /\ name' = [name EXCEPT ![k] = f]
           /\ data' = [data EXCEPT ![f] = Empty]
           /\ open' = [open EXCEPT ![c] = f]
    BY <1>7 DEF OpenFile
  <2>3. /\ f \in Files /\ f # NoFile
        /\ \A j \in Keys : name[j] = f => j = k
        /\ \A d \in Calls : open[d] = f => name[k] = f
    BY <2>1, <2>2, ProvidersOK DEF FreeFiles, Types, Linked
  <2>4. Types'
    BY <2>1, <2>2, <2>3 DEF Types, Steps
  <2>5. Staged'
    BY <2>1 DEF Types, Staged, FileSteps, FeltSteps
  <2>6. Linked'
    <3>1. \A d \in Calls : open'[d] # NoFile <=> pc'[d] \in {"fill", "scan"}
      BY <2>1, <2>2, <2>3 DEF Types, Linked
    <3>2. \A d \in Calls, j \in Keys :
             open'[d] # NoFile /\ name'[j] = open'[d] => j = call'[d].key
      BY <2>1, <2>2, <2>3 DEF Types, Linked
    <3>3. \A i, j \in Keys : name'[i] = name'[j] /\ name'[i] # NoFile => i = j
      BY <2>1, <2>2, <2>3 DEF Types, Linked
    <3>4. \A j \in dirs' : name'[j] = NoFile /\ \E i \in Keys : <<j, i>> \in Below
      BY <2>1, <2>2, <2>3 DEF Types, Linked
    <3>. QED
      BY <3>1, <3>2, <3>3, <3>4 DEF Linked
  <2>. QED
    BY <2>4, <2>5, <2>6
<1>10. ASSUME NEW c \in Calls, OpenToRead(c)  PROVE  Sound'
  <2>. DEFINE k == call[c].key
  <2>1. /\ pc[c] = "open" /\ k \in Keys /\ name[k] \in Files /\ name[k] # NoFile
        /\ call[c].op = "read" /\ open[c] = NoFile
        /\ open' = [open EXCEPT ![c] = name[k]]
        /\ pc' = [pc EXCEPT ![c] = "scan"]
        /\ UNCHANGED <<provider, name, data, dirs, db, call, found, orphans, answer, alone, settled>>
    BY <1>10, CallIs DEF OpenToRead, Continue, history, stateVars, Linked, Types
  <2>2. Types'
    BY <2>1 DEF Types, Steps
  <2>3. Staged'
    BY <2>1 DEF Types, Staged, FileSteps, FeltSteps
  <2>4. Linked'
    <3>1. \A d \in Calls : open'[d] # NoFile <=> pc'[d] \in {"fill", "scan"}
      BY <2>1 DEF Types, Linked
    <3>2. \A d \in Calls, j \in Keys :
             open'[d] # NoFile /\ name'[j] = open'[d] => j = call'[d].key
      BY <2>1 DEF Types, Linked
    <3>. QED
      BY <2>1, <3>1, <3>2 DEF Linked
  <2>. QED
    BY <2>2, <2>3, <2>4
<1>8. ASSUME NEW c \in Calls, OpenFails(c)  PROVE  Sound'
  <2>1. /\ pc[c] = "open" /\ Failed \in Outcomes /\ open[c] = NoFile
        /\ UNCHANGED <<provider, name, data, dirs, db, call, open, found, orphans>>
    BY <1>8, CallIs DEF OpenFails, Outcomes, Contents, Types, Staged, Linked, stateVars, callVars
  <2>2. PICK x \in Outcomes : Outcome(c, x)
    BY <1>8, <2>1 DEF OpenFails
  <2>3. pc' = [pc EXCEPT ![c] = "done"]
    BY <2>2 DEF Outcome
  <2>4. Types'
    BY <2>1, <2>2, OutcomeIs DEF Types
  <2>5. Staged'
    BY <2>1, <2>2, OutcomeIs DEF Types, Staged, FileSteps, FeltSteps
  <2>6. Linked'
    BY <2>1, <2>3, ClosedLinked DEF Types
  <2>. QED
    BY <2>4, <2>5, <2>6
<1>9. ASSUME NEW c \in Calls, FillFile(c)  PROVE  Sound'
  <2>1. /\ pc[c] = "fill" /\ "done" \in Outcomes
        /\ data' \in [Files -> Values \cup {Empty, Mixed}]
        /\ open' = [open EXCEPT ![c] = NoFile]
        /\ UNCHANGED <<provider, name, dirs, db, call, found, orphans>>
    BY <1>9, CallIs DEF FillFile, Outcomes, Contents, Types, Staged, Linked, stateVars, callVars
  <2>2. PICK x \in Outcomes : Outcome(c, x)
    BY <1>9, <2>1 DEF FillFile
  <2>3. pc' = [pc EXCEPT ![c] = "done"]
    BY <2>2 DEF Outcome
  <2>4. Types'
    BY <2>1, <2>2, OutcomeIs DEF Types
  <2>5. Staged'
    BY <2>1, <2>2, OutcomeIs DEF Types, Staged, FileSteps, FeltSteps
  <2>6. Linked'
    BY <2>1, <2>3, ClosedLinked DEF Types
  <2>. QED
    BY <2>4, <2>5, <2>6
<1>11. ASSUME NEW c \in Calls, ReadFile(c)  PROVE  Sound'
  <2>1. /\ pc[c] = "scan" /\ data[open[c]] \in Outcomes
        /\ open' = [open EXCEPT ![c] = NoFile]
        /\ UNCHANGED <<provider, name, data, dirs, db, call, found, orphans>>
    BY <1>11, CallIs DEF ReadFile, Outcomes, Contents, Types, Staged, Linked, stateVars, callVars
  <2>2. PICK x \in Outcomes : Outcome(c, x)
    BY <1>11, <2>1 DEF ReadFile
  <2>3. pc' = [pc EXCEPT ![c] = "done"]
    BY <2>2 DEF Outcome
  <2>4. Types'
    BY <2>1, <2>2, OutcomeIs DEF Types
  <2>5. Staged'
    BY <2>1, <2>2, OutcomeIs DEF Types, Staged, FileSteps, FeltSteps
  <2>6. Linked'
    BY <2>1, <2>3, ClosedLinked DEF Types
  <2>. QED
    BY <2>4, <2>5, <2>6
<1>12. ASSUME NEW c \in Calls, Unlink(c)  PROVE  Sound'
  <2>1. /\ pc[c] = "unlink" /\ {"done", Failed} \subseteq Outcomes /\ open[c] = NoFile
        /\ name' = name \/ name' = [name EXCEPT ![call[c].key] = NoFile]
        /\ call[c].key \in Keys
        /\ UNCHANGED <<provider, data, dirs, db, call, open, found, orphans>>
    BY <1>12, CallIs DEF Unlink, Outcomes, Contents, Types, Staged, Linked, stateVars, callVars
  <2>2. PICK x \in Outcomes : Outcome(c, x)
    BY <1>12, <2>1 DEF Unlink
  <2>3. pc' = [pc EXCEPT ![c] = "done"]
    BY <2>2 DEF Outcome
  <2>4. Types'
    BY <2>1, <2>2, OutcomeIs DEF Types
  <2>5. Staged'
    BY <2>1, <2>2, OutcomeIs DEF Types, Staged, FileSteps, FeltSteps
  <2>6. Linked'
    BY <2>1, <2>3, ClosedLinked DEF Types
  <2>. QED
    BY <2>4, <2>5, <2>6
<1>13. ASSUME NEW c \in Calls, Get(c)  PROVE  Sound'
  <2>1. /\ pc[c] = "get" /\ db[call[c].key] \in Outcomes /\ Failed \in Outcomes
        /\ open[c] = NoFile /\ call[c].op \in {"read", "write"}
        /\ UNCHANGED <<provider, name, data, dirs, db, call, open, orphans>>
    BY <1>13, CallIs DEF Get, Outcomes, Contents, Types, Staged, Linked, stateVars
  <2>2. CASE call[c].op = "read"
    <3>1. PICK x \in Outcomes : Outcome(c, x) /\ UNCHANGED found
      BY <1>13, <2>1, <2>2 DEF Get
    <3>2. pc' = [pc EXCEPT ![c] = "done"]
      BY <3>1 DEF Outcome
    <3>3. Types'
      BY <2>1, <3>1, OutcomeIs DEF Types
    <3>4. Staged'
      BY <2>1, <3>1, OutcomeIs DEF Types, Staged, FileSteps, FeltSteps
    <3>5. Linked'
      BY <2>1, <3>2, ClosedLinked DEF Types
    <3>. QED
      BY <3>3, <3>4, <3>5
  <2>3. CASE call[c].op # "read"
    <3>1. /\ pc' = [pc EXCEPT ![c] = "put"]
          /\ found' \subseteq Calls
          /\ UNCHANGED <<answer, alone, settled>>
      BY <1>13, <2>3 DEF Get, Continue, history, Types
    <3>2. Types'
      BY <2>1, <3>1 DEF Types, Steps
    <3>3. Staged'
      BY <2>1, <2>3, <3>1 DEF Types, Staged, FileSteps, FeltSteps
    <3>4. Linked'
      BY <2>1, <3>1, ClosedLinked DEF Types
    <3>. QED
      BY <3>2, <3>3, <3>4
  <2>. QED
    BY <2>2, <2>3
<1>14. ASSUME NEW c \in Calls, Put(c)  PROVE  Sound'
  <2>1. /\ pc[c] = "put" /\ {"done", Failed} \subseteq Outcomes /\ open[c] = NoFile /\ call[c].value \in Values
        /\ db' \in [Keys -> Values \cup {Missing}]
        /\ UNCHANGED <<provider, name, data, dirs, call, open, found, orphans>>
    BY <1>14, CallIs DEF Put, Outcomes, Contents, Types, Staged, Linked, stateVars, callVars
  <2>2. PICK x \in Outcomes : Outcome(c, x)
    BY <1>14, <2>1 DEF Put
  <2>3. pc' = [pc EXCEPT ![c] = "done"]
    BY <2>2 DEF Outcome
  <2>4. Types'
    BY <2>1, <2>2, OutcomeIs DEF Types
  <2>5. Staged'
    BY <2>1, <2>2, OutcomeIs DEF Types, Staged, FileSteps, FeltSteps
  <2>6. Linked'
    BY <2>1, <2>3, ClosedLinked DEF Types
  <2>. QED
    BY <2>4, <2>5, <2>6
<1>15. ASSUME NEW c \in Calls, Remove(c)  PROVE  Sound'
  <2>1. /\ pc[c] = "remove" /\ {"done", Failed} \subseteq Outcomes /\ open[c] = NoFile
        /\ db' \in [Keys -> Values \cup {Missing}]
        /\ UNCHANGED <<provider, name, data, dirs, call, open, found, orphans>>
    BY <1>15, CallIs DEF Remove, Outcomes, Contents, Types, Staged, Linked, stateVars, callVars
  <2>2. PICK x \in Outcomes : Outcome(c, x)
    BY <1>15, <2>1 DEF Remove
  <2>3. pc' = [pc EXCEPT ![c] = "done"]
    BY <2>2 DEF Outcome
  <2>4. Types'
    BY <2>1, <2>2, OutcomeIs DEF Types
  <2>5. Staged'
    BY <2>1, <2>2, OutcomeIs DEF Types, Staged, FileSteps, FeltSteps
  <2>6. Linked'
    BY <2>1, <2>3, ClosedLinked DEF Types
  <2>. QED
    BY <2>4, <2>5, <2>6
<1>16. CASE UNCHANGED vars
  BY <1>16 DEF vars, Types, Staged, Linked
<1>17. ASSUME NEW c \in Calls, Return(c)  PROVE  Sound'
  BY <1>17, <1>2 DEF Return
<1>. HIDE DEF Sound
<1>. QED
  BY <1>1, <1>3, <1>4, <1>5, <1>6, <1>7, <1>8, <1>9, <1>10, <1>11, <1>12, <1>13,
     <1>14, <1>15, <1>16, <1>17 DEF Next, Step

-----------------------------------------------------------------------------
(* What a step does to the state that the calls share.                     *)

\* A call that no update of its key has overlapped finds things as it left them.
Steady(c) ==
    /\ pc[c] = "fill" => name[call[c].key] = open[c] /\ data[open[c]] = Empty
    /\ pc[c] = "scan" => name[call[c].key] = open[c]
    /\ pc[c] = "put"  => (c \in found <=> db[call[c].key] # Missing)

Alone ==
    \A c \in alone :
        /\ InFlight(c)
        /\ \A d \in Calls : d # c /\ InFlight(d) /\ call[d].key = call[c].key
                             => ~ Updates(call[d])
        /\ Steady(c)

\* A key is settled only while nothing updates it.
Kept ==
    \A k \in Keys : settled[k] # "unsettled" =>
        /\ View[k] = settled[k]
        /\ \A c \in Calls : InFlight(c) /\ call[c].key = k => ~ Updates(call[c])

\* The four things that a step of a call does to what a reader of the keys sees:
\* nothing, a half-done update, the end of an operation, and the end of the call.
Pause(c) ==
    /\ InFlight(c) /\ pc'[c] \notin {"idle", "done"}
    /\ \A d \in Calls : d # c => pc'[d] = pc[d]
    /\ UNCHANGED <<provider, View, call, answer, alone, settled>>

Touch(c) ==
    /\ InFlight(c) /\ pc'[c] \notin {"idle", "done"}
    /\ \A d \in Calls : d # c => pc'[d] = pc[d]
    /\ Updates(call[c])
    /\ \E x \in Contents : View' = [View EXCEPT ![call[c].key] = x]
    /\ UNCHANGED <<provider, call, answer, alone, settled>>

Finish(c) ==
    /\ InFlight(c)
    /\ UNCHANGED <<provider, call>>
    /\ \E held \in Contents, x \in Outcomes :
          /\ Outcome(c, x)
          /\ View' = [View EXCEPT ![call[c].key] = held]
          /\ Updates(call[c]) \/ held = View[call[c].key]
          /\ c \in alone => \/ x \in Abstract!Answers(call[c], held)
                            \/ x = "broken" /\ Faults # {}

Gone(c) == pc[c] # "idle" /\ Ends(c)

\* What a reader of a key finds is some contents.
LEMMA ViewIs ==
    ASSUME Sound
    PROVE  /\ View \in [Keys -> Contents]
           /\ \A k \in Keys : View = [View EXCEPT ![k] = View[k]]
<1>1. View \in [Keys -> Contents]
  <2>. SUFFICES ASSUME NEW k \in Keys
                PROVE  (IF provider = "feltdb" THEN db[k]
                        ELSE IF name[k] = NoFile THEN Missing ELSE data[name[k]]) \in Contents
    BY DEF View
  <2>. QED
    BY DEF Sound, Types, Contents
<1>. QED
  BY <1>1

\* What changes at one key changes in the view there and nowhere else.
LEMMA ViewChanges ==
    ASSUME Sound, NEW k \in Keys, NEW x, UNCHANGED provider,
           \A j \in Keys : j # k =>
              /\ provider = "feltdb" => db'[j] = db[j]
              /\ provider # "feltdb" => /\ name'[j] = name[j]
                                        /\ name[j] # NoFile => data'[name[j]] = data[name[j]],
           x = IF provider = "feltdb" THEN db'[k]
               ELSE IF name'[k] = NoFile THEN Missing ELSE data'[name'[k]]
    PROVE  View' = [View EXCEPT ![k] = x]
<1>1. View' = [j \in Keys |-> IF provider = "feltdb" THEN db'[j]
                ELSE IF name'[j] = NoFile THEN Missing ELSE data'[name'[j]]]
  BY DEF View
<1>2. ASSUME NEW j \in Keys, j # k
      PROVE  (IF provider = "feltdb" THEN db'[j]
              ELSE IF name'[j] = NoFile THEN Missing ELSE data'[name'[j]])
             = (IF provider = "feltdb" THEN db[j]
                ELSE IF name[j] = NoFile THEN Missing ELSE data[name[j]])
  BY <1>2
<1>. QED
  BY <1>1, <1>2 DEF View

\* A step of a call is a pause, touches its own key, ends the call or loses its caller.
LEMMA EffectOfStep ==
    ASSUME Sound, Alone, NEW c \in Calls,
           Step(c) \/ HostFails(c) \/ ProcessKilled(c) \/ BridgeKilled(c)
    PROVE  Pause(c) \/ Touch(c) \/ Finish(c) \/ Gone(c)
<1>. DEFINE k == call[c].key
<1>. USE DEF InFlight, Updates
<1>0. ASSUME pc[c] # "idle"  PROVE  k \in Keys /\ View[k] \in Contents
  BY <1>0, CallIs, ViewIs DEF Sound
<1>1. CASE HostFails(c)
  <2>1. /\ Outcome(c, "broken") /\ "broken" \in Outcomes /\ Faults # {}
        /\ UNCHANGED <<provider, View, call>> /\ InFlight(c) /\ pc[c] # "idle"
    BY <1>1 DEF HostFails, Outcomes, stateVars, View
  <2>. QED
    BY <2>1, <1>0, ViewIs DEF Finish
<1>2. CASE ProcessKilled(c)
  BY <1>2 DEF ProcessKilled, Gone, Pause, stateVars, history, View
<1>3. CASE BridgeKilled(c)
  <2>1. CASE c \in orphans
    BY <1>3, <2>1 DEF BridgeKilled, Gone
  <2>2. CASE c \notin orphans
    <3>1. /\ Outcome(c, "broken") /\ "broken" \in Outcomes /\ Faults # {}
          /\ UNCHANGED <<provider, View, call>> /\ InFlight(c) /\ pc[c] # "idle"
      BY <1>3, <2>2 DEF BridgeKilled, Outcomes, stateVars, View
    <3>. QED
      BY <3>1, <1>0, ViewIs DEF Finish
  <2>. QED
    BY <2>1, <2>2
<1>4. CASE MakeParents(c)
  <2>1. /\ UNCHANGED <<provider, View, call>> /\ pc[c] = "mkdir" /\ InFlight(c)
    BY <1>4 DEF MakeParents, callVars, View
  <2>2. CASE \A j \in {i \in Keys : <<i, k>> \in Below} : name[j] = NoFile
    BY <1>4, <2>1, <2>2 DEF MakeParents, Pause, Continue, history, Sound, Types
  <2>3. CASE ~ \A j \in {i \in Keys : <<i, k>> \in Below} : name[j] = NoFile
    <3>1. Outcome(c, Failed) /\ Failed \in Outcomes
      BY <1>4, <2>3 DEF MakeParents, Outcomes
    <3>2. k \in Nested /\ call[c].op = "write"
      BY <2>1, <2>3, <1>0 DEF Nested, Sound, Staged, FileSteps
    <3>3. Failed \in Abstract!Answers(call[c], View[k])
      BY <3>2 DEF Abstract!Answers
    <3>. QED
      BY <2>1, <3>1, <3>3, <1>0, ViewIs DEF Finish
  <2>. QED
    BY <2>2, <2>3
<1>5. CASE OpenFile(c)
  <2>1. PICK f \in IF name[k] = NoFile THEN FreeFiles ELSE {name[k]} :
           /\ name' = [name EXCEPT ![k] = f]
           /\ data' = [data EXCEPT ![f] = Empty]
    BY <1>5 DEF OpenFile
  <2>2. /\ pc[c] = "open" /\ call[c].op = "write" /\ k \in Keys /\ InFlight(c)
        /\ provider # "feltdb"
        /\ UNCHANGED <<provider, call, answer, alone, settled>>
        /\ pc' = [pc EXCEPT ![c] = "fill"]
    BY <1>5, <1>0 DEF OpenFile, Continue, history, Sound, Staged, FileSteps
  <2>3. f \in Files /\ f # NoFile /\ \A j \in Keys : name[j] = f => j = k
    BY <2>1, <2>2, ProvidersOK DEF FreeFiles, Sound, Types, Linked
  <2>4. View' = [View EXCEPT ![k] = Empty]
    <3>1. name'[k] = f /\ data'[f] = Empty
      BY <2>1, <2>2, <2>3 DEF Sound, Types
    <3>2. \A j \in Keys : j # k =>
             name'[j] = name[j] /\ (name[j] # NoFile => data'[name[j]] = data[name[j]])
      BY <2>1, <2>2, <2>3 DEF Sound, Types
    <3>. QED
      BY <2>2, <2>3, <3>1, <3>2, ViewChanges
  <2>. QED
    BY <2>2, <2>4 DEF Touch, Contents, Sound, Types
<1>6. CASE OpenFails(c)
  <2>1. /\ UNCHANGED <<provider, View, call>> /\ pc[c] = "open" /\ InFlight(c)
        /\ Outcome(c, Failed) /\ Failed \in Outcomes
        /\ provider # "feltdb" /\ call[c].op \in {"read", "write"}
    BY <1>6 DEF OpenFails, stateVars, callVars, View, Outcomes, Sound, Staged, FileSteps
  <2>2. Failed \in Abstract!Answers(call[c], View[k])
    <3>1. CASE call[c].op = "write"
      <4>1. k \in dirs
        BY <1>6, <3>1 DEF OpenFails
      <4>2. k \in Nested
        BY <2>1, <4>1, <1>0 DEF Nested, Sound, Linked
      <4>. QED
        BY <3>1, <4>2 DEF Abstract!Answers
    <3>2. CASE call[c].op = "read"
      <4>1. name[k] = NoFile
        BY <1>6, <3>2 DEF OpenFails, Sound, Linked
      <4>2. View[k] = Missing
        BY <2>1, <4>1, <1>0 DEF View
      <4>. QED
        BY <3>2, <4>2 DEF Abstract!Answers
    <3>. QED
      BY <2>1, <3>1, <3>2
  <2>. QED
    BY <2>1, <2>2, <1>0, ViewIs DEF Finish
<1>7. CASE FillFile(c)
  <2>. DEFINE f == open[c]
  <2>1. /\ pc[c] = "fill" /\ InFlight(c) /\ k \in Keys /\ call[c].op = "write"
        /\ f \in Files /\ f # NoFile /\ provider # "feltdb"
        /\ \A j \in Keys : name[j] = f => j = k
        /\ Outcome(c, "done") /\ "done" \in Outcomes
        /\ UNCHANGED <<provider, name, db, call>>
        /\ call[c].value \in Values
    BY <1>7, <1>0, CallIs DEF FillFile, Outcomes, Sound, Types, Staged, Linked, FileSteps
  <2>2. PICK x \in IF data[f] \in {Empty, call[c].value} THEN {call[c].value}
                   ELSE {call[c].value, Mixed} : data' = [data EXCEPT ![f] = x]
    BY <1>7 DEF FillFile
  <2>3. data'[f] = x /\ \A g \in Files : g # f => data'[g] = data[g]
    BY <2>1, <2>2 DEF Sound, Types
  <2>4. \A j \in Keys : j # k /\ name[j] # NoFile => data'[name[j]] = data[name[j]]
    BY <2>1, <2>3 DEF Sound, Types
  <2>5. CASE name[k] = f
    <3>1. View' = [View EXCEPT ![k] = x]
      BY <2>1, <2>3, <2>4, <2>5, ViewChanges
    <3>2. x \in Contents
      BY <2>1, <2>2 DEF Contents
    <3>3. c \in alone => x = call[c].value
      BY <2>1, <2>2 DEF Alone, Steady
    <3>4. c \in alone => "done" \in Abstract!Answers(call[c], x)
      BY <2>1, <3>3 DEF Abstract!Answers
    <3>. QED
      BY <2>1, <3>1, <3>2, <3>4 DEF Finish
  <2>6. CASE name[k] # f
    <3>1. name[k] # NoFile => data'[name[k]] = data[name[k]]
      BY <2>1, <2>3, <2>6 DEF Sound, Types
    <3>2. View[k] = IF name'[k] = NoFile THEN Missing ELSE data'[name'[k]]
      BY <2>1, <3>1 DEF View
    <3>3. View' = [View EXCEPT ![k] = View[k]]
      BY <2>1, <2>4, <3>2, ViewChanges
    <3>4. c \notin alone
      BY <2>1, <2>6 DEF Alone, Steady
    <3>. QED
      BY <2>1, <3>3, <3>4, <1>0 DEF Finish
  <2>. QED
    BY <2>5, <2>6
<1>8. CASE OpenToRead(c)
  BY <1>8 DEF OpenToRead, Pause, Continue, history, stateVars, View, Sound, Types
<1>9. CASE ReadFile(c)
  <2>1. /\ pc[c] = "scan" /\ InFlight(c) /\ k \in Keys /\ call[c].op = "read"
        /\ open[c] \in Files /\ open[c] # NoFile /\ provider # "feltdb"
        /\ Outcome(c, data[open[c]]) /\ data[open[c]] \in Outcomes \ {Missing}
        /\ UNCHANGED <<provider, View, call>>
    BY <1>9, <1>0, ProvidersOK
       DEF ReadFile, Outcomes, Contents, Sound, Types, Staged, Linked, FileSteps, stateVars, View
  <2>2. c \in alone => View[k] = data[open[c]]
    BY <2>1 DEF Alone, Steady, View
  <2>3. c \in alone => data[open[c]] \in Abstract!Answers(call[c], View[k])
    BY <2>1, <2>2 DEF Abstract!Answers
  <2>. QED
    BY <2>1, <2>3, <1>0, ViewIs DEF Finish
<1>10. CASE Unlink(c)
  <2>1. /\ pc[c] = "unlink" /\ InFlight(c) /\ k \in Keys /\ call[c].op = "delete"
        /\ provider # "feltdb" /\ {"done", Failed} \subseteq Outcomes
        /\ UNCHANGED <<provider, data, db, call>>
    BY <1>10, <1>0 DEF Unlink, Outcomes, Sound, Staged, FileSteps, callVars
  <2>2. CASE name[k] = NoFile
    <3>1. Outcome(c, Failed) /\ UNCHANGED View /\ View[k] = Missing
      BY <1>10, <2>1, <2>2 DEF Unlink, View
    <3>2. Failed \in Abstract!Answers(call[c], View[k])
      BY <2>1, <3>1 DEF Abstract!Answers
    <3>. QED
      BY <2>1, <3>1, <3>2, <1>0, ViewIs DEF Finish
  <2>3. CASE name[k] # NoFile
    <3>1. Outcome(c, "done") /\ name' = [name EXCEPT ![k] = NoFile]
      BY <1>10, <2>3 DEF Unlink
    <3>2. name'[k] = NoFile /\ \A j \in Keys : j # k => name'[j] = name[j]
      BY <2>1, <3>1 DEF Sound, Types
    <3>3. View' = [View EXCEPT ![k] = Missing]
      BY <2>1, <3>2, ViewChanges
    <3>4. "done" \in Abstract!Answers(call[c], Missing) /\ Missing \in Contents
      BY <2>1 DEF Abstract!Answers, Contents
    <3>. QED
      BY <2>1, <3>1, <3>3, <3>4 DEF Finish
  <2>. QED
    BY <2>2, <2>3
<1>11. CASE Get(c)
  <2>1. /\ pc[c] = "get" /\ InFlight(c) /\ k \in Keys
        /\ provider = "feltdb" /\ View[k] = db[k]
        /\ UNCHANGED <<provider, View, call>>
    BY <1>11, <1>0 DEF Get, Sound, Staged, FeltSteps, stateVars, View
  <2>2. CASE call[c].op = "read"
    <3>. DEFINE x == IF View[k] = Missing THEN Failed ELSE View[k]
    <3>1. Outcome(c, x) /\ x \in Outcomes
      BY <1>11, <1>0, <2>1, <2>2 DEF Get, Outcomes
    <3>2. x \in Abstract!Answers(call[c], View[k])
      BY <2>2 DEF Abstract!Answers
    <3>. QED
      BY <2>1, <3>1, <3>2, <1>0, ViewIs DEF Finish
  <2>3. CASE call[c].op # "read"
    BY <1>11, <2>1, <2>3 DEF Get, Pause, Continue, history, Sound, Types
  <2>. QED
    BY <2>2, <2>3
<1>12. CASE Put(c)
  <2>1. /\ pc[c] = "put" /\ InFlight(c) /\ k \in Keys /\ call[c].op = "write"
        /\ provider = "feltdb" /\ {"done", Failed} \subseteq Outcomes
        /\ call[c].value \in Contents
        /\ UNCHANGED <<provider, name, data, call>>
    BY <1>12, <1>0, CallIs DEF Put, Outcomes, Contents, Sound, Staged, FeltSteps, callVars
  <2>2. CASE db' = [db EXCEPT ![k] = call[c].value] /\ Outcome(c, "done")
    <3>1. db'[k] = call[c].value /\ \A j \in Keys : j # k => db'[j] = db[j]
      BY <2>1, <2>2 DEF Sound, Types
    <3>2. View' = [View EXCEPT ![k] = call[c].value]
      BY <2>1, <3>1, ViewChanges
    <3>3. "done" \in Abstract!Answers(call[c], call[c].value)
      BY <2>1 DEF Abstract!Answers
    <3>. QED
      BY <2>1, <2>2, <3>2, <3>3 DEF Finish
  <2>3. CASE (c \in found) # (db[k] # Missing) /\ Outcome(c, Failed) /\ UNCHANGED db
    <3>1. c \notin alone
      BY <2>1, <2>3 DEF Alone, Steady
    <3>2. UNCHANGED View
      BY <2>1, <2>3 DEF View
    <3>. QED
      BY <2>1, <2>3, <3>1, <3>2, <1>0, ViewIs DEF Finish
  <2>. QED
    BY <1>12, <2>2, <2>3 DEF Put
<1>13. CASE Remove(c)
  <2>1. /\ pc[c] = "remove" /\ InFlight(c) /\ k \in Keys /\ call[c].op = "delete"
        /\ provider = "feltdb" /\ {"done", Failed} \subseteq Outcomes
        /\ Missing \in Contents
        /\ UNCHANGED <<provider, name, data, call>>
    BY <1>13, <1>0 DEF Remove, Outcomes, Contents, Sound, Staged, FeltSteps, callVars
  <2>2. "done" \in Abstract!Answers(call[c], Missing) /\ Failed \in Abstract!Answers(call[c], Missing)
    BY <2>1 DEF Abstract!Answers
  <2>3. CASE db' = [db EXCEPT ![k] = Missing] /\ Outcome(c, "done")
    <3>1. db'[k] = Missing /\ \A j \in Keys : j # k => db'[j] = db[j]
      BY <2>1, <2>3 DEF Sound, Types
    <3>2. View' = [View EXCEPT ![k] = Missing]
      BY <2>1, <3>1, ViewChanges
    <3>. QED
      BY <2>1, <2>2, <2>3, <3>2 DEF Finish
  <2>4. CASE db[k] = Missing /\ Outcome(c, Failed) /\ UNCHANGED db
    <3>1. UNCHANGED View /\ View[k] = Missing
      BY <2>1, <2>4 DEF View
    <3>. QED
      BY <2>1, <2>2, <2>4, <3>1, <1>0, ViewIs DEF Finish
  <2>. QED
    BY <1>13, <2>3, <2>4 DEF Remove
<1>14. CASE Return(c)
  BY <1>14 DEF Return, Gone
<1>. QED
  BY <1>1, <1>2, <1>3, <1>4, <1>5, <1>6, <1>7, <1>8, <1>9, <1>10, <1>11, <1>12, <1>13,
     <1>14 DEF Step

-----------------------------------------------------------------------------
(* Calls that are alone.                                                   *)

\* Where a call that is alone stands is out of the reach of the other calls.
LEMMA OthersStaySteady ==
    ASSUME Sound, Alone, NEW c \in Calls, InFlight(c), NEW d \in alone, d # c,
           pc'[d] = pc[d], open'[d] = open[d], d \in found' <=> d \in found,
           UNCHANGED call,
           \A k \in Keys : k # call[c].key => name'[k] = name[k] /\ db'[k] = db[k],
           ~ Updates(call[c]) => UNCHANGED <<name, data, db>>,
           \A f \in Files : f \in FreeFiles \/ f = open[c] \/ f = name[call[c].key]
                             \/ data'[f] = data[f]
    PROVE  Steady(d)'
<1>1. d \in Calls /\ InFlight(d) /\ Steady(d) /\ pc[d] # "idle"
  BY DEF Alone, Sound, Types, InFlight
<1>2. call[d].key \in Keys /\ call[c].key \in Keys
  BY <1>1, CallIs DEF Sound, InFlight
<1>3. CASE call[d].key = call[c].key
  <2>1. UNCHANGED <<name, data, db>>
    BY <1>1, <1>3 DEF Alone
  <2>. QED
    BY <1>1, <2>1 DEF Steady
<1>4. CASE call[d].key # call[c].key
  <2>1. name'[call[d].key] = name[call[d].key] /\ db'[call[d].key] = db[call[d].key]
    BY <1>2, <1>4
  <2>2. ASSUME pc[d] = "fill"  PROVE  data'[open[d]] = data[open[d]]
    <3>1. open[d] \in Files /\ open[d] # NoFile /\ name[call[d].key] = open[d]
      BY <1>1, <2>2 DEF Sound, Types, Linked, Steady
    <3>2. open[d] \notin FreeFiles
      BY <1>1 DEF FreeFiles
    <3>3. open[d] # open[c]
      BY <1>1, <1>2, <1>4, <3>1 DEF Sound, Linked
    <3>4. open[d] # name[call[c].key]
      BY <1>2, <1>4, <3>1 DEF Sound, Linked
    <3>. QED
      BY <3>1, <3>2, <3>3, <3>4
  <2>. QED
    BY <1>1, <2>1, <2>2 DEF Steady
<1>. QED
  BY <1>3, <1>4

\* A step of a call leaves every call that is alone where it stands.
LEMMA SteadyStep ==
    ASSUME Sound, Alone, NEW c \in Calls, NEW d \in alone', ~ Gone(c),
           Step(c) \/ HostFails(c) \/ ProcessKilled(c) \/ BridgeKilled(c)
    PROVE  Steady(d)'
<1>. DEFINE k == call[c].key
            Apart == /\ pc'[d] = pc[d] /\ open'[d] = open[d] /\ (d \in found' <=> d \in found)
                     /\ \A j \in Keys : j # k => name'[j] = name[j] /\ db'[j] = db[j]
                     /\ ~ Updates(call[c]) => UNCHANGED <<name, data, db>>
                     /\ \A f \in Files : f \in FreeFiles \/ f = open[c] \/ f = name[k]
                                       \/ data'[f] = data[f]
<1>1. /\ InFlight(c) /\ pc[c] # "idle" /\ UNCHANGED call
      /\ d \in alone /\ d \in Calls
  <2>1. Pause(c) \/ Touch(c) \/ Finish(c)
    BY EffectOfStep
  <2>. QED
    BY <2>1 DEF Pause, Touch, Finish, Outcome, InFlight, Sound, Types
<1>2. k \in Keys
  BY <1>1, CallIs DEF Sound
<1>3. ASSUME d # c, Apart  PROVE  Steady(d)'
  BY <1>1, <1>3, OthersStaySteady
<1>. HIDE DEF k
<1>4. CASE HostFails(c)
  <2>1. d # c /\ Apart
    BY <1>4, <1>1, <1>2 DEF HostFails, Outcome, Sound, Types, stateVars
  <2>. QED
    BY <2>1, <1>3
<1>5. CASE ProcessKilled(c)
  <2>1. UNCHANGED <<name, data, db, pc, open, found>>
    BY <1>5 DEF ProcessKilled, Gone, stateVars
  <2>. QED
    BY <1>1, <2>1 DEF Alone, Steady
<1>6. CASE BridgeKilled(c)
  <2>1. Outcome(c, "broken") /\ UNCHANGED <<name, data, db, open, found>>
    BY <1>6, <1>1 DEF BridgeKilled, Gone, stateVars
  <2>2. d # c /\ Apart
    BY <1>1, <1>2, <2>1 DEF Outcome, Sound, Types
  <2>. QED
    BY <2>2, <1>3
<1>7. CASE MakeParents(c)
  <2>1. CASE d # c
    <3>1. Apart
      BY <1>7, <1>1, <1>2, <2>1 DEF MakeParents, Continue, Outcome, history, Sound, Types, callVars
    <3>. QED
      BY <2>1, <3>1, <1>3
  <2>2. CASE d = c
    BY <1>7, <1>1, <1>2, <2>2 DEF MakeParents, Continue, Outcome, history, Sound, Types, Steady, callVars
  <2>. QED
    BY <2>1, <2>2
<1>8. CASE OpenFile(c)
  <2>1. CASE d # c
    <3>1. Apart
      BY <1>8, <1>1, <1>2, <2>1 DEF OpenFile, Continue, Outcome, history, Sound, Types, k, Updates
    <3>. QED
      BY <2>1, <3>1, <1>3
  <2>2. CASE d = c
    BY <1>8, <1>1, <1>2, <2>2 DEF OpenFile, Continue, Outcome, history, Sound, Types, Steady, Linked, FreeFiles, k
  <2>. QED
    BY <2>1, <2>2
<1>9. CASE OpenFails(c)
  <2>1. d # c /\ Apart
    BY <1>9, <1>1, <1>2 DEF OpenFails, Outcome, Sound, Types, stateVars, callVars
  <2>. QED
    BY <2>1, <1>3
<1>10. CASE FillFile(c)
  <2>1. d # c /\ Apart
    BY <1>10, <1>1, <1>2 DEF FillFile, Outcome, Sound, Types, Updates, Staged
  <2>. QED
    BY <2>1, <1>3
<1>11. CASE OpenToRead(c)
  <2>1. CASE d # c
    <3>1. Apart
      BY <1>11, <1>1, <1>2, <2>1 DEF OpenToRead, Continue, Outcome, history, Sound, Types, stateVars, k
    <3>. QED
      BY <2>1, <3>1, <1>3
  <2>2. CASE d = c
    BY <1>11, <1>1, <1>2, <2>2 DEF OpenToRead, Continue, Outcome, history, Sound, Types, Steady, stateVars, k
  <2>. QED
    BY <2>1, <2>2
<1>12. CASE ReadFile(c)
  <2>1. d # c /\ Apart
    BY <1>12, <1>1, <1>2 DEF ReadFile, Outcome, Sound, Types, stateVars
  <2>. QED
    BY <2>1, <1>3
<1>13. CASE Unlink(c)
  <2>1. d # c /\ Apart
    BY <1>13, <1>1, <1>2 DEF Unlink, Outcome, Sound, Types, callVars, Updates, Staged, k
  <2>. QED
    BY <2>1, <1>3
<1>14. CASE Get(c)
  <2>1. CASE d # c
    <3>1. Apart
      BY <1>14, <1>1, <1>2, <2>1 DEF Get, Continue, Outcome, history, Sound, Types, stateVars
    <3>. QED
      BY <2>1, <3>1, <1>3
  <2>2. CASE d = c
    BY <1>14, <1>1, <1>2, <2>2 DEF Get, Continue, Outcome, history, Sound, Types, Steady, stateVars
  <2>. QED
    BY <2>1, <2>2
<1>15. CASE Put(c)
  <2>1. d # c /\ Apart
    BY <1>15, <1>1, <1>2 DEF Put, Outcome, Sound, Types, callVars, Updates, Staged, k
  <2>. QED
    BY <2>1, <1>3
<1>16. CASE Remove(c)
  <2>1. d # c /\ Apart
    BY <1>16, <1>1, <1>2 DEF Remove, Outcome, Sound, Types, callVars, Updates, Staged, k
  <2>. QED
    BY <2>1, <1>3
<1>17. ~ Return(c)
  BY DEF Return, Gone
<1>. QED
  BY <1>4, <1>5, <1>6, <1>7, <1>8, <1>9, <1>10, <1>11, <1>12, <1>13, <1>14, <1>15, <1>16,
     <1>17 DEF Step

\* What a step of the whole system is.
LEMMA NextIs ==
    ASSUME Sound, Alone, [Next]_vars
    PROVE  \/ \E c \in Calls, r \in Requests : Begin(c, r)
           \/ \E c \in Calls : Gone(c)
           \/ \E c \in Calls : /\ Pause(c) \/ Touch(c) \/ Finish(c)
                               /\ \A d \in alone' : Steady(d)'
           \/ UNCHANGED vars
<1>1. ASSUME NEW c \in Calls,
             Step(c) \/ HostFails(c) \/ ProcessKilled(c) \/ BridgeKilled(c)
      PROVE  \/ Gone(c)
             \/ /\ Pause(c) \/ Touch(c) \/ Finish(c)
                /\ \A d \in alone' : Steady(d)'
  <2>1. Pause(c) \/ Touch(c) \/ Finish(c) \/ Gone(c)
    BY <1>1, EffectOfStep
  <2>2. CASE ~ Gone(c)
    <3>1. ASSUME NEW d \in alone'  PROVE  Steady(d)'
      BY <1>1, <2>2, <3>1, SteadyStep
    <3>. QED
      BY <2>1, <2>2, <3>1
  <2>. QED
    BY <2>2
<1>. QED
  BY <1>1 DEF Next

\* What a call that nothing has overlapped has seen stays true until it is overlapped.
LEMMA AloneStep == Sound /\ Alone /\ [Next]_vars => Alone'
<1>. SUFFICES ASSUME Sound, Alone, [Next]_vars
              PROVE  Alone'
  OBVIOUS
<1>1. ASSUME NEW c \in Calls, NEW r \in Requests, Begin(c, r)  PROVE  Alone'
  <2>1. /\ pc[c] = "idle" /\ pc'[c] \notin {"idle", "done", "fill", "scan", "put"}
        /\ pc' = [pc EXCEPT ![c] = FirstStep(r)]
        /\ call'[c] = r /\ \A d \in Calls : d # c => pc'[d] = pc[d] /\ call'[d] = call[d]
        /\ UNCHANGED <<name, data, db, open, found>>
    BY <1>1, RequestIs DEF Begin, FirstStep, stateVars, Sound, Types
  <2>. DEFINE others == {d \in Calls : InFlight(d) /\ call[d].key = r.key}
  <2>2. /\ \A d \in alone' : d # c => d \in alone /\ (Updates(r) => d \notin others)
        /\ c \in alone' => \A d \in others : ~ Updates(call[d])
    <3>1. c \notin alone
      BY <2>1 DEF Alone, InFlight
    <3>. QED
      BY <1>1, <3>1 DEF Begin
  <2>. SUFFICES ASSUME NEW d \in alone'
                PROVE  /\ InFlight(d)'
                       /\ \A e \in Calls : e # d /\ InFlight(e)' /\ call'[e].key = call'[d].key
                                            => ~ Updates(call'[e])
                       /\ Steady(d)'
    BY DEF Alone
  <2>3. CASE d = c
    BY <2>1, <2>2, <2>3 DEF InFlight, Steady
  <2>4. CASE d # c
    <3>1. d \in alone /\ d \in Calls /\ InFlight(d) /\ Steady(d)
      BY <2>2, <2>4 DEF Alone, Sound, Types
    <3>2. ASSUME NEW e \in Calls, e # d, InFlight(e)', call'[e].key = call'[d].key
          PROVE  ~ Updates(call'[e])
      <4>1. CASE e = c
        BY <2>1, <2>2, <2>4, <3>1, <3>2, <4>1
      <4>2. CASE e # c
        BY <2>1, <2>4, <3>1, <3>2, <4>2 DEF InFlight, Alone
      <4>. QED
        BY <4>1, <4>2
    <3>. QED
      BY <2>1, <2>4, <3>1, <3>2 DEF InFlight, Steady
  <2>. QED
    BY <2>3, <2>4
<1>2. ASSUME NEW c \in Calls, Gone(c)  PROVE  Alone'
  <2>1. /\ pc'[c] = "idle" /\ \A d \in Calls : d # c => /\ pc'[d] = pc[d] /\ call'[d] = call[d]
                                                       /\ open'[d] = open[d]
                                                       /\ (d \in found' <=> d \in found)
        /\ alone' = alone \ {c} /\ alone \subseteq Calls
        /\ UNCHANGED <<name, data, db>>
    BY <1>2 DEF Gone, Ends, stateVars, Sound, Types
  <2>. QED
    BY <2>1 DEF Alone, InFlight, Steady
<1>3. ASSUME NEW c \in Calls, Pause(c) \/ Touch(c) \/ Finish(c), \A d \in alone' : Steady(d)'
      PROVE  Alone'
  <2>1. /\ InFlight(c) /\ UNCHANGED call /\ alone \subseteq Calls
        /\ \A d \in Calls : d # c => pc'[d] = pc[d]
        /\ alone' \subseteq alone
        /\ c \in alone' => pc'[c] \notin {"idle", "done"}
    BY <1>3 DEF Pause, Touch, Finish, Outcome, Sound, Types
  <2>. QED
    BY <1>3, <2>1 DEF Alone, InFlight
<1>4. CASE UNCHANGED vars
  BY <1>4 DEF vars, Alone, InFlight, Steady
<1>. QED
  BY <1>1, <1>2, <1>3, <1>4, NextIs

-----------------------------------------------------------------------------
(* The promise.                                                            *)

\* Every step keeps what a settled key holds.
LEMMA KeptStep == Sound /\ Alone /\ Kept /\ [Next]_vars => Kept'
<1>. SUFFICES ASSUME Sound, Alone, Kept, [Next]_vars
              PROVE  Kept'
  OBVIOUS
<1>0. View \in [Keys -> Contents] /\ settled \in [Keys -> Contents \cup {"unsettled"}]
  BY ViewIs DEF Sound, Types
<1>1. ASSUME NEW c \in Calls, NEW r \in Requests, Begin(c, r)  PROVE  Kept'
  <2>1. /\ UNCHANGED View
        /\ pc[c] = "idle" /\ call'[c] = r /\ r.key \in Keys
        /\ \A d \in Calls : d # c => pc'[d] = pc[d] /\ call'[d] = call[d]
        /\ settled' = IF Updates(r) THEN [settled EXCEPT ![r.key] = "unsettled"] ELSE settled
    BY <1>1, RequestIs DEF Begin, stateVars, Sound, Types, View
  <2>. QED
    BY <1>0, <2>1 DEF Kept, InFlight
<1>2. ASSUME NEW c \in Calls, Gone(c)  PROVE  Kept'
  <2>1. /\ UNCHANGED <<View, settled>>
        /\ pc'[c] = "idle" /\ \A d \in Calls : d # c => pc'[d] = pc[d] /\ call'[d] = call[d]
    BY <1>2 DEF Gone, Ends, stateVars, Sound, Types, View
  <2>. QED
    BY <2>1 DEF Kept, InFlight
<1>3. ASSUME NEW c \in Calls, Pause(c)  PROVE  Kept'
  BY <1>3 DEF Pause, Kept, InFlight
<1>4. ASSUME NEW c \in Calls, Touch(c)  PROVE  Kept'
  <2>1. call[c].key \in Keys /\ settled[call[c].key] = "unsettled"
    BY <1>4, CallIs DEF Touch, Sound, Kept, InFlight
  <2>2. \A k \in Keys : k # call[c].key => View'[k] = View[k]
    BY <1>0, <1>4, <2>1 DEF Touch
  <2>. QED
    BY <1>4, <2>1, <2>2 DEF Touch, Kept, InFlight
<1>5. ASSUME NEW c \in Calls, Finish(c)  PROVE  Kept'
  <2>. DEFINE k == call[c].key
  <2>1. PICK held \in Contents, x \in Outcomes :
           /\ Outcome(c, x)
           /\ View' = [View EXCEPT ![k] = held]
           /\ Updates(call[c]) \/ held = View[k]
           /\ c \in alone => \/ x \in Abstract!Answers(call[c], held)
                             \/ x = "broken" /\ Faults # {}
    BY <1>5 DEF Finish
  <2>2. /\ k \in Keys /\ InFlight(c) /\ UNCHANGED call
        /\ call[c].op \in {"read", "write", "delete"}
        /\ pc'[c] = "done" /\ \A d \in Calls : d # c => pc'[d] = pc[d]
    BY <1>5, <2>1, CallIs DEF Finish, InFlight, Outcome, Sound, Types
  <2>3. View'[k] = held /\ \A j \in Keys : j # k => View'[j] = View[j]
    BY <1>0, <2>1, <2>2
  <2>4. \A d \in Calls : InFlight(d)' => InFlight(d)
    BY <2>2 DEF InFlight
  <2>5. CASE c \in alone /\ x = "done"
    <3>1. x \in Abstract!Answers(call[c], held)
      BY <2>1, <2>5
    <3>2. held = (IF call[c].op = "write" THEN call[c].value ELSE Missing) /\ Updates(call[c])
      BY <2>2, <2>5, <3>1, ProvidersOK DEF Abstract!Answers, Updates
    <3>3. settled'[k] = held /\ \A j \in Keys : j # k => settled'[j] = settled[j]
      BY <1>0, <2>1, <2>2, <2>5, <3>2 DEF Outcome
    <3>4. \A d \in Calls : InFlight(d)' /\ call'[d].key = k => ~ Updates(call'[d])
      BY <2>2, <2>5 DEF Alone, InFlight
    <3>. QED
      BY <2>2, <2>3, <2>4, <3>3, <3>4 DEF Kept
  <2>6. CASE ~ (c \in alone /\ x = "done")
    <3>1. UNCHANGED settled
      BY <2>1, <2>6 DEF Outcome
    <3>2. settled[k] # "unsettled" => View'[k] = View[k]
      BY <2>1, <2>2, <2>3 DEF Kept
    <3>. QED
      BY <2>2, <2>3, <2>4, <3>1, <3>2 DEF Kept
  <2>. QED
    BY <2>5, <2>6
<1>6. CASE UNCHANGED vars
  BY <1>6 DEF vars, Kept, InFlight, View
<1>. QED
  BY <1>1, <1>2, <1>3, <1>4, <1>5, <1>6, NextIs

\* Every step of either provider is a step of KeyValue, or none.
LEMMA RefinedStep == Sound /\ Alone /\ [Next]_vars => [Abstract!Next]_Abstract!vars
<1>. SUFFICES ASSUME Sound, Alone, [Next]_vars
              PROVE  [Abstract!Next]_Abstract!vars
  OBVIOUS
<1>0. /\ \A c \in Calls : Abstract!InFlight(c) <=> InFlight(c)
      /\ \A r : Abstract!Updates(r) <=> Updates(r)
      /\ View \in [Keys -> Contents] /\ answer \in [Calls -> Outcomes \cup {Idle}]
  BY ViewIs DEF Abstract!InFlight, InFlight, Abstract!Updates, Updates, Sound, Types, Staged
<1>1. ASSUME NEW c \in Calls, NEW r \in Requests, Begin(c, r)  PROVE  Abstract!Next
  <2>1. r \in Abstract!Requests /\ call[c] = Idle
    BY <1>1, RequestIs DEF Begin, Sound, Staged
  <2>2. UNCHANGED <<View, answer, Nested>>
    BY <1>1 DEF Begin, stateVars, View, Nested
  <2>3. {d \in Calls : Abstract!InFlight(d) /\ call[d].key = r.key}
          = {d \in Calls : InFlight(d) /\ call[d].key = r.key}
    BY <1>0
  <2>4. Abstract!Begin(c, r)
    BY <1>0, <1>1, <2>1, <2>2, <2>3 DEF Begin, Abstract!Begin
  <2>. QED
    BY <2>1, <2>4 DEF Abstract!Next
<1>2. ASSUME NEW c \in Calls, Gone(c)  PROVE  Abstract!Next
  <2>1. call[c] # Idle
    BY <1>2 DEF Gone, Sound, Staged
  <2>2. UNCHANGED <<View, Nested>>
    BY <1>2 DEF Gone, Ends, stateVars, View, Nested
  <2>. QED
    BY <1>2, <2>1, <2>2 DEF Gone, Ends, Abstract!Leave, Abstract!Next
<1>3. ASSUME NEW c \in Calls, Pause(c)  PROVE  UNCHANGED Abstract!vars
  BY <1>3 DEF Pause, Abstract!vars, Nested
<1>4. ASSUME NEW c \in Calls, Touch(c)  PROVE  Abstract!Next
  <2>1. call[c].key \in Keys /\ UNCHANGED Nested
    BY <1>4, CallIs DEF Touch, InFlight, Sound, Nested
  <2>2. Abstract!Change(call[c].key)
    BY <1>0, <1>4, <2>1 DEF Touch, Abstract!Change
  <2>. QED
    BY <2>1, <2>2 DEF Abstract!Next
<1>5. ASSUME NEW c \in Calls, Finish(c)  PROVE  Abstract!Next
  <2>1. PICK held \in Contents, x \in Outcomes :
           /\ Outcome(c, x)
           /\ View' = [View EXCEPT ![call[c].key] = held]
           /\ Updates(call[c]) \/ held = View[call[c].key]
           /\ c \in alone => \/ x \in Abstract!Answers(call[c], held)
                             \/ x = "broken" /\ Faults # {}
    BY <1>5 DEF Finish
  <2>2. /\ InFlight(c) /\ UNCHANGED <<call, Nested>>
        /\ alone' = alone \ {c} /\ answer' = [answer EXCEPT ![c] = x]
    BY <1>5, <2>1 DEF Finish, Outcome, Nested
  <2>3. x \in Contents \cup {"done", "broken", Failed}
    BY DEF Outcomes
  <2>4. held \in IF Abstract!Updates(call[c]) THEN Contents ELSE {View[call[c].key]}
    BY <1>0, <2>1
  <2>5. c \in alone => x \in Abstract!Answers(call[c], held)
                              \cup (IF Faults = {} THEN {} ELSE {"broken"})
    BY <2>1
  <2>6. Abstract!Return(c)
    BY <1>0, <2>1, <2>2, <2>3, <2>4, <2>5 DEF Abstract!Return
  <2>. QED
    BY <2>6 DEF Abstract!Next
<1>6. CASE UNCHANGED vars
  BY <1>6 DEF vars, Abstract!vars, View, Nested
<1>. QED
  BY <1>1, <1>2, <1>3, <1>4, <1>5, <1>6, NextIs

\* At first every key is settled, and holds nothing.
LEMMA InitIs == Init => Alone /\ Kept /\ Abstract!Init
<1>. SUFFICES ASSUME Init  PROVE  Alone /\ Kept /\ Abstract!Init
  OBVIOUS
<1>1. View = [k \in Keys |-> Missing]
  BY DEF Init, View
<1>2. Alone /\ Kept
  BY <1>1 DEF Init, Alone, Kept, InFlight
<1>3. Nested \in SUBSET Keys
  BY DEF Nested
<1>. QED
  BY <1>1, <1>2, <1>3 DEF Init, Abstract!Init

\* Everything that holds of the system at once.
LEMMA Invariants == Spec => [](Sound /\ Alone /\ Kept)
<1>. DEFINE Inv == Sound /\ Alone /\ Kept
<1>1. Init => Inv
  BY SoundInit, InitIs
<1>2. Inv /\ [Next]_vars => Inv'
  BY SoundStep, AloneStep, KeptStep
<1>. QED
  BY <1>1, <1>2, PTL DEF Spec

\* Types and files for any number of guests: no two paths are ever one file, and no
\* descriptor outlives its call (state_write, state_read and the bridge).
THEOREM ProvidersTyped == Spec => []TypeOK
<1>1. Sound => TypeOK
  BY DEF Sound, Types, Linked, TypeOK, Outcomes
<1>. QED
  BY <1>1, Invariants, PTL

\* A write that was told "done" is durable under either provider: the key holds its
\* value until another update of that key begins, whatever is killed or fails.
THEOREM SettledAlways == Spec => []SettledContents
<1>1. Kept => SettledContents
  BY DEF Kept, SettledContents
<1>. QED
  BY <1>1, Invariants, PTL

\* Both providers implement KeyValue, whatever is interleaved, killed or orphaned.
THEOREM ProvidersKeepPromise == Spec => KeepsItsPromise
<1>1. Init => Abstract!Init
  BY InitIs
<1>2. Sound /\ Alone /\ [Next]_vars => [Abstract!Next]_Abstract!vars
  BY RefinedStep
<1>. QED
  BY <1>1, <1>2, Invariants, PTL DEF Spec, KeepsItsPromise, Abstract!Spec
=============================================================================
