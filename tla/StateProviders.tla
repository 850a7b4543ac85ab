--------------------------- MODULE StateProviders ---------------------------
(***************************************************************************)
(* The two implementations of StateProvider, under the calls of several    *)
(* guests of one application at once (units of `app run` servers and of    *)
(* `appport-invoke`, which share the application's state).                 *)
(*                                                                         *)
(* LocalDirectoryStateProvider works on files: a write creates the parent  *)
(* directories, opens with O_CREAT|O_TRUNC and then writes; a read opens   *)
(* and then reads; an open file outlives its name.  FeltDBStateProvider    *)
(* runs one Node.js process per call (the bridge), whose write is a get    *)
(* followed by an update or an insert.  The bridge outlives a caller that  *)
(* is killed.                                                              *)
(*                                                                         *)
(* Abstractions: keys are resolved paths (StoragePaths has the resolution),*)
(* one operation of the FeltDB library is atomic (external), and an insert *)
(* of a key that exists or an update of one that does not either goes      *)
(* through or is refused.                                                  *)
(***************************************************************************)
EXTENDS FiniteSets

CONSTANTS
    Keys, Values,
    Below,      \* pairs <<j, k>>: path k lies below path j ("a/b" below "a")
    Calls,      \* guests that may be inside a storage call at once
    Files,      \* inodes, enough of them for every name and every open file
    Ops,        \* which operations are called
    Providers,  \* "filesystem", "feltdb"
    Faults,     \* "kill": of a process at any point; "io": a disk or node failure
    Missing,    \* the key holds nothing
    Empty,      \* a file that was truncated and not written yet
    Mixed,      \* a text with the end of another one behind it
    NoFile, Idle,
    Failed      \* the provider refused: no such key, or it cannot be written

Contents == Values \cup {Missing, Empty, Mixed}
Requests == [op : Ops \cap {"read", "delete"}, key : Keys]
              \cup [op : Ops \cap {"write"}, key : Keys, value : Values]

ASSUME ProvidersOK ==
    /\ Below \subseteq Keys \X Keys
    /\ Ops \subseteq {"read", "write", "delete"}
    /\ Providers \subseteq {"filesystem", "feltdb"}
    /\ Faults \subseteq {"kill", "io"}
    /\ NoFile \notin Files
    /\ Missing \notin Values \cup {Empty, Mixed}
    /\ Idle \notin Requests \cup Contents \cup {"done", "broken", Failed}
    /\ "done" \notin Contents \cup {Failed}

VARIABLES
    provider,   \* --state-provider
    name,       \* filesystem: the file at each path
    data,       \* filesystem: contents of each file
    dirs,       \* filesystem: paths that are directories
    db,         \* feltdb: the collection of this application
    pc,         \* next step of each call
    call,       \* what each call asks for
    open,       \* file a call has open
    found,      \* bridges whose get found a record
    orphans,    \* bridges whose caller is gone
    answer,     \* what the call came to
    alone,      \* history: calls in flight no other update of their key has overlapped
    settled     \* history: what each key must hold, by the last update that was alone

stateVars == <<name, data, dirs, db>>
callVars  == <<call, open, found, orphans>>
history   == <<alone, settled>>
vars == <<provider, name, data, dirs, db, pc, call, open, found, orphans, answer, alone, settled>>

Steps == {"idle", "mkdir", "open", "fill", "scan", "unlink", "get", "put", "remove", "done"}

\* What a reader of each key finds.
View == [k \in Keys |-> IF provider = "feltdb" THEN db[k]
                        ELSE IF name[k] = NoFile THEN Missing ELSE data[name[k]]]

InFlight(c) == pc[c] \notin {"idle", "done"}
Updates(r)  == r.op \in {"write", "delete"}

\* An open descriptor belongs to a call that is between open and close, and no
\* two paths are the same file.
TypeOK ==
    /\ provider \in {"filesystem", "feltdb"}
    /\ name \in [Keys -> Files \cup {NoFile}]
    /\ data \in [Files -> Values \cup {Empty, Mixed}]
    /\ dirs \subseteq Keys
    /\ db   \in [Keys -> Values \cup {Missing}]
    /\ pc   \in [Calls -> Steps]
    /\ call \in [Calls -> Requests \cup {Idle}]
    /\ open \in [Calls -> Files \cup {NoFile}]
    /\ found \subseteq Calls /\ orphans \subseteq Calls /\ alone \subseteq Calls
    /\ answer  \in [Calls -> Contents \cup {Idle, "done", "broken", Failed}]
    /\ settled \in [Keys -> Contents \cup {"unsettled"}]
    /\ \A c \in Calls : open[c] # NoFile <=> pc[c] \in {"fill", "scan"}
    /\ \A j, k \in Keys : name[j] = name[k] /\ name[j] # NoFile => j = k

Init ==
    /\ provider \in Providers
    /\ name    = [k \in Keys |-> NoFile]
    /\ data    = [f \in Files |-> Empty]
    /\ dirs    = {}
    /\ db      = [k \in Keys |-> Missing]
    /\ pc      = [c \in Calls |-> "idle"]
    /\ call    = [c \in Calls |-> Idle]
    /\ open    = [c \in Calls |-> NoFile]
    /\ found   = {} /\ orphans = {} /\ alone = {}
    /\ answer  = [c \in Calls |-> Idle]
    /\ settled = [k \in Keys |-> Missing]

\* The operation goes on with its next step.
Continue(c, step) ==
    /\ pc' = [pc EXCEPT ![c] = step]
    /\ UNCHANGED <<answer, history>>

\* The operation is over; its outcome has yet to reach the caller.
Outcome(c, x) ==
    /\ pc'     = [pc EXCEPT ![c] = "done"]
    /\ answer' = [answer EXCEPT ![c] = x]
    /\ alone'  = alone \ {c}
    /\ settled' = IF c \in alone /\ x = "done"
                    THEN [settled EXCEPT ![call[c].key] =
                            IF call[c].op = "write" THEN call[c].value ELSE Missing]
                    ELSE settled

-----------------------------------------------------------------------------
(* Calls.                                                                  *)

FirstStep(r) ==
    IF provider = "feltdb"
      THEN IF r.op = "delete" THEN "remove" ELSE "get"
      ELSE CASE r.op = "read" -> "open" [] r.op = "write" -> "mkdir" [] r.op = "delete" -> "unlink"

\* storage_write, storage_read_equals; nothing in the runtime calls delete.
Begin(c, r) ==
    /\ pc[c] = "idle"
    /\ pc'   = [pc EXCEPT ![c] = FirstStep(r)]
    /\ call' = [call EXCEPT ![c] = r]
    /\ LET others   == {d \in Calls : InFlight(d) /\ call[d].key = r.key}
           spoiled  == IF Updates(r) THEN others ELSE {}
           spoilers == {d \in others : Updates(call[d])}
       IN  alone' = (alone \ spoiled) \cup (IF spoilers = {} THEN {c} ELSE {})
    /\ settled' = IF Updates(r) THEN [settled EXCEPT ![r.key] = "unsettled"] ELSE settled
    /\ UNCHANGED <<provider, stateVars, open, found, orphans, answer>>

\* The call is over and gone.
Ends(c) ==
    /\ pc'      = [pc EXCEPT ![c] = "idle"]
    /\ call'    = [call EXCEPT ![c] = Idle]
    /\ open'    = [open EXCEPT ![c] = NoFile]
    /\ answer'  = [answer EXCEPT ![c] = Idle]
    /\ alone'   = alone \ {c}
    /\ found'   = found \ {c}
    /\ orphans' = orphans \ {c}
    /\ UNCHANGED <<provider, stateVars, settled>>

\* The caller reads the outcome; an orphan's reaches nobody.
Return(c) == pc[c] = "done" /\ Ends(c)

\* Any step of an operation may fail.
HostFails(c) ==
    /\ "io" \in Faults
    /\ InFlight(c)
    /\ open' = [open EXCEPT ![c] = NoFile]
    /\ Outcome(c, "broken")
    /\ UNCHANGED <<provider, stateVars, call, found, orphans>>

\* The process that runs the guest is killed.  A bridge it started goes on.
ProcessKilled(c) ==
    /\ "kill" \in Faults /\ pc[c] # "idle" /\ c \notin orphans
    /\ IF provider = "feltdb" /\ InFlight(c)
         THEN /\ orphans' = orphans \cup {c}
              /\ UNCHANGED <<provider, stateVars, pc, call, open, found, answer, history>>
         ELSE Ends(c)

\* The bridge is killed: its caller sees an exit status, an orphan just ends.
BridgeKilled(c) ==
    /\ "kill" \in Faults /\ provider = "feltdb" /\ InFlight(c)
    /\ IF c \in orphans
         THEN Ends(c)
         ELSE Outcome(c, "broken") /\ UNCHANGED <<provider, stateVars, call, open, found, orphans>>

-----------------------------------------------------------------------------
(* LocalDirectoryStateProvider.                                            *)

\* create_dir_all(parent): fails when a file is in the way.
MakeParents(c) ==
    /\ pc[c] = "mkdir"
    /\ LET above == {j \in Keys : <<j, call[c].key>> \in Below} IN
       IF \A j \in above : name[j] = NoFile
         THEN dirs' = dirs \cup above /\ Continue(c, "open")
         ELSE Outcome(c, Failed) /\ UNCHANGED dirs
    /\ UNCHANGED <<provider, name, data, db, callVars>>

FreeFiles == Files \ ({name[k] : k \in Keys} \cup {open[c] : c \in Calls})

\* fs::write, first half: a new file, or the one at the path, truncated.
OpenFile(c) ==
    /\ pc[c] = "open" /\ call[c].op = "write" /\ call[c].key \notin dirs
    /\ LET k == call[c].key IN
       \E f \in IF name[k] = NoFile THEN FreeFiles ELSE {name[k]} :
          /\ name' = [name EXCEPT ![k] = f]
          /\ data' = [data EXCEPT ![f] = Empty]
          /\ open' = [open EXCEPT ![c] = f]
    /\ Continue(c, "fill")
    /\ UNCHANGED <<provider, dirs, db, call, found, orphans>>

\* A directory cannot be opened for writing; reading it fails as well.
OpenFails(c) ==
    /\ pc[c] = "open"
    /\ \/ call[c].key \in dirs
       \/ call[c].op = "read" /\ name[call[c].key] = NoFile
    /\ Outcome(c, Failed)
    /\ UNCHANGED <<provider, stateVars, callVars>>

\* Mutant: the text goes to a temporary file that is never renamed.
FillFileAside(c) ==
    /\ pc[c] = "fill"
    /\ open' = [open EXCEPT ![c] = NoFile]
    /\ Outcome(c, "done")
    /\ UNCHANGED <<provider, stateVars, call, found, orphans>>

\* fs::write, second half: the text overlays whatever the file holds by now.
FillFile(c) ==
    /\ pc[c] = "fill"
    /\ LET f == open[c]
           v == call[c].value
       IN  \E x \in IF data[f] \in {Empty, v} THEN {v} ELSE {v, Mixed} :
              data' = [data EXCEPT ![f] = x]
    /\ open' = [open EXCEPT ![c] = NoFile]
    /\ Outcome(c, "done")
    /\ UNCHANGED <<provider, name, dirs, db, call, found, orphans>>

OpenToRead(c) ==
    /\ pc[c] = "open" /\ call[c].op = "read"
    /\ call[c].key \notin dirs /\ name[call[c].key] # NoFile
    /\ open' = [open EXCEPT ![c] = name[call[c].key]]
    /\ Continue(c, "scan")
    /\ UNCHANGED <<provider, stateVars, call, found, orphans>>

ReadFile(c) ==
    /\ pc[c] = "scan"
    /\ open' = [open EXCEPT ![c] = NoFile]
    /\ Outcome(c, data[open[c]])
    /\ UNCHANGED <<provider, stateVars, call, found, orphans>>

\* remove_file.
Unlink(c) ==
    /\ pc[c] = "unlink"
    /\ LET k == call[c].key IN
       IF name[k] = NoFile
         THEN Outcome(c, Failed) /\ UNCHANGED name
         ELSE name' = [name EXCEPT ![k] = NoFile] /\ Outcome(c, "done")
    /\ UNCHANGED <<provider, data, dirs, db, callVars>>

-----------------------------------------------------------------------------
(* FeltDBStateProvider and its bridge.                                     *)

\* state.get: a read answers with the record; a write remembers whether there
\* is one.
Get(c) ==
    /\ pc[c] = "get"
    /\ LET held == db[call[c].key] IN
       IF call[c].op = "read"
         THEN /\ Outcome(c, IF held = Missing THEN Failed ELSE held)
              /\ UNCHANGED found
         ELSE /\ found' = IF held = Missing THEN found \ {c} ELSE found \cup {c}
              /\ Continue(c, "put")
    /\ UNCHANGED <<provider, stateVars, call, open, orphans>>

\* Mutant: always insert.
PutInserts(c) ==
    /\ pc[c] = "put"
    /\ IF db[call[c].key] = Missing
         THEN db' = [db EXCEPT ![call[c].key] = call[c].value] /\ Outcome(c, "done")
         ELSE Outcome(c, Failed) /\ UNCHANGED db
    /\ UNCHANGED <<provider, name, data, dirs, callVars>>

\* state.update or state.insert.  When the record came or went since the get,
\* the library may refuse.
Put(c) ==
    /\ pc[c] = "put"
    /\ LET k == call[c].key IN
       \/ db' = [db EXCEPT ![k] = call[c].value] /\ Outcome(c, "done")
       \/ /\ (c \in found) # (db[k] # Missing)
          /\ Outcome(c, Failed)
          /\ UNCHANGED db
    /\ UNCHANGED <<provider, name, data, dirs, callVars>>

\* Mutant: a record that is deleted is overwritten with nothing.
RemoveEmpties(c) ==
    /\ pc[c] = "remove"
    /\ LET k == call[c].key IN
       \/ db' = [db EXCEPT ![k] = Empty] /\ Outcome(c, "done")
       \/ db[k] = Missing /\ Outcome(c, Failed) /\ UNCHANGED db
    /\ UNCHANGED <<provider, name, data, dirs, callVars>>

\* state.delete: of a missing record, it may refuse.
Remove(c) ==
    /\ pc[c] = "remove"
    /\ LET k == call[c].key IN
       \/ db' = [db EXCEPT ![k] = Missing] /\ Outcome(c, "done")
       \/ db[k] = Missing /\ Outcome(c, Failed) /\ UNCHANGED db
    /\ UNCHANGED <<provider, name, data, dirs, callVars>>

-----------------------------------------------------------------------------

\* An orphan's outcome reaches nobody, but its call is over all the same.
Step(c) ==
    \/ MakeParents(c) \/ OpenFile(c) \/ OpenFails(c) \/ FillFile(c) \/ OpenToRead(c)
    \/ ReadFile(c) \/ Unlink(c) \/ Get(c) \/ Put(c) \/ Remove(c) \/ Return(c)

Next ==
    \E c \in Calls :
        \/ Step(c) \/ HostFails(c) \/ ProcessKilled(c) \/ BridgeKilled(c)
        \/ \E r \in Requests : Begin(c, r)

Spec == Init /\ [][Next]_vars

-----------------------------------------------------------------------------
(* Properties.                                                             *)

\* FeltDB keys are opaque, a file and a directory cannot have the same path.
Nested ==
    IF provider = "feltdb" THEN {}
    ELSE {k \in Keys : \E j \in Keys : <<j, k>> \in Below \/ <<k, j>> \in Below}

Abstract ==
    INSTANCE KeyValue WITH store <- View, nested <- Nested, Reliable <- Faults = {}

\* Both providers keep StateProvider's promise: whatever is interleaved, killed
\* or orphaned, a call that no other update of its key overlaps reads what the
\* key holds, and a write that reports success left its value there; it is
\* refused only when one path lies below the other.
KeepsItsPromise == Abstract!Spec

\* A write that was told "done" is durable: until another update of its key
\* begins, the key holds its value, whoever is killed.
SettledContents ==
    \A k \in Keys : settled[k] # "unsettled" => View[k] = settled[k]
=============================================================================
