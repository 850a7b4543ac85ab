------------------------------ MODULE Artifacts ------------------------------
(***************************************************************************)
(* target/app.wasm and target/app.manifest.json: `app build` commands that *)
(* write the two files, and the commands that load them (run, start,       *)
(* status, stop, logs).  Nothing locks the files, and they are written one *)
(* after the other, each with fs::write: open with truncation, then write. *)
(* What holds a load to one build is the hash of the module that the       *)
(* manifest carries.                                                       *)
(*                                                                         *)
(* Abstractions: app.toml and the source code are versions; a manifest is  *)
(* the version of app.toml it was made from and the module whose hash it   *)
(* carries; a compiler run is atomic (external: cargo holds a lock on its  *)
(* target directory, `go build` puts the finished file in place).          *)
(***************************************************************************)
EXTENDS Naturals

CONSTANTS
    Builders,   \* `app build` commands that may run at once
    Loaders,    \* commands that may load the artifact at once
    MaxSpec,    \* bound on the versions of app.toml
    MaxCode,    \* bound on the versions of the source code
    MaxEdits,   \* bound on the edits of either
    Languages,  \* build.language: "rust", "go"
    Absent, Empty, Mixed,   \* no file, a truncated one, one text over another
    None

Specs   == 1..MaxSpec
Codes   == 1..MaxCode   \* a module is the version it was compiled from
Modules == Codes \cup {Empty, Mixed}
Pairs   == [spec : Specs, code : Modules]

ASSUME ArtifactsOK ==
    /\ MaxSpec \in Nat \ {0} /\ MaxCode \in Nat \ {0} /\ MaxEdits \in Nat
    /\ Languages \subseteq {"rust", "go"}
    /\ Builders \cap Loaders = {}
    /\ {Absent, None} \cap Modules = {}
    /\ {Absent, Empty, Mixed, None} \cap Pairs = {}

VARIABLES
    spec, code, \* app.toml and the sources as they are now
    language,
    cargo,      \* the module in cargo's own target directory
    wasm,       \* target/app.wasm
    manifest,   \* target/app.manifest.json
    pc,         \* next step of each command
    made,       \* what each build works on: its app.toml, the module it read
    printed,    \* module whose bytes went into the Application ID a build printed
    seen,       \* manifest a loader has read
    loaded,     \* what a loader ended up with
    built,      \* history: every pair a build made a manifest of
    spoiled,    \* history: builds that have overlapped another
    everSpoiled,\* history: have two builds ever overlapped?
    settled     \* history: the pair of the last build, if nothing was written since

files == <<cargo, wasm, manifest>>
vars  == <<spec, code, language, files, pc, made, printed, seen, loaded,
           built, spoiled, everSpoiled, settled>>

Commands   == Builders \cup Loaders
BuildSteps == {"compile", "read", "openwasm", "fillwasm", "openmanifest", "fillmanifest", "report"}
Ended      == {"idle", "ok"}

TypeOK ==
    /\ spec \in Specs /\ code \in Codes /\ language \in {"rust", "go"}
    /\ cargo \in Codes \cup {Absent}
    /\ wasm \in Modules \cup {Absent}
    /\ manifest \in Pairs \cup {Absent, Empty, Mixed}
    /\ pc \in [Commands -> Ended \cup BuildSteps \cup {"manifest", "module"}]
    /\ made \in [Builders -> [spec : Specs \cup {None}, code : Modules \cup {None}]]
    /\ printed \in [Builders -> Modules \cup {None}]
    /\ seen \in [Loaders -> Pairs \cup {None}]
    /\ loaded \in [Loaders -> Pairs \cup {None}]
    /\ built \subseteq Pairs
    /\ spoiled \subseteq Builders /\ everSpoiled \in BOOLEAN
    /\ settled \in Pairs \cup {None}

Nothing == [spec |-> None, code |-> None]

Init ==
    /\ spec = 1 /\ code = 1 /\ language \in Languages
    /\ cargo = Absent /\ wasm = Absent /\ manifest = Absent
    /\ pc      = [c \in Commands |-> "idle"]
    /\ made    = [b \in Builders |-> Nothing]
    /\ printed = [b \in Builders |-> None]
    /\ seen    = [l \in Loaders |-> None]
    /\ loaded  = [l \in Loaders |-> None]
    /\ built = {} /\ spoiled = {} /\ everSpoiled = FALSE
    /\ settled = None

Goto(c, step) == pc' = [pc EXCEPT ![c] = step]

Building(b) == pc[b] \notin Ended

\* fs::write onto a file that holds old by now.
Overlaid(old, new) == IF old \in {Empty, new} THEN {new} ELSE {new, Mixed}

-----------------------------------------------------------------------------
(* app build.                                                              *)

\* The user edits app.toml or the sources.
Edit ==
    /\ spec + code < MaxEdits + 2
    /\ \/ spec < MaxSpec /\ spec' = spec + 1 /\ code' = code
       \/ code < MaxCode /\ code' = code + 1 /\ spec' = spec
    /\ UNCHANGED <<language, files, pc, made, printed, seen, loaded,
                   built, spoiled, everSpoiled, settled>>

\* Mutant: the compiler is not run again.
LoadSpecOnly(b) ==
    /\ ~Building(b)
    /\ made'    = [made EXCEPT ![b] = [spec |-> spec, code |-> None]]
    /\ printed' = [printed EXCEPT ![b] = None]
    /\ Goto(b, "read")
    /\ UNCHANGED <<spec, code, language, files, seen, loaded,
                   built, spoiled, everSpoiled, settled>>

\* AppSpec::load; an invalid app.toml ends the build here.
LoadSpec(b) ==
    /\ ~Building(b)
    /\ LET others == {d \in Builders \ {b} : Building(d)} IN
       IF others = {}
         THEN spoiled' = spoiled \ {b} /\ UNCHANGED everSpoiled
         ELSE spoiled' = spoiled \cup others \cup {b} /\ everSpoiled' = TRUE
    /\ made'    = [made EXCEPT ![b] = [spec |-> spec, code |-> None]]
    /\ printed' = [printed EXCEPT ![b] = None]
    /\ Goto(b, "compile")
    /\ UNCHANGED <<spec, code, language, files, seen, loaded, built, settled>>

\* cargo writes to its own directory, go straight to target/app.wasm.
Compile(b) ==
    /\ pc[b] = "compile"
    /\ IF language = "rust"
         THEN cargo' = code /\ UNCHANGED <<wasm, settled>>
         ELSE wasm' = code /\ settled' = None /\ UNCHANGED cargo
    /\ Goto(b, "read")
    /\ UNCHANGED <<spec, code, language, manifest, made, printed, seen, loaded,
                   built, spoiled, everSpoiled>>

\* Mutant: both builders read target/app.wasm.
ReadBinaryFromTarget(b) ==
    /\ pc[b] = "read"
    /\ made' = [made EXCEPT ![b].code = IF wasm = Absent THEN cargo ELSE wasm]
    /\ Goto(b, "openwasm")
    /\ UNCHANGED <<spec, code, language, files, printed, seen, loaded,
                   built, spoiled, everSpoiled, settled>>

\* fs::read of the compiler's output.
ReadBinary(b) ==
    /\ pc[b] = "read"
    /\ made' = [made EXCEPT ![b] =
                   [spec |-> @.spec, code |-> IF language = "rust" THEN cargo ELSE wasm]]
    /\ Goto(b, "openwasm")
    /\ UNCHANGED <<spec, code, language, files, printed, seen, loaded,
                   built, spoiled, everSpoiled, settled>>

\* Mutant: opened without truncation.
OpenWasmKeepsTail(b) ==
    /\ pc[b] = "openwasm"
    /\ wasm' = IF wasm = Absent THEN Empty ELSE wasm
    /\ settled' = None
    /\ Goto(b, "fillwasm")
    /\ UNCHANGED <<spec, code, language, cargo, manifest, made, printed, seen, loaded,
                   built, spoiled, everSpoiled>>

OpenWasm(b) ==
    /\ pc[b] = "openwasm"
    /\ wasm' = Empty
    /\ settled' = None
    /\ Goto(b, "fillwasm")
    /\ UNCHANGED <<spec, code, language, cargo, manifest, made, printed, seen, loaded,
                   built, spoiled, everSpoiled>>

\* The module is complete, and Manifest::from_spec hashes the bytes in memory.
FillWasm(b) ==
    /\ pc[b] = "fillwasm"
    /\ wasm' \in Overlaid(wasm, made[b].code)
    /\ built' = built \cup {made[b]}
    /\ Goto(b, "openmanifest")
    /\ UNCHANGED <<spec, code, language, cargo, manifest, made, printed, seen, loaded,
                   spoiled, everSpoiled, settled>>

OpenManifest(b) ==
    /\ pc[b] = "openmanifest"
    /\ manifest' = Empty
    /\ Goto(b, "fillmanifest")
    /\ UNCHANGED <<spec, code, language, cargo, wasm, made, printed, seen, loaded,
                   built, spoiled, everSpoiled, settled>>

\* Mutant: the manifest is made of the file read back from disk.
FillManifestReadsBack(b) ==
    /\ pc[b] = "fillmanifest" /\ wasm # Absent
    /\ manifest' \in Overlaid(manifest, [spec |-> spec, code |-> wasm])
    /\ settled' = IF b \in spoiled THEN None ELSE made[b]
    /\ Goto(b, "report")
    /\ UNCHANGED <<spec, code, language, cargo, wasm, made, printed, seen, loaded,
                   built, spoiled, everSpoiled>>

FillManifest(b) ==
    /\ pc[b] = "fillmanifest"
    /\ manifest' \in Overlaid(manifest, made[b])
    /\ settled' = IF b \in spoiled THEN None ELSE made[b]
    /\ Goto(b, "report")
    /\ UNCHANGED <<spec, code, language, cargo, wasm, made, printed, seen, loaded,
                   built, spoiled, everSpoiled>>

\* main: the Application ID is printed from the manifest in memory and the module
\* read back from target/.
Report(b) ==
    /\ pc[b] = "report"
    /\ printed' = [printed EXCEPT ![b] = wasm]
    /\ Goto(b, "ok")
    /\ UNCHANGED <<spec, code, language, files, made, seen, loaded,
                   built, spoiled, everSpoiled, settled>>

\* Any step fails, or the build is killed; what is on disk stays.
BuildStops(b) ==
    /\ Building(b)
    /\ Goto(b, "idle")
    /\ made' = [made EXCEPT ![b] = Nothing]
    /\ spoiled' = spoiled \ {b}
    /\ UNCHANGED <<spec, code, language, files, printed, seen, loaded,
                   built, everSpoiled, settled>>

-----------------------------------------------------------------------------
(* load_manifest_artifact.                                                 *)

BeginLoad(l) ==
    /\ pc[l] \in Ended
    /\ Goto(l, "manifest")
    /\ loaded' = [loaded EXCEPT ![l] = None]
    /\ UNCHANGED <<spec, code, language, files, made, printed, seen,
                   built, spoiled, everSpoiled, settled>>

\* Manifest::load: a truncated or overlaid text does not parse.
ReadManifest(l) ==
    /\ pc[l] = "manifest"
    /\ IF manifest \in Pairs
         THEN seen' = [seen EXCEPT ![l] = manifest] /\ Goto(l, "module")
         ELSE Goto(l, "idle") /\ UNCHANGED seen
    /\ UNCHANGED <<spec, code, language, files, made, printed, loaded,
                   built, spoiled, everSpoiled, settled>>

\* Mutant: the hash is not compared.
ReadModuleUnchecked(l) ==
    /\ pc[l] = "module"
    /\ loaded' = [loaded EXCEPT ![l] = [spec |-> seen[l].spec, code |-> wasm]]
    /\ Goto(l, "ok")
    /\ seen' = [seen EXCEPT ![l] = None]
    /\ UNCHANGED <<spec, code, language, files, made, printed,
                   built, spoiled, everSpoiled, settled>>

\* The module, and the comparison of its hash with the manifest's.
ReadModule(l) ==
    /\ pc[l] = "module"
    /\ IF wasm = seen[l].code
         THEN /\ loaded' = [loaded EXCEPT ![l] = [spec |-> seen[l].spec, code |-> wasm]]
              /\ Goto(l, "ok")
         ELSE Goto(l, "idle") /\ UNCHANGED loaded
    /\ seen' = [seen EXCEPT ![l] = None]
    /\ UNCHANGED <<spec, code, language, files, made, printed,
                   built, spoiled, everSpoiled, settled>>

BuildStep(b) ==
    \/ LoadSpec(b) \/ Compile(b) \/ ReadBinary(b) \/ OpenWasm(b) \/ FillWasm(b)
    \/ OpenManifest(b) \/ FillManifest(b) \/ Report(b) \/ BuildStops(b)

LoadStep(l) == BeginLoad(l) \/ ReadManifest(l) \/ ReadModule(l)

Next ==
    \/ Edit
    \/ \E b \in Builders : BuildStep(b)
    \/ \E l \in Loaders : LoadStep(l)

Spec == Init /\ [][Next]_vars

-----------------------------------------------------------------------------
(* Properties.                                                             *)

\* A load that succeeds pairs a manifest with the module of one and the same
\* build, whichever builds overwrote, died or were edited around it.
LoadsAreBuilds == \A l \in Loaders : loaded[l] # None => loaded[l] \in built

\* A module that no compiler produced (truncated, or two of them mixed) gets a
\* manifest of its own, which then loads, only if two builds overlapped: a build
\* that was killed poisons nothing.
OnlyOverlapGarbles == (\E p \in built : p.code \notin Codes) => everSpoiled

\* Once a build that no other one overlapped has written its manifest, its own pair
\* is what loads until the next build writes: it repairs whatever a killed build
\* left behind.
BuildSettles == settled # None => manifest = settled /\ wasm = settled.code

\* The Application ID that such a build prints is the one a load will compute.
PrintedIDLoads ==
    \A b \in Builders : pc[b] = "ok" /\ b \notin spoiled => printed[b] = made[b].code
=============================================================================
