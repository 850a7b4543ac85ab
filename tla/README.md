# A verification project for portability

The repository builds a small application runtime: `app build` compiles a Go or Rust source to a
WebAssembly artifact with a manifest, `app run` serves it over HTTP, `app start`, `app status` and
`app stop` manage such a server without a daemon, and the `appport-*` commands do the same for the
AppPort form of a manifest. This directory holds TLA+ modules that model it, TLC configurations
that check them on small instances, and theorems checked by TLAPS.

All paths below are relative to the repository root; `lib.rs` is `crates/app-runtime/src/lib.rs`,
`main.rs` is `crates/app-cli/src/main.rs`, other files are named with their crate.

## 1. The system

| Component | State | Operations | Interacts with |
|---|---|---|---|
| **Process lifecycle** (lib.rs 406-516, 922-1040; main.rs 160-380) | `~/.appboundry/runtime/<Application ID>/runtime.json`; the process table; signals; the child's stdout pipe | `start`, `status`, `stop` and their `appport-*` twins, `record_started`, `reject_if_running`, `terminate` | spawns the server (`app run`), which knows nothing of the record; other commands, only through the file and the pid in it |
| **Server and invoke** (lib.rs 305-359, 238-283) | listening socket, one connection | bind, announce, accept, read request, invoke, reply | execution units, `runtime.log`; its parent through stdout |
| **Execution units and runtime.log** (lib.rs 770-845, 986-999, 1044-1130) | the log shared by all processes of one Application ID; a counter per process, seeded from the log | `create`, `execute`, `fail`, `dispose` (Drop), `log_line`, `highest_logged_execution_unit` | request limiter, guest |
| **RequestLimiter** (lib.rs 43-84) | `active: AtomicUsize` | `enter`, Drop of the permit | execution units |
| **Resource limits** (lib.rs 854-886) | none | `runtime_limits`: megabytes and milliseconds to bytes and fuel | manifest; wasmtime |
| **Host functions** (lib.rs, the linker) | guest memory, host state | `network_connect`, `network_connect_to`, `get_secret`, `get_config`, `storage_write`, `storage_read_equals`, and the WASI functions a guest needs | capabilities, state providers; the guest |
| **State providers** (app-capabilities lib.rs 189-305, `feltdb-state-provider.mjs`) | files below a directory, or FeltDB records | `read`, `write`, `delete`, `list` | several processes use the same store |
| **Storage paths, Base64, name lists** (app-capabilities lib.rs 365-498) | none | `storage_relative_path`, `base64_encode`, `base64_decode`, `parse_json_string_array` | state providers |
| **Network, config, secrets** (app-capabilities lib.rs 46-176) | allow-lists | `connect`, `connect_to`, `get` | host functions |
| **Manifest and Application ID** (app-manifest) | none | `from_spec`, `from_appport_operation`, hash of the canonical manifest and the module | build, load, lifecycle (the ID names the directory) |
| **app.toml** (app-spec) | none | `validate` | build |
| **Build and artifacts** (app-compiler) | `app.wasm`, `app.manifest.json` | `build`, `write_artifacts`, `load` | lifecycle: `start` loads, then its child loads again |
| **CLI** (main.rs) | none | argument parsing, `init`, `inspect`, `logs` | all of the above |

### What is hard, and what makes each component correct

* **Lifecycle.** No lock, no daemon: a command looks at the file and acts on it many system calls
  later, while other commands do the same. A command may be killed between any two steps, the disk
  may be full, the server may hang or die at any time, a pid may be given to another process, and
  `fs::write` truncates before it writes. Correct means: the record never names something that is
  not a server that came up; a failed `start` leaves nothing running; a successful `stop` has ended
  the process; a started server can be found again; every command ends.
* **Server and units.** A process may be killed in the middle of a log line; the log may not be
  writable; guests fail or write output; a client may connect and say nothing. Correct means:
  permits are returned on every path, the answer to a client agrees with the log, units are numbered
  1, 2, 3, ... over restarts, and nothing but a silent client holds the server up.
* **State providers.** Two processes share a store, a write is not atomic, and a FeltDB bridge
  outlives a caller that is killed. Correct means: both providers keep one promise, operation by
  operation.
* **Build and deployment.** The two files of an artifact are replaced one after the other, builds
  overlap or die anywhere, and a start loads the artifact twice. Correct means: a load sees one build
  or fails, a build alone repairs whatever was there, and the record names a server of its own ID.
* **Contract.** A declaration goes through validation, the manifest, its hash, and the host state.
  Correct means: the guest may do what is declared and nothing else, from either kind of document.
* **Host functions and algorithms.** The guest chooses pointers, lengths, counts and paths; sums are
  of `i32`; encodings are written by hand. Correct means: the host stays in the buffer it was given,
  paths stay below the mount, and every encoding is the inverse of its decoding or refuses.

`PROJECT.json` lists each of these hazards at its line with the properties that cover it.

## 2. Modules

| Module | Role |
|---|---|
| `Lifecycle`, `LifecycleProofs` | commands, servers, pids, signals and `runtime.json` |
| `ExecutionUnits`, `ExecutionUnitsProofs` | servers, one-shot units and `runtime.log` |
| `StateProviders`, `StateProvidersProofs` | the filesystem and the FeltDB provider |
| `KeyValue` | abstract: the promise of both; implemented by `StateProviders` |
| `Artifacts`, `ArtifactsProofs` | builds and loads |
| `Deployment`, `DeploymentProofs` | `Artifacts` composed with start, stop and status |
| `Contract`, `ContractProofs` | from a declaration through the manifest to what the host allows |
| `StoragePaths`, `Codecs`, `TextProofs` | path resolution, Base64 and name lists as operators; what they compute, for texts of every length |
| `HostCalls`, `HostCallsProofs` | the host functions over guest memory; uses the three above |
| `MC*` | fault sets, input sets and symmetry for TLC |

### 2.1 Lifecycle

One Application ID, hence one record and one port. `Cmds` are CLI processes, each of which runs one
command after another; `Pids` are the process identifiers of the host.

| Variable | Code |
|---|---|
| `record` | `runtime.json`: absent, torn (does not parse), or the pid it names |
| `proc`, `sig`, `parent` | the kernel's process table, pending signals, who reaps a process |
| `said` | the server has printed `<name> listening on <endpoint>` |
| `pc`, `op`, `seen`, `child`, `fd` | locals of a command: next system call, subcommand, `record.pid`, `child.id()`, the file `fs::write` has open |
| `acked` | history: live servers whose `start` told its user so |

Every system call that touches shared state is one action, because that is where commands
interleave:

| Code | Actions |
|---|---|
| `runtime_application`, `prepare_status` (loading, hash and secret checks) | `Begin`, `Load` |
| `read_record` (`exists`, then `read` and parse) | `RecordExists`, `RecordOpen` |
| `process_running` in `status`, `stop`, `reject_if_running` | `ProbeRecorded` |
| `remove_record` of a stale record | `RemoveStale` |
| `start`/`appport_start`: `spawn()`, the error path with `child.kill()` | `Spawn`, `SpawnFails`, `Abandon` |
| `wait_for_started`: the line, end of file, the minute | `WaitListening`, `WaitEof`, `WaitTimeout` |
| `record_started`: open with truncation, write | `OpenRecord(Fails)`, `WriteRecord(Fails)` |
| `terminate`: TERM, five seconds of polling, KILL | `Terminate(Fails)`, `PollGone`, `PollDeadline(Fails)` |
| `remove_record` of `stop` | `ClearRecord` |
| `run_runtime_application` as far as its parent sees it | `Bind`, `Announce`, `ServerExits` |
| `app run` by hand | `RunServer` |
| the operating system | `SignalDelivered`, `OtherProcess`, `OtherExits`, `CrashCmd` |

Details that matter and are easy to miss: a dead child is a zombie, and answers `kill -0`, until the
`start` that spawned it exits; a server that prints its line after that `start` died gets a broken
pipe and panics; removing the record unlinks a file that another `start` may still be writing; two
writers of the same file overlay each other's text, and a longer old one leaves a tail; a probe
answers "gone" when the program `kill` itself cannot be run.

Abstractions: a record is its pid, since its other fields are copies of the prepared application
that nothing reads but the printing of `status`; the one-minute and five-second timeouts may end at
any moment, which includes every real timing; a process with a signal pending makes no further
progress of its own.

### 2.2 ExecutionUnits

`Procs` are process slots: a slot is reused for the next process when its process ends. A process is
a server (`app run`, `appport-run`) or a single unit (`appport-invoke`).

| Variable | Code |
|---|---|
| `highest`, `tail` | `runtime.log`, as `highest_logged_execution_unit` reads it: the highest number that starts a line, and whether the last line lacks its newline |
| `pc`, `half`, `kind` | where a process is; `half` holds the processes between the two writes of `writeln!` |
| `counter` | `HostState.execution_units` |
| `unit`, `result` | the current `ExecutionUnit` and what `invoke` returns |
| `active` | `RequestLimiter.active` |
| `logless` | the processes whose `log_path` is None, with neither `HOME` nor `APP_RUNTIME_LOG` set: their `log_line` succeeds and writes nothing |
| `issued`, `logged`, `lost` | history: numbers in the order of their create lines; lines of the current unit, written and failed |
| `numbering` | history: "spoilt" once two processes of a log overlapped, a line failed, or a one-shot unit's create line was glued to a torn line |

`BuildHostState` seeds the counter from the log (`SeedFromLog`), or starts at 0 without one
(`WithoutLog`); `Bind`, `ListeningLine`, `Accept` and `ReadRequest`
are `run_runtime_application`; `Enter` is `RequestLimiter::enter` with the creation of the unit's
number; `CreateLine`, `ExecuteLine`, `GuestWrites` with `OutputLine` (output of the guest, which goes
to the same log), `GuestEnds`, `CompleteLine`, `FailLine`, `DisposeLine` are the stages of a unit,
each line a `log_line` with the error exit that follows when it cannot be written (`WriteText` is the
first of its two writes); `ErrorLine` and `Reply` are the end of a request; `ClientFails` is a
connection error, which the `?` in the accept loop turns into the end of the server; `Killed` is a
signal.

Abstractions: a guest completes or fails; an I/O error of a line writes all of the text or nothing
of it; `set_fuel` cannot fail for the engine that `invoke` builds; requests of a server are handled
one at a time, as in the code, so that `enter` never actually refuses there.

### 2.3 KeyValue and StateProviders

`KeyValue` is what guests that share an application's state may rely on, a "safe register" per key:
a call that no other update of its key overlaps behaves like a call on a plain map; one that is
overlapped may answer anything; an update that is overlapped, fails or dies may leave anything in its
own key, and nothing else ever changes a key. Its variables are `store`, `call`, `answer`, `nested`
(keys that a filesystem may refuse because one path lies below the other) and `alone` (calls nothing
has overlapped); its actions `Begin`, `Change`, `Return`, `Leave`.

`StateProviders` is both implementations, one system call or one FeltDB operation at a time.
`name` and `data` are directory entries and inodes, `dirs` the keys that are directories, `db` the
FeltDB records, `orphans` the bridges whose caller is gone.

| Code | Actions |
|---|---|
| `LocalDirectoryStateProvider::write`: `create_dir_all`, `fs::write` as open with truncation, then write | `MakeParents`, `OpenFile`, `OpenFails`, `FillFile` |
| `read`: open, then read | `OpenToRead`, `ReadFile` |
| `delete` | `Unlink` |
| the FeltDB bridge: `get`, then `update` or `insert`; `delete` | `Get`, `Put`, `Remove` |
| I/O errors; a killed process; a killed bridge | `HostFails`, `ProcessKilled`, `BridgeKilled` |

`View` maps either store to `KeyValue`'s. Abstractions: keys are resolved paths; one operation of
the FeltDB library is atomic (external); an insert of a key that exists may succeed or be refused.

### 2.4 Artifacts and Deployment

`Artifacts` is `target/`: `wasm` and `manifest`, each absent, empty, mixed (one text over another) or
of a version. A manifest is the version of app.toml it was made from and the module whose hash it
carries. A build is `LoadSpec`, `Compile`, `ReadBinary`, `OpenWasm`, `FillWasm`, `OpenManifest`,
`FillManifest`, `Report`, and `BuildStops` anywhere (an error, a signal); a load is `BeginLoad`,
`ReadManifest`, `ReadModule` with the comparison of the hash; `Edit` is the user.

`Deployment` EXTENDS `Artifacts` and gives its loaders a purpose. An Application ID is the pair of
versions, and each has its record. `phase` is where a command is, `found` the record it has read and
is about to act on, `prepared` the ID it read it under, `serving` what each server loaded.

| Code | Actions |
|---|---|
| the loads of `start`, `stop`, `status` and of the server; the second read of the manifest in `artifact_path` | `PrepareStart`, `PrepareStop`, `LoadGoesOn`, `LoadFails` |
| `read_record` | `Look` |
| `process_running` in `reject_if_running`, `status` and `stop` | `FindAlive`, `FindDead`, `FindToStop` |
| `terminate` | `Terminate` |
| `remove_record` | `RemoveRecord` |
| an error or a signal between these | `GivesUp` |
| the spawn of `app run`; its bind and its line | `Spawn`, `Listen` |
| `wait_for_started`, `record_started`; the error paths that kill the child | `RecordStarted`, `AbandonServer` |
| the end of a server by itself | `ServerDies` |

Each of these is a step of its own, and any other command may act between two of them: a `stop` may
remove a record that a start wrote after it looked. What `wait_for_started` does is to look for the
text `listening on <endpoint>` in the server's line (main.rs 363), so a port is the sequence of its
digits and `Expected` asks whether the expected ones are a prefix of the announced ones: a server that
was rebuilt from port 3000 to 30001 between the two loads is accepted, recorded and reported under
port 3000. The history variable `rebuilt` holds the starts between whose two loads a build wrote to
`target/`; `crossed` those that wrote their record when another command had already read what was
there before. Torn records, the system calls inside one of these steps, the crash of a start that has
a child, and recycled pids are in `Lifecycle`.

### 2.5 Contract

`Build` is `AppSpec::validate` and `Manifest::from_spec`, or `from_appport_operation` with
`find_capability` and `declares_authorization`; `Run` is `host_state` with `runtime_limits` (checked
multiplications, modelled at a small width) and the check of the secrets. `ConnectTo`, `Connect`,
`GetSecret`, `GetConfig` are what the host functions then answer, and `CanonicalManifest` is what the
identity is computed from. Names and destinations are members of small sets of which some are valid.
A list of destinations with an entry that is not a string counts as no list, which means every
destination: `from_appport_operation` drops the error (app-manifest lib.rs 290), while the same error
in a list of secrets or variables refuses the document. `FromAppPort` does the same. What such a list
should mean is not taken from there: `EnforcesDeclaration` claims nothing of it (`AllStrings`), and
`OutboundRestricts` says what `src/README.md` 62-64 says of the list, which the code violates.

The cast `as usize` of the memory limit is the identity, as it is where addresses have 64 bits.
`BuiltIsHosted` is about declarations: that `state_root` fails in an environment without `HOME` and
without `--state`, whatever is declared, is left out.

### 2.6 StoragePaths, Codecs and HostCalls

`StorageRelativePath` and `HostFile` are `storage_relative_path` and `resolve_relative_path` over
sequences of characters; `Base64Encode`, `Base64Decode`, `JSONArray` and `ParseJSONStringArray` the
two codecs (`JSON.stringify` on the other side of the bridge is external: it escapes quotes, backslashes
and the 32 control characters, `EscapeOf`, of which the parser takes back only the first two). The
parser's `trim` is left out: what `JSON.stringify` prints has no blanks outside its quotes, and the
piece behind a comma inside a name is refused with or without the blanks at its ends. A loop over the characters of a
text is a fold with the loop's locals as its state: `ReadAll` for the splits at `/` and at `,`,
`UnescapeAll` for the two `replace` calls of the parser.

In `HostCalls` a guest makes one call after another (`Call`, `Return`) with any pointers and lengths.
`GetValue` is `get_secret` and `get_config`, `FillBuffer` is `random_get` and the functions that write
one word, `SizesGet` the two words of `args_sizes_get` and `environ_sizes_get`, `FdWriteVector` and
`FdWriteEnd` the loop of `fd_write`, `StorageWrite` and `StorageReadEquals` the storage functions
through paths, provider and Base64, `List` the answer of `list`. An addition of two `i32` that does
not fit panics (debug build) or is refused after it wrapped to a negative number (release build).

## 3. Runs

Fault constants name what may go wrong in an instance; a run without a fault leaves it out on
purpose, because the property is about the rest.

| Run | Instance | Shows |
|---|---|---|
| `lifecycle_races` | 2 commands, 3 pids; crashes, I/O and fork errors | `TypeOK`, `RecordNamesAListener`, `FailedStartLeavesNoServer`, `OneStartedServer`, `RefusalMeansServing` under all interleavings |
| `lifecycle_recycled_pids` | 1 command, 3 pids; crashes, I/O errors, recycled pids | `StartedServerIsRecorded`: one command at a time never loses a started server |
| `lifecycle_progress` | 2 commands, 2 pids, fairness; I/O errors | `StoppedIsDoomed`, `CommandsEnd`, `StoppedProcessDies` |
| `units` | processes of both kinds one after another, 4 units, fairness; kills, log and client errors, no log | `TypeOK`, `NthUnitIsNumberN`, `PermitsReturned`, `AnswersAgreeWithLog`; `RequestsAnswered`; `OnlySilenceBlocks`: the server returns to `accept` unless a client never sends its request |
| `state` | 2 calls, 2 keys one below the other, 2 values, 4 inodes, both providers; kills and I/O errors | `TypeOK`; `SettledContents`: a write that reported success lasts; the module implements `KeyValue` (`KeepsItsPromise`) |
| `artifacts` | 2 builders, 1 loader, 1 edit of app.toml or of the sources, Go and Rust | `TypeOK`, `LoadsAreBuilds`, `OnlyOverlapGarbles`, `BuildSettles`, `PrintedIDLoads` |
| `deployment` | 1 builder, 2 starts one at a time, 1 stop or status at any time, up to 2 edits, which make 3 versions of app.toml (ports 3000, 30001, 3000) or 2 of the sources | `DeploymentTypeOK`, `RecordedIsServed`, `EndpointIsServed`, `ServersAreFindable` |
| `contract` | every pair of some 150 declarations of both kinds, every environment and set of secrets | `TypeOK`, `EnforcesDeclaration`, `LimitsAreExact`, `BuiltIsHosted`, `SameIDSameRights` |
| `host_calls` | pointers and lengths around every boundary of a 5-bit `i32`; all paths of up to 6 characters; values of up to 4 bytes; lists of up to 2 names of up to 2 awkward characters | `BuffersRespected`, `OverflowNeedsHugeMemory`, `AcceptedIsBelowMount`, `CanonicalPathsServed`, `ReadEqualsIsExact`, `ListIsExactOrRefused` |

Three further runs state what a test or a document of the repository says and find it violated; each
is a finding of `PROJECT.json`:

| Run | What happens |
|---|---|
| `lifecycle_overlap` (`StartedServerIsFound`) | Two commands, none of which fails or is killed; no system call fails. Two starts pass `reject_if_running` together and a server exits; or a `status` judges a record stale that a `start` replaces before the file is removed. The record of a live, announced server is overwritten or removed. |
| `units_overlap` (`LogCountsUnits`) | A server and an `appport-invoke` number their units independently and both use the same number. |
| `contract_outbound` (`OutboundRestricts`) | An AppPort manifest lists a destination and something that is not a string. The application is built and hosted, and may connect anywhere. |

Five more weaknesses have no run of their own. When the program `kill` cannot be run,
`process_running` answers no and `status` removes the record of a live server (the hypothesis
`KillRuns` below). When a server died and its pid was reused, `start` refuses because of a stranger,
and `stop` would signal it (`FreshPids`). When an `appport-invoke` is killed between the text of a
line and its newline, the next one's create line is glued to the torn one and not counted
(`numbering`). A start whose record another command is about to remove loses its server (`crossed`).
And a recorded endpoint may be a prefix of the one served (`Expected`), where
`crates/app-cli/tests/cross_language.rs` 184 looks for the endpoint in the text of `status` in the same
way. In each case the properties and the theorems name the exception and hold without it.

**Bounds.** Every race found in the lifecycle is between two commands; a third pid lets a server
started by hand, or a dead one's number, take part besides the two children. Commands loop, so
histories are not bounded: pids are used up when they are not recycled, after which only failing
spawns remain. In `ExecutionUnits` two processes are what it takes to overlap (`units_overlap`), and one
slot is enough for processes that follow one another (`units`); what an overlap means for the properties
of `units` is left to the theorems, which are for any number of processes. `MaxUnits` bounds the
numbers (no unit is created beyond it): four are one that is torn by a kill at any of its stages, the
one of a process that absorbs or is glued to the torn line, and two after it. In `state` two calls are what it takes to overlap, a third
party being an orphaned bridge, and four inodes are one for each name and each open file. In
`artifacts` two builds interleave in every order, each may stop anywhere and begin again, and
`MaxSpec`, `MaxCode` and `MaxEdits` bound the edits, not the builds: with one edit, an old and a
new version of either meet in `target/`. In `deployment` a rebuild may change the ID
and keep the port, or change both; the second port is taken for the first but not the first for the
second. One start at a time (`MaxStarting`) with a stop or status that overlaps it is enough for a
record to be crossed; the theorems are for any number. A pid is not reused while a process has it, a
record names it or a command has read it. The theorems remove
these bounds for the properties they cover. `MaxU64`, `Kilo` and `Milli` in `contract` are small
numbers with the same relations (the product of a declared value and its factor is below, at and
beyond the limit). In `host_calls` a memory lies below, at and above `IntMax`; six characters hold a
mount of two components with a dot-dot between doubled slashes; four bytes cross the Base64 group;
`MaxRecords` bounds the records stored.

**Deadlock** is checked except in `contract` (an application is hosted or refused and the instance
ends), `contract_outbound` (the same), `host_calls` (a panic ends the process) and `units_overlap` (the
bound on units is reached).

**Fairness.** `Lifecycle`: weak fairness of each command's steps, since the operating system
schedules a runnable process and the two waits of a command run on timers (`recv_timeout`, a
deadline), and delivery of SIGKILL. Nothing is assumed of a server: it may hang, ignore SIGTERM or
never print its line. `ExecutionUnits`: weak fairness of each process's own steps, and strong fairness
of the end of a guest, which may write output any number of times before. This is what metering
gives an application that declares `[resources]`; without it a guest may loop and its request is
never answered. No client is assumed to connect, to send its request, or to stay.

**Symmetry** (commands and pids, calls, values and inodes, builders, starts, applications) is used in safety runs only; the implementation of `KeyValue` is a safety property.
`deployment` also has a view (`Relevant`): states that differ only in the histories of `Artifacts`, or in
what an ended build or load left in variables that the next one sets before it reads them, count as one.
No step and no property of the run depends on these; without the view the run finds the same.

## 4. Proofs

Theorems hold for any values of the constants that satisfy the named assumptions of the modules, so
for any number of commands, pids, processes, callers, builds, applications and vectors, and for paths,
values and names of every length. Hypotheses are named:
`FreshPids` (pids are not recycled), `KillRuns` (`kill` can be run), `OneAtATime` (at most one
command). Where a property excepts something, as `NthUnitIsNumberN` and `ServersAreFindable` do, the
exception is a history variable of the model and part of the property.

| Theorem | Hypotheses | Rests on |
|---|---|---|
| `TypeCorrect` | none | `Shaped` |
| `ListenerRecorded`, `OneServerAnnounced` | `FreshPids` | `Heard` |
| `FailedStartIsClean` | `FreshPids` | `Doomed` |
| `StopDooms` | `FreshPids`, `KillRuns` | `Doomed` |
| `StartedIsRecorded` | `OneAtATime`, `KillRuns` | `Alone` |
| `RefusalIsHonest` | `FreshPids` | `Kept`, `Heard` |
| `PermitsAlwaysReturned` | none | `Permitted` |
| `UnitsTyped` | none | `Permitted`, `Typed` |
| `AnswersAlwaysAgree` | none | `Reported` |
| `NthUnitAlwaysNumberN` | none | `Numbered` |
| `ProvidersTyped` | none | `Sound` |
| `SettledAlways` | none | `Sound`, `Alone`, `Kept` |
| `ProvidersKeepPromise` | none | `Sound`, `Alone` |
| `ArtifactsTyped` | none | `Typed` |
| `LoadsAlwaysBuilds` | none | `Matched` |
| `LoneBuildSettles`, `PrintedIDAlwaysLoads`, `GarblingNeedsOverlap` | none | `Undisturbed` |
| `DeploymentImplementsArtifacts` | none | each step is a step of `Artifacts` or a stutter |
| `DeploymentTyped`, `RecordedAlwaysServed`, `EndpointAlwaysServed` | none | `Deployed` |
| `ServersAlwaysFindable` | none | `Deployed`, `Findable` |
| `BuffersAlwaysRespected` | none | `Buffered` |
| `NoOverflowBelowHugeMemory` | none | `Vectored` |
| `AlwaysBelowMount`, `CanonicalPathsAlwaysServed` | none | `Requested`, and below |
| `ReadEqualsAlwaysExact` | none | `Stored`, and below |
| `ListAlwaysExactOrRefused` | none | `Answered`, and below |
| `RelativeIsBelowMount`, `CanonicalIsServed`, `Base64RoundTrip`, `ListIsParsed` | none | induction over texts |
| `AlwaysDerived`, `TypeCorrect` (Contract), `DeclarationEnforced`, `LimitsAlwaysExact`, `SameIDAlwaysSameRights`, `BuiltAlwaysHosted` | none | `Derived` |

None of the properties is inductive alone. The strengthenings say what the code relies on silently:

* `Shaped` ties a command's locals to its step (who has a child, who has read a record). Without it
  `WriteRecord` could record a command that has no child.
* `Heard`: whoever a record, a reader or a writing start can mention has printed its line, and the
  port admits one listener. A line is only forgotten by a fork with the same number.
* `Doomed`: a dead process stays dead: SIGKILL is never downgraded to SIGTERM and a signalled process
  makes no progress.
* `Alone` (Lifecycle): what the only command read from the record is still there when it acts, and
  every step that can lose the record comes after every announced server was signalled.
* `Kept` (Lifecycle): a child has a parent only while its start waits or writes; hence no zombie can
  be what another command takes for a running server.
* `Permitted`: one permit inside a unit and none outside, whichever line failed.
* `Reported`: which lines have reached the log, and which were lost, at each stage of a unit.
* `Numbered`: until the numbering is spoilt there is one process with a log, and its counter, the highest
  number in the log and the history agree at each of its steps. A torn create line is harmless for a server because its text starts a line (the previous line was ended
  by the listening line), and a torn listening line hides no number.
* `Sound`: at which steps of a provider a file is open, that an open file has no name but the one its
  caller asked for, and that no two names are one file. `Alone` (StateProviders): what a call that nothing has
  overlapped has seen so far is what its key holds. `Kept`: a settled key is not being updated. Every
  step is then one of five kinds (a pause, a touch of one's own key, the end of a call, the loss of a
  caller, the begin of a call), each a step of `KeyValue`.
* `Matched`: a load that has read a manifest has read one that some build made. `Lone`: at most one
  unspoiled build is under way; `Settled` and `Clean`: what it has put in place at each of its steps.
  Together they are `Undisturbed`.
* `Deployed` = for each start, what its loads have found (`Placed`), for each record, what its server
  serves (`Filed`). `Findable` adds that a command which is about to act on the record of a live server
  has read that very record, unless the server's start is crossed (`Untouched`): what it removes or
  overwrites is then the record of a server that is dead.
* `Buffered`: a host function writes to guest memory in its last step only. `Vectored`: the vectors
  read so far were all inside the memory, so the next sum is at most the size of the memory plus eight.
* `Requested`: a call in progress is one of those that can be made. `Stored`: whatever a provider holds
  was written through a path that leads to that key, and is the value of that write as the provider
  keeps it. That an answer is exact then needs that two paths that lead to one key have the same
  components (they both lie below the one mount) and that Base64 can be undone. `Answered` adds the
  answer to a list.
* `Derived`: a manifest is what `app build` makes of the declaration of its own application, a
  `HostState` what `app run` makes of that manifest, the secrets and the environment. The rest are
  lemmas about those functions: what the manifest of either kind says of the declaration
  (`SpecSays`, `PortSays`), what a `HostState` says of the manifest (`HostSays`), and that no product
  of `runtime_limits` is stored unless it fits (`LimitsSay`).

Each strengthening was also checked by TLC on the instances above (`Derived` with one application).

**Induction over texts.** `TextProofs` proves what the operators on paths, values and names compute by
induction over a set of texts instead of a predicate (`SequenceInduction`), which rests on the least
element of a set of numbers (`LeastNumber`). A fold over a text is a machine that reads it character
by character (`Runs`), and `RunExists` and `RunAppend` turn the recursive function of the fold into
the step that one more character takes. From there:

* Paths: `ComponentsConcat` gives the components of a text that continues behind a `/`, which makes
  the textual prefix test of `storage_relative_path` a statement about components
  (`RelativeIsBelowMount`); `JoinHead` and `JoinConcat` show that nothing else is refused of two
  canonical paths (`CanonicalIsServed`).
* Base64: a group of one, two or three bytes is decoded by cases on the padding (`GroupDecodes`).
* Name lists: a name survives JSON escapes and their removal whatever quotes and backslashes it has,
  because `replace` is undone character by character (`QuotesStep`, `BackslashesStep`, `UnescapesName`);
  names without a comma are split where they were joined (`PlainNames`), for no escape contains one
  (`EscapedIs`); and a name with a comma spoils the piece before or behind it (`Doomed`, `CommaSpoils`),
  so that the whole list is refused rather than answered wrongly. A name with a control character comes
  back altered, of which `ListIsExactOrRefused` says only that it is still one name in its place.

**Assumptions.** Constants are what the comments beside them say. Two kinds of assumption have no
counterpart in the code: an answer such as `Refused` or `None`, which stands for `Err` or an absent
section, is not one of the data (`SentinelsOK`, the last line of `HostCallsOK`), and the characters
that the modules name are strings, which the provers do not know by themselves.

**Only model-checked:** liveness (`CommandsEnd`, `StoppedProcessDies`, `RequestsAnswered`,
`OnlySilenceBlocks`), which needs fairness and `ENABLED`. Every other property of a passing run is
also a theorem.

**Taken from outside:** one operation of the FeltDB library and one compiler run are atomic; wasmtime
refuses accesses outside a memory; `JSON.stringify` escapes as JSON says; the kernel's processes,
signals, ports and files behave as POSIX says.

## 5. Plan

Done: all modules of section 2, their runs and theorems. What would add most next, in this order:

1. An abstract lifecycle (stopped, running) implemented by `Lifecycle` for one operator, with the
   hypotheses of `StartedIsRecorded`.
2. `Deployment` over all the system calls of `Lifecycle`. It has the steps between which commands
   interleave and several Application IDs that share pids and ports, but no torn records, crashed
   starts or recycled pids.

## 6. Not modelled

* The compilers, wasmtime, Node and the inside of FeltDB are external programs; the models see what
  the code makes of their answers.
* Formatting, printing, argument parsing, `init`, `inspect` and `logs` keep no state that another step
  depends on.
* The syntax of TOML and JSON documents, and the presence of name, version and id fields, are refused
  or not before anything else happens; `Contract` starts after that.
* A Go compiler that outlives a killed `app build` and still writes `target/app.wasm`: a compiler run is
  one step.
* Symbolic links below the state root, and the permissions of directories.
* How much a host function allocates before it looks whether the guest's range is in its memory
  (lib.rs 1482).
* `StateProvider::list` of the filesystem, which the runtime never calls.
