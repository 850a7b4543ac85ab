----------------------------- MODULE HostCalls -----------------------------
(***************************************************************************)
(* What the runtime does when a guest calls it: the host functions that    *)
(* read and write guest memory (get_secret, get_config and the WASI ones), *)
(* and the storage functions, from the path in the guest's words to the    *)
(* StateProvider and back.  Calls come one at a time; the state they store *)
(* stays for later guests.  StateProvider::list, which the runtime offers  *)
(* to Rust callers only, is here for its answer's way through the pipe.    *)
(*                                                                         *)
(* A pointer or length is an i32 that the guest chose freely, and so is    *)
(* every word the host reads from guest memory.  A sum of i32 that does    *)
(* not fit panics in a debug build and wraps in a release build.           *)
(*                                                                         *)
(* Abstractions: memory is its size, and the addresses a call has written; *)
(* the denials of a capability are in Contract, overlapping storage calls  *)
(* and I/O errors in StateProviders; names and values of storage calls are *)
(* already read from memory (guest_string, guest_bytes: see InMemory).     *)
(***************************************************************************)
EXTENDS Codecs, Integers, FiniteSets

CONSTANTS
    IntMax,     \* 2^31 - 1
    Calls,      \* calls that are made, see CallShapes
    Mounts,     \* [storage].mount of the application
    MaxRecords  \* bound on the records stored: no new one is written beyond it

I32 == -(IntMax + 1)..IntMax
U32 == 0..(2 * IntMax + 1)
Text  == Seq(STRING)
Bytes == Seq(0..255)

\* memory: size of the guest's memory in bytes, at most 2^32.
Sizes == 0..(2 * (IntMax + 1))
CallShapes ==
    [op : {"get_secret", "get_config"}, memory : Sizes, name : I32, nameLen : I32,
     at : I32, len : I32, value : Nat \cup {-1}]    \* -1: the variable is not set
    \cup [op : {"random_get"}, memory : Sizes, at : I32, len : I32]
    \cup [op : {"write_word"}, memory : Sizes, at : I32, len : {4, 8}]
    \cup [op : {"sizes_get"}, memory : Sizes, at : I32, second : I32]
    \cup [op : {"fd_write"}, memory : Sizes, iovs : I32, count : I32, nwritten : I32]
    \cup [op : {"storage_write", "storage_read_equals"}, path : Text, value : Bytes]
    \cup [op : {"list"}, names : Seq(Text)]
NoCall == [op |-> "none"]

ASSUME HostCallsOK ==
    /\ IntMax \in Nat
    /\ Calls \subseteq CallShapes
    /\ Mounts \subseteq Text
    /\ MaxRecords \in Nat
    /\ {Slash, Quote, Backslash, Comma} \cup EscapeLetters \subseteq STRING \* evident, except to a prover
    /\ Refused \notin Text \cup Seq(Text) \cup Bytes

VARIABLES
    provider,   \* "filesystem" or "feltdb"
    mount,      \* the application's mount
    store,      \* what the provider holds: bytes by file, or base64 text by key
    given,      \* history: for each key, the path and value it was last written with
    call,       \* the call in progress, or NoCall
    index,      \* fd_write: vectors read so far
    output,     \* fd_write: bytes collected so far
    touched,    \* addresses of guest memory this call has written
    listed,     \* list: the answer
    outcome     \* "running", "ok", "equal", "differs", "denied" (the capability), "trap"
                \* (any other error), or "panic": the process ends

storeVars == <<provider, mount, store, given>>
vars == <<provider, mount, store, given, call, index, output, touched, listed, outcome>>

Init ==
    /\ provider \in {"filesystem", "feltdb"}
    /\ mount \in Mounts
    /\ store = <<>> /\ given = <<>>
    /\ call = NoCall
    /\ index = 0 /\ output = 0
    /\ touched = {} /\ listed = <<>>
    /\ outcome = "ok"

Call ==
    /\ call = NoCall
    /\ call' \in Calls
    /\ outcome' = "running"
    /\ UNCHANGED <<storeVars, index, output, touched, listed>>

\* A panic ends the server; any other end of a call is followed by other calls, of
\* this guest or, after a trap, of the next.
Return ==
    /\ call # NoCall /\ outcome \notin {"running", "panic"}
    /\ call' = NoCall
    /\ index' = 0 /\ output' = 0
    /\ touched' = {} /\ listed' = <<>>
    /\ outcome' = "ok"
    /\ UNCHANGED storeVars

Running(ops) == outcome = "running" /\ call.op \in ops

-----------------------------------------------------------------------------
(* Guest memory.                                                           *)

\* Memory::read and Memory::write refuse a range that is not all inside (external);
\* guest_bytes and write_guest_bytes refuse negative numbers first.
InMemory(at, len) == at >= 0 /\ len >= 0 /\ at + len <= call.memory
Range32(at, len)  == at..(at + len - 1)

\* write_guest_bytes, of a host function that answers ok after it.
WriteGuestBytes(at, len) ==
    IF InMemory(at, len)
      THEN touched' = touched \cup Range32(at, len) /\ outcome' = "ok"
      ELSE outcome' = "trap" /\ UNCHANGED touched

\* Mutant: the value is written before its length is compared with the buffer.
GetValueUnchecked ==
    /\ Running({"get_secret", "get_config"})
    /\ IF call.len < 0 \/ ~InMemory(call.name, call.nameLen)
         THEN outcome' = "trap" /\ UNCHANGED touched
         ELSE WriteGuestBytes(call.at, call.value)
    /\ UNCHANGED <<storeVars, call, index, output, listed>>

\* get_secret and get_config.  A declared variable that is not set is answered -1.
GetValue ==
    /\ Running({"get_secret", "get_config"})
    /\ IF \/ call.len < 0 \/ ~InMemory(call.name, call.nameLen)
          \/ call.value > call.len
         THEN outcome' = "trap" /\ UNCHANGED touched
         ELSE IF call.value = -1 THEN outcome' = "ok" /\ UNCHANGED touched
         ELSE WriteGuestBytes(call.at, call.value)
    /\ UNCHANGED <<storeVars, call, index, output, listed>>

\* random_get; clock_time_get and poll_oneoff, which write one word.
FillBuffer ==
    /\ Running({"random_get", "write_word"})
    /\ WriteGuestBytes(call.at, call.len)
    /\ UNCHANGED <<storeVars, call, index, output, listed>>

\* args_sizes_get and environ_sizes_get: two words, each written by itself.
SizesGet ==
    /\ Running({"sizes_get"})
    /\ LET Word(at) == IF InMemory(at, 4) THEN Range32(at, 4) ELSE {} IN
       IF ~InMemory(call.at, 4)
         THEN outcome' = "trap" /\ UNCHANGED touched
         ELSE /\ touched' = Word(call.at) \cup Word(call.second)
              /\ outcome' = IF InMemory(call.second, 4) THEN "ok" ELSE "trap"
    /\ UNCHANGED <<storeVars, call, index, output, listed>>

\* read_u32 and `as i32`.
AsI32(u) == IF u > IntMax THEN u - 2 * (IntMax + 1) ELSE u

\* Mutant: the end of the list of vectors is computed before they are read.
FdWriteVectorEndFirst ==
    /\ Running({"fd_write"}) /\ index < call.count
    /\ LET at == call.iovs + 8 * index IN
       IF call.iovs + 8 * call.count > IntMax
         THEN outcome' \in {"panic", "trap"} /\ UNCHANGED <<index, output>>
         ELSE IF ~InMemory(at, 8) THEN outcome' = "trap" /\ UNCHANGED <<index, output>>
         ELSE /\ \E ptr, len \in U32 : InMemory(AsI32(ptr), AsI32(len)) /\ output' = output + len
              /\ index' = index + 1
              /\ UNCHANGED outcome
    /\ UNCHANGED <<storeVars, call, touched, listed>>

\* One vector of fd_write: `iovs + index * 8`, read_u32 there, then at the same sum
\* plus 4, then the bytes the two words stand for.  A sum that wraps is negative, and
\* refused by guest_bytes.
FdWriteVector ==
    /\ Running({"fd_write"}) /\ index < call.count
    /\ LET at == call.iovs + 8 * index
           overflow == at > IntMax \/ (InMemory(at, 4) /\ at + 4 > IntMax)
       IN  \/ /\ overflow
              /\ outcome' \in {"panic", "trap"}
              /\ UNCHANGED <<index, output>>
           \/ /\ ~overflow /\ InMemory(at, 8)
              /\ \E ptr, len \in U32 :
                   IF InMemory(AsI32(ptr), AsI32(len))
                     THEN /\ index'  = index + 1
                          /\ output' = output + len
                          /\ UNCHANGED outcome
                     ELSE outcome' = "trap" /\ UNCHANGED <<index, output>>
           \/ /\ ~overflow /\ ~InMemory(at, 8)
              /\ outcome' = "trap"
              /\ UNCHANGED <<index, output>>
    /\ UNCHANGED <<storeVars, call, touched, listed>>

\* All vectors are read and the output is logged (ExecutionUnits has the log); the
\* count is written last.
FdWriteEnd ==
    /\ Running({"fd_write"}) /\ index >= call.count
    /\ WriteGuestBytes(call.nwritten, 4)
    /\ UNCHANGED <<storeVars, call, index, output, listed>>

-----------------------------------------------------------------------------
(* Storage.                                                                *)

Relative == StorageRelativePath(mount, call.path)

\* What a provider files the value under: LocalDirectoryStateProvider the file the
\* components lead to, FeltDBStateProvider::key the relative path as it is written.
Key == IF provider = "filesystem" THEN HostFile(Relative) ELSE Relative

\* The root itself is a directory.
Writable == Key # Refused /\ (provider = "filesystem" => Key # <<>>)

With(f, key, value) == [k \in DOMAIN f \cup {key} |-> IF k = key THEN value ELSE f[k]]

\* StateProvider::write: raw bytes, or base64 on the bridge's command line.
StorageWrite ==
    /\ Running({"storage_write"})
    /\ IF Relative = Refused THEN outcome' = "denied" /\ UNCHANGED <<store, given>>
       ELSE IF ~Writable THEN outcome' = "trap" /\ UNCHANGED <<store, given>>
       ELSE /\ Key \in DOMAIN store \/ Cardinality(DOMAIN store) < MaxRecords
            /\ store' = With(store, Key, IF provider = "filesystem" THEN call.value
                                         ELSE Base64Encode(call.value))
            /\ given' = With(given, Key, [path |-> call.path, value |-> call.value])
            /\ outcome' = "ok"
    /\ UNCHANGED <<provider, mount, call, index, output, touched, listed>>

\* A key that holds nothing is an error of the provider, and so is text that is not
\* base64.
StorageReadEquals ==
    /\ Running({"storage_read_equals"})
    /\ IF Relative = Refused THEN outcome' = "denied"
       ELSE IF Key \notin DOMAIN store THEN outcome' = "trap"
       ELSE LET actual == IF provider = "filesystem" THEN store[Key]
                          ELSE Base64Decode(store[Key])
            IN  outcome' = IF actual = Refused THEN "trap"
                           ELSE IF actual = call.value THEN "equal" ELSE "differs"
    /\ UNCHANGED <<storeVars, call, index, output, touched, listed>>

\* FeltDBStateProvider::list, of the names the bridge found.
List ==
    /\ Running({"list"})
    /\ LET names == ParseJSONStringArray(JSONArray(call.names)) IN
       IF names = Refused THEN outcome' = "trap" /\ UNCHANGED listed
       ELSE outcome' = "ok" /\ listed' = names
    /\ UNCHANGED <<storeVars, call, index, output, touched>>

Next ==
    \/ Call \/ Return
    \/ GetValue \/ FillBuffer \/ SizesGet \/ FdWriteVector \/ FdWriteEnd
    \/ StorageWrite \/ StorageReadEquals \/ List

Spec == Init /\ [][Next]_vars

-----------------------------------------------------------------------------
(* Properties.                                                             *)

\* Where the guest asked to be written to.
Offered ==
    CASE call.op \in {"get_secret", "get_config", "random_get", "write_word"} ->
           Range32(call.at, call.len)
      [] call.op = "sizes_get" -> Range32(call.at, 4) \cup Range32(call.second, 4)
      [] call.op = "fd_write"  -> Range32(call.nwritten, 4)
      [] OTHER                 -> {}

\* The host writes to the buffer it was given, inside the memory, and nowhere else;
\* a secret or variable that does not fit, or whose buffer is not all there, is not
\* written in part.
BuffersRespected ==
    /\ touched # {} => touched \subseteq Offered /\ touched \subseteq 0..(call.memory - 1)
    /\ call.op \in {"get_secret", "get_config"} /\ outcome = "trap" => touched = {}

\* The additions of fd_write overflow only in a memory of more than 2^31 - 1 bytes:
\* before a sum of i32 can overflow, an earlier vector lies outside a smaller memory,
\* however many vectors the guest announces and wherever it says they are.
OverflowNeedsHugeMemory == outcome = "panic" => call.memory > IntMax

\* A path that is let through leads to the components the guest wrote after those
\* of the mount, and to nothing above or beside it.
AcceptedIsBelowMount ==
    Running({"storage_write", "storage_read_equals"}) /\ Relative # Refused =>
        /\ HostFile(Relative) # Refused
        /\ ~Contains(Components(Relative), Parent)
        /\ Components(call.path) = Components(mount) \o HostFile(Relative)

\* With a mount written that way (not "/", not "/data/", for which every such path
\* is refused) the paths below it are served, and a path that begins like it but is
\* not below it is refused.
CanonicalPathsServed ==
    Running({"storage_write", "storage_read_equals"}) /\ Canonical(mount) /\ Canonical(call.path) =>
        (Relative # Refused <=> IsPrefix(Components(mount), Components(call.path)))

\* storage_read_equals answers 1 exactly for the bytes last written under the key,
\* whatever bytes and however many, and what it looked at was written for the
\* same file.  A value written is found again under the same path.
ReadEqualsIsExact ==
    /\ outcome \in {"equal", "differs"} =>
          /\ outcome = "equal" <=> call.value = given[Key].value
          /\ Components(call.path) = Components(given[Key].path)
    /\ call.op = "storage_read_equals" /\ outcome \in {"denied", "trap"} =>
          \A k \in DOMAIN given : given[k].path # call.path

\* A list is answered name by name, each in its place and as the bridge has it, or
\* refused as a whole: no name is lost, split or taken for another, whatever quotes,
\* backslashes and commas are in it, and nothing but a comma gets a list refused.
\* (Nothing is said of names with control characters: the runtime leaves these escaped.)
ListIsExactOrRefused ==
    call.op = "list" /\ outcome # "running" =>
        IF outcome = "ok"
          THEN /\ Len(listed) = Len(call.names)
               /\ \A i \in 1..Len(listed) : Printable(call.names[i]) => listed[i] = call.names[i]
          ELSE \E i \in 1..Len(call.names) : Contains(call.names[i], Comma)
=============================================================================
