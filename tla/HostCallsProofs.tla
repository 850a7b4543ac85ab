-------------------------- MODULE HostCallsProofs --------------------------
(***************************************************************************)
(* The properties of HostCalls, for every width of an i32, every memory,   *)
(* every pointer and length, any number of vectors, and paths, values and  *)
(* lists of names of every length: the host stays inside the buffers it is *)
(* given, the sums of fd_write overflow only in a memory of more than      *)
(* 2^31 - 1 bytes, a path leads below the mount or nowhere, what is read   *)
(* back is what was written, and a list is answered exactly or refused.    *)
(***************************************************************************)
EXTENDS HostCalls, TextProofs

Gets  == {"get_secret", "get_config"}
Fills == {"random_get", "write_word"}

-----------------------------------------------------------------------------
(* What a call of each kind is made of.                                    *)

\* A call that offers a buffer says where it is, in an i32.
LEMMA BufferShape ==
    ASSUME NEW c \in Calls, c.op \in Gets \cup Fills
    PROVE  c.at \in Int /\ c.len \in Int /\ c.memory \in Nat
           /\ (c.op \in Gets => c.value \in Int)
BY HostCallsOK DEF CallShapes, I32, Sizes, Gets, Fills

\* A call for sizes has two pointers.
LEMMA SizesShape ==
    ASSUME NEW c \in Calls, c.op = "sizes_get"
    PROVE  c.at \in Int /\ c.second \in Int /\ c.memory \in Nat
BY HostCallsOK DEF CallShapes, I32, Sizes

\* fd_write has its vectors, their number and a pointer for the answer.
LEMMA FdWriteShape ==
    ASSUME NEW c \in Calls, c.op = "fd_write"
    PROVE  c.iovs \in Int /\ c.count \in Int /\ c.nwritten \in Int /\ c.memory \in Nat
BY HostCallsOK DEF CallShapes, I32, Sizes

\* NoCall is none of them.
LEMMA NoCallShape == NoCall.op = "none" /\ NoCall \notin Calls
BY HostCallsOK DEF CallShapes, NoCall

-----------------------------------------------------------------------------
(* Buffers.                                                                *)

\* A call in progress has written nothing yet: every host function writes in its
\* last step.
Buffered ==
    /\ call \in Calls \cup {NoCall}
    /\ outcome = "running" => call \in Calls
    /\ outcome = "running" \/ call = NoCall => touched = {}
    /\ BuffersRespected

\* write_guest_bytes writes the range it was given, which is inside the memory, or
\* nothing.
LEMMA WriteIsInside ==
    ASSUME NEW at \in Int, NEW len \in Int, call.memory \in Nat, touched = {},
           WriteGuestBytes(at, len)
    PROVE  /\ touched' \subseteq Range32(at, len) /\ touched' \subseteq 0..(call.memory - 1)
           /\ outcome' = "trap" => touched' = {}
<1>1. CASE InMemory(at, len)
  <2>1. touched' = Range32(at, len) /\ outcome' = "ok"
    BY <1>1 DEF WriteGuestBytes
  <2>2. Range32(at, len) \subseteq 0..(call.memory - 1)
    BY <1>1 DEF InMemory, Range32
  <2>. QED
    BY <2>1, <2>2
<1>2. CASE ~InMemory(at, len)
  BY <1>2 DEF WriteGuestBytes
<1>. QED
  BY <1>1, <1>2

\* No call is made initially.
LEMMA BufferedInit == Init => Buffered
BY NoCallShape DEF Init, Buffered, BuffersRespected, NoCall

\* A part of the buffer and of the memory, written in the last step of a call.
LEMMA BufferedEnd ==
    ASSUME Buffered, call' = call, outcome = "running", outcome' # "running",
           touched' \subseteq Offered, touched' \subseteq 0..(call.memory - 1),
           call.op \in Gets /\ outcome' = "trap" => touched' = {}
    PROVE  Buffered'
BY NoCallShape DEF Buffered, BuffersRespected, Offered, Gets

\* The steps that write are the last ones of their calls.
LEMMA BufferedStep == Buffered /\ [Next]_vars => Buffered'
<1>. SUFFICES ASSUME Buffered, [Next]_vars
              PROVE  Buffered'
  OBVIOUS
<1>1. CASE Call
  BY <1>1, NoCallShape DEF Call, Buffered, BuffersRespected
<1>2. CASE Return
  BY <1>2, NoCallShape DEF Return, Buffered, BuffersRespected, NoCall
<1>3. CASE GetValue
  <2>1. outcome = "running" /\ call.op \in Gets /\ call \in Calls /\ touched = {} /\ call' = call
    BY <1>3 DEF GetValue, Running, Buffered, Gets
  <2>2. call.at \in Int /\ call.len \in Int /\ call.memory \in Nat /\ call.value \in Int
    BY <2>1, BufferShape
  <2>3. CASE outcome' \in {"ok", "trap"} /\ touched' = {}
    BY <2>1, <2>3, BufferedEnd
  <2>4. CASE call.value <= call.len /\ WriteGuestBytes(call.at, call.value)
    <3>1. Range32(call.at, call.value) \subseteq Range32(call.at, call.len)
      BY <2>2, <2>4 DEF Range32
    <3>2. Offered = Range32(call.at, call.len)
      BY <2>1 DEF Offered, Gets
    <3>3. outcome' \in {"ok", "trap"}
      BY <2>4 DEF WriteGuestBytes
    <3>. QED
      BY <2>1, <2>2, <2>4, <3>1, <3>2, <3>3, WriteIsInside, BufferedEnd
  <2>5. \/ outcome' \in {"ok", "trap"} /\ touched' = {}
        \/ call.value <= call.len /\ WriteGuestBytes(call.at, call.value)
    BY <1>3, <2>1, <2>2 DEF GetValue
  <2>. QED
    BY <2>3, <2>4, <2>5
<1>4. CASE FillBuffer
  <2>1. outcome = "running" /\ call.op \in Fills /\ call \in Calls /\ touched = {} /\ call' = call
    BY <1>4 DEF FillBuffer, Running, Buffered, Fills
  <2>2. call.at \in Int /\ call.len \in Int /\ call.memory \in Nat
    BY <2>1, BufferShape
  <2>3. Offered = Range32(call.at, call.len) /\ call.op \notin Gets
    BY <2>1 DEF Offered, Fills, Gets
  <2>4. WriteGuestBytes(call.at, call.len) /\ outcome' \in {"ok", "trap"}
    BY <1>4 DEF FillBuffer, WriteGuestBytes
  <2>. QED
    BY <2>1, <2>2, <2>3, <2>4, WriteIsInside, BufferedEnd
<1>5. CASE SizesGet
  <2>1. outcome = "running" /\ call.op = "sizes_get" /\ call \in Calls /\ touched = {} /\ call' = call
    BY <1>5 DEF SizesGet, Running, Buffered
  <2>2. call.at \in Int /\ call.second \in Int /\ call.memory \in Nat
    BY <2>1, SizesShape
  <2>3. Offered = Range32(call.at, 4) \cup Range32(call.second, 4) /\ call.op \notin Gets
    BY <2>1 DEF Offered, Gets
  <2>4. ASSUME NEW at \in Int, InMemory(at, 4)  PROVE  Range32(at, 4) \subseteq 0..(call.memory - 1)
    BY <2>2, <2>4 DEF InMemory, Range32
  <2>5. outcome' \in {"ok", "trap"} /\ touched' \subseteq Offered
    BY <1>5, <2>1, <2>3 DEF SizesGet
  <2>6. touched' \subseteq 0..(call.memory - 1)
    BY <1>5, <2>1, <2>2, <2>4 DEF SizesGet
  <2>. QED
    BY <2>1, <2>3, <2>5, <2>6, BufferedEnd
<1>6. CASE FdWriteVector
  BY <1>6 DEF FdWriteVector, Running, Buffered, BuffersRespected
<1>7. CASE FdWriteEnd
  <2>1. outcome = "running" /\ call.op = "fd_write" /\ call \in Calls /\ touched = {} /\ call' = call
    BY <1>7 DEF FdWriteEnd, Running, Buffered
  <2>2. call.nwritten \in Int /\ call.memory \in Nat
    BY <2>1, FdWriteShape
  <2>3. Offered = Range32(call.nwritten, 4) /\ call.op \notin Gets
    BY <2>1 DEF Offered, Gets
  <2>4. WriteGuestBytes(call.nwritten, 4) /\ outcome' \in {"ok", "trap"}
    BY <1>7 DEF FdWriteEnd, WriteGuestBytes
  <2>. QED
    BY <2>1, <2>2, <2>3, <2>4, WriteIsInside, BufferedEnd
<1>8. CASE StorageWrite
  BY <1>8 DEF StorageWrite, Running, Buffered, BuffersRespected
<1>9. CASE StorageReadEquals
  BY <1>9 DEF StorageReadEquals, Running, Buffered, BuffersRespected, storeVars
<1>10. CASE List
  BY <1>10 DEF List, Running, Buffered, BuffersRespected, storeVars
<1>11. CASE UNCHANGED vars
  BY <1>11 DEF vars, Buffered, BuffersRespected, Offered
<1>. QED
  BY <1>1, <1>2, <1>3, <1>4, <1>5, <1>6, <1>7, <1>8, <1>9, <1>10, <1>11 DEF Next

\* The host functions write inside the memory and the buffer the guest named, and
\* a secret or variable all at once or not at all.
THEOREM BuffersAlwaysRespected == Spec => []BuffersRespected
<1>1. Buffered => BuffersRespected
  BY DEF Buffered
<1>. QED
  BY <1>1, BufferedInit, BufferedStep, PTL DEF Spec

-----------------------------------------------------------------------------
(* Overflow.                                                               *)

\* The vectors read so far lie inside the memory, one behind the other: what makes
\* the next sum small.
Vectored ==
    /\ call \in Calls \cup {NoCall}
    /\ index \in Nat
    /\ outcome = "running" => call \in Calls
    /\ call = NoCall => index = 0 /\ outcome = "ok"
    /\ outcome = "running" /\ call.op # "fd_write" => index = 0
    /\ index > 0 /\ call.op = "fd_write" => InMemory(call.iovs, 8 * index)
    /\ OverflowNeedsHugeMemory

\* No call is made initially.
LEMMA VectoredInit == Init => Vectored
BY NoCallShape DEF Init, Vectored, OverflowNeedsHugeMemory

\* fd_write goes on only when the next eight bytes are inside as well.
LEMMA VectoredStep == Vectored /\ [Next]_vars => Vectored'
<1>. SUFFICES ASSUME Vectored, [Next]_vars
              PROVE  Vectored'
  OBVIOUS
<1>. USE DEF Vectored, OverflowNeedsHugeMemory
<1>1. CASE Call
  BY <1>1, NoCallShape DEF Call
<1>2. CASE Return
  BY <1>2, NoCallShape DEF Return
<1>3. CASE FdWriteVector
  <2>. DEFINE at == call.iovs + 8 * index
  <2>1. outcome = "running" /\ call.op = "fd_write" /\ call \in Calls /\ call' = call
    BY <1>3 DEF FdWriteVector, Running
  <2>2. call.iovs \in Int /\ call.memory \in Nat /\ call # NoCall /\ at \in Int /\ IntMax \in Nat
    BY <2>1, FdWriteShape, NoCallShape, HostCallsOK
  <2>3. index > 0 => call.iovs >= 0 /\ at <= call.memory
    BY <2>1, <2>2 DEF InMemory
  <2>4. CASE /\ at > IntMax \/ (InMemory(at, 4) /\ at + 4 > IntMax)
             /\ outcome' \in {"panic", "trap"} /\ UNCHANGED index
    <3>1. CASE InMemory(at, 4) /\ at + 4 > IntMax
      <4>1. call.memory > IntMax
        BY <2>2, <3>1 DEF InMemory
      <4>. QED
        BY <2>1, <2>2, <2>4, <4>1 DEF InMemory
    <3>2. CASE at > IntMax
      <4>1. CASE index > 0
        BY <2>1, <2>2, <2>3, <2>4, <3>2, <4>1 DEF InMemory
      <4>2. CASE index = 0
        <5>1. call.iovs \in I32
          BY <2>1, HostCallsOK DEF CallShapes
        <5>. QED
          BY <2>2, <3>2, <4>2, <5>1 DEF I32
      <4>. QED
        BY <4>1, <4>2
    <3>. QED
      BY <2>4, <3>1, <3>2
  <2>5. CASE InMemory(at, 8) /\ index' = index + 1 /\ UNCHANGED outcome
    <3>1. call.iovs >= 0
      BY <2>2, <2>3, <2>5 DEF InMemory
    <3>2. InMemory(call.iovs, 8 * (index + 1))
      BY <2>2, <2>5, <3>1 DEF InMemory
    <3>. QED
      BY <2>1, <2>2, <2>5, <3>2 DEF InMemory
  <2>6. CASE outcome' = "trap" /\ UNCHANGED index
    BY <2>1, <2>2, <2>6 DEF InMemory
  <2>. QED
    BY <1>3, <2>4, <2>5, <2>6 DEF FdWriteVector
<1>4. CASE GetValue \/ FillBuffer \/ SizesGet \/ FdWriteEnd
  <2>1. outcome = "running" /\ call \in Calls /\ call' = call /\ index' = index
    BY <1>4 DEF GetValue, FillBuffer, SizesGet, FdWriteEnd, Running
  <2>2. outcome' \in {"ok", "trap"}
    BY <1>4 DEF GetValue, FillBuffer, SizesGet, FdWriteEnd, WriteGuestBytes
  <2>. QED
    BY <2>1, <2>2, NoCallShape DEF InMemory
<1>5. CASE StorageWrite \/ StorageReadEquals \/ List
  <2>1. outcome = "running" /\ call \in Calls /\ call' = call /\ index' = index
    BY <1>5 DEF StorageWrite, StorageReadEquals, List, Running
  <2>2. outcome' \in {"ok", "equal", "differs", "denied", "trap"}
    BY <1>5 DEF StorageWrite, StorageReadEquals, List
  <2>. QED
    BY <2>1, <2>2, NoCallShape DEF InMemory
<1>6. CASE UNCHANGED vars
  BY <1>6 DEF vars, InMemory
<1>. QED
  BY <1>1, <1>2, <1>3, <1>4, <1>5, <1>6 DEF Next

\* `iovs + index * 8` and the sum after it fit an i32 in every memory of less than
\* 2^31 bytes.
THEOREM NoOverflowBelowHugeMemory == Spec => []OverflowNeedsHugeMemory
<1>1. Vectored => OverflowNeedsHugeMemory
  BY DEF Vectored
<1>. QED
  BY <1>1, VectoredInit, VectoredStep, PTL DEF Spec
-----------------------------------------------------------------------------
(* Paths.                                                                  *)

Storage == {"storage_write", "storage_read_equals"}

\* A storage call has a path and a value.
LEMMA StorageShape ==
    ASSUME NEW c \in Calls, c.op \in Storage
    PROVE  c.path \in Text /\ c.value \in Bytes
<1>1. c \in CallShapes
  BY HostCallsOK
<1>. QED
  BY <1>1 DEF CallShapes, Storage

\* What the assumptions say of texts.
LEMMA Texts ==
    /\ Slash \in STRING /\ {Slash, Quote, Backslash, Comma} \cup EscapeLetters \subseteq STRING
    /\ Refused \notin Text /\ Refused \notin Seq(Text) /\ Refused \notin Bytes
BY HostCallsOK, Zenon

\* A call in progress is one of those that are made, with a mount that is one.
Requested ==
    /\ mount \in Text
    /\ call \in Calls \cup {NoCall}
    /\ outcome = "running" => call \in Calls

\* Initially none is made, with any mount.
LEMMA RequestedInit == Init => Requested
BY HostCallsOK DEF Init, Requested

\* Call makes one of them, and no step changes the mount.
LEMMA RequestedStep == Requested /\ [Next]_vars => Requested'
<1>. SUFFICES ASSUME Requested, [Next]_vars
              PROVE  Requested'
  OBVIOUS
<1>1. CASE Call
  BY <1>1 DEF Call, Requested, storeVars
<1>2. CASE Return
  BY <1>2 DEF Return, Requested, storeVars
<1>3. CASE outcome = "running" /\ UNCHANGED <<mount, call>>
  BY <1>3 DEF Requested
<1>4. CASE UNCHANGED vars
  BY <1>4 DEF vars, Requested
<1>. QED
  BY <1>1, <1>2, <1>3, <1>4
  DEF Next, GetValue, FillBuffer, SizesGet, FdWriteVector, FdWriteEnd, StorageWrite,
      StorageReadEquals, List, Running, storeVars

\* So it always is.
LEMMA RequestedAlways == Spec => []Requested
BY RequestedInit, RequestedStep, PTL DEF Spec

\* A path that is let through is found below the mount, as a file.
LEMMA BelowMount ==
    ASSUME mount \in Text, NEW path \in Text, StorageRelativePath(mount, path) # Refused
    PROVE  LET relative == StorageRelativePath(mount, path) IN
           /\ relative \in Text
           /\ ~Contains(Components(relative), Parent)
           /\ HostFile(relative) = Components(relative) /\ HostFile(relative) # Refused
           /\ Components(path) = Components(mount) \o Components(relative)
<1>. DEFINE relative == StorageRelativePath(mount, path)
<1>1. /\ relative \in Text
      /\ ~Contains(Components(relative), Parent)
      /\ Components(path) = Components(mount) \o Components(relative)
  <2>. USE DEF Text
  <2>. QED
    BY Texts, RelativeIsBelowMount
<1>. HIDE DEF relative
<1>2. Components(relative) \in Seq(Text)
  BY <1>1, ComponentsType DEF Text
<1>3. HostFile(relative) = Components(relative) /\ HostFile(relative) # Refused
  BY <1>1, <1>2, Texts, Zenon DEF HostFile
<1>. QED
  BY <1>1, <1>3 DEF relative

\* A path that storage_relative_path lets through leads to the components the guest
\* wrote after those of the mount: never above the mount, and never beside it.
THEOREM AlwaysBelowMount == Spec => []AcceptedIsBelowMount
<1>1. Requested => AcceptedIsBelowMount
  <2>. SUFFICES ASSUME Requested, Running(Storage), Relative # Refused
                PROVE  /\ HostFile(Relative) # Refused
                       /\ ~Contains(Components(Relative), Parent)
                       /\ Components(call.path) = Components(mount) \o HostFile(Relative)
    BY Zenon DEF AcceptedIsBelowMount, Storage
  <2>1. mount \in Text /\ call.path \in Text
    BY StorageShape DEF Requested, Running
  <2>. QED
    BY <2>1, BelowMount, Zenon DEF Relative
<1>. QED
  BY <1>1, RequestedAlways, PTL

\* A canonical path below a canonical mount is served, and one that is not below
\* it is refused, even if its text begins like the mount's.
THEOREM CanonicalPathsAlwaysServed == Spec => []CanonicalPathsServed
<1>1. Requested => CanonicalPathsServed
  <2>. SUFFICES ASSUME Requested, Running(Storage), Canonical(mount), Canonical(call.path)
                PROVE  Relative # Refused <=> IsPrefix(Components(mount), Components(call.path))
    BY Zenon DEF CanonicalPathsServed, Storage
  <2>1. mount \in Text /\ call.path \in Text
    BY StorageShape DEF Requested, Running
  <2>2. ASSUME Relative # Refused  PROVE  IsPrefix(Components(mount), Components(call.path))
    <3>. DEFINE below == Components(Relative)
    <3>1. Relative \in Text /\ Components(call.path) = Components(mount) \o below
      BY <2>1, <2>2, BelowMount, Zenon DEF Relative
    <3>2. below \in Seq(Text) /\ Components(mount) \in Seq(Text)
      BY <2>1, <3>1, ComponentsType DEF Text
    <3>. HIDE DEF below
    <3>. QED
      BY <3>1, <3>2 DEF IsPrefix
  <2>3. ASSUME IsPrefix(Components(mount), Components(call.path))  PROVE  Relative # Refused
    <3>1. Refused \notin Seq(STRING) /\ mount \in Seq(STRING) /\ call.path \in Seq(STRING)
      BY <2>1, Texts DEF Text
    <3>. QED
      BY <2>3, <3>1, Texts, CanonicalIsServed, Zenon DEF Relative
  <2>. QED
    BY <2>2, <2>3
<1>. QED
  BY <1>1, RequestedAlways, PTL

-----------------------------------------------------------------------------
(* What is read back.                                                      *)

\* The key a path leads to, and how its value is kept.
KeyOf(path) ==
    LET relative == StorageRelativePath(mount, path)
    IN  IF provider = "filesystem" THEN HostFile(relative) ELSE relative
Kept(value) == IF provider = "filesystem" THEN value ELSE Base64Encode(value)

\* What lies under a key was written through a path that leads to it.
Filed(key) ==
    /\ given[key].path \in Text /\ given[key].value \in Bytes
    /\ StorageRelativePath(mount, given[key].path) # Refused
    /\ KeyOf(given[key].path) = key
    /\ store[key] = Kept(given[key].value)

\* Everything stored is filed so, which is what makes an answer exact.
Stored ==
    /\ Requested
    /\ DOMAIN store = DOMAIN given
    /\ \A key \in DOMAIN given : Filed(key)
    /\ outcome \in {"equal", "differs"} => call \in Calls
    /\ ReadEqualsIsExact

\* Two paths that lead to one key have the same components.
LEMMA OneKeyOneFile ==
    ASSUME mount \in Text, NEW p \in Text, NEW q \in Text,
           StorageRelativePath(mount, p) # Refused, StorageRelativePath(mount, q) # Refused,
           KeyOf(p) = KeyOf(q)
    PROVE  Components(p) = Components(q)
<1>. DEFINE rp == StorageRelativePath(mount, p)  rq == StorageRelativePath(mount, q)
<1>1. HostFile(rp) = Components(rp) /\ Components(p) = Components(mount) \o Components(rp)
  BY BelowMount, Zenon
<1>2. HostFile(rq) = Components(rq) /\ Components(q) = Components(mount) \o Components(rq)
  BY BelowMount, Zenon
<1>3. Components(rp) = Components(rq)
  <2>1. CASE provider = "filesystem"
    BY <1>1, <1>2, <2>1, Zenon DEF KeyOf
  <2>2. CASE provider # "filesystem"
    BY <2>2, Zenon DEF KeyOf
  <2>. QED
    BY <2>1, <2>2
<1>. QED
  BY <1>1, <1>2, <1>3, Zenon

\* What is kept of a value is the value, or a text that is decoded to it.
LEMMA KeptIsRead ==
    ASSUME NEW value \in Bytes
    PROVE  value = IF provider = "filesystem" THEN Kept(value) ELSE Base64Decode(Kept(value))
<1>1. Base64Decode(Base64Encode(value)) = value
  <2>1. value \in Seq(Byte) /\ Refused \notin Seq(Byte)
    BY Texts DEF Bytes, Byte
  <2>. QED
    BY <2>1, Base64RoundTrip
<1>. QED
  BY <1>1, Zenon DEF Kept

\* Nothing is stored initially.
LEMMA StoredInit == Init => Stored
<1>. SUFFICES ASSUME Init  PROVE  Stored
  OBVIOUS
<1>1. Requested
  BY RequestedInit
<1>2. store = <<>> /\ given = <<>> /\ outcome = "ok" /\ DOMAIN given = {}
  BY DEF Init
<1>3. ReadEqualsIsExact
  BY <1>2 DEF ReadEqualsIsExact
<1>. QED
  BY <1>1, <1>2, <1>3 DEF Stored

\* A step that leaves what is stored alone and is not the end of a comparison.
LEMMA StoredElsewhere ==
    ASSUME Stored, Requested', UNCHANGED storeVars, outcome' \notin {"equal", "differs"},
           call'.op # "storage_read_equals" \/ outcome' \notin {"denied", "trap"}
    PROVE  Stored'
<1>1. DOMAIN store' = DOMAIN given' /\ \A key \in DOMAIN given' : Filed(key)'
  BY DEF Stored, Filed, KeyOf, Kept, storeVars
<1>2. ReadEqualsIsExact'
  BY DEF ReadEqualsIsExact
<1>. QED
  BY <1>1, <1>2 DEF Stored

\* A write files its value under the key of its path.
LEMMA StoredWrite == Stored /\ Requested' /\ StorageWrite => Stored'
<1>. SUFFICES ASSUME Stored, Requested', StorageWrite  PROVE  Stored'
  OBVIOUS
<1>1. /\ call' = call /\ call \in Calls /\ call.op = "storage_write"
      /\ mount' = mount /\ provider' = provider /\ mount \in Text
      /\ call.path \in Text /\ call.value \in Bytes
  BY StorageShape DEF StorageWrite, Running, Stored, Requested, Storage
<1>2. outcome' \in {"ok", "denied", "trap"}
  BY DEF StorageWrite
<1>3. CASE UNCHANGED <<store, given>>
  BY <1>1, <1>2, <1>3, StoredElsewhere DEF storeVars
<1>4. CASE /\ Relative # Refused
           /\ store' = With(store, Key, IF provider = "filesystem" THEN call.value
                                         ELSE Base64Encode(call.value))
           /\ given' = With(given, Key, [path |-> call.path, value |-> call.value])
  <2>. DEFINE record == [path |-> call.path, value |-> call.value]
  <2>1. Key = KeyOf(call.path)
    BY Zenon DEF Key, KeyOf, Relative
  <2>2. /\ store' = With(store, Key, Kept(call.value))
        /\ given' = With(given, Key, record)
    BY <1>4, Zenon DEF Kept
  <2>. HIDE DEF record
  <2>3. DOMAIN store = DOMAIN given
    BY DEF Stored
  <2>4. /\ DOMAIN given' = {Key} \cup DOMAIN given /\ DOMAIN store' = DOMAIN given'
        /\ given'[Key] = record /\ store'[Key] = Kept(call.value)
        /\ \A key \in DOMAIN given \ {Key} : given'[key] = given[key] /\ store'[key] = store[key]
    BY <2>2, <2>3 DEF With
  <2>5. ASSUME NEW key, key = Key  PROVE  Filed(key)'
    <3>1. record.path = call.path /\ record.value = call.value
      BY DEF record
    <3>2. KeyOf(call.path)' = KeyOf(call.path) /\ Kept(call.value)' = Kept(call.value)
      BY <1>1 DEF KeyOf, Kept
    <3>3. given'[key].path = call.path /\ given'[key].value = call.value
          /\ store'[key] = Kept(call.value) /\ KeyOf(call.path) = key
      BY <2>1, <2>4, <2>5, <3>1
    <3>. QED
      BY <1>1, <1>4, <3>2, <3>3 DEF Filed, Relative
  <2>6. ASSUME NEW key \in DOMAIN given, key # Key  PROVE  Filed(key)'
    BY <1>1, <2>4, <2>6 DEF Stored, Filed, KeyOf, Kept
  <2>7. \A key \in DOMAIN given' : Filed(key)'
    BY <2>4, <2>5, <2>6
  <2>8. ReadEqualsIsExact'
    BY <1>1, <1>2 DEF ReadEqualsIsExact
  <2>. QED
    BY <1>1, <2>4, <2>7, <2>8 DEF Stored
<1>. QED
  BY <1>3, <1>4 DEF StorageWrite

\* A comparison finds what was filed, and decodes it.
LEMMA StoredRead == Stored /\ Requested' /\ StorageReadEquals => Stored'
<1>. SUFFICES ASSUME Stored, Requested', StorageReadEquals  PROVE  Stored'
  OBVIOUS
<1>1. /\ UNCHANGED <<provider, mount, store, given, call>>
      /\ call \in Calls /\ call.op = "storage_read_equals" /\ mount \in Text
      /\ call.path \in Text /\ call.value \in Bytes
  BY StorageShape DEF StorageReadEquals, Running, Stored, Requested, Storage, storeVars
<1>2. Key = KeyOf(call.path) /\ Key' = Key
  BY <1>1 DEF Key, KeyOf, Relative
<1>3. DOMAIN store = DOMAIN given /\ \A key \in DOMAIN given : Filed(key)
  BY DEF Stored
<1>4. \A key \in DOMAIN given' : Filed(key)'
  BY <1>1, <1>3 DEF Filed, KeyOf, Kept
<1>5. ReadEqualsIsExact'
  <2>1. CASE Relative = Refused
    <3>1. outcome' = "denied"
      BY <2>1 DEF StorageReadEquals
    <3>2. ASSUME NEW key \in DOMAIN given, given[key].path = call.path  PROVE  FALSE
      BY <1>3, <2>1, <3>2 DEF Filed, Relative
    <3>. QED
      BY <1>1, <3>1, <3>2 DEF ReadEqualsIsExact
  <2>2. CASE Relative # Refused /\ Key \notin DOMAIN store
    <3>1. outcome' = "trap"
      BY <2>2 DEF StorageReadEquals
    <3>2. ASSUME NEW key \in DOMAIN given, given[key].path = call.path  PROVE  FALSE
      BY <1>2, <1>3, <2>2, <3>2 DEF Filed
    <3>. QED
      BY <1>1, <3>1, <3>2 DEF ReadEqualsIsExact
  <2>3. CASE Relative # Refused /\ Key \in DOMAIN store
    <3>. DEFINE value == given[Key].value
    <3>1. Filed(Key) /\ value \in Bytes /\ store[Key] = Kept(value)
      BY <1>3, <2>3 DEF Filed
    <3>2. value # Refused
      BY <3>1, Texts
    <3>3. value = IF provider = "filesystem" THEN store[Key] ELSE Base64Decode(store[Key])
      <4>. HIDE DEF value
      <4>. QED
        BY <3>1, KeptIsRead
    <3>. HIDE DEF value
    <3>4. outcome' = IF value = call.value THEN "equal" ELSE "differs"
      BY <2>3, <3>2, <3>3, Zenon DEF StorageReadEquals
    <3>5. Components(call.path) = Components(given[Key].path)
      <4>1. /\ given[Key].path \in Text /\ StorageRelativePath(mount, given[Key].path) # Refused
            /\ KeyOf(given[Key].path) = Key
        BY <3>1 DEF Filed
      <4>. QED
        BY <1>1, <1>2, <2>3, <4>1, OneKeyOneFile, Zenon DEF Relative
    <3>6. outcome' \in {"equal", "differs"} /\ (outcome' = "equal" <=> call.value = value)
      BY <3>4
    <3>. QED
      BY <1>1, <1>2, <3>5, <3>6 DEF ReadEqualsIsExact, value
  <2>. QED
    BY <2>1, <2>2, <2>3
<1>. QED
  BY <1>1, <1>3, <1>4, <1>5 DEF Stored

\* No other step touches what is stored, or compares.
LEMMA StoredStep == Stored /\ [Next]_vars => Stored'
<1>. SUFFICES ASSUME Stored, [Next]_vars
              PROVE  Stored'
  OBVIOUS
<1>0. Requested'
  BY RequestedStep DEF Stored
<1>1. CASE Call
  BY <1>0, <1>1, StoredElsewhere DEF Call
<1>2. CASE Return
  BY <1>0, <1>2, StoredElsewhere DEF Return
<1>3. CASE GetValue \/ FillBuffer \/ SizesGet \/ FdWriteVector \/ FdWriteEnd \/ List
  <2>1. /\ UNCHANGED storeVars /\ call' = call /\ call.op # "storage_read_equals"
    BY <1>3 DEF GetValue, FillBuffer, SizesGet, FdWriteVector, FdWriteEnd, List, Running
  <2>2. outcome' \in {"running", "ok", "trap", "panic"}
    BY <1>3 DEF GetValue, FillBuffer, SizesGet, FdWriteVector, FdWriteEnd, List, Running, WriteGuestBytes
  <2>. QED
    BY <1>0, <2>1, <2>2, StoredElsewhere
<1>4. CASE StorageWrite
  BY <1>0, <1>4, StoredWrite
<1>5. CASE StorageReadEquals
  BY <1>0, <1>5, StoredRead
<1>6. CASE UNCHANGED vars
  BY <1>0, <1>6 DEF vars, Stored, Filed, KeyOf, Kept, ReadEqualsIsExact, Key, Relative
<1>. QED
  BY <1>1, <1>2, <1>3, <1>4, <1>5, <1>6 DEF Next

\* storage_read_equals answers 1 exactly for the bytes last written to the file the
\* path leads to, through either provider; a value written is found again.
THEOREM ReadEqualsAlwaysExact == Spec => []ReadEqualsIsExact
<1>1. Stored => ReadEqualsIsExact
  BY DEF Stored
<1>. QED
  BY <1>1, StoredInit, StoredStep, PTL DEF Spec

-----------------------------------------------------------------------------
(* Lists.                                                                  *)

\* A list asks for names.
LEMMA ListShape ==
    ASSUME NEW c \in Calls, c.op = "list"
    PROVE  c.names \in Seq(Text)
<1>1. c \in CallShapes
  BY HostCallsOK
<1>. QED
  BY <1>1 DEF CallShapes

\* The answer is what the parser makes of the array.
Answered == Requested /\ ListIsExactOrRefused

\* Initially no call is a list.
LEMMA AnsweredInit == Init => Answered
<1>1. Init => call.op # "list"
  BY DEF Init, NoCall
<1>. QED
  BY <1>1, RequestedInit, Zenon DEF Answered, ListIsExactOrRefused

\* Only List ends one.
LEMMA AnsweredStep == Answered /\ [Next]_vars => Answered'
<1>. SUFFICES ASSUME Answered, [Next]_vars
              PROVE  ListIsExactOrRefused'
  BY RequestedStep DEF Answered
<1>1. CASE call'.op # "list" \/ outcome' = "running"
  BY <1>1, Zenon DEF ListIsExactOrRefused
<1>2. CASE List
  <2>. DEFINE names == call.names
              answer == ParseJSONStringArray(JSONArray(names))
              HasComma == \E i \in 1..Len(names) : Contains(names[i], Comma)
              Exact(a) == /\ Len(a) = Len(names)
                          /\ \A i \in 1..Len(a) : Printable(names[i]) => a[i] = names[i]
  <2>1. call' = call /\ call \in Calls /\ call.op = "list" /\ names \in Seq(Text)
    BY <1>2, ListShape DEF List, Running, Answered, Requested
  <2>2. IF answer = Refused THEN HasComma ELSE Exact(answer)
    <3>1. /\ {Quote, Backslash, Comma} \cup EscapeLetters \subseteq STRING
          /\ Refused \notin Seq(STRING) /\ Refused \notin Seq(Seq(STRING))
          /\ names \in Seq(Seq(STRING))
      BY <2>1, Texts DEF Text
    <3>. HIDE DEF names
    <3>2. LET a == ParseJSONStringArray(JSONArray(names))
          IN  IF a = Refused THEN HasComma
              ELSE /\ Len(a) = Len(names)
                   /\ \A i \in 1..Len(names) : Printable(names[i]) => a[i] = names[i]
      BY <3>1, ListIsParsed
    <3>. QED
      BY <3>2, Zenon DEF names
  <2>3. IF answer = Refused THEN outcome' = "trap" ELSE outcome' = "ok" /\ listed' = answer
    BY <1>2, Zenon DEF List
  <2>4. IF outcome' = "ok" THEN Exact(listed') ELSE HasComma
    <3>. HIDE DEF answer, HasComma, Exact
    <3>1. "trap" # "ok"
      OBVIOUS
    <3>. QED
      BY <2>2, <2>3, <3>1, Zenon
  <2>. QED
    BY <2>1, <2>4, Zenon DEF ListIsExactOrRefused
<1>3. CASE UNCHANGED vars
  BY <1>3, Zenon DEF vars, Answered, ListIsExactOrRefused
<1>4. ASSUME Call \/ Return \/ GetValue \/ FillBuffer \/ SizesGet \/ FdWriteVector \/ FdWriteEnd
             \/ StorageWrite \/ StorageReadEquals
      PROVE  call'.op # "list" \/ outcome' = "running"
  BY <1>4 DEF Call, Return, GetValue, FillBuffer, SizesGet, FdWriteVector, FdWriteEnd,
              StorageWrite, StorageReadEquals, Running, NoCall
<1>. QED
  BY <1>1, <1>2, <1>3, <1>4, Zenon DEF Next

\* FeltDBStateProvider::list answers every name the bridge found, each in its place, or
\* fails, and then for a comma; it answers no other name for one without control characters.
THEOREM ListAlwaysExactOrRefused == Spec => []ListIsExactOrRefused
<1>1. Answered => ListIsExactOrRefused
  BY DEF Answered
<1>. QED
  BY <1>1, AnsweredInit, AnsweredStep, PTL DEF Spec
=============================================================================
