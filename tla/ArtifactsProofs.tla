--------------------------- MODULE ArtifactsProofs ---------------------------
(***************************************************************************)
(* Theorems about Artifacts, for any number of builds and loads at once    *)
(* and any versions of app.toml and of the sources.                        *)
(***************************************************************************)
EXTENDS Artifacts, TLAPS

-----------------------------------------------------------------------------
(* Types.                                                                  *)

\* Where a build leaves the compiler's output, and the steps at which it has read it,
\* has opened app.wasm, and has made its manifest.
Output  == IF language = "rust" THEN cargo ELSE wasm
HasRead == {"openwasm", "fillwasm", "openmanifest", "fillmanifest", "report"}
HasOpen == {"fillwasm", "openmanifest", "fillmanifest", "report"}
HasMade == {"openmanifest", "fillmanifest", "report"}

\* What each step of a command can rely on.
Typed ==
    /\ TypeOK
    /\ \A b \in Builders :
          /\ pc[b] \in Ended \cup BuildSteps
          /\ pc[b] \in BuildSteps => made[b].spec \in Specs
          /\ pc[b] \in HasRead    => made[b] \in Pairs
          /\ pc[b] = "read"       => Output # Absent
          /\ pc[b] \in HasOpen    => wasm # Absent
    /\ \A l \in Loaders :
          /\ pc[l] \in Ended \cup {"manifest", "module"}
          /\ pc[l] = "module" => seen[l] \in Pairs

\* Nothing is built initially.
LEMMA TypedInit == Init => Typed
<1>. SUFFICES ASSUME Init  PROVE  Typed
  OBVIOUS
<1>1. /\ spec \in Specs /\ code \in Codes /\ language \in {"rust", "go"}
      /\ made \in [Builders -> [spec : Specs \cup {None}, code : Modules \cup {None}]]
  BY ArtifactsOK DEF Init, Specs, Codes, Nothing
<1>2. pc \in [Commands -> {"idle"}] /\ \A c \in Commands : pc[c] = "idle"
  BY DEF Init
<1>3. TypeOK
  BY <1>1, <1>2 DEF Init, TypeOK, Ended, BuildSteps
<1>. QED
  BY <1>2, <1>3 DEF Typed, Commands, Ended, BuildSteps, HasRead, HasOpen

\* One text over another is either of them or a mixture.
LEMMA OverlaidIs ==
    ASSUME NEW old, NEW new, NEW x \in Overlaid(old, new)
    PROVE  x = new \/ (x = Mixed /\ old # Empty)
BY DEF Overlaid

\* A file that exists goes on existing, and what a command holds stays what it is until
\* its next step.
LEMMA TypedStep == Typed /\ [Next]_vars => Typed'
<1>. SUFFICES ASSUME Typed, [Next]_vars
              PROVE  Typed'
  OBVIOUS
<1>. USE ArtifactsOK DEF Typed, TypeOK, Commands, Ended, BuildSteps, HasRead, HasOpen, Output
<1>1. CASE Edit
  BY <1>1 DEF Edit, files, Specs, Codes
<1>2. ASSUME NEW b \in Builders, LoadSpec(b)  PROVE  Typed'
  <2>1. /\ made' = [made EXCEPT ![b] = [spec |-> spec, code |-> None]]
        /\ printed' = [printed EXCEPT ![b] = None]
        /\ pc' = [pc EXCEPT ![b] = "compile"]
        /\ UNCHANGED <<spec, code, language, cargo, wasm, manifest, seen, loaded, built, settled>>
    BY <1>2 DEF LoadSpec, Goto, files
  <2>2. spoiled' \subseteq Builders /\ everSpoiled' \in BOOLEAN
    <3>1. CASE \E d \in Builders \ {b} : Building(d)
      <4>1. everSpoiled' = TRUE
        BY <1>2, <3>1 DEF LoadSpec
      <4>2. spoiled' \subseteq Builders
        BY <1>2 DEF LoadSpec
      <4>. QED
        BY <4>1, <4>2
    <3>2. CASE ~ \E d \in Builders \ {b} : Building(d)
      <4>1. spoiled' = spoiled \ {b} /\ UNCHANGED everSpoiled
        BY <1>2, <3>2 DEF LoadSpec
      <4>. QED
        BY <4>1
    <3>. QED
      BY <3>1, <3>2
  <2>3. [spec |-> spec, code |-> None] \in [spec : Specs \cup {None}, code : Modules \cup {None}]
    OBVIOUS
  <2>4. made' \in [Builders -> [spec : Specs \cup {None}, code : Modules \cup {None}]]
    BY <2>1, <2>3
  <2>5. TypeOK'
    BY <2>1, <2>2, <2>4
  <2>6. made'[b].spec \in Specs /\ \A d \in Builders : d # b => made'[d] = made[d]
    BY <2>1
  <2>. QED
    BY <2>1, <2>5, <2>6
<1>3. ASSUME NEW b \in Builders, Compile(b)  PROVE  Typed'
  <2>1. code \in Modules /\ code # Absent /\ pc[b] = "compile"
    BY <1>3 DEF Compile, Modules
  <2>2. CASE language = "rust"
    BY <1>3, <2>1, <2>2 DEF Compile, Goto
  <2>3. CASE language # "rust"
    BY <1>3, <2>1, <2>3 DEF Compile, Goto
  <2>. QED
    BY <2>2, <2>3
<1>4. ASSUME NEW b \in Builders, ReadBinary(b)  PROVE  Typed'
  <2>1. /\ pc[b] = "read" /\ Output \in Modules
        /\ made[b].spec \in Specs
        /\ made[b] \in [spec : Specs \cup {None}, code : Modules \cup {None}]
    BY <1>4 DEF ReadBinary, Modules
  <2>2. made' = [made EXCEPT ![b] = [spec |-> made[b].spec, code |-> Output]]
    BY <1>4, <2>1 DEF ReadBinary
  <2>3. made'[b] \in Pairs
    BY <2>1, <2>2 DEF Pairs
  <2>4. made' \in [Builders -> [spec : Specs \cup {None}, code : Modules \cup {None}]]
    BY <2>1, <2>2
  <2>5. \A d \in Builders : d # b => made'[d] = made[d]
    BY <2>2
  <2>6. /\ UNCHANGED <<spec, code, language, cargo, wasm, manifest, printed, seen, loaded,
                       built, spoiled, everSpoiled, settled>>
        /\ pc' = [pc EXCEPT ![b] = "openwasm"]
    BY <1>4 DEF ReadBinary, Goto, files
  <2>. HIDE DEF Pairs
  <2>7. TypeOK'
    BY <2>4, <2>6
  <2>8. made'[b].spec \in Specs
    BY <2>1, <2>2
  <2>. QED
    BY <2>3, <2>5, <2>6, <2>7, <2>8
<1>5. ASSUME NEW b \in Builders, OpenWasm(b)  PROVE  Typed'
  BY <1>5 DEF OpenWasm, Goto, Modules
<1>6. ASSUME NEW b \in Builders, FillWasm(b)  PROVE  Typed'
  <2>1. pc[b] = "fillwasm" /\ made[b] \in Pairs
    BY <1>6 DEF FillWasm
  <2>2. wasm' \in Modules
    BY <1>6, <2>1, OverlaidIs DEF FillWasm, Pairs, Modules
  <2>. QED
    BY <1>6, <2>1, <2>2 DEF FillWasm, Goto
<1>7. ASSUME NEW b \in Builders, OpenManifest(b)  PROVE  Typed'
  BY <1>7 DEF OpenManifest, Goto
<1>8. ASSUME NEW b \in Builders, FillManifest(b)  PROVE  Typed'
  <2>1. pc[b] = "fillmanifest" /\ made[b] \in Pairs
    BY <1>8 DEF FillManifest
  <2>2. manifest' \in Pairs \cup {Mixed}
    BY <1>8, <2>1, OverlaidIs DEF FillManifest
  <2>. QED
    BY <1>8, <2>1, <2>2 DEF FillManifest, Goto
<1>9. ASSUME NEW b \in Builders, Report(b)  PROVE  Typed'
  BY <1>9 DEF Report, Goto, files
<1>10. ASSUME NEW b \in Builders, BuildStops(b)  PROVE  Typed'
  BY <1>10 DEF BuildStops, Goto, files, Building, Nothing
<1>11. ASSUME NEW l \in Loaders, BeginLoad(l)  PROVE  Typed'
  BY <1>11 DEF BeginLoad, Goto, files
<1>12. ASSUME NEW l \in Loaders, ReadManifest(l)  PROVE  Typed'
  BY <1>12 DEF ReadManifest, Goto, files
<1>13. ASSUME NEW l \in Loaders, ReadModule(l)  PROVE  Typed'
  <2>1. pc[l] = "module" /\ seen[l] \in Pairs
    BY <1>13 DEF ReadModule
  <2>2. loaded' \in [Loaders -> Pairs \cup {None}]
    BY <1>13, <2>1 DEF ReadModule, Pairs
  <2>3. /\ UNCHANGED <<spec, code, language, cargo, wasm, manifest, made, printed,
                       built, spoiled, everSpoiled, settled>>
        /\ seen' = [seen EXCEPT ![l] = None]
        /\ pc' = [pc EXCEPT ![l] = "ok"] \/ pc' = [pc EXCEPT ![l] = "idle"]
    BY <1>13 DEF ReadModule, Goto, files
  <2>. QED
    BY <2>2, <2>3
<1>14. CASE UNCHANGED vars
  BY <1>14 DEF vars, files
<1>. QED
  BY <1>1, <1>2, <1>3, <1>4, <1>5, <1>6, <1>7, <1>8, <1>9, <1>10, <1>11, <1>12, <1>13, <1>14
  DEF Next, BuildStep, LoadStep

\* The files, and what commands hold of them, keep their types, whatever overlaps.
THEOREM ArtifactsTyped == Spec => []TypeOK
<1>1. Typed => TypeOK
  BY DEF Typed
<1>. QED
  BY <1>1, TypedInit, TypedStep, PTL DEF Spec

-----------------------------------------------------------------------------
(* The hash: what loads is one build.                                      *)

\* A manifest, and whatever was made of it, belongs to a build that hashed its module.
Matched ==
    /\ manifest \in Pairs => manifest \in built
    /\ \A b \in Builders : pc[b] \in HasMade => made[b] \in built
    /\ \A l \in Loaders : seen[l] # None => seen[l] \in built
    /\ LoadsAreBuilds

\* There is no manifest initially.
LEMMA MatchedInit == Init => Matched
BY ArtifactsOK DEF Init, Matched, LoadsAreBuilds, Commands, HasMade

\* A build writes the manifest of the bytes it hashed, and nothing else writes one.
LEMMA MatchedStep == Typed /\ Matched /\ [Next]_vars => Matched'
<1>. SUFFICES ASSUME Typed, Matched, [Next]_vars
              PROVE  Matched'
  OBVIOUS
<1>1. /\ pc \in [Commands -> Ended \cup BuildSteps \cup {"manifest", "module"}]
      /\ DOMAIN made = Builders /\ DOMAIN seen = Loaders /\ DOMAIN loaded = Loaders
      /\ Mixed \notin Pairs /\ Empty \notin Pairs
      /\ \A l \in Loaders : pc[l] = "module" => seen[l] \in Pairs
      /\ Builders \cap Loaders = {}
  BY ArtifactsOK DEF Typed, TypeOK
<1>. USE <1>1 DEF Matched, LoadsAreBuilds, Commands, HasMade
<1>2. CASE Edit
  BY <1>2 DEF Edit, files
<1>3. ASSUME NEW b \in Builders, LoadSpec(b) \/ BuildStops(b)  PROVE  Matched'
  BY <1>3 DEF LoadSpec, BuildStops, Goto, files, Building, Ended
<1>4. ASSUME NEW b \in Builders, Compile(b) \/ ReadBinary(b) \/ OpenWasm(b)  PROVE  Matched'
  BY <1>4 DEF Compile, ReadBinary, OpenWasm, Goto, files
<1>5. ASSUME NEW b \in Builders, FillWasm(b)  PROVE  Matched'
  BY <1>5 DEF FillWasm, Goto
<1>6. ASSUME NEW b \in Builders, OpenManifest(b) \/ Report(b)  PROVE  Matched'
  BY <1>6 DEF OpenManifest, Report, Goto, files
<1>7. ASSUME NEW b \in Builders, FillManifest(b)  PROVE  Matched'
  <2>1. manifest' = made[b] \/ manifest' = Mixed
    BY <1>7, OverlaidIs DEF FillManifest
  <2>2. made[b] \in built
    BY <1>7 DEF FillManifest
  <2>. QED
    BY <1>7, <2>1, <2>2 DEF FillManifest, Goto
<1>8. ASSUME NEW l \in Loaders, BeginLoad(l) \/ ReadManifest(l)  PROVE  Matched'
  BY <1>8 DEF BeginLoad, ReadManifest, Goto, files
<1>9. ASSUME NEW l \in Loaders, ReadModule(l)  PROVE  Matched'
  <2>1. (seen[l] \in Pairs /\ seen[l] \in built) \/ seen[l] = None
    BY <1>9 DEF ReadModule
  <2>2. wasm = seen[l].code => [spec |-> seen[l].spec, code |-> wasm] = seen[l]
    BY <1>9 DEF ReadModule, Pairs
  <2>3. loaded' = [loaded EXCEPT ![l] = seen[l]] \/ loaded' = loaded
    BY <1>9, <2>2 DEF ReadModule
  <2>. QED
    BY <1>9, <2>1, <2>3 DEF ReadModule, Goto, files
<1>10. CASE UNCHANGED vars
  BY <1>10 DEF vars, files
<1>. QED
  BY <1>2, <1>3, <1>4, <1>5, <1>6, <1>7, <1>8, <1>9, <1>10 DEF Next, BuildStep, LoadStep

\* Whatever is built, killed or edited around a load, it fails or gets the manifest and
\* the module of one build.
THEOREM LoadsAlwaysBuilds == Spec => []LoadsAreBuilds
<1>1. Matched => LoadsAreBuilds
  BY DEF Matched
<1>2. Spec => []Typed
  BY TypedInit, TypedStep, PTL DEF Spec
<1>. QED
  BY <1>1, <1>2, MatchedInit, MatchedStep, PTL DEF Spec

-----------------------------------------------------------------------------
(* A build that nothing overlaps.                                          *)

\* Such a build is the only one at work, and the files are as it left them.
Lone ==
    \A b \in Builders : Building(b) /\ b \notin spoiled =>
        /\ \A d \in Builders : Building(d) => d = b
        /\ pc[b] = "fillwasm"     => wasm = Empty
        /\ pc[b] \in HasMade      => wasm = made[b].code
        /\ pc[b] = "fillmanifest" => manifest = Empty

\* Once such a build has ended, nobody else is about to write either.
Settled ==
    /\ BuildSettles
    /\ settled # None => \A b \in Builders : pc[b] \notin {"fillwasm", "openmanifest", "fillmanifest"}
    /\ PrintedIDLoads

\* As long as no two builds have overlapped, every module came out of a compiler.
Clean ==
    ~everSpoiled =>
        /\ spoiled = {}
        /\ \A p \in built : p.code \in Codes
        /\ \A b \in Builders :
              /\ pc[b] = "read" => Output \in Codes
              /\ pc[b] \in {"openwasm", "fillwasm"} => made[b].code \in Codes

Undisturbed == Lone /\ Settled /\ Clean

\* Nothing is being built initially.
LEMMA UndisturbedInit == Init => Undisturbed
BY ArtifactsOK
DEF Init, Undisturbed, Lone, Settled, Clean, BuildSettles, PrintedIDLoads, Building, Commands, Ended

\* A build that starts next to another one spoils both.
LEMMA LoneStep == Typed /\ Lone /\ [Next]_vars => Lone'
<1>. SUFFICES ASSUME Typed, Lone, [Next]_vars
              PROVE  Lone'
  OBVIOUS
<1>1. /\ pc \in [Commands -> Ended \cup BuildSteps \cup {"manifest", "module"}]
      /\ DOMAIN made = Builders /\ DOMAIN printed = Builders /\ Builders \cap Loaders = {}
      /\ \A b \in Builders : pc[b] \in Ended \cup BuildSteps
      /\ spoiled \subseteq Builders
  BY ArtifactsOK DEF Typed, TypeOK
<1>. USE <1>1 DEF Lone, Building, Commands, Ended, BuildSteps, HasMade
<1>2. CASE Edit
  BY <1>2 DEF Edit, files
<1>3. ASSUME NEW b \in Builders, LoadSpec(b)  PROVE  Lone'
  <2>1. /\ pc' = [pc EXCEPT ![b] = "compile"] /\ UNCHANGED <<wasm, manifest>>
        /\ \A d \in Builders \ {b} : made'[d] = made[d]
    BY <1>3 DEF LoadSpec, Goto, files
  <2>2. CASE \E d \in Builders \ {b} : Building(d)
    <3>1. \A d \in Builders : Building(d)' => d \in spoiled'
      BY <1>3, <2>1, <2>2 DEF LoadSpec
    <3>. QED
      BY <3>1
  <2>3. CASE ~ \E d \in Builders \ {b} : Building(d)
    <3>1. \A d \in Builders : Building(d)' => d = b
      BY <2>1, <2>3
    <3>. QED
      BY <2>1, <3>1
  <2>. QED
    BY <2>2, <2>3
<1>4. ASSUME NEW b \in Builders, Compile(b)  PROVE  Lone'
  <2>1. /\ pc[b] = "compile" /\ pc' = [pc EXCEPT ![b] = "read"]
        /\ UNCHANGED <<manifest, made, spoiled>>
    BY <1>4 DEF Compile, Goto
  <2>. QED
    BY <2>1
<1>5. ASSUME NEW b \in Builders, ReadBinary(b)  PROVE  Lone'
  <2>1. /\ pc[b] = "read" /\ pc' = [pc EXCEPT ![b] = "openwasm"]
        /\ \A d \in Builders \ {b} : made'[d] = made[d]
        /\ UNCHANGED <<wasm, manifest, spoiled>>
    BY <1>5 DEF ReadBinary, Goto, files
  <2>. QED
    BY <2>1
<1>6. ASSUME NEW b \in Builders, OpenWasm(b)  PROVE  Lone'
  BY <1>6 DEF OpenWasm, Goto
<1>7. ASSUME NEW b \in Builders, FillWasm(b)  PROVE  Lone'
  <2>1. wasm' = made[b].code \/ wasm # Empty
    BY <1>7, OverlaidIs DEF FillWasm
  <2>. QED
    BY <1>7, <2>1 DEF FillWasm, Goto
<1>8. ASSUME NEW b \in Builders, OpenManifest(b)  PROVE  Lone'
  BY <1>8 DEF OpenManifest, Goto
<1>9. ASSUME NEW b \in Builders, FillManifest(b)  PROVE  Lone'
  BY <1>9 DEF FillManifest, Goto
<1>10. ASSUME NEW b \in Builders, Report(b)  PROVE  Lone'
  BY <1>10 DEF Report, Goto, files
<1>11. ASSUME NEW b \in Builders, BuildStops(b)  PROVE  Lone'
  BY <1>11 DEF BuildStops, Goto, files
<1>12. ASSUME NEW l \in Loaders, BeginLoad(l) \/ ReadManifest(l) \/ ReadModule(l)  PROVE  Lone'
  <2>1. /\ \A b \in Builders : pc'[b] = pc[b]
        /\ UNCHANGED <<wasm, manifest, made, spoiled>>
    BY <1>12 DEF BeginLoad, ReadManifest, ReadModule, Goto, files
  <2>. QED
    BY <2>1
<1>13. CASE UNCHANGED vars
  BY <1>13 DEF vars, files
<1>. QED
  BY <1>2, <1>3, <1>4, <1>5, <1>6, <1>7, <1>8, <1>9, <1>10, <1>11, <1>12, <1>13
  DEF Next, BuildStep, LoadStep

\* A lone build writes its manifest when nobody else writes, and the next to open a file
\* ends the settlement.
LEMMA SettledStep == Typed /\ Lone /\ Settled /\ [Next]_vars => Settled'
<1>. SUFFICES ASSUME Typed, Lone, Settled, [Next]_vars
              PROVE  Settled'
  OBVIOUS
<1>1. /\ pc \in [Commands -> Ended \cup BuildSteps \cup {"manifest", "module"}]
      /\ DOMAIN made = Builders /\ DOMAIN printed = Builders /\ Builders \cap Loaders = {}
      /\ \A b \in Builders : pc[b] \in Ended \cup BuildSteps
      /\ spoiled \subseteq Builders
  BY ArtifactsOK DEF Typed, TypeOK
<1>. USE <1>1 DEF Settled, BuildSettles, PrintedIDLoads, Building, Commands, Ended, BuildSteps, HasMade
<1>2. CASE Edit
  BY <1>2 DEF Edit, files
<1>3. ASSUME NEW b \in Builders, LoadSpec(b)  PROVE  Settled'
  <2>1. /\ pc' = [pc EXCEPT ![b] = "compile"] /\ UNCHANGED <<wasm, manifest, settled>>
        /\ \A d \in Builders \ {b} : made'[d] = made[d] /\ printed'[d] = printed[d]
    BY <1>3 DEF LoadSpec, Goto, files
  <2>2. \A d \in Builders \ {b} : d \notin spoiled' => d \notin spoiled
    BY <1>3 DEF LoadSpec
  <2>. QED
    BY <2>1, <2>2
<1>4. ASSUME NEW b \in Builders, Compile(b)  PROVE  Settled'
  BY <1>4 DEF Compile, Goto
<1>5. ASSUME NEW b \in Builders, ReadBinary(b)  PROVE  Settled'
  <2>1. /\ pc[b] = "read" /\ pc' = [pc EXCEPT ![b] = "openwasm"]
        /\ \A d \in Builders \ {b} : made'[d] = made[d]
        /\ UNCHANGED <<wasm, manifest, spoiled, settled, printed>>
    BY <1>5 DEF ReadBinary, Goto, files
  <2>. QED
    BY <2>1
<1>6. ASSUME NEW b \in Builders, OpenWasm(b)  PROVE  Settled'
  BY <1>6 DEF OpenWasm, Goto
<1>7. ASSUME NEW b \in Builders, FillWasm(b)  PROVE  Settled'
  BY <1>7 DEF FillWasm, Goto
<1>8. ASSUME NEW b \in Builders, OpenManifest(b)  PROVE  Settled'
  BY <1>8 DEF OpenManifest, Goto
<1>9. ASSUME NEW b \in Builders, FillManifest(b)  PROVE  Settled'
  <2>1. /\ pc[b] = "fillmanifest" /\ pc' = [pc EXCEPT ![b] = "report"]
        /\ UNCHANGED <<wasm, made, printed, spoiled>>
    BY <1>9 DEF FillManifest, Goto
  <2>2. CASE b \in spoiled
    BY <1>9, <2>1, <2>2 DEF FillManifest
  <2>3. CASE b \notin spoiled
    <3>1. /\ \A d \in Builders : Building(d) => d = b
          /\ wasm = made[b].code /\ manifest = Empty
      BY <2>1, <2>3 DEF Lone
    <3>2. manifest' = made[b] /\ settled' = made[b]
      BY <1>9, <2>3, <3>1, OverlaidIs DEF FillManifest
    <3>. QED
      BY <2>1, <3>1, <3>2
  <2>. QED
    BY <2>2, <2>3
<1>10. ASSUME NEW b \in Builders, Report(b)  PROVE  Settled'
  <2>1. b \notin spoiled => wasm = made[b].code
    BY <1>10 DEF Report, Lone
  <2>. QED
    BY <1>10, <2>1 DEF Report, Goto, files
<1>11. ASSUME NEW b \in Builders, BuildStops(b)  PROVE  Settled'
  <2>1. /\ pc' = [pc EXCEPT ![b] = "idle"] /\ UNCHANGED <<wasm, manifest, settled, printed>>
        /\ \A d \in Builders \ {b} : made'[d] = made[d]
        /\ spoiled' = spoiled \ {b}
    BY <1>11 DEF BuildStops, Goto, files
  <2>. QED
    BY <2>1
<1>12. ASSUME NEW l \in Loaders, BeginLoad(l) \/ ReadManifest(l) \/ ReadModule(l)  PROVE  Settled'
  <2>1. /\ \A b \in Builders : pc'[b] = pc[b]
        /\ UNCHANGED <<wasm, manifest, made, spoiled, settled, printed>>
    BY <1>12 DEF BeginLoad, ReadManifest, ReadModule, Goto, files
  <2>. QED
    BY <2>1
<1>13. CASE UNCHANGED vars
  BY <1>13 DEF vars, files
<1>. QED
  BY <1>2, <1>3, <1>4, <1>5, <1>6, <1>7, <1>8, <1>9, <1>10, <1>11, <1>12, <1>13
  DEF Next, BuildStep, LoadStep

\* A build alone reads what its own compiler wrote.
LEMMA CleanStep == Typed /\ Lone /\ Clean /\ [Next]_vars => Clean'
<1>. SUFFICES ASSUME Typed, Lone, Clean, [Next]_vars
              PROVE  Clean'
  OBVIOUS
<1>1. /\ pc \in [Commands -> Ended \cup BuildSteps \cup {"manifest", "module"}]
      /\ DOMAIN made = Builders /\ DOMAIN printed = Builders /\ Builders \cap Loaders = {}
      /\ \A b \in Builders : pc[b] \in Ended \cup BuildSteps
      /\ spoiled \subseteq Builders
  BY ArtifactsOK DEF Typed, TypeOK
<1>. USE <1>1 DEF Clean, Output, Building, Commands, Ended, BuildSteps, HasMade
<1>2. CASE Edit
  BY <1>2 DEF Edit, files
<1>3. ASSUME NEW b \in Builders, LoadSpec(b)  PROVE  Clean'
  <2>1. /\ pc' = [pc EXCEPT ![b] = "compile"] /\ UNCHANGED <<language, cargo, wasm, built>>
        /\ \A d \in Builders \ {b} : made'[d] = made[d]
    BY <1>3 DEF LoadSpec, Goto, files
  <2>2. ~everSpoiled' => ~everSpoiled /\ spoiled' \subseteq spoiled
    BY <1>3 DEF LoadSpec
  <2>. QED
    BY <2>1, <2>2
<1>4. ASSUME NEW b \in Builders, Compile(b)  PROVE  Clean'
  <2>1. /\ pc[b] = "compile" /\ pc' = [pc EXCEPT ![b] = "read"] /\ Output' \in Codes
        /\ UNCHANGED <<built, spoiled, everSpoiled, made>>
    BY <1>4 DEF Compile, Goto, Typed, TypeOK
  <2>. QED
    BY <2>1
<1>5. ASSUME NEW b \in Builders, ReadBinary(b)  PROVE  Clean'
  <2>1. /\ pc[b] = "read" /\ pc' = [pc EXCEPT ![b] = "openwasm"]
        /\ made'[b].code = Output
        /\ \A d \in Builders \ {b} : made'[d] = made[d]
        /\ UNCHANGED <<language, cargo, wasm, built, spoiled, everSpoiled>>
    BY <1>5 DEF ReadBinary, Goto, files
  <2>. QED
    BY <2>1
<1>6. ASSUME NEW b \in Builders, OpenWasm(b)  PROVE  Clean'
  <2>1. /\ pc[b] = "openwasm" /\ pc' = [pc EXCEPT ![b] = "fillwasm"]
        /\ UNCHANGED <<built, spoiled, everSpoiled, made>>
    BY <1>6 DEF OpenWasm, Goto
  <2>2. ~everSpoiled => \A d \in Builders : pc'[d] # "read"
    BY <2>1 DEF Lone
  <2>. QED
    BY <2>1, <2>2
<1>7. ASSUME NEW b \in Builders, FillWasm(b)  PROVE  Clean'
  <2>1. /\ pc[b] = "fillwasm" /\ pc' = [pc EXCEPT ![b] = "openmanifest"]
        /\ UNCHANGED <<spoiled, everSpoiled, made>> /\ built' = built \cup {made[b]}
    BY <1>7 DEF FillWasm, Goto
  <2>2. ~everSpoiled => \A d \in Builders : pc'[d] # "read"
    BY <2>1 DEF Lone
  <2>. QED
    BY <2>1, <2>2
<1>8. ASSUME NEW b \in Builders, OpenManifest(b) \/ FillManifest(b) \/ Report(b)  PROVE  Clean'
  BY <1>8 DEF OpenManifest, FillManifest, Report, Goto, files
<1>9. ASSUME NEW b \in Builders, BuildStops(b)  PROVE  Clean'
  BY <1>9 DEF BuildStops, Goto, files
<1>10. ASSUME NEW l \in Loaders, BeginLoad(l) \/ ReadManifest(l) \/ ReadModule(l)  PROVE  Clean'
  <2>1. /\ \A b \in Builders : pc'[b] = pc[b]
        /\ UNCHANGED <<language, cargo, wasm, made, spoiled, everSpoiled, built>>
    BY <1>10 DEF BeginLoad, ReadManifest, ReadModule, Goto, files
  <2>. QED
    BY <2>1
<1>11. CASE UNCHANGED vars
  BY <1>11 DEF vars, files
<1>. QED
  BY <1>2, <1>3, <1>4, <1>5, <1>6, <1>7, <1>8, <1>9, <1>10, <1>11 DEF Next, BuildStep, LoadStep

\* Undisturbed holds of every reachable state.
LEMMA UndisturbedAlways == Spec => []Undisturbed
<1>1. Spec => []Typed
  BY TypedInit, TypedStep, PTL DEF Spec
<1>2. Typed /\ Undisturbed /\ [Next]_vars => Undisturbed'
  BY LoneStep, SettledStep, CleanStep DEF Undisturbed
<1>. QED
  BY <1>1, <1>2, UndisturbedInit, PTL DEF Spec

\* A build that no other one overlaps leaves files that load as what it built, whatever
\* it found there.
THEOREM LoneBuildSettles == Spec => []BuildSettles
<1>1. Undisturbed => BuildSettles
  BY DEF Undisturbed, Settled
<1>. QED
  BY <1>1, UndisturbedAlways, PTL

\* The Application ID it prints is the one of those files.
THEOREM PrintedIDAlwaysLoads == Spec => []PrintedIDLoads
<1>1. Undisturbed => PrintedIDLoads
  BY DEF Undisturbed, Settled
<1>. QED
  BY <1>1, UndisturbedAlways, PTL

\* However many builds die half-way, a manifest vouches for a garbled module only after
\* two builds have overlapped.
THEOREM GarblingNeedsOverlap == Spec => []OnlyOverlapGarbles
<1>1. Undisturbed => OnlyOverlapGarbles
  BY DEF Undisturbed, Clean, OnlyOverlapGarbles
<1>. QED
  BY <1>1, UndisturbedAlways, PTL

=============================================================================
