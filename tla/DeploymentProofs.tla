-------------------------- MODULE DeploymentProofs --------------------------
(***************************************************************************)
(* Theorems about Deployment, for any number of builds, starts and stops   *)
(* at once, and any versions of app.toml and of the sources.               *)
(***************************************************************************)
EXTENDS Deployment, ArtifactsProofs

-----------------------------------------------------------------------------
(* Deployment is Artifacts with more to it.                                *)

\* Every step of Deployment is one of Artifacts, or none.
LEMMA ArtifactsStep == [DeploymentNext]_allVars => [Next]_vars
<1>. SUFFICES ASSUME [DeploymentNext]_allVars  PROVE  [Next]_vars
  OBVIOUS
<1>1. CASE EditGoesOn
  BY <1>1 DEF EditGoesOn, Next
<1>2. ASSUME NEW b \in Builders, BuildGoesOn(b)  PROVE  Next
  BY <1>2 DEF BuildGoesOn, Next
<1>3. ASSUME NEW l \in Loaders, LoadGoesOn(l) \/ LoadFails(l)  PROVE  [Next]_vars
  BY <1>3 DEF LoadGoesOn, LoadFails, Next, LoadStep
<1>4. ASSUME NEW s \in Starts, StartStep(s)  PROVE  [Next]_vars
  BY <1>4, DeploymentOK
     DEF StartStep, PrepareStart, Spawn, Listen, RecordStarted, AbandonServer, ServerDies, Next, LoadStep
<1>5. ASSUME NEW t \in Stops, StopStep(t)  PROVE  [Next]_vars
  BY <1>5, DeploymentOK DEF StopStep, PrepareStop, FindToStop, Terminate, Next, LoadStep
<1>7. ASSUME NEW l \in Loaders, RecordStep(l)  PROVE  [Next]_vars
  BY <1>7 DEF RecordStep, Look, FindAlive, FindDead, RemoveRecord, GivesUp
<1>6. CASE UNCHANGED allVars
  BY <1>6 DEF allVars
<1>. QED
  BY <1>1, <1>2, <1>3, <1>4, <1>5, <1>6, <1>7 DEF DeploymentNext

\* Starts and stops change nothing of what Artifacts promises.
THEOREM DeploymentImplementsArtifacts == DeploymentSpec => Spec
<1>1. DeploymentInit => Init
  BY DEF DeploymentInit
<1>. QED
  BY <1>1, ArtifactsStep, PTL DEF DeploymentSpec, Spec

\* What a step of Artifacts does to the files and to the loads.
LEMMA BuildEffect ==
    ASSUME Typed, NEW b \in Builders, BuildStep(b)
    PROVE  UNCHANGED <<seen, loaded>> /\ \A l \in Loaders : pc'[l] = pc[l]
<1>. USE ArtifactsOK DEF Typed, TypeOK, Commands, Goto, files
<1>1. CASE LoadSpec(b) \/ Compile(b) \/ ReadBinary(b)
  BY <1>1 DEF LoadSpec, Compile, ReadBinary
<1>2. CASE OpenWasm(b) \/ FillWasm(b) \/ OpenManifest(b)
  BY <1>2 DEF OpenWasm, FillWasm, OpenManifest
<1>3. CASE FillManifest(b) \/ Report(b) \/ BuildStops(b)
  BY <1>3 DEF FillManifest, Report, BuildStops
<1>. QED
  BY <1>1, <1>2, <1>3 DEF BuildStep

\* The first step of a load touches nothing but the loader.
LEMMA BeginEffect ==
    ASSUME Typed, NEW l \in Loaders, BeginLoad(l)
    PROVE  /\ UNCHANGED <<wasm, manifest, seen>>
           /\ pc' = [pc EXCEPT ![l] = "manifest"] /\ pc'[l] = "manifest"
           /\ loaded' = [loaded EXCEPT ![l] = None]
           /\ \A m \in Loaders : m # l => pc'[m] = pc[m] /\ loaded'[m] = loaded[m]
BY DEF BeginLoad, Goto, files, Typed, TypeOK, Commands

\* A load touches nothing but the loader, and one that ends well has matched the two files.
LEMMA LoadEffect ==
    ASSUME Typed, NEW l \in Loaders, ReadManifest(l) \/ ReadModule(l)
    PROVE  /\ UNCHANGED <<wasm, manifest>>
           /\ pc[l] \in {"manifest", "module"}
           /\ pc'[l] = "module" => seen'[l] = manifest
           /\ pc'[l] = "ok" => /\ pc[l] = "module" /\ loaded'[l] = seen[l] /\ seen[l] \in Pairs
                               /\ seen[l].code = wasm
           /\ pc'[l] \in {"idle", "module", "ok"}
           /\ \A m \in Loaders : m # l => /\ pc'[m] = pc[m] /\ loaded'[m] = loaded[m]
                                          /\ seen'[m] = seen[m]
<1>. USE DEF Typed, TypeOK, Commands, Goto, files
<1>1. CASE ReadManifest(l)
  BY <1>1 DEF ReadManifest
<1>2. CASE ReadModule(l)
  <2>1. pc[l] = "module" /\ seen[l] \in Pairs /\ UNCHANGED <<wasm, manifest>>
    BY <1>2 DEF ReadModule
  <2>2. wasm = seen[l].code => [spec |-> seen[l].spec, code |-> wasm] = seen[l]
    BY <2>1 DEF Pairs
  <2>3. CASE wasm = seen[l].code
    BY <1>2, <2>1, <2>2, <2>3 DEF ReadModule
  <2>4. CASE wasm # seen[l].code
    BY <1>2, <2>1, <2>4 DEF ReadModule
  <2>. QED
    BY <2>3, <2>4
<1>. QED
  BY <1>1, <1>2

-----------------------------------------------------------------------------
(* Records.                                                                *)

\* What a start knows at each of its steps.  As long as no build writes to target/,
\* both of its loads find the same.
Placed(s) ==
    /\ phase[s] # "finding"
    /\ phase[s] = "listening" => pc[s] = "ok" /\ serving[s] \in {None, loaded[s]}
    /\ s \notin rebuilt =>
          /\ phase[s] = "preparing" =>
                /\ pc[s] = "module" => seen[s] = manifest
                /\ pc[s] = "ok"     => loaded[s] = manifest /\ loaded[s].code = wasm
          /\ phase[s] \in Preparing \ {"preparing"} => manifest = prepared[s] /\ wasm = prepared[s].code
          /\ phase[s] = "spawned" =>
                /\ pc[s] = "module" => seen[s] = prepared[s]
                /\ pc[s] = "ok"     => loaded[s] = prepared[s]
          /\ phase[s] = "listening" => loaded[s] = prepared[s]

\* What a record says of the server that it names.
Filed(p) ==
    LET s == records[p] IN
    s # None =>
        /\ phase[s] = "idle"
        /\ serving[s] # None =>
              /\ IsPrefix(Port[p.spec], Port[serving[s].spec])
              /\ s \notin rebuilt => serving[s] = p

Deployed ==
    /\ DeploymentTypeOK
    /\ \A l \in Loaders : pc[l] = "ok" => loaded[l] \in Pairs
    /\ \A l \in Loaders : phase[l] \in Acting => prepared[l] \in Pairs
    /\ \A s \in Starts : Placed(s)
    /\ \A p \in Pairs : Filed(p)

\* No start has loaded anything and no record exists initially.
LEMMA DeployedInit == DeploymentInit => Deployed
<1>. SUFFICES ASSUME DeploymentInit  PROVE  Deployed
  OBVIOUS
<1>1. \A l \in Loaders : pc[l] = "idle" /\ phase[l] = "idle"
  BY DEF DeploymentInit, Init, Commands
<1>2. DeploymentTypeOK
  BY DEF DeploymentInit, DeploymentTypeOK
<1>3. \A s \in Starts : s \in Loaders
  BY DeploymentOK
<1>. QED
  BY <1>1, <1>2, <1>3 DEF DeploymentInit, Deployed, Placed, Filed, Preparing, Acting

\* A step that only moves commands on, and at most ends servers.
LEMMA QuietStep ==
    ASSUME Typed, Deployed, DeploymentTypeOK',
           UNCHANGED <<pc, seen, loaded, wasm, manifest>>, UNCHANGED rebuilt,
           \A l \in Loaders : phase'[l] \in Acting => prepared'[l] \in Pairs,
           \A s \in Starts : \/ phase'[s] = "idle"
                             \/ phase'[s] = phase[s] /\ prepared'[s] = prepared[s]
                             \/ /\ phase[s] \in Preparing \ {"preparing", "spawned"}
                                /\ phase'[s] \in Preparing \ {"preparing", "spawned"}
                                /\ prepared'[s] = prepared[s],
           \A s \in Starts : serving'[s] \in {None, serving[s]},
           \A p \in Pairs : records'[p] \in {None, records[p]}
    PROVE  Deployed'
<1>. USE DEF Deployed
<1>1. \A s \in Starts : Placed(s)'
  BY DEF Placed, Preparing
<1>2. ASSUME NEW p \in Pairs  PROVE  Filed(p)'
  <2>1. records'[p] # None => records'[p] \in Starts /\ records'[p] = records[p]
    BY DEF DeploymentTypeOK
  <2>. QED
    BY <2>1 DEF Filed, Preparing
<1>. QED
  BY <1>1, <1>2

\* Every step keeps what the starts have loaded and what the records name true.
LEMMA DeployedStep == Typed /\ Deployed /\ [DeploymentNext]_allVars => Deployed'
<1>. SUFFICES ASSUME Typed, Deployed, [DeploymentNext]_allVars
              PROVE  Deployed'
  OBVIOUS
<1>0. /\ \A s \in Starts : s \in Loaders
      /\ \A t \in Stops : t \in Loaders /\ t \notin Starts
      /\ None \notin Starts
      /\ loaded \in [Loaders -> Pairs \cup {None}]
  BY DeploymentOK DEF Typed, TypeOK
<1>. USE DEF Deployed
<1>1. CASE EditGoesOn
  BY <1>0, <1>1 DEF EditGoesOn, Edit, files, deployment, DeploymentTypeOK, Placed, Filed
<1>2. ASSUME NEW b \in Builders, BuildGoesOn(b)  PROVE  Deployed'
  <2>1. /\ UNCHANGED <<seen, loaded, phase, found, prepared, serving, records, crossed>>
        /\ \A l \in Loaders : pc'[l] = pc[l]
        /\ rebuilt \subseteq rebuilt' /\ rebuilt' \subseteq Starts
    BY <1>2, BuildEffect DEF BuildGoesOn, DeploymentTypeOK
  <2>2. ASSUME NEW s \in Starts, s \notin rebuilt', Starting(s)  PROVE  UNCHANGED <<wasm, manifest>>
    BY <1>2, <2>2 DEF BuildGoesOn
  <2>3. \A s \in Starts : Placed(s)'
    BY <1>0, <2>1, <2>2 DEF Placed, Starting, Preparing
  <2>4. \A p \in Pairs : Filed(p)'
    BY <2>1 DEF Filed
  <2>. QED
    BY <2>1, <2>3, <2>4 DEF DeploymentTypeOK
<1>3. ASSUME NEW l \in Loaders, LoadGoesOn(l)  PROVE  Deployed'
  <2>1. UNCHANGED <<phase, found, prepared, serving, records, rebuilt, crossed>>
    BY <1>3 DEF LoadGoesOn, deployment
  <2>2. ReadManifest(l) \/ ReadModule(l)
    BY <1>3 DEF LoadGoesOn
  <2>3. \A m \in Loaders : pc'[m] = "ok" => loaded'[m] \in Pairs
    BY <2>2, LoadEffect
  <2>4. ASSUME NEW s \in Starts  PROVE  Placed(s)'
    BY <1>0, <2>1, <2>2, LoadEffect DEF Placed, Preparing
  <2>5. \A p \in Pairs : Filed(p)'
    BY <2>1 DEF Filed
  <2>. QED
    BY <2>1, <2>3, <2>4, <2>5 DEF DeploymentTypeOK
<1>4. ASSUME NEW l \in Loaders, LoadFails(l) \/ FindAlive(l) \/ GivesUp(l)  PROVE  Deployed'
  <2>1. /\ UNCHANGED <<pc, seen, loaded, wasm, manifest>>
        /\ UNCHANGED <<serving, records, rebuilt, crossed>>
        /\ Ends(l)
    BY <1>4 DEF LoadFails, FindAlive, GivesUp, vars, files
  <2>2. DeploymentTypeOK'
    BY <1>0, <2>1 DEF DeploymentTypeOK, Ends, Phase, Forget
  <2>. QED
    BY <1>0, <2>1, <2>2, QuietStep DEF DeploymentTypeOK, Ends, Phase, Acting
<1>5. ASSUME NEW s \in Starts, PrepareStart(s)  PROVE  Deployed'
  <2>1. /\ BeginLoad(s) /\ serving[s] = None /\ \A p \in Pairs : records[p] # s
        /\ phase' = [phase EXCEPT ![s] = "preparing"]
        /\ rebuilt' = rebuilt \ {s} /\ crossed' = crossed \ {s}
        /\ UNCHANGED <<found, prepared, serving, records>>
    BY <1>5 DEF PrepareStart, Phase
  <2>2. \A r \in Starts : Placed(r)'
    BY <1>0, <2>1, BeginEffect DEF Placed, DeploymentTypeOK, Preparing
  <2>3. \A p \in Pairs : Filed(p)'
    BY <1>0, <2>1 DEF Filed, DeploymentTypeOK
  <2>4. \A m \in Loaders : pc'[m] = "ok" => loaded'[m] \in Pairs
    BY <1>0, <2>1, BeginEffect
  <2>5. \A m \in Loaders : phase'[m] \in Acting => prepared'[m] \in Pairs
    BY <1>0, <2>1 DEF DeploymentTypeOK, Acting
  <2>. QED
    BY <1>0, <2>1, <2>2, <2>3, <2>4, <2>5 DEF DeploymentTypeOK
<1>6. ASSUME NEW s \in Starts, Spawn(s)  PROVE  Deployed'
  <2>1. /\ phase[s] = "spawning" /\ prepared[s] \in Pairs /\ BeginLoad(s)
        /\ phase' = [phase EXCEPT ![s] = "spawned"]
        /\ UNCHANGED <<found, prepared, serving, records, rebuilt, crossed>>
    BY <1>0, <1>6 DEF Spawn, Phase, Acting
  <2>2. \A r \in Starts : Placed(r)'
    BY <1>0, <2>1, BeginEffect DEF Placed, DeploymentTypeOK, Preparing
  <2>3. \A p \in Pairs : Filed(p)'
    BY <1>0, <2>1 DEF Filed, DeploymentTypeOK
  <2>4. \A m \in Loaders : pc'[m] = "ok" => loaded'[m] \in Pairs
    BY <1>0, <2>1, BeginEffect
  <2>5. \A m \in Loaders : phase'[m] \in Acting => prepared'[m] \in Pairs
    BY <1>0, <2>1 DEF DeploymentTypeOK, Acting
  <2>. QED
    BY <1>0, <2>1, <2>2, <2>3, <2>4, <2>5 DEF DeploymentTypeOK, Acting
<1>7. ASSUME NEW s \in Starts, Listen(s)  PROVE  Deployed'
  <2>1. /\ phase[s] = "spawned" /\ pc[s] = "ok" /\ loaded[s] \in Pairs
        /\ UNCHANGED <<pc, seen, loaded, wasm, manifest>>
        /\ UNCHANGED <<records, rebuilt, crossed>>
    BY <1>0, <1>7 DEF Listen, vars, files
  <2>2. CASE Ends(s) /\ UNCHANGED serving
    <3>1. DeploymentTypeOK'
      BY <1>0, <2>1, <2>2 DEF DeploymentTypeOK, Ends, Phase, Forget
    <3>. QED
      BY <1>0, <2>1, <2>2, <3>1, QuietStep DEF DeploymentTypeOK, Ends, Phase, Acting
  <2>3. CASE /\ serving' = [serving EXCEPT ![s] = loaded[s]]
             /\ Phase(s, "listening") /\ UNCHANGED <<found, prepared>>
    <3>1. \A r \in Starts : Placed(r)'
      BY <1>0, <2>1, <2>3 DEF Placed, DeploymentTypeOK, Phase, Preparing
    <3>2. \A p \in Pairs : Filed(p)'
      BY <1>0, <2>1, <2>3 DEF Filed, DeploymentTypeOK, Phase
    <3>3. \A m \in Loaders : phase'[m] \in Acting => prepared'[m] \in Pairs
      BY <1>0, <2>1, <2>3 DEF DeploymentTypeOK, Acting, Phase
    <3>. QED
      BY <1>0, <2>1, <2>3, <3>1, <3>2, <3>3 DEF DeploymentTypeOK, Acting, Phase
  <2>. QED
    BY <1>7, <2>2, <2>3 DEF Listen
<1>8. ASSUME NEW s \in Starts, RecordStarted(s)  PROVE  Deployed'
  <2>. DEFINE p == prepared[s]
  <2>1. /\ phase[s] = "listening" /\ Ends(s)
        /\ loaded[s] \in Pairs /\ p \in Pairs /\ serving[s] \in {None, loaded[s]}
        /\ s \notin rebuilt => loaded[s] = p
        /\ IsPrefix(Port[p.spec], Port[loaded[s].spec])
        /\ records' = [records EXCEPT ![p] = s]
        /\ crossed' \subseteq crossed \cup {s}
        /\ UNCHANGED <<pc, seen, loaded, wasm, manifest>>
        /\ UNCHANGED <<serving, rebuilt>>
    BY <1>0, <1>8 DEF RecordStarted, Expected, Recorded, vars, files, Placed, Acting
  <2>2. \A q \in Pairs : records[q] # s
    BY <1>0, <2>1 DEF Filed
  <2>3. phase' = [phase EXCEPT ![s] = "idle"] /\ prepared' = [prepared EXCEPT ![s] = None]
    BY <2>1 DEF Ends, Phase
  <2>4. \A r \in Starts : Placed(r)'
    BY <1>0, <2>1, <2>3 DEF Placed, DeploymentTypeOK, Preparing
  <2>5. ASSUME NEW q \in Pairs  PROVE  Filed(q)'
    <3>1. CASE q = p
      <4>1. records'[q] = s /\ phase'[s] = "idle"
        BY <1>0, <2>1, <2>3, <3>1 DEF DeploymentTypeOK
      <4>. QED
        BY <2>1, <3>1, <4>1 DEF Filed
    <3>2. CASE q # p
      <4>1. records'[q] = records[q] /\ records[q] \in Starts \cup {None}
        BY <2>1, <3>2 DEF DeploymentTypeOK
      <4>. QED
        BY <1>0, <2>1, <2>2, <2>3, <4>1 DEF Filed, DeploymentTypeOK
    <3>. QED
      BY <3>1, <3>2
  <2>6. DeploymentTypeOK'
    BY <1>0, <2>1, <2>2, <2>3 DEF DeploymentTypeOK, Ends, Forget
  <2>7. \A m \in Loaders : phase'[m] \in Acting => prepared'[m] \in Pairs
    BY <1>0, <2>3 DEF DeploymentTypeOK, Acting
  <2>. QED
    BY <2>1, <2>4, <2>5, <2>6, <2>7
<1>9. ASSUME NEW s \in Starts, ServerDies(s) \/ AbandonServer(s)  PROVE  Deployed'
  <2>1. /\ serving' = [serving EXCEPT ![s] = None]
        /\ Ends(s) \/ UNCHANGED <<phase, found, prepared>>
        /\ UNCHANGED <<pc, seen, loaded, wasm, manifest>>
        /\ UNCHANGED <<records, rebuilt, crossed>>
    BY <1>9 DEF ServerDies, AbandonServer, vars, files
  <2>2. DeploymentTypeOK'
    BY <1>0, <2>1 DEF DeploymentTypeOK, Ends, Phase, Forget
  <2>. QED
    BY <1>0, <2>1, <2>2, QuietStep DEF DeploymentTypeOK, Ends, Phase, Acting
<1>10. ASSUME NEW t \in Stops, PrepareStop(t)  PROVE  Deployed'
  <2>1. /\ BeginLoad(t) /\ phase' = [phase EXCEPT ![t] = "finding"]
        /\ UNCHANGED <<found, prepared, serving, records, rebuilt, crossed>>
    BY <1>10 DEF PrepareStop, Phase
  <2>2. \A r \in Starts : Placed(r)'
    BY <1>0, <2>1, BeginEffect DEF Placed, DeploymentTypeOK, Preparing
  <2>3. \A p \in Pairs : Filed(p)'
    BY <1>0, <2>1 DEF Filed, DeploymentTypeOK
  <2>4. \A m \in Loaders : pc'[m] = "ok" => loaded'[m] \in Pairs
    BY <1>0, <2>1, BeginEffect
  <2>5. \A m \in Loaders : phase'[m] \in Acting => prepared'[m] \in Pairs
    BY <1>0, <2>1 DEF DeploymentTypeOK, Acting
  <2>. QED
    BY <1>0, <2>1, <2>2, <2>3, <2>4, <2>5 DEF DeploymentTypeOK
<1>11. ASSUME NEW l \in Loaders, Look(l)  PROVE  Deployed'
  <2>1. /\ phase[l] \in {"preparing", "finding"} /\ pc[l] = "ok" /\ loaded[l] \in Pairs
        /\ UNCHANGED <<pc, seen, loaded, wasm, manifest>>
        /\ UNCHANGED <<serving, records, rebuilt, crossed>>
        /\ records[loaded[l]] \in Starts \cup {None}
    BY <1>0, <1>11 DEF Look, vars, files, DeploymentTypeOK
  <2>2. CASE Ends(l)
    <3>1. DeploymentTypeOK'
      BY <1>0, <2>1, <2>2 DEF DeploymentTypeOK, Ends, Phase, Forget
    <3>. QED
      BY <1>0, <2>1, <2>2, <3>1, QuietStep DEF DeploymentTypeOK, Ends, Phase, Acting
  <2>3. CASE ~ Ends(l)
    <3>1. /\ found' = [found EXCEPT ![l] = records[loaded[l]]]
          /\ prepared' = [prepared EXCEPT ![l] = loaded[l]]
          /\ phase' \in {[phase EXCEPT ![l] = "spawning"], [phase EXCEPT ![l] = "probing"]}
      BY <1>11, <2>3 DEF Look, Phase
    <3>2. DeploymentTypeOK'
      BY <2>1, <3>1 DEF DeploymentTypeOK, Acting
    <3>3. \A m \in Loaders : phase'[m] \in Acting => prepared'[m] \in Pairs
      BY <2>1, <3>1 DEF DeploymentTypeOK, Acting
    <3>4. ASSUME NEW r \in Starts  PROVE  Placed(r)'
      <4>1. CASE r = l
        <5>1. phase'[r] \in {"spawning", "probing"} /\ prepared'[r] = loaded[r]
          BY <3>1, <4>1 DEF DeploymentTypeOK
        <5>2. phase[r] = "preparing" => (r \notin rebuilt => manifest = loaded[r] /\ wasm = loaded[r].code)
          BY <2>1, <4>1 DEF Placed
        <5>3. phase[r] = "preparing"
          BY <2>1, <4>1 DEF Placed
        <5>. QED
          BY <2>1, <5>1, <5>2, <5>3 DEF Placed
      <4>2. CASE r # l
        <5>1. phase'[r] = phase[r] /\ prepared'[r] = prepared[r]
          BY <1>0, <3>1, <4>2 DEF DeploymentTypeOK
        <5>. QED
          BY <2>1, <5>1 DEF Placed
      <4>. QED
        BY <4>1, <4>2
    <3>5. \A p \in Pairs : Filed(p)'
      BY <1>0, <2>1, <3>1 DEF Filed, DeploymentTypeOK
    <3>. QED
      BY <2>1, <3>2, <3>3, <3>4, <3>5
  <2>. QED
    BY <2>2, <2>3
<1>12. ASSUME NEW l \in Loaders, FindDead(l) \/ RemoveRecord(l)  PROVE  Deployed'
  <2>1. /\ phase[l] \in {"probing", "removing"} /\ prepared[l] \in Pairs
        /\ UNCHANGED <<pc, seen, loaded, wasm, manifest>>
        /\ UNCHANGED <<serving, rebuilt, crossed>>
        /\ records' \in {records, [records EXCEPT ![prepared[l]] = None]}
        /\ \/ Ends(l)
           \/ /\ phase' \in {[phase EXCEPT ![l] = "removing"], [phase EXCEPT ![l] = "spawning"]}
              /\ prepared' = prepared /\ found' \in {found, [found EXCEPT ![l] = None]}
    BY <1>0, <1>12 DEF FindDead, RemoveRecord, vars, files, Phase, Forget, Acting
  <2>2. DeploymentTypeOK'
    BY <1>0, <2>1 DEF DeploymentTypeOK, Ends, Phase, Forget, Acting
  <2>3. \A m \in Loaders : phase'[m] \in Acting => prepared'[m] \in Pairs
    BY <2>1 DEF DeploymentTypeOK, Acting, Ends, Phase
  <2>4. \A p \in Pairs : records'[p] \in {None, records[p]}
    BY <2>1 DEF DeploymentTypeOK
  <2>5. \A s \in Starts : \/ phase'[s] = "idle"
                          \/ phase'[s] = phase[s] /\ prepared'[s] = prepared[s]
                          \/ /\ phase[s] \in Preparing \ {"preparing", "spawned"}
                             /\ phase'[s] \in Preparing \ {"preparing", "spawned"}
                             /\ prepared'[s] = prepared[s]
    <3>1. CASE Ends(l)
      <4>1. phase' = [phase EXCEPT ![l] = "idle"] /\ prepared' = [prepared EXCEPT ![l] = None]
        BY <3>1 DEF Ends, Phase
      <4>2. ASSUME NEW s \in Starts
            PROVE  phase'[s] = "idle" \/ (phase'[s] = phase[s] /\ prepared'[s] = prepared[s])
        <5>1. DOMAIN phase = Loaders /\ DOMAIN prepared = Loaders /\ s \in Loaders
          BY <1>0 DEF DeploymentTypeOK
        <5>. HIDE DEF Deployed
        <5>2. CASE s = l
          BY <4>1, <5>1, <5>2
        <5>3. CASE s # l
          BY <4>1, <5>1, <5>3
        <5>. QED
          BY <5>2, <5>3
      <4>. QED
        BY <4>2
    <3>2. CASE /\ phase' \in {[phase EXCEPT ![l] = "removing"], [phase EXCEPT ![l] = "spawning"]}
               /\ prepared' = prepared
      BY <1>0, <2>1, <3>2 DEF DeploymentTypeOK, Preparing
    <3>. QED
      BY <2>1, <3>1, <3>2
  <2>. QED
    BY <2>1, <2>2, <2>3, <2>4, <2>5, QuietStep
<1>13. ASSUME NEW t \in Stops, FindToStop(t) \/ Terminate(t)  PROVE  Deployed'
  <2>1. /\ phase[t] \in {"probing", "terminating"}
        /\ UNCHANGED <<pc, seen, loaded, wasm, manifest>>
        /\ UNCHANGED <<records, rebuilt, crossed>>
        /\ serving' \in {serving, [serving EXCEPT ![found[t]] = None]}
        /\ phase' \in {[phase EXCEPT ![t] = "removing"], [phase EXCEPT ![t] = "terminating"]}
        /\ prepared' = prepared /\ found' \in {found, [found EXCEPT ![t] = None]}
    BY <1>13 DEF FindToStop, Terminate, vars, files, Phase, Forget
  <2>2. DeploymentTypeOK'
    BY <1>0, <2>1 DEF DeploymentTypeOK, Acting
  <2>3. \A m \in Loaders : phase'[m] \in Acting => prepared'[m] \in Pairs
    BY <1>0, <2>1 DEF DeploymentTypeOK, Acting
  <2>4. \A s \in Starts : serving'[s] \in {None, serving[s]} /\ phase'[s] = phase[s]
    BY <1>0, <2>1 DEF DeploymentTypeOK
  <2>. QED
    BY <2>1, <2>2, <2>3, <2>4, QuietStep
<1>14. CASE UNCHANGED allVars
  BY <1>14 DEF allVars, vars, files, deployment, Placed, Filed, DeploymentTypeOK
<1>. QED
  BY <1>1, <1>2, <1>3, <1>4, <1>5, <1>6, <1>7, <1>8, <1>9, <1>10, <1>11, <1>12, <1>13, <1>14
  DEF DeploymentNext, StartStep, StopStep, RecordStep

\* Both invariants hold always.
LEMMA DeploymentInvariants == DeploymentSpec => [](Typed /\ Deployed)
<1>1. DeploymentInit => Typed /\ Deployed
  BY TypedInit, DeployedInit DEF DeploymentInit
<1>2. Typed /\ Deployed /\ [DeploymentNext]_allVars => (Typed /\ Deployed)'
  BY TypedStep, DeployedStep, ArtifactsStep
<1>. QED
  BY <1>1, <1>2, PTL DEF DeploymentSpec

\* Types, and no server is ever filed under two Application IDs (record_started).
THEOREM DeploymentTyped == DeploymentSpec => []DeploymentTypeOK
<1>1. Deployed => DeploymentTypeOK
  BY DEF Deployed
<1>. QED
  BY <1>1, DeploymentInvariants, PTL

\* The server that a record names is the application it is filed under, unless a build
\* wrote to target/ between the two loads of its start.
THEOREM RecordedAlwaysServed == DeploymentSpec => []RecordedIsServed
<1>1. Deployed => RecordedIsServed
  BY DEF Deployed, Filed, Alive, RecordedIsServed
<1>. QED
  BY <1>1, DeploymentInvariants, PTL

\* In any case its port begins with the digits of the recorded one: that is what
\* wait_for_started asks of the line that the server prints.
THEOREM EndpointAlwaysServed == DeploymentSpec => []EndpointIsServed
<1>1. Deployed => EndpointIsServed
  BY DEF Deployed, Filed, Alive, EndpointIsServed
<1>. QED
  BY <1>1, DeploymentInvariants, PTL

-----------------------------------------------------------------------------
(* Which records a command may remove or overwrite.                        *)

\* A command that is about to act on the record of a live server has read just that
\* record, unless the server's start wrote it later than the command read it.
Untouched(p) ==
    LET s == records[p] IN
    Alive(s) /\ s \notin crossed =>
        \A l \in Loaders : phase[l] \in Acting /\ prepared[l] = p => found[l] = s

Findable ==
    /\ \A l \in Loaders : found[l] # None => phase[l] \in {"probing", "terminating"}
    /\ \A p \in Pairs : Untouched(p)
    /\ ServersAreFindable

\* Every step keeps it so: a record that is removed or overwritten is that of a dead
\* server or of a crossed one.
LEMMA FindableStep ==
    ASSUME Typed, Deployed, Findable, [DeploymentNext]_allVars
    PROVE  Findable'
<1>0. /\ \A s \in Starts : s \in Loaders
      /\ \A t \in Stops : t \in Loaders /\ t \notin Starts
      /\ None \notin Starts /\ None \notin Loaders
      /\ \A l \in Loaders : pc[l] = "ok" => loaded[l] \in Pairs
      /\ \A l \in Loaders : phase[l] \in Acting => prepared[l] \in Pairs
      /\ DeploymentTypeOK /\ DeploymentTypeOK'
      /\ \A p \in Pairs : records[p] # None => phase[records[p]] = "idle"
  BY DeploymentOK, DeployedStep DEF Deployed, Filed
<1>. USE DEF Findable
\* Steps that move one command on.
<1>1. ASSUME NEW l \in Loaders, UNCHANGED records, UNCHANGED crossed,
             \A s \in Starts : serving'[s] \in {None, serving[s]},
             \A m \in Loaders : m # l => /\ phase'[m] = phase[m] /\ found'[m] = found[m]
                                         /\ prepared'[m] = prepared[m],
             found'[l] # None => phase'[l] \in {"probing", "terminating"},
             phase'[l] \in Acting =>
                 \A s \in Starts :
                      Alive(s)' /\ s \notin crossed /\ prepared'[l] \in Pairs /\ records[prepared'[l]] = s
                      => found'[l] = s,
             l \in Starts /\ phase[l] = "listening" /\ serving[l] # None => serving'[l] = None \/ phase'[l] = "listening"
      PROVE  Findable'
  <2>1. \A s \in Starts : Alive(s)' => Alive(s)
    BY <1>0, <1>1 DEF Alive
  <2>2. ASSUME NEW p \in Pairs  PROVE  Untouched(p)'
    <3>. DEFINE s == records[p]
    <3>. SUFFICES ASSUME Alive(s)', s \notin crossed, NEW m \in Loaders, phase'[m] \in Acting, prepared'[m] = p
                  PROVE  found'[m] = s
      BY <1>1 DEF Untouched
    <3>1. s \in Starts
      BY <1>0, <1>1 DEF DeploymentTypeOK, Alive
    <3>2. CASE m = l
      BY <1>1, <3>1, <3>2
    <3>3. CASE m # l
      BY <1>1, <2>1, <3>1, <3>3 DEF Untouched
    <3>. QED
      BY <3>2, <3>3
  <2>3. ServersAreFindable'
    BY <1>0, <1>1, <2>1 DEF ServersAreFindable, Alive
  <2>. QED
    BY <1>1, <2>2, <2>3
<1>2. ASSUME UNCHANGED <<phase, found, prepared, serving, records, crossed>>  PROVE  Findable'
  BY <1>2 DEF Untouched, ServersAreFindable, Alive
<1>3. ASSUME NEW l \in Loaders, Ends(l), UNCHANGED records, UNCHANGED crossed,
             \/ UNCHANGED serving /\ phase[l] # "listening"
             \/ serving' = [serving EXCEPT ![l] = None]
      PROVE  Findable'
  <2>1. /\ phase'[l] = "idle" /\ found'[l] = None
        /\ \A m \in Loaders : m # l => /\ phase'[m] = phase[m] /\ found'[m] = found[m]
                                       /\ prepared'[m] = prepared[m]
    BY <1>0, <1>3 DEF Ends, Phase, Forget, DeploymentTypeOK
  <2>2. /\ \A s \in Starts : serving'[s] \in {None, serving[s]}
        /\ l \in Starts /\ phase[l] = "listening" => serving'[l] = None
    BY <1>0, <1>3 DEF DeploymentTypeOK
  <2>. QED
    BY <1>1, <1>3, <2>1, <2>2 DEF Acting
<1>4. ASSUME NEW l \in Loaders, LoadFails(l) \/ FindAlive(l) \/ GivesUp(l)  PROVE  Findable'
  BY <1>3, <1>4 DEF LoadFails, FindAlive, GivesUp
<1>5. ASSUME NEW s \in Starts, PrepareStart(s)  PROVE  Findable'
  <2>1. /\ phase[s] = "idle" /\ serving[s] = None /\ \A p \in Pairs : records[p] # s
        /\ phase' = [phase EXCEPT ![s] = "preparing"] /\ crossed' = crossed \ {s}
        /\ UNCHANGED <<found, prepared, serving, records>>
    BY <1>5 DEF PrepareStart, Phase
  <2>2. \A p \in Pairs : Untouched(p)'
    BY <1>0, <2>1 DEF Untouched, Alive, DeploymentTypeOK, Acting
  <2>3. ServersAreFindable'
    BY <1>0, <2>1 DEF ServersAreFindable, Alive, DeploymentTypeOK
  <2>. QED
    BY <1>0, <2>1, <2>2, <2>3 DEF DeploymentTypeOK
<1>6. ASSUME NEW t \in Stops, PrepareStop(t)  PROVE  Findable'
  <2>1. /\ phase[t] = "idle" /\ phase' = [phase EXCEPT ![t] = "finding"]
        /\ UNCHANGED <<found, prepared, serving, records, crossed>>
    BY <1>6 DEF PrepareStop, Phase
  <2>2. \A p \in Pairs : Untouched(p)'
    BY <1>0, <2>1 DEF Untouched, Alive, DeploymentTypeOK, Acting
  <2>3. ServersAreFindable'
    BY <1>0, <2>1 DEF ServersAreFindable, Alive, DeploymentTypeOK
  <2>. QED
    BY <1>0, <2>1, <2>2, <2>3 DEF DeploymentTypeOK
<1>7. ASSUME NEW s \in Starts, Spawn(s)  PROVE  Findable'
  <2>1. /\ phase[s] = "spawning" /\ phase' = [phase EXCEPT ![s] = "spawned"]
        /\ UNCHANGED <<found, prepared, serving, records, crossed>>
    BY <1>7 DEF Spawn, Phase
  <2>2. \A p \in Pairs : Untouched(p)'
    BY <1>0, <2>1 DEF Untouched, Alive, DeploymentTypeOK, Acting
  <2>3. ServersAreFindable'
    BY <1>0, <2>1 DEF ServersAreFindable, Alive, DeploymentTypeOK
  <2>. QED
    BY <1>0, <2>1, <2>2, <2>3 DEF DeploymentTypeOK
<1>8. ASSUME NEW s \in Starts, Listen(s)  PROVE  Findable'
  <2>1. phase[s] = "spawned" /\ UNCHANGED <<records, crossed>>
    BY <1>8 DEF Listen
  <2>2. CASE Ends(s) /\ UNCHANGED serving
    BY <1>0, <1>3, <2>1, <2>2
  <2>3. CASE /\ serving' = [serving EXCEPT ![s] = loaded[s]]
             /\ Phase(s, "listening") /\ UNCHANGED <<found, prepared>>
    <3>1. /\ phase'[s] = "listening" /\ \A l \in Loaders : l # s => phase'[l] = phase[l]
          /\ \A r \in Starts : r # s => serving'[r] = serving[r]
          /\ \A p \in Pairs : records[p] # s
      BY <1>0, <2>1, <2>3 DEF DeploymentTypeOK, Phase
    <3>2. \A p \in Pairs : Untouched(p)'
      BY <1>0, <2>1, <2>3, <3>1 DEF Untouched, Alive, DeploymentTypeOK, Acting
    <3>3. ServersAreFindable'
      BY <1>0, <2>1, <2>3, <3>1 DEF ServersAreFindable, Alive
    <3>. QED
      BY <1>0, <2>1, <2>3, <3>1, <3>2, <3>3
  <2>. QED
    BY <1>8, <2>2, <2>3 DEF Listen
\* The overwritten record: what s has read is none that is alive.
<1>9. ASSUME NEW s \in Starts, RecordStarted(s)  PROVE  Findable'
  <2>. DEFINE p == prepared[s]
  <2>1. /\ phase[s] = "listening" /\ p \in Pairs /\ Ends(s) /\ Recorded(s)
        /\ records' = [records EXCEPT ![p] = s] /\ UNCHANGED serving
    BY <1>0, <1>9 DEF RecordStarted, Acting
  <2>2. found[s] = None
    BY <1>0, <2>1
  <2>3. ~(Alive(records[p]) /\ records[p] \notin crossed)
    BY <1>0, <2>1, <2>2 DEF Untouched, Acting, Alive
  <2>4. /\ phase'[s] = "idle" /\ found'[s] = None
        /\ \A m \in Loaders : m # s => /\ phase'[m] = phase[m] /\ found'[m] = found[m]
                                       /\ prepared'[m] = prepared[m]
        /\ records'[p] = s /\ \A q \in Pairs : q # p => records'[q] = records[q]
    BY <1>0, <2>1 DEF Ends, Phase, Forget, DeploymentTypeOK
  <2>5. /\ crossed \subseteq crossed' /\ crossed' \subseteq crossed \cup {s}
        /\ s \notin crossed' => \A m \in Loaders : m # s /\ phase[m] \in Acting => prepared[m] # p
    BY <2>1 DEF Recorded
  <2>6. ASSUME NEW q \in Pairs  PROVE  Untouched(q)'
    <3>1. CASE q = p
      <4>1. s \notin crossed' => \A m \in Loaders : phase'[m] \in Acting => prepared'[m] # p
        BY <2>4, <2>5 DEF Acting
      <4>. QED
        BY <2>4, <3>1, <4>1 DEF Untouched
    <3>2. CASE q # p
      <4>1. \A m \in Loaders : phase'[m] \in Acting => /\ phase[m] \in Acting /\ found'[m] = found[m]
                                                       /\ prepared'[m] = prepared[m]
        BY <2>4 DEF Acting
      <4>. QED
        BY <2>1, <2>4, <2>5, <3>2, <4>1 DEF Untouched, Alive
    <3>. QED
      BY <3>1, <3>2
  <2>7. ServersAreFindable'
    <3>. SUFFICES ASSUME NEW r \in Starts, Alive(r), r \notin crossed'
                  PROVE  phase'[r] = "listening" \/ \E q \in Pairs : records'[q] = r
      BY <2>1 DEF ServersAreFindable, Alive
    <3>1. CASE r = s
      BY <2>1, <2>4, <3>1
    <3>2. CASE r # s
      <4>1. phase[r] = "listening" \/ \E q \in Pairs : records[q] = r
        BY <2>5 DEF ServersAreFindable
      <4>2. ASSUME NEW q \in Pairs, records[q] = r  PROVE  records'[q] = r
        BY <2>3, <2>4, <2>5, <4>2
      <4>. QED
        BY <1>0, <2>4, <3>2, <4>1, <4>2
    <3>. QED
      BY <3>1, <3>2
  <2>8. ASSUME NEW m \in Loaders, found'[m] # None  PROVE  phase'[m] \in {"probing", "terminating"}
    BY <2>4, <2>8
  <2>. QED
    BY <2>6, <2>7, <2>8
<1>10. ASSUME NEW s \in Starts, AbandonServer(s)  PROVE  Findable'
  BY <1>0, <1>3, <1>10 DEF AbandonServer
<1>11. ASSUME NEW s \in Starts, ServerDies(s)  PROVE  Findable'
  <2>1. /\ serving' = [serving EXCEPT ![s] = None]
        /\ UNCHANGED <<phase, found, prepared, records, crossed>>
    BY <1>11 DEF ServerDies
  <2>2. \A r \in Starts : Alive(r)' => Alive(r)
    BY <1>0, <2>1 DEF Alive, DeploymentTypeOK
  <2>3. \A p \in Pairs : Untouched(p)'
    BY <1>0, <2>1, <2>2 DEF Untouched, Alive, DeploymentTypeOK
  <2>4. ServersAreFindable'
    BY <2>1, <2>2 DEF ServersAreFindable
  <2>. QED
    BY <2>1, <2>3, <2>4
<1>12. ASSUME NEW l \in Loaders, Look(l)  PROVE  Findable'
  <2>1. phase[l] \in {"preparing", "finding"} /\ UNCHANGED <<serving, records, crossed>>
    BY <1>12 DEF Look
  <2>2. CASE Ends(l)
    BY <1>3, <2>1, <2>2
  <2>3. CASE ~ Ends(l)
    <3>1. /\ found' = [found EXCEPT ![l] = records[loaded[l]]]
          /\ prepared' = [prepared EXCEPT ![l] = loaded[l]]
          /\ phase' = [phase EXCEPT ![l] = IF records[loaded[l]] = None THEN "spawning" ELSE "probing"]
      BY <1>12, <2>3 DEF Look, Phase
    <3>2. /\ found'[l] = records[loaded[l]] /\ prepared'[l] = loaded[l]
          /\ phase'[l] = IF records[loaded[l]] = None THEN "spawning" ELSE "probing"
          /\ \A m \in Loaders : m # l => /\ phase'[m] = phase[m] /\ found'[m] = found[m]
                                         /\ prepared'[m] = prepared[m]
      BY <1>0, <3>1 DEF DeploymentTypeOK
    <3>3. found'[l] # None => phase'[l] \in {"probing", "terminating"}
      BY <3>2
    <3>4. phase'[l] \in Acting =>
             \A s \in Starts :
                  Alive(s)' /\ s \notin crossed /\ prepared'[l] \in Pairs /\ records[prepared'[l]] = s
                  => found'[l] = s
      BY <3>2
    <3>5. \A s \in Starts : serving'[s] \in {None, serving[s]}
      BY <2>1
    <3>. QED
      BY <1>1, <2>1, <3>2, <3>3, <3>4, <3>5
  <2>. QED
    BY <2>2, <2>3
<1>13. ASSUME NEW l \in Loaders, FindDead(l)  PROVE  Findable'
  <2>1. /\ phase[l] = "probing" /\ ~ Alive(found[l]) /\ prepared[l] \in Pairs
        /\ phase' = [phase EXCEPT ![l] = "removing"] /\ found' = [found EXCEPT ![l] = None]
        /\ UNCHANGED <<prepared, serving, records, crossed>>
    BY <1>0, <1>13 DEF FindDead, Phase, Forget, Acting
  <2>2. /\ phase'[l] = "removing" /\ found'[l] = None
        /\ \A m \in Loaders : m # l => phase'[m] = phase[m] /\ found'[m] = found[m]
    BY <1>0, <2>1 DEF DeploymentTypeOK
  <2>3. ~(Alive(records[prepared[l]]) /\ records[prepared[l]] \notin crossed)
    BY <2>1 DEF Untouched, Acting
  <2>4. /\ \A s \in Starts : Alive(s)' => Alive(s)
        /\ \A s \in Starts : serving'[s] \in {None, serving[s]}
        /\ \A m \in Loaders : m # l => prepared'[m] = prepared[m]
    BY <2>1 DEF Alive
  <2>5. phase'[l] \in Acting =>
           \A s \in Starts :
                Alive(s)' /\ s \notin crossed /\ prepared'[l] \in Pairs /\ records[prepared'[l]] = s
                => found'[l] = s
    BY <2>1, <2>3, <2>4
  <2>. QED
    BY <1>1, <2>1, <2>2, <2>4, <2>5
\* The removed record: what l has read is none that is alive.
<1>14. ASSUME NEW l \in Loaders, RemoveRecord(l)  PROVE  Findable'
  <2>. DEFINE p == prepared[l]
  <2>1. /\ phase[l] = "removing" /\ p \in Pairs
        /\ records' = [records EXCEPT ![p] = None] /\ UNCHANGED <<serving, crossed>>
        /\ Ends(l) \/ (Phase(l, "spawning") /\ UNCHANGED <<found, prepared>>)
    BY <1>0, <1>14 DEF RemoveRecord, Acting
  <2>2. found[l] = None
    BY <2>1
  <2>3. ~(Alive(records[p]) /\ records[p] \notin crossed)
    BY <1>0, <2>1, <2>2 DEF Untouched, Acting, Alive
  <2>4. /\ found'[l] = None
        /\ \A m \in Loaders : m # l => /\ phase'[m] = phase[m] /\ found'[m] = found[m]
                                       /\ prepared'[m] = prepared[m]
        /\ phase'[l] \in Acting => prepared'[l] = p
        /\ records'[p] = None /\ \A q \in Pairs : q # p => records'[q] = records[q]
    BY <1>0, <2>1, <2>2 DEF Ends, Phase, Forget, DeploymentTypeOK, Acting
  <2>5. ASSUME NEW q \in Pairs  PROVE  Untouched(q)'
    <3>1. CASE q = p
      BY <2>4, <3>1 DEF Untouched, Alive
    <3>2. CASE q # p
      BY <2>1, <2>4, <3>2 DEF Untouched, Alive
    <3>. QED
      BY <3>1, <3>2
  <2>6. ServersAreFindable'
    <3>. SUFFICES ASSUME NEW r \in Starts, Alive(r), r \notin crossed
                  PROVE  phase'[r] = "listening" \/ \E q \in Pairs : records'[q] = r
      BY <2>1 DEF ServersAreFindable, Alive
    <3>1. phase[r] = "listening" \/ \E q \in Pairs : records[q] = r
      BY DEF ServersAreFindable
    <3>2. ASSUME NEW q \in Pairs, records[q] = r  PROVE  records'[q] = r
      BY <2>3, <2>4, <3>2
    <3>3. phase[r] = "listening" => phase'[r] = "listening"
      BY <1>0, <2>1, <2>4
    <3>. QED
      BY <3>1, <3>2, <3>3
  <2>7. ASSUME NEW m \in Loaders, found'[m] # None  PROVE  phase'[m] \in {"probing", "terminating"}
    BY <2>4, <2>7
  <2>. QED
    BY <2>5, <2>6, <2>7
<1>15. ASSUME NEW t \in Stops, FindToStop(t)  PROVE  Findable'
  <2>1. /\ phase[t] = "probing" /\ phase' = [phase EXCEPT ![t] = "terminating"]
        /\ UNCHANGED <<found, prepared, serving, records, crossed>>
    BY <1>15 DEF FindToStop, Phase
  <2>2. /\ phase'[t] = "terminating" /\ t \notin Starts
        /\ \A m \in Loaders : m # t => phase'[m] = phase[m]
    BY <1>0, <2>1 DEF DeploymentTypeOK
  <2>3. \A p \in Pairs : Untouched(p)'
    BY <1>0, <2>1, <2>2 DEF Untouched, Alive, Acting
  <2>4. ServersAreFindable'
    BY <1>0, <2>1, <2>2 DEF ServersAreFindable, Alive
  <2>. QED
    BY <2>1, <2>2, <2>3, <2>4
<1>16. ASSUME NEW t \in Stops, Terminate(t)  PROVE  Findable'
  <2>1. /\ phase[t] = "terminating" /\ prepared[t] \in Pairs
        /\ serving' = [serving EXCEPT ![found[t]] = None]
        /\ phase' = [phase EXCEPT ![t] = "removing"] /\ found' = [found EXCEPT ![t] = None]
        /\ UNCHANGED <<prepared, records, crossed>>
    BY <1>0, <1>16 DEF Terminate, Phase, Forget, Acting
  <2>2. /\ phase'[t] = "removing" /\ found'[t] = None
        /\ \A m \in Loaders : m # t => phase'[m] = phase[m] /\ found'[m] = found[m]
    BY <1>0, <2>1 DEF DeploymentTypeOK
  <2>3. \A s \in Starts : /\ serving'[s] \in {None, serving[s]}
                          /\ Alive(s)' => Alive(s) /\ s # found[t]
    BY <1>0, <2>1 DEF Alive, DeploymentTypeOK
  <2>4. \A s \in Starts : Alive(s)' /\ s \notin crossed => records[prepared[t]] # s
    BY <1>0, <2>1, <2>3 DEF Untouched, Acting
  <2>5. phase'[t] \in Acting =>
           \A s \in Starts :
                Alive(s)' /\ s \notin crossed /\ prepared'[t] \in Pairs /\ records[prepared'[t]] = s
                => found'[t] = s
    BY <2>1, <2>4
  <2>6. /\ \A s \in Starts : serving'[s] \in {None, serving[s]}
        /\ \A m \in Loaders : m # t => prepared'[m] = prepared[m]
    BY <2>1, <2>3
  <2>. QED
    BY <1>0, <1>1, <2>1, <2>2, <2>5, <2>6
<1>17. CASE UNCHANGED allVars
  BY <1>2, <1>17 DEF allVars, deployment
<1>18. ASSUME EditGoesOn \/ (\E b \in Builders : BuildGoesOn(b)) \/ (\E l \in Loaders : LoadGoesOn(l))
       PROVE  Findable'
  BY <1>2, <1>18 DEF EditGoesOn, BuildGoesOn, LoadGoesOn, deployment
<1>. QED
  BY <1>4, <1>5, <1>6, <1>7, <1>8, <1>9, <1>10, <1>11, <1>12, <1>13, <1>14, <1>15, <1>16, <1>17, <1>18
  DEF DeploymentNext, StartStep, StopStep, RecordStep

\* No server is left without a record, whatever is built and whichever commands run at
\* once, but for those whose record was written behind another command's back
\* (read_record, then terminate, remove_record or record_started).
THEOREM ServersAlwaysFindable == DeploymentSpec => []ServersAreFindable
<1>1. DeploymentInit => Findable
  BY DeploymentOK DEF DeploymentInit, Findable, Untouched, ServersAreFindable, Alive
<1>2. Typed /\ Deployed /\ Findable /\ [DeploymentNext]_allVars => Findable'
  BY FindableStep
<1>3. Findable => ServersAreFindable
  BY DEF Findable
<1>. QED
  BY <1>1, <1>2, <1>3, DeploymentInvariants, PTL DEF DeploymentSpec
=============================================================================
