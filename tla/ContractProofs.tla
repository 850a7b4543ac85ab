--------------------------- MODULE ContractProofs ---------------------------
(***************************************************************************)
(* The properties of Contract, for any number of applications, any names   *)
(* and destinations, any declarations of the two kinds and any bounds of   *)
(* the machine integers.                                                   *)
(*                                                                         *)
(* An application's manifest is a function of its declaration, and its     *)
(* HostState of its manifest, the secrets given and the environment; the   *)
(* inductive invariant says that every stage remembers them.  What the     *)
(* properties say then is about those two functions.                       *)
(***************************************************************************)
EXTENDS Contract, WellFoundedInduction, TLAPS

Stages == {"declared", "built", "hosted", "refused"}

\* The state of an application is what the functions make of its declaration.
Derived ==
    /\ stage \in [Apps -> Stages]
    /\ doc \in [Apps -> Docs]
    /\ DOMAIN manifest = Apps /\ DOMAIN env = Apps /\ DOMAIN host = Apps
    /\ given \in [Apps -> SUBSET Names]
    /\ \A a \in Apps : stage[a] # "declared" => manifest[a] = ToManifest(doc[a])
    /\ \A a \in Apps : stage[a] \in {"built", "hosted"} => manifest[a] # Refused
    /\ \A a \in Hosted : /\ host[a] = HostState(manifest[a], given[a], env[a])
                         /\ host[a] # Refused
    /\ \A a \in Apps : stage[a] = "refused" =>
          manifest[a] = Refused \/ HostState(manifest[a], given[a], env[a]) = Refused

\* Nothing has been derived initially.
LEMMA DerivedInit == Init => Derived
BY DEF Init, Derived, Stages, Hosted

\* Build derives the manifest, run the HostState; nothing is ever derived again.
LEMMA DerivedStep == Derived /\ [Next]_vars => Derived'
<1>. SUFFICES ASSUME Derived, [Next]_vars
              PROVE  Derived'
  OBVIOUS
<1>1. ASSUME NEW a \in Apps, Build(a)  PROVE  Derived'
  BY <1>1 DEF Build, Derived, Stages, Hosted
<1>2. ASSUME NEW a \in Apps, Run(a)  PROVE  Derived'
  BY <1>2 DEF Run, Derived, Stages, Hosted
<1>3. CASE UNCHANGED vars
  BY <1>3 DEF vars, Derived, Stages, Hosted
<1>. QED
  BY <1>1, <1>2, <1>3 DEF Next

\* Whatever is built or run, an application's manifest is what build makes of its own
\* declaration, and its HostState what host_state makes of that manifest, the secrets
\* given and the environment: nothing of another application enters.
THEOREM AlwaysDerived == Spec => []Derived
BY DerivedInit, DerivedStep, PTL DEF Spec

-----------------------------------------------------------------------------
(* Manifests.                                                              *)

\* What the author of declaration d reads in it is what manifest m says.
Has(d, c) == c \in Capabilities(d)
SaysRights(d, m) ==
    /\ m.network = Has(d, "network")
    /\ m.filesystem = Has(d, "filesystem")
    /\ m.storage = IF Has(d, "filesystem") THEN d.body.storage ELSE None
    /\ Has(d, "network") /\ AllStrings(d.body.outbound) =>
          ListOf(d.body.outbound) = IF m.outbound = None THEN {} ELSE Elements(m.outbound)
    /\ m.outbound \in {None} \cup Seq(Dests)
SaysNames(d, m) ==
    /\ m.secrets \in Seq(Names) /\ m.config \in Seq(Names)
    /\ Elements(m.secrets) = IF Has(d, "secrets") THEN ListOf(d.body.secrets) ELSE {}
    /\ Elements(m.config) = IF Has(d, "config") THEN ListOf(d.body.config) ELSE {}
SaysResources(d, m) ==
    IF Has(d, "resources")
      THEN /\ m.resources \in NumbersOf(0..MaxU32)
           /\ m.resources.memory = d.body.resources.memory
           /\ m.resources.timeout = d.body.resources.timeout
      ELSE m.resources = None
Says(d, m) == SaysRights(d, m) /\ SaysNames(d, m) /\ SaysResources(d, m)

\* Lists without elements of another type are lists of names.
LEMMA PlainList ==
    ASSUME NEW S, NotString \notin S, NEW list \in Seq(S \cup {NotString}),
           NotString \notin Elements(list)
    PROVE  list \in Seq(S)
BY DEF Elements

\* A nonempty set of natural numbers has a least element.
LEMMA LeastNumber ==
    ASSUME NEW M, M \subseteq Nat, M # {}
    PROVE  \E i \in M : \A j \in M : i <= j
<1>1. PICK i \in M : \A j \in M : ~(<<j, i>> \in OpToRel(<, Nat))
  BY NatLessThanWellFounded, WFMin
<1>2. ASSUME NEW j \in M, j < i  PROVE  FALSE
  <2>1. <<j, i>> \in OpToRel(<, Nat)
    BY <1>2 DEF OpToRel
  <2>. QED
    BY <1>1, <2>1
<1>. QED
  BY <1>2

\* The capability that matches first is one of the document's.
LEMMA FoundIsDeclared ==
    ASSUME NEW d, NEW op, IsAppPort(d), Matching(d, op) # {}
    PROVE  \E i \in 1..Len(d.capabilities) : FindCapability(d, op) = d.capabilities[i]
<1>. DEFINE M == Matching(d, op)
<1>1. Len(d.capabilities) \in Nat
  BY DEF IsAppPort
<1>2. M \subseteq 1..Len(d.capabilities)
  BY DEF Matching
<1>3. M \subseteq Nat
  BY <1>1, <1>2
<1>4. \E i \in M : \A j \in M : i <= j
  BY <1>3, LeastNumber
<1>. QED
  BY <1>2, <1>4 DEF FindCapability

\* A list of names is not one of the marks for something else.
LEMMA ListsAreLists ==
    ASSUME NEW S, S \subseteq Names \cup Dests \cup {NotString}, NEW list \in Seq(S)
    PROVE  list \notin {None, NoList, Refused} /\ Elements(list) \subseteq S
<1>1. list \in Seq(Names \cup Dests \cup {NotString})
  OBVIOUS
<1>2. Elements(list) \subseteq S
  BY DEF Elements
<1>. QED
  BY <1>1, <1>2, SentinelsOK

\* An app.toml that validates is copied into its manifest.
LEMMA SpecSays ==
    ASSUME NEW d \in Docs, d.kind = "app.toml", ToManifest(d) # Refused
    PROVE  /\ IsAppSpec(d.body) /\ Validates(d.body) /\ ToManifest(d) = FromSpec(d.body)
           /\ Says(d, ToManifest(d))
<1>. DEFINE s == d.body  m == ToManifest(d)
<1>1. IsAppSpec(s) /\ Validates(s) /\ m = FromSpec(s)
  BY ContractOK DEF ToManifest
<1>2. /\ Has(d, "network") = s.network /\ Has(d, "filesystem") = s.filesystem
      /\ Has(d, "secrets") /\ Has(d, "config") /\ Has(d, "resources") = (s.resources # None)
  BY <1>1 DEF Has, Capabilities, IsAppSpec
<1>3. SaysRights(d, m)
  <2>1. m.network = s.network /\ m.filesystem = s.filesystem /\ m.storage = s.storage /\ m.outbound = s.outbound
    BY <1>1 DEF FromSpec
  <2>2. s.filesystem <=> s.storage # None
    BY <1>1 DEF Validates
  <2>3. s.network \in BOOLEAN /\ s.filesystem \in BOOLEAN /\ s.outbound \in {None} \cup Seq(Dests)
    BY <1>1 DEF IsAppSpec
  <2>4. ListOf(s.outbound) = IF s.outbound = None THEN {} ELSE Elements(s.outbound)
    <3>1. CASE s.outbound = None
      BY <3>1 DEF ListOf
    <3>2. CASE s.outbound \in Seq(Dests)
      BY <3>2, ListsAreLists DEF ListOf
    <3>. QED
      BY <2>3, <3>1, <3>2
  <2>. QED
    BY <1>2, <2>1, <2>2, <2>3, <2>4 DEF SaysRights
<1>4. SaysNames(d, m)
  <2>1. m.secrets = s.secrets /\ m.config = s.config
    BY <1>1 DEF FromSpec
  <2>2. s.secrets \in Seq(Names) /\ s.config \in Seq(Names)
    BY <1>1 DEF IsAppSpec
  <2>. QED
    BY <1>2, <2>1, <2>2, ListsAreLists DEF SaysNames, ListOf
<1>5. SaysResources(d, m)
  <2>1. m.resources = s.resources /\ s.resources \in {None} \cup NumbersOf(0..MaxU32)
    BY <1>1 DEF FromSpec, IsAppSpec
  <2>. QED
    BY <1>2, <2>1 DEF SaysResources
<1>. QED
  BY <1>1, <1>3, <1>4, <1>5 DEF Says

\* string_array: a list in the document, or none.
LEMMA StringArraySays ==
    ASSUME NEW S, S \subseteq Names \cup Dests, NEW section \in {None, NoList} \cup Seq(S \cup {NotString})
    PROVE  IF StringArray(section) = Refused THEN NotString \in ListOf(section)
           ELSE /\ StringArray(section) \in Seq(S)
                /\ Elements(StringArray(section)) = ListOf(section)
                /\ NotString \notin ListOf(section)
<1>1. CASE section \in {None, NoList}
  <2>1. StringArray(section) = <<>> /\ ListOf(section) = {}
    BY <1>1 DEF StringArray, ListOf
  <2>2. <<>> \in Seq(S) /\ Elements(<<>>) = {}
    BY DEF Elements
  <2>. QED
    BY <2>1, <2>2, ListsAreLists
<1>2. CASE section \notin {None, NoList} /\ NotString \in Elements(section)
  BY <1>2 DEF StringArray, ListOf
<1>3. CASE section \notin {None, NoList} /\ NotString \notin Elements(section)
  <2>1. section \in Seq(S)
    BY <1>3, PlainList, SentinelsOK
  <2>. QED
    BY <1>3, <2>1, ListsAreLists DEF StringArray, ListOf
<1>. QED
  BY <1>1, <1>2, <1>3

\* An AppPort document is mapped to a manifest by what its first matching
\* capability is authorized to do.
LEMMA PortSays ==
    ASSUME NEW d \in Docs, d.kind # "app.toml", ToManifest(d) # Refused
    PROVE  Says(d, ToManifest(d))
<1>. DEFINE b == d.body  m == ToManifest(d)  op == LifecycleOperation(b)
            tokens == FindCapability(b, op).authorization
            Grants(c) == DeclaresAuthorization(tokens, c)
            requests == IF b.resources = None \/ b.resources.requests = None
                          THEN 1 ELSE b.resources.requests
<1>1. IsAppPort(b) /\ m = FromAppPort(b, op)
  BY ContractOK DEF ToManifest
<1>2. /\ Matching(b, op) # {}
      /\ Grants("filesystem") \/ Grants("storage") => b.storage # None
      /\ Grants("resources") => b.resources # None /\ ~(requests > MaxU32)
      /\ Grants("secrets") => StringArray(b.secrets) # Refused
      /\ Grants("config") => StringArray(b.config) # Refused
  BY <1>1 DEF FromAppPort
<1>3. /\ m.network = Grants("network")
      /\ m.filesystem = (Grants("filesystem") \/ Grants("storage"))
      /\ m.storage = IF Grants("filesystem") \/ Grants("storage") THEN b.storage ELSE None
      /\ m.secrets = IF Grants("secrets") THEN StringArray(b.secrets) ELSE <<>>
      /\ m.config = IF Grants("config") THEN StringArray(b.config) ELSE <<>>
      /\ m.outbound = IF ~Grants("network") THEN None
                      ELSE IF StringArray(b.outbound) = Refused THEN <<>> ELSE StringArray(b.outbound)
      /\ m.resources = IF Grants("resources") THEN [b.resources EXCEPT !.requests = requests] ELSE None
  BY <1>1 DEF FromAppPort
<1>4. \A t \in tokens : t.prefix \in {"", "x.", "x:", "x/", "x"}
  BY <1>1, <1>2, FoundIsDeclared DEF IsAppPort
<1>5. /\ Has(d, "network") = Grants("network") /\ Has(d, "secrets") = Grants("secrets")
      /\ Has(d, "config") = Grants("config") /\ Has(d, "resources") = Grants("resources")
      /\ Has(d, "filesystem") = (Grants("filesystem") \/ Grants("storage"))
  <2>1. \A t \in tokens : t.prefix # "x" <=> t.prefix \in {"", "x.", "x:", "x/"}
    BY <1>4
  <2>2. ASSUME NEW c \in {"network", "filesystem", "secrets", "config", "resources"}
        PROVE  Has(d, c) <=> Grants(c) \/ (c = "filesystem" /\ Grants("storage"))
    BY <2>1 DEF Has, Capabilities, DeclaresAuthorization
  <2>. HIDE DEF Grants
  <2>3. \A c : Has(d, c) \in BOOLEAN
    BY DEF Has
  <2>4. \A c : Grants(c) \in BOOLEAN
    BY DEF Grants, DeclaresAuthorization
  <2>. QED
    BY <2>2, <2>3, <2>4
<1>6. SaysRights(d, m)
  <2>1. CASE ~Grants("network")
    BY <1>3, <1>5, <2>1 DEF SaysRights
  <2>2. CASE Grants("network") /\ StringArray(b.outbound) = Refused
    <3>1. NotString \in ListOf(b.outbound)
      BY <1>1, <2>2, StringArraySays DEF IsAppPort
    <3>2. m.outbound = <<>> /\ Elements(<<>>) = {} /\ <<>> \in Seq(Dests)
      BY <1>3, <2>2 DEF Elements
    <3>. QED
      BY <1>3, <1>5, <3>1, <3>2 DEF SaysRights, AllStrings
  <2>3. CASE Grants("network") /\ StringArray(b.outbound) # Refused
    <3>1. /\ StringArray(b.outbound) \in Seq(Dests) /\ NotString \notin ListOf(b.outbound)
          /\ Elements(StringArray(b.outbound)) = ListOf(b.outbound)
      BY <1>1, <2>3, StringArraySays DEF IsAppPort
    <3>2. StringArray(b.outbound) # None
      BY <3>1, ListsAreLists
    <3>. QED
      BY <1>3, <1>5, <2>3, <3>1, <3>2 DEF SaysRights
  <2>. QED
    BY <2>1, <2>2, <2>3
<1>7. SaysNames(d, m)
  <2>1. b.secrets \in {None, NoList} \cup Seq(Names \cup {NotString})
        /\ b.config \in {None, NoList} \cup Seq(Names \cup {NotString})
    BY <1>1 DEF IsAppPort
  <2>2. <<>> \in Seq(Names) /\ Elements(<<>>) = {}
    BY DEF Elements
  <2>. QED
    BY <1>2, <1>3, <1>5, <2>1, <2>2, StringArraySays DEF SaysNames
<1>8. SaysResources(d, m)
  <2>1. CASE ~Grants("resources")
    BY <1>3, <1>5, <2>1 DEF SaysResources
  <2>2. CASE Grants("resources")
    <3>1. b.resources \in NumbersOf(Nat \cup {None}) /\ requests \in Nat
      BY <1>1, <1>2, <2>2 DEF IsAppPort, NumbersOf
    <3>2. requests \in 0..MaxU32
      BY <1>2, <2>2, <3>1, ContractOK
    <3>. QED
      BY <1>3, <1>5, <2>2, <3>1, <3>2 DEF SaysResources, NumbersOf
  <2>. QED
    BY <2>1, <2>2
<1>. QED
  BY <1>6, <1>7, <1>8 DEF Says

\* A manifest says what the declaration says, whichever of the two kinds it is of.
LEMMA ManifestSays ==
    ASSUME NEW d \in Docs, ToManifest(d) # Refused
    PROVE  Says(d, ToManifest(d))
BY SpecSays, PortSays

-----------------------------------------------------------------------------
(* HostStates.                                                             *)

\* What host_state has made sure of when it answers.
LEMMA HostSays ==
    ASSUME NEW m, NEW secrets, NEW variables, HostState(m, secrets, variables) # Refused
    PROVE  LET h == HostState(m, secrets, variables) IN
           /\ h.network = m.network /\ h.storage = m.storage
           /\ h.destinations = IF m.outbound = None THEN {} ELSE Elements(m.outbound)
           /\ h.secrets = Elements(m.secrets) /\ h.secretValues = Elements(m.secrets)
           /\ h.config = Elements(m.config) /\ h.configValues = Elements(m.config) \cap variables
           /\ h.limits = RuntimeLimits(m.resources) /\ h.limits # Refused
BY DEF HostState, SecretsComplete

\* checked_mul twice: the product, unless it is refused on the way.
LEMMA LimitsSay ==
    ASSUME NEW r \in NumbersOf(0..MaxU32), RuntimeLimits(r) # Refused
    PROVE  /\ RuntimeLimits(r).memory = r.memory * Kilo * Kilo
           /\ RuntimeLimits(r).fuel = r.timeout * Milli
           /\ RuntimeLimits(r).requests = r.requests /\ r.requests \in 1..MaxU32
<1>. DEFINE memory == Times(Times(r.memory, Kilo), Kilo)  fuel == Times(r.timeout, Milli)
<1>1. r # None
  <2>1. r \in NumbersOf(Nat \cup {None})
    BY ContractOK DEF NumbersOf
  <2>. QED
    BY <2>1, SentinelsOK
<1>2. /\ Positive(r) /\ memory # Refused /\ fuel # Refused
      /\ RuntimeLimits(r) = [memory |-> memory, fuel |-> fuel, requests |-> r.requests]
  BY <1>1 DEF RuntimeLimits
<1>3. r.requests \in 1..MaxU32
  BY <1>2, ContractOK DEF Positive, NumbersOf
<1>4. memory = r.memory * Kilo * Kilo
  <2>1. Times(r.memory, Kilo) # Refused /\ memory = Times(r.memory, Kilo) * Kilo
    BY <1>2 DEF Times
  <2>2. Times(r.memory, Kilo) = r.memory * Kilo
    BY <2>1 DEF Times
  <2>. QED
    BY <2>1, <2>2
<1>5. fuel = r.timeout * Milli
  BY <1>2 DEF Times
<1>. QED
  BY <1>2, <1>3, <1>4, <1>5

-----------------------------------------------------------------------------
(* The properties.                                                         *)

\* A manifest that is there says what its application declares, and a HostState
\* that is there is made of it.
LEMMA HostedSays ==
    ASSUME Derived, NEW a \in Hosted
    PROVE  /\ a \in Apps /\ doc[a] \in Docs
           /\ manifest[a] = ToManifest(doc[a]) /\ manifest[a] # Refused
           /\ Says(doc[a], manifest[a])
           /\ host[a] = HostState(manifest[a], given[a], env[a]) /\ host[a] # Refused
<1>1. /\ a \in Apps /\ doc[a] \in Docs /\ manifest[a] = ToManifest(doc[a]) /\ manifest[a] # Refused
      /\ host[a] = HostState(manifest[a], given[a], env[a]) /\ host[a] # Refused
  BY DEF Derived, Hosted
<1>. QED
  BY <1>1, ManifestSays

\* What is built names variables that exist, and what is hosted may answer at
\* least one request: a limit of none is refused by one of the two crates that
\* read it.
THEOREM TypeCorrect == Spec => []TypeOK
<1>1. Derived => TypeOK
  <2>. SUFFICES ASSUME Derived
                PROVE  TypeOK
    OBVIOUS
  <2>1. ASSUME NEW a \in Apps, stage[a] \in {"built", "hosted"}
        PROVE  manifest[a].filesystem \in BOOLEAN /\ Elements(manifest[a].secrets) \subseteq Names
    <3>1. doc[a] \in Docs /\ manifest[a] = ToManifest(doc[a]) /\ manifest[a] # Refused
      BY <2>1 DEF Derived
    <3>2. Says(doc[a], manifest[a])
      BY <3>1, ManifestSays
    <3>. QED
      BY <3>2, ListsAreLists DEF Says, SaysRights, SaysNames, Has
  <2>2. ASSUME NEW a \in Hosted  PROVE  host[a].limits.requests \in 1..MaxU32
    <3>. DEFINE r == manifest[a].resources
    <3>1. SaysResources(doc[a], manifest[a]) /\ host[a].limits = RuntimeLimits(r) /\ host[a].limits # Refused
      BY HostedSays, HostSays DEF Says
    <3>2. CASE r = None
      BY <3>1, <3>2, ContractOK DEF RuntimeLimits, Unlimited
    <3>3. CASE r # None
      BY <3>1, <3>3, LimitsSay DEF SaysResources
    <3>. QED
      BY <3>2, <3>3
  <2>. QED
    BY <2>1, <2>2 DEF TypeOK, Derived, Stages
<1>. QED
  BY <1>1, AlwaysDerived, PTL

\* The guest of a hosted application can do what its declaration says and nothing
\* else, whichever kind of declaration it is and whichever way it came to be
\* hosted: destinations, secrets, variables, storage.
THEOREM DeclarationEnforced == Spec => []EnforcesDeclaration
<1>1. Derived => EnforcesDeclaration
  <2>. SUFFICES ASSUME Derived, NEW a \in Hosted
                PROVE  LET h == host[a]
                           body == doc[a].body
                           Grants(c) == c \in Capabilities(doc[a])
                           listed == ListOf(body.outbound)
                       IN  /\ AllStrings(body.outbound) =>
                                /\ \A d \in Dests :
                                     ConnectTo(h, d) <=> Grants("network") /\ (listed = {} \/ d \in listed)
                                /\ Connect(h) <=> Grants("network") /\ listed = {}
                           /\ ~Grants("network") => \A d \in Dests : ~Connect(h) /\ ~ConnectTo(h, d)
                           /\ \A n \in Names :
                                /\ GetSecret(h, n) = IF Grants("secrets") /\ n \in ListOf(body.secrets)
                                                       THEN n ELSE "denied"
                                /\ GetConfig(h, n) = IF ~(Grants("config") /\ n \in ListOf(body.config))
                                                       THEN "denied"
                                                       ELSE IF n \in env[a] THEN n ELSE "-1"
                           /\ h.storage = IF Grants("filesystem") THEN body.storage ELSE None
    BY DEF EnforcesDeclaration
  <2>. DEFINE h == host[a]  m == manifest[a]  d == doc[a]
  <2>1. /\ h.network = m.network /\ h.storage = m.storage
        /\ h.destinations = IF m.outbound = None THEN {} ELSE Elements(m.outbound)
        /\ h.secrets = Elements(m.secrets) /\ h.secretValues = Elements(m.secrets)
        /\ h.config = Elements(m.config) /\ h.configValues = Elements(m.config) \cap env[a]
    BY HostedSays, HostSays
  <2>2. SaysRights(d, m) /\ SaysNames(d, m)
    BY HostedSays DEF Says
  <2>3. h.network = Has(d, "network")
        /\ (Has(d, "network") /\ AllStrings(d.body.outbound) => h.destinations = ListOf(d.body.outbound))
    BY <2>1, <2>2 DEF SaysRights
  <2>4. /\ AllStrings(d.body.outbound) =>
             /\ \A x \in Dests :
                  ConnectTo(h, x) <=> Has(d, "network") /\ (ListOf(d.body.outbound) = {} \/ x \in ListOf(d.body.outbound))
             /\ Connect(h) <=> Has(d, "network") /\ ListOf(d.body.outbound) = {}
        /\ ~Has(d, "network") => \A x \in Dests : ~Connect(h) /\ ~ConnectTo(h, x)
    BY <2>3 DEF ConnectTo, Connect
  <2>5. ASSUME NEW n \in Names
        PROVE  /\ GetSecret(h, n) = IF Has(d, "secrets") /\ n \in ListOf(d.body.secrets)
                                      THEN n ELSE "denied"
               /\ GetConfig(h, n) = IF ~(Has(d, "config") /\ n \in ListOf(d.body.config))
                                      THEN "denied" ELSE IF n \in env[a] THEN n ELSE "-1"
    BY <2>1, <2>2 DEF SaysNames, GetSecret, GetConfig
  <2>6. h.storage = IF Has(d, "filesystem") THEN d.body.storage ELSE None
    BY <2>1, <2>2 DEF SaysRights
  <2>. QED
    BY <2>4, <2>5, <2>6 DEF Has
<1>. QED
  BY <1>1, AlwaysDerived, PTL

\* A limit in force is the declared one: no product of any declared numbers wraps
\* around.
THEOREM LimitsAlwaysExact == Spec => []LimitsAreExact
<1>1. Derived => LimitsAreExact
  <2>. SUFFICES ASSUME Derived, NEW a \in Hosted
                PROVE  LET r == doc[a].body.resources
                           limits == host[a].limits
                       IN  IF Has(doc[a], "resources")
                             THEN limits.memory = r.memory * Kilo * Kilo /\ limits.fuel = r.timeout * Milli
                             ELSE limits = Unlimited
    BY DEF LimitsAreExact, Has
  <2>1. /\ SaysResources(doc[a], manifest[a])
        /\ host[a].limits = RuntimeLimits(manifest[a].resources) /\ host[a].limits # Refused
    BY HostedSays, HostSays DEF Says
  <2>2. CASE Has(doc[a], "resources")
    BY <2>1, <2>2, LimitsSay DEF SaysResources
  <2>3. CASE ~Has(doc[a], "resources")
    BY <2>1, <2>3 DEF SaysResources, RuntimeLimits
  <2>. QED
    BY <2>2, <2>3
<1>. QED
  BY <1>1, AlwaysDerived, PTL

\* Two applications with one Application ID have the same rights: an absent list
\* and an empty one are the only two that the identity does not tell apart.
THEOREM SameIDAlwaysSameRights == Spec => []SameIDSameRights
<1>1. Derived => SameIDSameRights
  <2>. SUFFICES ASSUME Derived, NEW a \in Hosted, NEW b \in Hosted,
                       CanonicalManifest(manifest[a]) = CanonicalManifest(manifest[b])
                PROVE  /\ \A d \in Dests : ConnectTo(host[a], d) <=> ConnectTo(host[b], d)
                       /\ host[a].secrets = host[b].secrets /\ host[a].config = host[b].config
                       /\ host[a].storage = host[b].storage /\ host[a].limits = host[b].limits
    BY DEF SameIDSameRights
  <2>. DEFINE m == manifest[a]  n == manifest[b]
  <2>1. /\ m.network = n.network /\ m.storage = n.storage /\ m.outbound = n.outbound
        /\ m.resources = n.resources
        /\ (IF m.secrets = <<>> THEN None ELSE m.secrets) = IF n.secrets = <<>> THEN None ELSE n.secrets
        /\ (IF m.config = <<>> THEN None ELSE m.config) = IF n.config = <<>> THEN None ELSE n.config
    BY DEF CanonicalManifest
  <2>2. {m.secrets, n.secrets, m.config, n.config} \subseteq Seq(Names)
    BY HostedSays DEF Says, SaysNames
  <2>3. m.secrets = n.secrets /\ m.config = n.config
    BY <2>1, <2>2, ListsAreLists
  <2>4. ASSUME NEW x \in Hosted
        PROVE  /\ host[x].network = manifest[x].network /\ host[x].storage = manifest[x].storage
               /\ host[x].destinations = IF manifest[x].outbound = None THEN {} ELSE Elements(manifest[x].outbound)
               /\ host[x].secrets = Elements(manifest[x].secrets)
               /\ host[x].config = Elements(manifest[x].config)
               /\ host[x].limits = RuntimeLimits(manifest[x].resources)
    BY HostedSays, HostSays
  <2>. QED
    BY <2>1, <2>3, <2>4 DEF ConnectTo
<1>. QED
  BY <1>1, AlwaysDerived, PTL

\* checked_mul twice refuses only products that are out of range.
LEMMA RefusedIsOutOfRange ==
    ASSUME NEW r \in NumbersOf(0..MaxU32), Positive(r), RuntimeLimits(r) = Refused
    PROVE  r.memory * Kilo * Kilo > MaxU64 \/ r.timeout * Milli > MaxU64
<1>. DEFINE memory == Times(Times(r.memory, Kilo), Kilo)  fuel == Times(r.timeout, Milli)
            product == r.memory * Kilo
<1>1. /\ r.memory \in Nat /\ r.timeout \in Nat /\ r.requests \in Nat
      /\ MaxU64 \in Nat /\ Kilo \in Nat \ {0} /\ Milli \in Nat
  BY ContractOK DEF NumbersOf
<1>2. \A x \in Nat, y \in Nat : x * y \in Nat /\ x * y # Refused
  BY SentinelsOK
<1>3. memory = Refused \/ fuel = Refused
  <2>1. SUFFICES ASSUME memory \in Nat, fuel \in Nat  PROVE  FALSE
    BY <1>1, <1>2 DEF Times
  <2>2. [memory |-> memory, fuel |-> fuel, requests |-> r.requests] \in Limits
    BY <1>1, <2>1 DEF Limits
  <2>3. Unlimited \in Limits
    BY DEF Unlimited, Limits
  <2>. QED
    BY <2>1, <2>2, <2>3, SentinelsOK DEF RuntimeLimits
<1>4. CASE fuel = Refused
  BY <1>1, <1>2, <1>4, SentinelsOK DEF Times
<1>5. CASE memory = Refused
  <2>1. product > MaxU64 \/ product * Kilo > MaxU64
    BY <1>1, <1>2, <1>5, SentinelsOK DEF Times
  <2>2. product \in Nat
    BY <1>1, <1>2
  <2>. HIDE DEF product
  <2>3. product * Kilo >= product
    BY <1>1, <2>2
  <2>4. product * Kilo \in Nat
    BY <1>1, <2>2
  <2>5. product * Kilo > MaxU64
    BY <1>1, <2>1, <2>2, <2>3, <2>4
  <2>. QED
    BY <2>5 DEF product
<1>. QED
  BY <1>3, <1>4, <1>5

\* An application that `app build` accepted is refused by `app run` only for what
\* build does not look at: no endpoint, limits out of range, the wrong secrets.
THEOREM BuiltAlwaysHosted == Spec => []BuiltIsHosted
<1>1. Derived => BuiltIsHosted
  <2>. SUFFICES ASSUME Derived, NEW a \in Apps,
                       doc[a].kind = "app.toml", stage[a] = "refused", manifest[a] # Refused,
                       doc[a].body.http # None,
                       given[a] = Elements(doc[a].body.secrets), given[a] \subseteq env[a]
                PROVE  LET s == doc[a].body IN
                       s.resources # None /\ (\/ s.resources.memory * Kilo * Kilo > MaxU64
                                             \/ s.resources.timeout * Milli > MaxU64)
    BY DEF BuiltIsHosted
  <2>. DEFINE s == doc[a].body  m == manifest[a]  h == HostState(m, given[a], env[a])
              limits == RuntimeLimits(s.resources)
  <2>1. doc[a] \in Docs /\ m = ToManifest(doc[a]) /\ h = Refused
    BY DEF Derived
  <2>2. IsAppSpec(s) /\ Validates(s) /\ m = FromSpec(s) /\ Says(doc[a], m)
    BY <2>1, SpecSays
  <2>3. /\ m.http # None /\ m.filesystem = (m.storage # None) /\ m.resources = s.resources
        /\ SecretsComplete(m, given[a])
    BY <2>2 DEF FromSpec, Validates, SecretsComplete, IsAppSpec
  <2>4. limits = Refused
    <3>1. SUFFICES ASSUME limits # Refused  PROVE  FALSE
      OBVIOUS
    <3>. DEFINE destinations == IF m.outbound = None THEN {} ELSE Elements(m.outbound)
                record == [network      |-> m.network,
                           destinations |-> destinations,
                           storage      |-> m.storage,
                           secrets      |-> Elements(m.secrets), secretValues |-> given[a],
                           config       |-> Elements(m.config),
                           configValues |-> Elements(m.config) \cap env[a],
                           limits       |-> limits]
    <3>2. h = record
      BY <2>3, <3>1 DEF HostState
    <3>3. destinations \subseteq Dests
      BY <2>2, ListsAreLists DEF Says, SaysRights
    <3>4. Elements(m.secrets) \subseteq Names /\ Elements(m.config) \subseteq Names
      BY <2>2, ListsAreLists DEF Says, SaysNames
    <3>5. m.network \in BOOLEAN /\ m.storage \in {None} \cup {d.body.storage : d \in Docs}
      BY <2>1, <2>2 DEF Says, SaysRights, Has
    <3>6. given[a] \subseteq Names
      BY DEF Derived
    <3>7. limits \in Limits
      <4>1. CASE s.resources = None
        BY <4>1 DEF RuntimeLimits, Unlimited, Limits
      <4>2. CASE s.resources # None
        <5>1. s.resources \in NumbersOf(0..MaxU32)
          BY <2>2, <4>2 DEF IsAppSpec
        <5>2. /\ limits.memory \in Nat /\ limits.fuel \in Nat /\ limits.requests \in Nat
          BY <3>1, <5>1, LimitsSay, ContractOK DEF NumbersOf
        <5>3. limits = [memory |-> limits.memory, fuel |-> limits.fuel, requests |-> limits.requests]
          BY <3>1, <4>2 DEF RuntimeLimits
        <5>. QED
          BY <5>2, <5>3 DEF Limits
      <4>. QED
        BY <4>1, <4>2
    <3>. HIDE DEF destinations, limits
    <3>8. record \in HostStates
      BY <3>3, <3>4, <3>5, <3>6, <3>7 DEF HostStates
    <3>. QED
      BY <2>1, <3>2, <3>8, SentinelsOK
  <2>5. CASE s.resources = None
    <3>1. limits = Unlimited /\ Unlimited \in Limits
      BY <2>5 DEF RuntimeLimits, Unlimited, Limits
    <3>. QED
      BY <2>4, <3>1, SentinelsOK
  <2>6. CASE s.resources # None
    <3>1. s.resources \in NumbersOf(0..MaxU32) /\ Positive(s.resources)
      BY <2>2, <2>6 DEF IsAppSpec, Validates
    <3>. QED
      BY <2>4, <2>6, <3>1, RefusedIsOutOfRange
  <2>. QED
    BY <2>5, <2>6
<1>. QED
  BY <1>1, AlwaysDerived, PTL
=============================================================================
