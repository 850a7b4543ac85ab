------------------------------ MODULE Contract ------------------------------
(***************************************************************************)
(* From what an application declares to what its guest may do.  The        *)
(* declaration is an app.toml (validated, then copied into a manifest) or  *)
(* an AppPort document (mapped to a manifest at every load); host_state    *)
(* turns the manifest, the secrets given on the command line and the       *)
(* environment into the HostState whose capabilities answer the guest.     *)
(* The rules live in four crates and are applied at different times: what  *)
(* one accepts the next must be able to host.                              *)
(*                                                                         *)
(* Abstractions: a name, destination or mount is a member of a small set,  *)
(* with the subset the syntax rules accept; the value of a variable is its *)
(* name; the header of app.toml (name, runtime.kind, build.target,         *)
(* build.language) is acceptable or not; machine integers are bounded by   *)
(* MaxU64, with Kilo for 1024 and Milli for 1000.                          *)
(***************************************************************************)
EXTENDS Naturals, Sequences, FiniteSets

CONSTANTS
    Apps,           \* applications on one host
    Docs,           \* declarations: [kind |-> "app.toml" or "appport", body |-> ...]
    Names, ValidNames,      \* of secrets and config variables
    Dests, ValidDests,      \* network destinations
    AbsoluteMounts,         \* mounts that start with '/'
    MaxU64, MaxU32, MaxU16, Kilo, Milli,
    None,           \* a section or field that is not there
    NotString,      \* a JSON value of another type
    NoList,         \* a section without the list it should have
    Refused         \* an Err

\* A declaration as the parsers of TOML and JSON hand it over: the numbers of
\* [resources] are unsigned, `requests` a u32 in app.toml; the elements of a JSON
\* list may be of another type; a token is its last name and what precedes it.
NumbersOf(requests) == [memory : Nat, timeout : Nat, requests : requests]
IsAppSpec(s) ==
    /\ s.network \in BOOLEAN /\ s.filesystem \in BOOLEAN
    /\ s.secrets \in Seq(Names) /\ s.config \in Seq(Names)
    /\ s.outbound \in {None} \cup Seq(Dests)
    /\ s.resources \in {None} \cup NumbersOf(0..MaxU32)
IsAppPort(d) ==
    /\ Len(d.capabilities) \in Nat
    /\ \A i \in 1..Len(d.capabilities) : \A t \in d.capabilities[i].authorization :
          t.prefix \in {"", "x.", "x:", "x/", "x"}
    /\ {d.secrets, d.config} \subseteq {None, NoList} \cup Seq(Names \cup {NotString})
    /\ d.outbound \in {None, NoList} \cup Seq(Dests \cup {NotString})
    /\ d.resources \in {None} \cup NumbersOf(Nat \cup {None})

Limits == [memory : Nat \cup {None}, fuel : Nat \cup {None}, requests : Nat]
HostStates ==
    [network : BOOLEAN, destinations : SUBSET Dests, storage : {None} \cup {d.body.storage : d \in Docs},
     secrets : SUBSET Names, secretValues : SUBSET Names, config : SUBSET Names,
     configValues : SUBSET Names, limits : Limits]

ASSUME ContractOK ==
    /\ ValidNames \subseteq Names /\ ValidDests \subseteq Dests
    /\ {MaxU64, MaxU16} \subseteq Nat
    /\ {MaxU32, Kilo, Milli} \subseteq Nat \ {0}
    /\ \A d \in Docs : IF d.kind = "app.toml" THEN IsAppSpec(d.body) ELSE IsAppPort(d.body)

\* What stands for an absent section, another type or an Err is none of the data.
ASSUME SentinelsOK ==
    /\ {None, NoList, Refused} \cap Seq(Names \cup Dests \cup {NotString}) = {}
    /\ {None, Refused} \cap NumbersOf(Nat \cup {None}) = {}
    /\ Refused \notin Nat \cup Limits \cup HostStates
    /\ NotString \notin Names \cup Dests

VARIABLES
    stage,      \* "declared", "built", "hosted" or "refused"
    doc,        \* what each application declares
    manifest,   \* its manifest
    given,      \* names passed with --secret
    env,        \* variables set when its HostState was made
    host        \* its HostState

vars == <<stage, doc, manifest, given, env, host>>

Elements(list) == {list[i] : i \in 1..Len(list)}
Distinct(list) == Cardinality(Elements(list)) = Len(list)

-----------------------------------------------------------------------------
(* app.toml.                                                               *)

ValidList(list, valid) == Elements(list) \subseteq valid /\ Distinct(list)

\* The checks of Resources, made by validate and again by runtime_limits.
Positive(r) == r.memory > 0 /\ r.timeout > 0 /\ r.requests > 0

\* Mutant: destinations are not checked against the network capability.
ValidatesNoCapability(s) ==
    /\ s.header = "ok"
    /\ s.storage # None => s.storage.mount \in AbsoluteMounts
    /\ ValidList(s.secrets, ValidNames)
    /\ ValidList(s.config, ValidNames)
    /\ s.outbound # None => ValidList(s.outbound, ValidDests)
    /\ s.resources # None => Positive(s.resources)

\* AppSpec::validate.
Validates(s) ==
    /\ s.header = "ok"
    /\ s.filesystem <=> s.storage # None
    /\ s.storage # None => s.storage.mount \in AbsoluteMounts
    /\ ValidList(s.secrets, ValidNames)
    /\ ValidList(s.config, ValidNames)
    /\ s.outbound # None => /\ s.network \/ s.outbound = <<>>
                            /\ ValidList(s.outbound, ValidDests)
    /\ s.resources # None => Positive(s.resources)

\* Manifest::from_spec.
FromSpec(s) ==
    [operation |-> None, http |-> s.http, network |-> s.network, filesystem |-> s.filesystem,
     storage |-> s.storage, secrets |-> s.secrets, config |-> s.config,
     outbound |-> s.outbound, resources |-> s.resources]

-----------------------------------------------------------------------------
(* AppPort documents.                                                      *)

\* The operation that start, status and stop stand for.
LifecycleOperation(d) ==
    IF d.operation # None THEN d.operation
    ELSE IF Len(d.capabilities) # 1 \/ d.capabilities[1].versions = <<>> THEN Refused
    ELSE [name |-> d.capabilities[1].name, version |-> d.capabilities[1].versions[1]]

\* find_appport_capability: the first one that matches.
Matching(d, op) ==
    {i \in 1..Len(d.capabilities) : /\ d.capabilities[i].name = op.name
                                    /\ op.version \in Elements(d.capabilities[i].versions)}
FindCapability(d, op) ==
    d.capabilities[CHOOSE i \in Matching(d, op) : \A j \in Matching(d, op) : i <= j]

\* A token grants the capability it names after the last '.', ':' or '/'; a token
\* that merely ends in the same letters does not.
DeclaresAuthorization(tokens, capability) ==
    \E t \in tokens : t.name = capability /\ t.prefix \in {"", "x.", "x:", "x/"}

\* string_array: no section, or no list in it, is the empty list.
StringArray(section) ==
    IF section \in {None, NoList} THEN <<>>
    ELSE IF NotString \in Elements(section) THEN Refused
    ELSE section

\* Manifest::from_appport_operation.  Whatever is wrong with the list of
\* destinations, `unwrap_or_default` makes it empty.
FromAppPort(d, op) ==
    LET Declares(c) == DeclaresAuthorization(FindCapability(d, op).authorization, c)
        filesystem  == Declares("filesystem") \/ Declares("storage")
        secrets     == IF Declares("secrets") THEN StringArray(d.secrets) ELSE <<>>
        config      == IF Declares("config") THEN StringArray(d.config) ELSE <<>>
        destinations == StringArray(d.outbound)
        requests    == IF d.resources = None \/ d.resources.requests = None
                         THEN 1 ELSE d.resources.requests
    IN  IF \/ d.protocol # "appport/1" \/ Matching(d, op) = {}
           \/ filesystem /\ d.storage = None
           \/ Declares("resources") /\ (d.resources = None \/ requests > MaxU32)
           \/ d.http # None /\ d.http > MaxU16
           \/ secrets = Refused \/ config = Refused
          THEN Refused
          ELSE [operation  |-> op, http |-> d.http,
                network    |-> Declares("network"), filesystem |-> filesystem,
                storage    |-> IF filesystem THEN d.storage ELSE None,
                secrets    |-> secrets, config |-> config,
                outbound   |-> IF ~Declares("network") THEN None
                               ELSE IF destinations = Refused THEN <<>> ELSE destinations,
                resources  |-> IF Declares("resources")
                                 THEN [d.resources EXCEPT !.requests = requests] ELSE None]

-----------------------------------------------------------------------------
(* HostState.                                                              *)

\* Mutant: wrapping multiplication.
TimesWraps(a, b) == (a * b) % (MaxU64 + 1)

\* checked_mul.
Times(a, b) == IF a = Refused \/ a * b > MaxU64 THEN Refused ELSE a * b

Unlimited == [memory |-> None, fuel |-> None, requests |-> 1]

\* Mutant: the document is trusted to have been validated.
RuntimeLimitsTrusting(r) ==
    IF r = None THEN Unlimited
    ELSE LET memory == Times(Times(r.memory, Kilo), Kilo)
             fuel   == Times(r.timeout, Milli)
         IN  IF memory = Refused \/ fuel = Refused THEN Refused
             ELSE [memory |-> memory, fuel |-> fuel, requests |-> r.requests]

\* runtime_limits.
RuntimeLimits(r) ==
    IF r = None THEN Unlimited
    ELSE LET memory == Times(Times(r.memory, Kilo), Kilo)
             fuel   == Times(r.timeout, Milli)
         IN  IF ~Positive(r) \/ memory = Refused \/ fuel = Refused THEN Refused
             ELSE [memory |-> memory, fuel |-> fuel, requests |-> r.requests]

\* Mutant: a secret that was not given is found out when it is read.
SecretsAllowed(m, secrets) == secrets \subseteq Elements(m.secrets)

\* SecretCapability::new: nothing undeclared, nothing missing.
SecretsComplete(m, secrets) == secrets = Elements(m.secrets)

\* host_state, after resolve_secrets; runtime_application also wants an endpoint.
HostState(m, secrets, variables) ==
    LET limits == RuntimeLimits(m.resources) IN
    IF \/ ~(secrets \subseteq variables)
       \/ m.filesystem # (m.storage # None)
       \/ limits = Refused
       \/ ~SecretsComplete(m, secrets)
       \/ m.http = None
      THEN Refused
      ELSE [network      |-> m.network,
            destinations |-> IF m.outbound = None THEN {} ELSE Elements(m.outbound),
            storage      |-> m.storage,
            secrets      |-> Elements(m.secrets), secretValues |-> secrets,
            config       |-> Elements(m.config),
            configValues |-> Elements(m.config) \cap variables,
            limits       |-> limits]

\* network_connect and network_connect_to.
Connect(h)      == h.network /\ h.destinations = {}
ConnectTo(h, d) == h.network /\ (h.destinations = {} \/ d \in h.destinations)

\* get_secret and get_config: an undeclared name is denied, -1 is a declared
\* variable that is not set.
GetSecret(h, n) == IF n \notin h.secrets THEN "denied"
                   ELSE IF n \in h.secretValues THEN n ELSE "not provided"
GetConfig(h, n) == IF n \notin h.config THEN "denied"
                   ELSE IF n \in h.configValues THEN n ELSE "-1"

-----------------------------------------------------------------------------
(* Two applications are declared, built and started.                       *)

Init ==
    /\ doc      \in [Apps -> Docs]
    /\ stage    = [a \in Apps |-> "declared"]
    /\ manifest = [a \in Apps |-> None]
    /\ given    = [a \in Apps |-> {}]
    /\ env      = [a \in Apps |-> {}]
    /\ host     = [a \in Apps |-> None]

ToManifest(d) ==
    IF d.kind = "app.toml"
      THEN IF Validates(d.body) THEN FromSpec(d.body) ELSE Refused
      ELSE LET op == LifecycleOperation(d.body) IN
           IF op = Refused THEN Refused ELSE FromAppPort(d.body, op)

\* `app build`, or the mapping of an AppPort document.
Build(a) ==
    /\ stage[a] = "declared"
    /\ manifest' = [manifest EXCEPT ![a] = ToManifest(doc[a])]
    /\ stage' = [stage EXCEPT ![a] = IF manifest'[a] = Refused THEN "refused" ELSE "built"]
    /\ UNCHANGED <<doc, given, env, host>>

\* `app run --secret ...` in some environment.
Run(a) ==
    /\ stage[a] = "built"
    /\ \E secrets \in SUBSET Names, variables \in SUBSET Names :
          /\ given' = [given EXCEPT ![a] = secrets]
          /\ env'   = [env EXCEPT ![a] = variables]
          /\ host'  = [host EXCEPT ![a] = HostState(manifest[a], secrets, variables)]
    /\ stage' = [stage EXCEPT ![a] = IF host'[a] = Refused THEN "refused" ELSE "hosted"]
    /\ UNCHANGED <<doc, manifest>>

Next == \E a \in Apps : Build(a) \/ Run(a)

Spec == Init /\ [][Next]_vars

\* Mutant: destinations are policy, not identity.
CanonicalManifestNoPolicy(m) ==
    <<m.operation, m.http, m.network, m.filesystem, m.storage,
      IF m.secrets = <<>> THEN None ELSE m.secrets,
      IF m.config = <<>> THEN None ELSE m.config, m.resources>>

\* ApplicationId::from_manifest_and_wasm, for equal modules: every field of the
\* manifest is in the canonical text, absent or empty lists of names are left out.
CanonicalManifest(m) ==
    <<m.operation, m.http, m.network, m.filesystem, m.storage,
      IF m.secrets = <<>> THEN None ELSE m.secrets,
      IF m.config = <<>> THEN None ELSE m.config, m.outbound, m.resources>>

-----------------------------------------------------------------------------
(* Properties.                                                             *)

Hosted == {a \in Apps : stage[a] = "hosted"}

TypeOK ==
    /\ stage \in [Apps -> {"declared", "built", "hosted", "refused"}]
    /\ \A a \in Apps : stage[a] \in {"built", "hosted"} =>
          manifest[a].filesystem \in BOOLEAN /\ Elements(manifest[a].secrets) \subseteq Names
    /\ \A a \in Hosted : host[a].limits.requests \in 1..MaxU32

\* What the author of a declaration reads in it.
Capabilities(d) ==
    IF d.kind = "app.toml"
      THEN {c \in {"network", "filesystem"} : d.body[c]}
             \cup {"secrets", "config"} \cup (IF d.body.resources = None THEN {} ELSE {"resources"})
      ELSE {c \in {"network", "filesystem", "secrets", "config", "resources"} :
              \E t \in FindCapability(d.body, LifecycleOperation(d.body)).authorization :
                /\ t.prefix # "x"
                /\ t.name = c \/ (t.name = "storage" /\ c = "filesystem")}

ListOf(section) == IF section \in {None, NoList} THEN {} ELSE Elements(section)

\* What a list of destinations means is only agreed on when they are all strings.
AllStrings(section) == NotString \notin ListOf(section)

\* The guest of a hosted application can do what its declaration says and nothing
\* else, whichever kind of declaration it is: destinations, secrets, variables,
\* storage.  A secret that is declared is always there when it is read.  A network
\* capability without a list of destinations is one for all of them; what becomes of
\* a list with something else than strings in it is OutboundRestricts.
EnforcesDeclaration ==
    \A a \in Hosted :
        LET h == host[a]
            body == doc[a].body
            Has(c) == c \in Capabilities(doc[a])
            listed == ListOf(body.outbound)
        IN  /\ AllStrings(body.outbound) =>
                 /\ \A d \in Dests :
                      ConnectTo(h, d) <=> Has("network") /\ (listed = {} \/ d \in listed)
                 /\ Connect(h) <=> Has("network") /\ listed = {}
            /\ ~Has("network") => \A d \in Dests : ~Connect(h) /\ ~ConnectTo(h, d)
            /\ \A n \in Names :
                 /\ GetSecret(h, n) = IF Has("secrets") /\ n \in ListOf(body.secrets)
                                        THEN n ELSE "denied"
                 /\ GetConfig(h, n) = IF ~(Has("config") /\ n \in ListOf(body.config))
                                        THEN "denied"
                                        ELSE IF n \in env[a] THEN n ELSE "-1"
            /\ h.storage = IF Has("filesystem") THEN body.storage ELSE None

\* A list of destinations restricts the network capability to those destinations,
\* whatever else is in the list (README, "restricts the host network capability to
\* those destinations").  A document whose list is not one of strings ought to be
\* refused, as one with such a list of secrets is; from_appport_operation drops the
\* error and the list with it, and the guest may connect anywhere.
OutboundRestricts ==
    \A a \in Hosted :
        ListOf(doc[a].body.outbound) # {} =>
            \A d \in Dests : ConnectTo(host[a], d) => d \in ListOf(doc[a].body.outbound)

\* A limit in force is the declared one, in bytes and in units of fuel: nothing
\* wraps around, and an application without [resources] is not limited.
LimitsAreExact ==
    \A a \in Hosted :
        LET r == doc[a].body.resources
            limits == host[a].limits
        IN  IF "resources" \in Capabilities(doc[a])
              THEN /\ limits.memory = r.memory * Kilo * Kilo
                   /\ limits.fuel = r.timeout * Milli
              ELSE limits = Unlimited

\* An application that `app build` accepted is refused by `app run` only for a
\* reason that build does not look at: no endpoint, limits out of range, or the
\* wrong secrets.
BuiltIsHosted ==
    \A a \in Apps :
        LET s == doc[a].body IN
        doc[a].kind = "app.toml" /\ stage[a] = "refused" /\ manifest[a] # Refused =>
            \/ s.http = None
            \/ given[a] # Elements(s.secrets) \/ ~(given[a] \subseteq env[a])
            \/ s.resources # None /\ (\/ s.resources.memory * Kilo * Kilo > MaxU64
                                      \/ s.resources.timeout * Milli > MaxU64)

\* Two applications with one Application ID have the same rights: nothing that
\* host_state enforces is outside the identity.
SameIDSameRights ==
    \A a, b \in Hosted :
        CanonicalManifest(manifest[a]) = CanonicalManifest(manifest[b]) =>
            /\ \A d \in Dests : ConnectTo(host[a], d) <=> ConnectTo(host[b], d)
            /\ host[a].secrets = host[b].secrets /\ host[a].config = host[b].config
            /\ host[a].storage = host[b].storage /\ host[a].limits = host[b].limits
=============================================================================
