----------------------------- MODULE MCContract -----------------------------
(* Small instances of Contract for TLC: two base declarations, each varied *)
(* one section at a time.                                                  *)
EXTENDS Contract, TLC

Lists(elements) == {<<>>} \cup {<<x>> : x \in elements} \cup {<<x, x>> : x \in elements}

AllNames == {"KEY", "key"}
UpperNames == {"KEY"}
AllDests == {"api.example.com", "http://api"}
BareDests == {"api.example.com"}
Absolute == {"/data"}

Mounts == {[mount |-> m, path |-> ".app/data"] : m \in {"/data", "data"}}

\* What `app init` writes.
InitSpec ==
    [header |-> "ok", http |-> 1, network |-> FALSE, filesystem |-> TRUE,
     storage |-> [mount |-> "/data", path |-> ".app/data"], secrets |-> <<>>, config |-> <<>>,
     outbound |-> None, resources |-> [memory |-> 1, timeout |-> 1, requests |-> 1]]

SpecResources == [memory : {0, 3, 4, 16}, timeout : {0, 21, 22}, requests : {0, 1, 2}]

Specs ==
    {InitSpec, [InitSpec EXCEPT !.header = "bad"], [InitSpec EXCEPT !.http = None]}
    \cup {[InitSpec EXCEPT !.network = n, !.outbound = o] :
             n \in BOOLEAN, o \in {None} \cup Lists(AllDests)}
    \cup {[InitSpec EXCEPT !.filesystem = f, !.storage = s] :
             f \in BOOLEAN, s \in {None} \cup Mounts}
    \cup {[InitSpec EXCEPT !.secrets = l] : l \in Lists(AllNames)}
    \cup {[InitSpec EXCEPT !.config = l] : l \in Lists(AllNames)}
    \cup {[InitSpec EXCEPT !.resources = r] : r \in {None} \cup SpecResources}

Token(name) == [prefix |-> "", name |-> name]
Granted == {Token(n) : n \in {"network", "filesystem", "secrets", "config", "resources"}}
Capability(tokens) == [name |-> "op", versions |-> <<1>>, authorization |-> tokens]

PortBase ==
    [protocol |-> "appport/1", capabilities |-> <<Capability(Granted)>>, operation |-> None,
     http |-> 1, storage |-> [mount |-> "/data", path |-> ".app/data"], secrets |-> None,
     config |-> None, outbound |-> None,
     resources |-> [memory |-> 1, timeout |-> 1, requests |-> None]]

Authorizations ==
    {Granted \ {t} : t \in Granted}
    \cup {{[prefix |-> p, name |-> n]} : p \in {"", "x.", "x:", "x/", "x"},
                                         n \in {"network", "storage", "resources", "secrets"}}

Ops == {None} \cup [name : {"op", "other"}, version : {1, 2}]

PortDocs ==
    {PortBase, [PortBase EXCEPT !.protocol = "appport/2"]}
    \cup {[PortBase EXCEPT !.capabilities = <<Capability(t)>>] : t \in Authorizations}
    \cup {[PortBase EXCEPT !.operation = o] : o \in Ops}
    \cup {[PortBase EXCEPT !.capabilities = <<Capability({}), Capability(Granted)>>,
                           !.operation = o] : o \in Ops}
    \cup {[PortBase EXCEPT !.http = h] : h \in {None, 9}}
    \cup {[PortBase EXCEPT !.storage = None]}
    \cup {[PortBase EXCEPT !.resources = r] :
             r \in {None} \cup [memory : {0, 3, 4}, timeout : {21, 22}, requests : {None, 0, 2, 9}]}
    \cup {[PortBase EXCEPT !.outbound = l] : l \in {NoList} \cup Lists(AllDests)
                                                     \cup {<<x, NotString>> : x \in AllDests}}
    \cup {[PortBase EXCEPT !.secrets = l] : l \in {NoList} \cup Lists(AllNames \cup {NotString})}
    \cup {[PortBase EXCEPT !.config = l] : l \in {NoList} \cup Lists(AllNames \cup {NotString})}

AsDocs(kind, bodies) == {[kind |-> kind, body |-> b] : b \in bodies}

AllDocs == AsDocs("app.toml", Specs) \cup AsDocs("appport", PortDocs)

\* Applications are interchangeable.
Symmetry == Permutations(Apps)
=============================================================================
