------------------------------ MODULE KeyValue ------------------------------
(***************************************************************************)
(* What StateProvider promises the guests that share one application's     *)
(* state, whichever provider is behind it: a call that no other update of  *)
(* its key overlaps behaves like a call on a plain map; a call that one    *)
(* does overlap may answer anything, and an update that is overlapped, or  *)
(* whose process dies, or that fails, may leave anything.  (Lamport's      *)
(* "safe" register, per key.)  Nothing else ever changes the state.        *)
(***************************************************************************)
CONSTANTS
    Keys, Values,
    Contents,   \* what a key may hold: Values, Missing, and what is left of a bad write
    Missing,
    Calls,      \* callers, each with one call at a time
    Idle, Failed,
    Reliable    \* TRUE when the host's disk and processes do not fail

VARIABLES
    store,      \* what each key holds
    call,       \* what each caller asks for, or Idle
    answer,     \* what its call came to, Idle as long as it is in flight
    nested,     \* keys the store may refuse because of another key; never changes
    alone       \* calls in flight that no other update of their key has overlapped

vars == <<store, call, answer, nested, alone>>

Requests == [op : {"read", "delete"}, key : Keys]
              \cup [op : {"write"}, key : Keys, value : Values]

Updates(r) == r.op \in {"write", "delete"}

InFlight(c) == call[c] # Idle /\ answer[c] = Idle

\* An update disturbs whatever other call on its key it overlaps.
Begin(c, r) ==
    /\ call[c] = Idle
    /\ call' = [call EXCEPT ![c] = r]
    /\ LET others   == {d \in Calls : InFlight(d) /\ call[d].key = r.key}
           spoiled  == IF Updates(r) THEN others ELSE {}
           spoilers == {d \in others : Updates(call[d])}
       IN  alone' = (alone \ spoiled) \cup (IF spoilers = {} THEN {c} ELSE {})
    /\ UNCHANGED <<store, answer, nested>>

\* An update at work.
Change(k) ==
    /\ \E c \in Calls : InFlight(c) /\ call[c].key = k /\ Updates(call[c])
    /\ \E x \in Contents : store' = [store EXCEPT ![k] = x]
    /\ UNCHANGED <<call, answer, nested, alone>>

\* What a call that was alone may answer when its key holds this in the end.
\* "broken" is the error of a host whose disk or process failed.
Answers(r, held) ==
    CASE r.op = "read"   -> {IF held = Missing THEN Failed ELSE held}
      [] r.op = "write"  -> (IF held = r.value THEN {"done"} ELSE {})
                              \cup (IF r.key \in nested THEN {Failed} ELSE {})
      [] r.op = "delete" -> IF held = Missing THEN {"done", Failed} ELSE {}

Return(c) ==
    /\ InFlight(c)
    /\ LET r == call[c] IN
       \E held \in IF Updates(r) THEN Contents ELSE {store[r.key]},
          a \in Contents \cup {"done", "broken", Failed} :
            /\ c \in alone => a \in Answers(r, held) \cup (IF Reliable THEN {} ELSE {"broken"})
            /\ store'  = [store EXCEPT ![r.key] = held]
            /\ answer' = [answer EXCEPT ![c] = a]
    /\ alone' = alone \ {c}
    /\ UNCHANGED <<call, nested>>

\* The caller has its answer, or it is gone.
Leave(c) ==
    /\ call[c] # Idle
    /\ call'   = [call EXCEPT ![c] = Idle]
    /\ answer' = [answer EXCEPT ![c] = Idle]
    /\ alone'  = alone \ {c}
    /\ UNCHANGED <<store, nested>>

Init ==
    /\ store  = [k \in Keys |-> Missing]
    /\ call   = [c \in Calls |-> Idle]
    /\ answer = [c \in Calls |-> Idle]
    /\ nested \in SUBSET Keys
    /\ alone  = {}

Next ==
    \/ \E c \in Calls : Return(c) \/ Leave(c) \/ \E r \in Requests : Begin(c, r)
    \/ \E k \in Keys : Change(k)

Spec == Init /\ [][Next]_vars
=============================================================================
