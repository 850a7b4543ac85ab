----------------------------- MODULE TextProofs -----------------------------
(***************************************************************************)
(* What StoragePaths and Codecs compute, for texts of every length: a path *)
(* that storage_relative_path lets through lies below the mount, canonical *)
(* paths below it are let through, base64_decode undoes base64_encode, and *)
(* parse_json_string_array gives back what JSON.stringify was given, or    *)
(* refuses it.                                                             *)
(*                                                                         *)
(* These are proofs by induction over texts.  The induction is over a set  *)
(* of texts (SequenceInduction), and a loop over the characters of a text  *)
(* is a machine that reads it (Runs): what it ends with after one more     *)
(* character is one more step of what it ended with before.                *)
(***************************************************************************)
EXTENDS Codecs, SequenceTheorems, WellFoundedInduction, TLAPS

\* A nonempty set of natural numbers has a least element.
LEMMA LeastNumber ==
    ASSUME NEW M, M \subseteq Nat, M # {}
    PROVE  \E i \in M : \A j \in M : i <= j
<1>1. PICK i \in M : \A j \in M : ~(<<j, i>> \in OpToRel(<, Nat))
  BY NatLessThanWellFounded, WFMin
<1>2. ASSUME NEW j \in M, j < i  PROVE  FALSE
  <2>1. <<j, i>> \in OpToRel(<, Nat)
    BY <1>2 DEF OpToRel
  <2>. QED
    BY <1>1, <2>1
<1>. QED
  BY <1>2

\* Induction, of a set instead of a predicate.
LEMMA Induction ==
    ASSUME NEW T, 0 \in T, NEW N, N \in Nat, \A n \in 1..N : n - 1 \in T => n \in T
    PROVE  0..N \subseteq T
<1>. DEFINE M == 0..N \ T
<1>1. SUFFICES ASSUME M # {}  PROVE  FALSE
  OBVIOUS
<1>2. M \subseteq Nat
  OBVIOUS
<1>3. PICK n \in M : \A m \in M : n <= m
  <2>. HIDE DEF M
  <2>. QED
    BY <1>1, <1>2, LeastNumber
<1>4. n \in 1..N /\ n - 1 \in 0..N /\ ~(n <= n - 1)
  BY <1>3
<1>. QED
  BY <1>3, <1>4

\* Induction over sequences.
LEMMA SequenceInduction ==
    ASSUME NEW S, NEW T, <<>> \in T, \A s \in Seq(S), e \in S : s \in T => Append(s, e) \in T
    PROVE  Seq(S) \subseteq T
<1>1. ASSUME NEW s \in Seq(S)  PROVE  s \in T
  <2>. DEFINE U == {n \in 0..Len(s) : SubSeq(s, 1, n) \in T}
  <2>1. 0 \in U
    <3>1. SubSeq(s, 1, 0) = <<>>
      BY SubSeqEmpty
    <3>2. 0 \in 0..Len(s)
      OBVIOUS
    <3>. QED
      BY <3>1, <3>2, Zenon
  <2>2. ASSUME NEW n \in 1..Len(s), n - 1 \in U  PROVE  n \in U
    <3>1. s[n] \in S /\ SubSeq(s, 1, n - 1) \in Seq(S) /\ SubSeq(s, 1, n - 1) \in T
      BY <2>2
    <3>2. SubSeq(s, 1, n) = SubSeq(s, 1, n - 1) \o <<s[n]>>
      BY SubSeqRecursiveSecond
    <3>3. SubSeq(s, 1, n) = Append(SubSeq(s, 1, n - 1), s[n])
      BY <3>1, <3>2, AppendIsConcat
    <3>4. SubSeq(s, 1, n) \in T
      BY <3>1, <3>3
    <3>. QED
      BY <3>4
  <2>3. 0..Len(s) \subseteq U
    <3>. HIDE DEF U
    <3>. QED
      BY <2>1, <2>2, Induction
  <2>4. SubSeq(s, 1, Len(s)) = s /\ Len(s) \in 0..Len(s)
    BY SubSeqFull
  <2>. QED
    BY <2>3, <2>4
<1>. QED
  BY <1>1

\* A sequence is built at its end.
LEMMA AppendToConcat ==
    ASSUME NEW S, NEW s \in Seq(S), NEW t \in Seq(S), NEW e \in S
    PROVE  /\ s \o Append(t, e) = Append(s \o t, e)
           /\ s \o t \in Seq(S) /\ Append(t, e) \in Seq(S)
<1>1. s \o t \in Seq(S) /\ Append(t, e) \in Seq(S) /\ <<e>> \in Seq(S)
  OBVIOUS
<1>2. Append(t, e) = t \o <<e>> /\ Append(s \o t, e) = (s \o t) \o <<e>>
  BY <1>1, AppendIsConcat
<1>3. (s \o t) \o <<e>> = s \o (t \o <<e>>)
  BY <1>1, ConcatAssociative
<1>. QED
  BY <1>1, <1>2, <1>3

\* A machine that reads a sequence of inputs: f[n] is its state after n of them.
Runs(f, step, base, State, s) ==
    /\ f \in [0..Len(s) -> State]
    /\ f[0] = base
    /\ \A n \in 1..Len(s) : f[n] = step[<<f[n - 1], s[n]>>]

\* It runs through any sequence.
LEMMA RunExists ==
    ASSUME NEW State, NEW S, NEW base \in State, NEW step \in [State \X S -> State]
    PROVE  \A s \in Seq(S) : \E f : Runs(f, step, base, State, s)
<1>. DEFINE T == {s \in Seq(S) : \E f : Runs(f, step, base, State, s)}
<1>1. <<>> \in T
  <2>1. Runs([n \in 0..0 |-> base], step, base, State, <<>>)
    BY DEF Runs
  <2>. QED
    BY <2>1
<1>2. ASSUME NEW s \in Seq(S), NEW e \in S, s \in T  PROVE  Append(s, e) \in T
  <2>. DEFINE t == Append(s, e)
  <2>1. PICK f : Runs(f, step, base, State, s)
    BY <1>2
  <2>2. /\ t \in Seq(S) /\ Len(t) = Len(s) + 1 /\ t[Len(s) + 1] = e /\ Len(s) \in Nat
        /\ \A n \in 1..Len(s) : t[n] = s[n]
    OBVIOUS
  <2>. HIDE DEF t
  <2>3. f[Len(s)] \in State
    BY <2>1, <2>2 DEF Runs
  <2>. DEFINE next == step[<<f[Len(s)], e>>]
              g == [n \in 0..Len(t) |-> IF n = Len(t) THEN next ELSE f[n]]
  <2>4. next \in State
    BY <2>3
  <2>5. g \in [0..Len(t) -> State]
    BY <2>1, <2>2, <2>4 DEF Runs
  <2>6. g[0] = base /\ g[Len(t)] = next /\ \A n \in 0..Len(s) : g[n] = f[n]
    BY <2>1, <2>2 DEF Runs
  <2>. HIDE DEF g, next
  <2>7. ASSUME NEW n \in 1..Len(t)  PROVE  g[n] = step[<<g[n - 1], t[n]>>]
    <3>1. CASE n = Len(t)
      BY <2>2, <2>6, <3>1 DEF next
    <3>2. CASE n \in 1..Len(s)
      BY <2>1, <2>2, <2>6, <3>2 DEF Runs
    <3>. QED
      BY <2>2, <3>1, <3>2
  <2>8. Runs(g, step, base, State, t)
    BY <2>5, <2>6, <2>7 DEF Runs
  <2>. QED
    BY <2>2, <2>8 DEF t
<1>3. Seq(S) \subseteq T
  <2>. HIDE DEF T
  <2>. QED
    BY <1>1, <1>2, SequenceInduction
<1>. QED
  BY <1>3

\* A function that goes by the steps of a machine is its run.
LEMMA LoopRuns ==
    ASSUME NEW State, NEW S, NEW base \in State, NEW step \in [State \X S -> State],
           NEW s \in Seq(S), NEW f, f = [n \in 0..Len(s) |-> f[n]], f[0] = base,
           \A n \in 1..Len(s) : f[n - 1] \in State => f[n] = step[<<f[n - 1], s[n]>>]
    PROVE  Runs(f, step, base, State, s)
<1>. DEFINE U == {n \in 0..Len(s) : f[n] \in State}
<1>1. Len(s) \in Nat /\ \A n \in 1..Len(s) : s[n] \in S
  OBVIOUS
<1>2. 0 \in U
  BY <1>1
<1>3. ASSUME NEW n \in 1..Len(s), n - 1 \in U  PROVE  n \in U
  <2>1. f[n - 1] \in State /\ s[n] \in S /\ n \in 0..Len(s)
    BY <1>1, <1>3
  <2>2. f[n] = step[<<f[n - 1], s[n]>>]
    BY <2>1
  <2>. QED
    BY <2>1, <2>2
<1>4. 0..Len(s) \subseteq U
  <2>. HIDE DEF U
  <2>. QED
    BY <1>1, <1>2, <1>3, Induction
<1>5. f \in [0..Len(s) -> State]
  BY <1>4
<1>6. \A n \in 1..Len(s) : n - 1 \in 0..Len(s)
  BY <1>1
<1>. QED
  BY <1>4, <1>5, <1>6 DEF Runs

\* It runs in one way: one more input is one more step, of the state it had.
RunsOn(step, base, State, s, e) ==
    \A f, g : Runs(f, step, base, State, s) /\ Runs(g, step, base, State, Append(s, e)) =>
        f[Len(s)] \in State /\ g[Len(Append(s, e))] = step[<<f[Len(s)], e>>]

\* Two runs agree as long as their inputs do.
LEMMA RunAppend ==
    ASSUME NEW State, NEW S, NEW base, NEW step, NEW s \in Seq(S), NEW e \in S
    PROVE  RunsOn(step, base, State, s, e)
<1>. SUFFICES ASSUME NEW f, Runs(f, step, base, State, s),
                     NEW g, Runs(g, step, base, State, Append(s, e))
              PROVE  f[Len(s)] \in State /\ g[Len(Append(s, e))] = step[<<f[Len(s)], e>>]
  BY DEF RunsOn
<1>. DEFINE t == Append(s, e)
            U == {n \in 0..Len(s) : f[n] = g[n]}
<1>1. /\ t \in Seq(S) /\ Len(t) = Len(s) + 1 /\ t[Len(s) + 1] = e /\ Len(s) \in Nat
      /\ \A n \in 1..Len(s) : t[n] = s[n]
  OBVIOUS
<1>. HIDE DEF t
<1>2. Runs(g, step, base, State, t)
  BY DEF t
<1>3. 0 \in U
  BY <1>1, <1>2 DEF Runs
<1>4. ASSUME NEW n \in 1..Len(s), n - 1 \in U  PROVE  n \in U
  <2>1. n \in 1..Len(s) /\ n \in 1..Len(t) /\ f[n - 1] = g[n - 1]
    BY <1>1, <1>4
  <2>2. f[n] = step[<<f[n - 1], s[n]>>] /\ g[n] = step[<<g[n - 1], t[n]>>]
    BY <1>2, <2>1 DEF Runs
  <2>3. s[n] = t[n] /\ n \in 0..Len(s)
    BY <1>1, <2>1
  <2>. QED
    BY <2>1, <2>2, <2>3, Zenon
<1>5. 0..Len(s) \subseteq U
  <2>. HIDE DEF U
  <2>. QED
    BY <1>1, <1>3, <1>4, Induction
<1>6. f[Len(s)] = g[Len(s)] /\ f[Len(s)] \in State
  BY <1>1, <1>5 DEF Runs
<1>7. g[Len(t)] = step[<<g[Len(s)], e>>]
  <2>1. Len(t) \in 1..Len(t) /\ Len(t) - 1 = Len(s) /\ t[Len(t)] = e
    BY <1>1
  <2>. QED
    BY <1>2, <2>1 DEF Runs
<1>. QED
  BY <1>6, <1>7 DEF t

-----------------------------------------------------------------------------
(* Reading a text.                                                         *)

Readings(S) == [pieces : Seq(Seq(S)), piece : Seq(S)]
NothingRead == [pieces |-> <<>>, piece |-> <<>>]
ReadStep(S, separator, dropped) ==
    [x \in Readings(S) \X S |-> ReadNext(x[1], x[2], separator, dropped)]

\* A reading stays one.
LEMMA ReadingType ==
    ASSUME NEW S, NEW r \in Readings(S), NEW c \in S, NEW separator, NEW dropped
    PROVE  /\ ReadNext(r, c, separator, dropped) \in Readings(S)
           /\ Close(r, dropped) \in Seq(Seq(S))
BY DEF ReadNext, Close, Readings

\* ReadAll is what the machine that reads one character at a time ends with.
LEMMA ReadAllRuns ==
    ASSUME NEW S, NEW s \in Seq(S), NEW separator, NEW dropped
    PROVE  \E f : /\ Runs(f, ReadStep(S, separator, dropped), NothingRead, Readings(S), s)
                  /\ ReadAll(s, separator, dropped) = f[Len(s)]
<1>. USE DEF ReadStep
<1>. DEFINE State == Readings(S)
            step == ReadStep(S, separator, dropped)
            Body(f) == [n \in 0..Len(s) |->
                          IF n = 0 THEN NothingRead ELSE ReadNext(f[n - 1], s[n], separator, dropped)]
            chosen == CHOOSE f : f = Body(f)
<1>1. NothingRead \in State
  BY DEF NothingRead, Readings
<1>2. step \in [State \X S -> State]
  BY ReadingType
<1>3. PICK f : Runs(f, step, NothingRead, State, s)
  <2>. HIDE DEF step, State, ReadStep
  <2>. QED
    BY <1>1, <1>2, RunExists
<1>4. Len(s) \in Nat /\ \A n \in 1..Len(s) : s[n] \in S
  OBVIOUS
<1>5. f = Body(f)
  <2>1. f \in [0..Len(s) -> State] /\ f[0] = NothingRead
    BY <1>3 DEF Runs
  <2>2. ASSUME NEW n \in 1..Len(s)  PROVE  f[n] = ReadNext(f[n - 1], s[n], separator, dropped)
    <3>1. f[n - 1] \in State /\ s[n] \in S
      BY <1>4, <2>1
    <3>2. f[n] = step[<<f[n - 1], s[n]>>]
      BY <1>3 DEF Runs
    <3>. QED
      BY <3>1, <3>2
  <2>. QED
    BY <1>4, <2>1, <2>2
<1>6. chosen = Body(chosen)
  <2>. HIDE DEF Body
  <2>. QED
    BY <1>5
<1>7. ReadAll(s, separator, dropped) = chosen[Len(s)]
  BY DEF ReadAll, NothingRead
<1>. HIDE DEF chosen
<1>8. /\ chosen = [n \in 0..Len(s) |-> chosen[n]] /\ chosen[0] = NothingRead
      /\ \A n \in 1..Len(s) : chosen[n] = ReadNext(chosen[n - 1], s[n], separator, dropped)
  BY <1>4, <1>6
<1>9. \A n \in 1..Len(s) : chosen[n - 1] \in State => chosen[n] = step[<<chosen[n - 1], s[n]>>]
  BY <1>4, <1>8
<1>10. Runs(chosen, step, NothingRead, State, s)
  <2>. HIDE DEF step, State, ReadStep
  <2>. QED
    BY <1>1, <1>2, <1>8, <1>9, LoopRuns
<1>. QED
  BY <1>7, <1>10

\* A text that is read is some pieces, and one more.
LEMMA ReadAllType ==
    ASSUME NEW S, NEW s \in Seq(S), NEW separator, NEW dropped
    PROVE  ReadAll(s, separator, dropped) \in Readings(S)
<1>. DEFINE step == ReadStep(S, separator, dropped)
<1>1. PICK f : Runs(f, step, NothingRead, Readings(S), s) /\ ReadAll(s, separator, dropped) = f[Len(s)]
  BY ReadAllRuns
<1>. HIDE DEF step
<1>. QED
  BY <1>1 DEF Runs

\* What ReadAll computes, one character at a time.
LEMMA ReadAllEmpty ==
    ASSUME NEW separator, NEW dropped
    PROVE  ReadAll(<<>>, separator, dropped) = NothingRead
<1>1. <<>> \in Seq({}) /\ Len(<<>>) = 0
  OBVIOUS
<1>2. \A s \in Seq({}) :
         \E f : /\ Runs(f, ReadStep({}, separator, dropped), NothingRead, Readings({}), s)
               /\ ReadAll(s, separator, dropped) = f[Len(s)]
  BY ReadAllRuns
<1>3. PICK f : /\ Runs(f, ReadStep({}, separator, dropped), NothingRead, Readings({}), <<>>)
               /\ ReadAll(<<>>, separator, dropped) = f[Len(<<>>)]
  BY <1>1, <1>2, Zenon
<1>. QED
  BY <1>1, <1>3 DEF Runs

\* One more character is one more step.
LEMMA ReadAllAppend ==
    ASSUME NEW S, NEW s \in Seq(S), NEW c \in S, NEW separator, NEW dropped
    PROVE  ReadAll(Append(s, c), separator, dropped)
             = ReadNext(ReadAll(s, separator, dropped), c, separator, dropped)
<1>. DEFINE step == ReadStep(S, separator, dropped)
            t == Append(s, c)
<1>1. PICK f : Runs(f, step, NothingRead, Readings(S), s) /\ ReadAll(s, separator, dropped) = f[Len(s)]
  BY ReadAllRuns
<1>2. t \in Seq(S)
  OBVIOUS
<1>3. PICK g : Runs(g, step, NothingRead, Readings(S), t) /\ ReadAll(t, separator, dropped) = g[Len(t)]
  <2>. HIDE DEF t
  <2>. QED
    BY <1>2, ReadAllRuns
<1>4. f[Len(s)] \in Readings(S) /\ g[Len(t)] = step[<<f[Len(s)], c>>]
  <2>. HIDE DEF step
  <2>. QED
    <3>1. RunsOn(step, NothingRead, Readings(S), s, c)
      BY RunAppend
    <3>. QED
      BY <1>1, <1>3, <3>1 DEF RunsOn
<1>5. step[<<f[Len(s)], c>>] = ReadNext(f[Len(s)], c, separator, dropped)
  BY <1>4 DEF ReadStep
<1>. QED
  BY <1>1, <1>3, <1>4, <1>5, Zenon

\* A reading that starts over reads the rest of the text as if it were all.
LEMMA ReadOver ==
    ASSUME NEW S, NEW s \in Seq(S), NEW separator, NEW dropped,
           ReadAll(s, separator, dropped) = NothingRead
    PROVE  \A t \in Seq(S) :
              ReadAll(s \o t, separator, dropped) = ReadAll(t, separator, dropped)
<1>. DEFINE R(t) == ReadAll(t, separator, dropped)
            T == {t \in Seq(S) : R(s \o t) = R(t)}
<1>0. \A u \in Seq(S), c \in S : R(Append(u, c)) = ReadNext(R(u), c, separator, dropped)
  BY ReadAllAppend
<1>. HIDE DEF R
<1>1. <<>> \in T
  <2>1. s \o <<>> = s /\ <<>> \in Seq(S)
    OBVIOUS
  <2>. QED
    BY <2>1, ReadAllEmpty DEF R
<1>2. ASSUME NEW t \in Seq(S), NEW c \in S, t \in T  PROVE  Append(t, c) \in T
  <2>1. s \o Append(t, c) = Append(s \o t, c) /\ s \o t \in Seq(S) /\ Append(t, c) \in Seq(S)
    BY AppendToConcat
  <2>2. R(Append(s \o t, c)) = ReadNext(R(s \o t), c, separator, dropped)
        /\ R(Append(t, c)) = ReadNext(R(t), c, separator, dropped)
    BY <1>0, <2>1, Zenon
  <2>. QED
    BY <1>2, <2>1, <2>2
<1>3. Seq(S) \subseteq T
  <2>. HIDE DEF T
  <2>. QED
    BY <1>1, <1>2, SequenceInduction
<1>. QED
  BY <1>3 DEF R

-----------------------------------------------------------------------------
(* Components.                                                             *)

\* The components of a path are a sequence of texts.
LEMMA ComponentsType ==
    ASSUME NEW S, NEW path \in Seq(S)
    PROVE  Components(path) \in Seq(Seq(S))
BY ReadAllType DEF Components, Close, Readings

\* Reading q is reading r with some pieces before it.
Follows(before, q, r) == q.piece = r.piece /\ q.pieces = before \o r.pieces

\* The last piece comes at the end.
LEMMA CloseFollows ==
    ASSUME NEW S, NEW before \in Seq(Seq(S)), NEW q, NEW r \in Readings(S), NEW dropped,
           Follows(before, q, r)
    PROVE  Close(q, dropped) = before \o Close(r, dropped)
<1>. DEFINE P == Seq(S)  pieces == r.pieces  piece == r.piece
<1>1. before \in Seq(P) /\ pieces \in Seq(P) /\ piece \in P
  BY DEF Readings
<1>2. before \o Append(pieces, piece) = Append(before \o pieces, piece)
  <2>. HIDE DEF P, pieces, piece
  <2>. QED
    BY <1>1, AppendToConcat
<1>. QED
  BY <1>2, Zenon DEF Close, Follows

\* What comes after a slash is read by itself: the components of a path cut before
\* a slash are those of its two parts.
LEMMA ComponentsConcat ==
    ASSUME NEW S, Slash \in S, NEW s \in Seq(S), NEW t \in Seq(S), t = <<>> \/ t[1] = Slash
    PROVE  Components(s \o t) = Components(s) \o Components(t)
<1>. DEFINE R(u) == ReadAll(u, Slash, Ignored)
            before == Components(s)
            T == {u \in Seq(S) : u # <<>> /\ u[1] = Slash => Follows(before, R(s \o u), R(u))}
<1>1. before \in Seq(Seq(S)) /\ before \o <<>> = before
  BY ComponentsType
<1>2. /\ \A u \in Seq(S), c \in S : R(Append(u, c)) = ReadNext(R(u), c, Slash, Ignored)
      /\ \A u \in Seq(S) : R(u) \in Readings(S)
      /\ R(<<>>) = NothingRead
  BY ReadAllAppend, ReadAllEmpty, ReadAllType
<1>3. \A u : Components(u) = Close(R(u), Ignored)
  BY DEF Components
<1>. HIDE DEF R, before
<1>4. <<>> \in T
  OBVIOUS
<1>5. ASSUME NEW u \in Seq(S), NEW c \in S, u \in T  PROVE  Append(u, c) \in T
  <2>. DEFINE v == Append(u, c)  q == R(s \o u)  r == R(u)
  <2>1. s \o v = Append(s \o u, c) /\ s \o u \in Seq(S) /\ v \in Seq(S)
    BY AppendToConcat
  <2>. SUFFICES ASSUME v[1] = Slash
                PROVE  Follows(before, R(s \o v), R(v))
    BY <2>1
  <2>2. R(s \o v) = ReadNext(q, c, Slash, Ignored) /\ R(v) = ReadNext(r, c, Slash, Ignored)
    BY <1>2, <2>1
  <2>3. CASE u = <<>>
    <3>1. c = Slash /\ s \o u = s
      BY <2>3
    <3>2. ReadNext(q, c, Slash, Ignored) = [pieces |-> before, piece |-> <<>>]
      BY <1>3, <3>1, Zenon DEF ReadNext, before
    <3>3. ReadNext(r, c, Slash, Ignored) = [pieces |-> <<>>, piece |-> <<>>]
      BY <1>2, <2>3, <3>1 DEF ReadNext, NothingRead, Close, Ignored
    <3>4. Follows(before, [pieces |-> before, piece |-> <<>>], [pieces |-> <<>>, piece |-> <<>>])
      BY <1>1 DEF Follows
    <3>. QED
      BY <2>2, <3>2, <3>3, <3>4, Zenon
  <2>4. CASE u # <<>>
    <3>1. u[1] = Slash
      BY <2>4
    <3>2. Follows(before, q, r) /\ r \in Readings(S)
      BY <1>2, <1>5, <2>4, <3>1, Zenon
    <3>. HIDE DEF q, r
    <3>3. Close(q, Ignored) = before \o Close(r, Ignored)
      BY <1>1, <3>2, CloseFollows
    <3>4. Follows(before, ReadNext(q, c, Slash, Ignored), ReadNext(r, c, Slash, Ignored))
      BY <3>2, <3>3 DEF ReadNext, Follows
    <3>. QED
      BY <2>2, <3>4 DEF q, r
  <2>. QED
    BY <2>3, <2>4
<1>6. Seq(S) \subseteq T
  <2>. HIDE DEF T
  <2>. QED
    BY <1>4, <1>5, SequenceInduction
<1>7. CASE t = <<>>
  <2>1. Components(t) = <<>> /\ s \o t = s
    BY <1>2, <1>3, <1>7 DEF NothingRead, Close, Ignored
  <2>. QED
    BY <1>1, <2>1, Zenon DEF before
<1>8. CASE t # <<>>
  <2>. DEFINE q == R(s \o t)  r == R(t)
  <2>1. Follows(before, q, r) /\ r \in Readings(S)
    BY <1>2, <1>6, <1>8, Zenon
  <2>. HIDE DEF q, r
  <2>2. Close(q, Ignored) = before \o Close(r, Ignored)
    BY <1>1, <2>1, CloseFollows
  <2>. QED
    BY <1>3, <2>2, Zenon DEF q, r, before
<1>. QED
  BY <1>7, <1>8

\* Slashes alone are nothing read.
LEMMA SlashesRead ==
    ASSUME NEW s \in Seq({Slash})
    PROVE  ReadAll(s, Slash, Ignored) = NothingRead
<1>. DEFINE T == {u \in Seq({Slash}) : ReadAll(u, Slash, Ignored) = NothingRead}
<1>1. <<>> \in T
  BY ReadAllEmpty
<1>2. ASSUME NEW u \in Seq({Slash}), NEW c \in {Slash}, u \in T  PROVE  Append(u, c) \in T
  <2>1. ReadAll(Append(u, c), Slash, Ignored) = ReadNext(NothingRead, Slash, Slash, Ignored)
    BY <1>2, ReadAllAppend
  <2>2. ReadNext(NothingRead, Slash, Slash, Ignored) = NothingRead
    BY DEF ReadNext, NothingRead, Close, Ignored
  <2>. QED
    BY <2>1, <2>2
<1>3. Seq({Slash}) \subseteq T
  <2>. HIDE DEF T
  <2>. QED
    BY <1>1, <1>2, SequenceInduction
<1>. QED
  BY <1>3

\* trim_start_matches takes slashes off, which no component is made of.
LEMMA TrimSlashesIsRest ==
    ASSUME NEW S, Slash \in S, NEW path \in Seq(S)
    PROVE  /\ TrimSlashes(path) \in Seq(S)
           /\ \E slashes \in Seq({Slash}) : path = slashes \o TrimSlashes(path)
<1>. DEFINE plain == {i \in 1..Len(path) : path[i] # Slash}
            rest == TrimSlashes(path)
<1>1. Len(path) \in Nat /\ plain \subseteq 1..Len(path) /\ plain \subseteq Nat
      /\ path \in [1..Len(path) -> S]
  OBVIOUS
<1>2. CASE plain = {}
  <2>1. rest = <<>>
    BY <1>2 DEF TrimSlashes
  <2>2. \A i \in 1..Len(path) : path[i] = Slash
    BY <1>2
  <2>3. SubSeq(path, 1, Len(path)) = path
    BY SubSeqFull
  <2>4. SubSeq(path, 1, Len(path)) \in Seq({Slash})
    BY <1>1, <2>2, SubSeqProperties
  <2>5. path \o <<>> = path
    OBVIOUS
  <2>6. <<>> \in Seq(S)
    OBVIOUS
  <2>. QED
    BY <2>1, <2>3, <2>4, <2>5, <2>6, Zenon
<1>3. CASE plain # {}
  <2>. DEFINE first == CHOOSE i \in plain : \A j \in plain : i <= j
              slashes == SubSeq(path, 1, first - 1)
  <2>1. \E i \in plain : \A j \in plain : i <= j
    <3>. HIDE DEF plain
    <3>. QED
      BY <1>1, <1>3, LeastNumber
  <2>2. first \in plain /\ \A j \in plain : first <= j
    <3>. HIDE DEF plain
    <3>. QED
      BY <2>1
  <2>3. rest = SubSeq(path, first, Len(path))
    BY <1>3, Zenon DEF TrimSlashes
  <2>. HIDE DEF first
  <2>4. first \in 1..Len(path) /\ \A i \in 1..(first - 1) : path[i] = Slash
    BY <1>1, <2>2
  <2>5. slashes \in Seq({Slash})
    BY <2>4, SubSeqProperties
  <2>6. rest \in Seq(S)
    BY <1>1, <2>3, <2>4
  <2>7. path = slashes \o rest
    <3>1. SubSeq(path, 1, first - 1) \o SubSeq(path, (first - 1) + 1, Len(path)) = SubSeq(path, 1, Len(path))
      <4>1. 1 \in 1..(Len(path) + 1) /\ first - 1 \in (1 - 1)..Len(path) /\ Len(path) \in (first - 1)..Len(path)
        BY <1>1, <2>4
      <4>. QED
        BY <4>1, ConcatAdjacentSubSeq
    <3>2. (first - 1) + 1 = first
      BY <1>1, <2>4
    <3>3. SubSeq(path, 1, Len(path)) = path
      BY SubSeqFull
    <3>. QED
      BY <2>3, <3>1, <3>2, <3>3
  <2>. HIDE DEF slashes
  <2>. QED
    BY <2>5, <2>6, <2>7
<1>. QED
  BY <1>2, <1>3

\* Nor do they separate any: the components are the same without them.
LEMMA TrimSlashesKeepsComponents ==
    ASSUME NEW S, Slash \in S, NEW path \in Seq(S)
    PROVE  Components(TrimSlashes(path)) = Components(path)
<1>1. PICK slashes \in Seq({Slash}) : path = slashes \o TrimSlashes(path)
  BY TrimSlashesIsRest
<1>2. TrimSlashes(path) \in Seq(S) /\ slashes \in Seq(S)
  BY TrimSlashesIsRest, SeqMonotonic
<1>3. ReadAll(slashes, Slash, Ignored) = NothingRead
  BY SlashesRead
<1>4. ReadAll(slashes \o TrimSlashes(path), Slash, Ignored) = ReadAll(TrimSlashes(path), Slash, Ignored)
  BY <1>2, <1>3, ReadOver
<1>. QED
  BY <1>1, <1>4, Zenon DEF Components

\* A path that storage_relative_path lets through has the components of the mount,
\* and behind them those of the relative path, none of which is "..".
THEOREM RelativeIsBelowMount ==
    ASSUME NEW S, Slash \in S, NEW mount \in Seq(S), NEW path \in Seq(S),
           StorageRelativePath(mount, path) # Refused
    PROVE  LET relative == StorageRelativePath(mount, path) IN
           /\ relative \in Seq(S)
           /\ ~Contains(Components(relative), Parent)
           /\ Components(path) = Components(mount) \o Components(relative)
<1>. DEFINE rest == SubSeq(path, Len(mount) + 1, Len(path))
            relative == StorageRelativePath(mount, path)
<1>1. /\ IsPrefix(mount, path) /\ relative = TrimSlashes(rest)
      /\ rest = <<>> \/ Head(rest) = Slash
      /\ ~Contains(Components(TrimSlashes(rest)), Parent)
  BY Zenon DEF StorageRelativePath
<1>2. path = mount \o rest /\ rest \in Seq(S)
  BY <1>1 DEF IsPrefix
<1>. HIDE DEF rest
<1>3. rest = <<>> \/ rest[1] = Slash
  BY <1>1, <1>2
<1>4. Components(path) = Components(mount) \o Components(rest)
  BY <1>2, <1>3, ComponentsConcat
<1>. QED
  BY <1>1, <1>2, <1>4, TrimSlashesIsRest, TrimSlashesKeepsComponents, Zenon

-----------------------------------------------------------------------------
(* Concatenation of a sequence of texts.                                   *)

ConcatStep(P) == [x \in P \X P |-> x[1] \o x[2]]

\* FlattenSeq is what the machine that appends one text after the other ends with.
LEMMA FlattenRuns ==
    ASSUME NEW S, NEW texts \in Seq(Seq(S))
    PROVE  \E f : /\ Runs(f, ConcatStep(Seq(S)), <<>>, Seq(S), texts)
                  /\ FlattenSeq(texts) = f[Len(texts)]
<1>. DEFINE P == Seq(S)
            N == Len(texts)
            step == ConcatStep(P)
            Body(f) == [i \in 1..N |-> IF i = 1 THEN texts[i] ELSE f[i - 1] \o texts[i]]
            chosen == CHOOSE f : f = Body(f)
<1>1. N \in Nat /\ (\A n \in 1..N : texts[n] \in P) /\ <<>> \in P /\ texts \in Seq(P)
  OBVIOUS
<1>2. step \in [P \X P -> P] /\ \A x \in P, y \in P : step[<<x, y>>] = x \o y
  <2>1. \A x \in P, y \in P : x \o y \in P
    OBVIOUS
  <2>. HIDE DEF P
  <2>. QED
    BY <2>1 DEF ConcatStep
<1>3. \A x \in P : <<>> \o x = x
  OBVIOUS
<1>. HIDE DEF step
<1>4. PICK f : Runs(f, step, <<>>, P, texts)
  <2>. HIDE DEF P
  <2>. QED
    BY <1>1, <1>2, RunExists
<1>. HIDE DEF P, N
<1>5. /\ f \in [0..N -> P] /\ f[0] = <<>>
      /\ \A n \in 1..N : f[n] = f[n - 1] \o texts[n]
  <2>1. f \in [0..N -> P] /\ f[0] = <<>> /\ \A n \in 1..N : f[n] = step[<<f[n - 1], texts[n]>>]
    BY <1>4 DEF Runs, N
  <2>2. \A n \in 1..N : f[n - 1] \in P /\ texts[n] \in P
    BY <1>1, <2>1
  <2>. QED
    BY <1>2, <2>1, <2>2
<1>6. \E g : g = Body(g)
  <2>. DEFINE g == [i \in 1..N |-> f[i]]
  <2>1. ASSUME NEW i \in 1..N  PROVE  g[i] = IF i = 1 THEN texts[i] ELSE g[i - 1] \o texts[i]
    <3>1. g[i] = f[i] /\ f[i] = f[i - 1] \o texts[i] /\ texts[i] \in P
      BY <1>1, <1>5
    <3>2. CASE i = 1
      <4>1. f[i - 1] = <<>>
        BY <1>5, <3>2
      <4>. QED
        BY <1>3, <3>1, <3>2, <4>1
    <3>3. CASE i # 1
      <4>1. g[i - 1] = f[i - 1]
        BY <1>1, <3>3
      <4>. QED
        BY <3>1, <3>3, <4>1
    <3>. QED
      BY <3>2, <3>3
  <2>2. g = Body(g)
    <3>1. g = [i \in 1..N |-> g[i]]
      OBVIOUS
    <3>. HIDE DEF g
    <3>. QED
      BY <2>1, <3>1
  <2>. QED
    BY <2>2
<1>7. chosen = Body(chosen)
  <2>. HIDE DEF Body
  <2>. QED
    BY <1>6
<1>8. N # 0 => FlattenSeq(texts) = chosen[N]
  BY DEF FlattenSeq, N
<1>. HIDE DEF chosen
<1>9. \A n \in 1..N : chosen[n] = f[n]
  <2>. DEFINE U == {n \in 0..N : n # 0 => chosen[n] = f[n]}
  <2>1. 0 \in U
    BY <1>1
  <2>2. ASSUME NEW n \in 1..N, n - 1 \in U  PROVE  n \in U
    <3>1. chosen[n] = IF n = 1 THEN texts[n] ELSE chosen[n - 1] \o texts[n]
      BY <1>7
    <3>2. CASE n = 1
      <4>0. n - 1 = 0
        BY <3>2
      <4>1. f[n] = f[n - 1] \o texts[n] /\ f[n - 1] = <<>> /\ texts[n] \in P
        BY <1>1, <1>5, <4>0, Zenon
      <4>. QED
        BY <1>1, <1>3, <3>1, <3>2, <4>1
    <3>3. CASE n # 1
      <4>1. n - 1 # 0 /\ n - 1 \in U
        BY <2>2, <3>3
      <4>2. chosen[n - 1] = f[n - 1] /\ chosen[n] = chosen[n - 1] \o texts[n]
        BY <3>1, <3>3, <4>1, Zenon
      <4>3. n \in 0..N
        BY <1>1
      <4>. QED
        BY <1>5, <4>2, <4>3, Zenon
    <3>. QED
      BY <3>2, <3>3
  <2>3. 0..N \subseteq U
    <3>. HIDE DEF U
    <3>. QED
      BY <1>1, <2>1, <2>2, Induction
  <2>. QED
    BY <1>1, <2>3
<1>10. FlattenSeq(texts) = f[N]
  <2>1. CASE N = 0
    <3>1. texts = <<>> /\ FlattenSeq(texts) = texts
      BY <2>1 DEF FlattenSeq, N
    <3>. QED
      BY <1>5, <2>1, <3>1
  <2>2. CASE N # 0
    BY <1>1, <1>8, <1>9, <2>2
  <2>. QED
    BY <2>1, <2>2
<1>. QED
  BY <1>4, <1>10 DEF step, N, P

\* What FlattenSeq computes, one text at a time.
LEMMA FlattenEmpty == FlattenSeq(<<>>) = <<>>
BY DEF FlattenSeq

\* Texts put together are a text.
LEMMA FlattenType ==
    ASSUME NEW S, NEW texts \in Seq(Seq(S))
    PROVE  FlattenSeq(texts) \in Seq(S)
<1>1. PICK f : Runs(f, ConcatStep(Seq(S)), <<>>, Seq(S), texts) /\ FlattenSeq(texts) = f[Len(texts)]
  BY FlattenRuns
<1>2. Len(texts) \in 0..Len(texts)
  OBVIOUS
<1>. QED
  BY <1>1, <1>2, Zenon DEF Runs

\* The last text comes last.
LEMMA FlattenAppend ==
    ASSUME NEW S, NEW texts \in Seq(Seq(S)), NEW x \in Seq(S)
    PROVE  FlattenSeq(Append(texts, x)) = FlattenSeq(texts) \o x
<1>. DEFINE P == Seq(S)  step == ConcatStep(P)  longer == Append(texts, x)
<1>1. longer \in Seq(P)
  OBVIOUS
<1>2. PICK f : Runs(f, step, <<>>, P, texts) /\ FlattenSeq(texts) = f[Len(texts)]
  BY FlattenRuns
<1>3. PICK g : Runs(g, step, <<>>, P, longer) /\ FlattenSeq(longer) = g[Len(longer)]
  <2>. HIDE DEF longer
  <2>. QED
    BY <1>1, FlattenRuns
<1>4. f[Len(texts)] \in P /\ g[Len(longer)] = step[<<f[Len(texts)], x>>]
  <2>. HIDE DEF step, P
  <2>1. RunsOn(step, <<>>, P, texts, x)
    <3>1. texts \in Seq(P) /\ x \in P
      BY DEF P
    <3>. QED
      BY <3>1, RunAppend
  <2>. QED
    BY <1>2, <1>3, <2>1 DEF RunsOn
<1>5. step[<<f[Len(texts)], x>>] = f[Len(texts)] \o x
  BY <1>4 DEF ConcatStep
<1>. QED
  BY <1>2, <1>3, <1>4, <1>5, Zenon

\* The concatenation of what comes before and of what comes behind.
LEMMA FlattenConcat ==
    ASSUME NEW S, NEW before \in Seq(Seq(S))
    PROVE  \A texts \in Seq(Seq(S)) :
              FlattenSeq(before \o texts) = FlattenSeq(before) \o FlattenSeq(texts)
<1>. DEFINE P == Seq(S)
            T == {u \in Seq(P) : FlattenSeq(before \o u) = FlattenSeq(before) \o FlattenSeq(u)}
<1>1. <<>> \in T
  <2>1. before \o <<>> = before /\ <<>> \in Seq(P)
    OBVIOUS
  <2>2. FlattenSeq(before) \o <<>> = FlattenSeq(before)
    BY FlattenType
  <2>. QED
    BY <2>1, <2>2, FlattenEmpty
<1>2. ASSUME NEW u \in Seq(P), NEW x \in P, u \in T  PROVE  Append(u, x) \in T
  <2>. DEFINE a == FlattenSeq(before)  b == FlattenSeq(u)
  <2>1. a \in P /\ b \in P /\ x \in P
    BY FlattenType
  <2>2. before \o Append(u, x) = Append(before \o u, x) /\ before \o u \in Seq(P) /\ Append(u, x) \in Seq(P)
    <3>. HIDE DEF P
    <3>1. before \in Seq(P)
      BY DEF P
    <3>. QED
      BY <3>1, AppendToConcat
  <2>3. FlattenSeq(Append(before \o u, x)) = FlattenSeq(before \o u) \o x
        /\ FlattenSeq(Append(u, x)) = b \o x
    BY <2>2, FlattenAppend
  <2>4. (a \o b) \o x = a \o (b \o x)
    <3>. HIDE DEF a, b
    <3>. QED
      BY <2>1, ConcatAssociative
  <2>5. FlattenSeq(before \o u) = a \o b
    BY <1>2
  <2>. HIDE DEF a, b
  <2>6. FlattenSeq(before \o Append(u, x)) = a \o FlattenSeq(Append(u, x))
    BY <2>2, <2>3, <2>4, <2>5, Zenon
  <2>. QED
    BY <2>2, <2>6 DEF a
<1>3. Seq(P) \subseteq T
  <2>. HIDE DEF T, P
  <2>. QED
    BY <1>1, <1>2, SequenceInduction
<1>. QED
  BY <1>3

-----------------------------------------------------------------------------
(* Canonical paths.                                                        *)

Spelled(components) == [i \in 1..Len(components) |-> <<Slash>> \o components[i]]

\* Every component is written behind a slash.
LEMMA SpelledIs ==
    ASSUME NEW S, Slash \in S, NEW c \in Seq(Seq(S))
    PROVE  /\ Spelled(c) \in Seq(Seq(S)) /\ Len(Spelled(c)) = Len(c)
           /\ \A i \in 1..Len(c) : Spelled(c)[i] = <<Slash>> \o c[i]
<1>. DEFINE P == Seq(S)
<1>1. (\A x \in P : <<Slash>> \o x \in P) /\ (\A i \in 1..Len(c) : c[i] \in P) /\ Len(c) \in Nat
  OBVIOUS
<1>. HIDE DEF P
<1>2. \A i \in 1..Len(c) : <<Slash>> \o c[i] \in P
  BY <1>1
<1>3. Spelled(c) \in Seq(P) /\ Len(Spelled(c)) = Len(c)
      /\ \A i \in 1..Len(c) : Spelled(c)[i] = <<Slash>> \o c[i]
  BY <1>1, <1>2 DEF Spelled
<1>. QED
  BY <1>3 DEF P

\* Join spells the components one after the other.
LEMMA JoinConcat ==
    ASSUME NEW S, Slash \in S, NEW a \in Seq(Seq(S)), NEW b \in Seq(Seq(S))
    PROVE  /\ Join(a \o b) = Join(a) \o Join(b)
           /\ Join(a) \in Seq(S)
<1>. DEFINE P == Seq(S)
<1>1. \A c \in Seq(P) :
         /\ Spelled(c) \in Seq(P) /\ Len(Spelled(c)) = Len(c)
         /\ \A i \in 1..Len(c) : Spelled(c)[i] = <<Slash>> \o c[i]
  BY SpelledIs
<1>2. Spelled(a \o b) = Spelled(a) \o Spelled(b)
  <2>. DEFINE both == a \o b  sa == Spelled(a)  sb == Spelled(b)  sboth == Spelled(both)
  <2>0. a \in Seq(P) /\ b \in Seq(P)
    OBVIOUS
  <2>. HIDE DEF P
  <2>1. /\ both \in Seq(P) /\ Len(both) = Len(a) + Len(b) /\ Len(a) \in Nat /\ Len(b) \in Nat
        /\ \A i \in 1..(Len(a) + Len(b)) : both[i] = IF i <= Len(a) THEN a[i] ELSE b[i - Len(a)]
    BY <2>0
  <2>. HIDE DEF both
  <2>2. /\ sa \in Seq(P) /\ sb \in Seq(P) /\ sboth \in Seq(P)
        /\ Len(sa) = Len(a) /\ Len(sb) = Len(b) /\ Len(sboth) = Len(both)
        /\ \A i \in 1..Len(a) : sa[i] = <<Slash>> \o a[i]
        /\ \A i \in 1..Len(b) : sb[i] = <<Slash>> \o b[i]
        /\ \A i \in 1..Len(both) : sboth[i] = <<Slash>> \o both[i]
    BY <1>1, <2>0, <2>1
  <2>. HIDE DEF sa, sb, sboth
  <2>3. /\ sa \o sb \in Seq(P) /\ Len(sa \o sb) = Len(a) + Len(b)
        /\ \A i \in 1..(Len(a) + Len(b)) : (sa \o sb)[i] = IF i <= Len(a) THEN sa[i] ELSE sb[i - Len(a)]
    <3>0. sa \in Seq(P) /\ sb \in Seq(P)
      BY <2>2
    <3>1. /\ sa \o sb \in Seq(P) /\ Len(sa \o sb) = Len(sa) + Len(sb)
          /\ \A i \in 1..(Len(sa) + Len(sb)) : (sa \o sb)[i] = IF i <= Len(sa) THEN sa[i] ELSE sb[i - Len(sa)]
      BY <3>0, ConcatProperties, Zenon
    <3>. QED
      BY <2>2, <3>1, Zenon
  <2>4. ASSUME NEW i \in 1..(Len(a) + Len(b))  PROVE  sboth[i] = (sa \o sb)[i]
    <3>1. CASE i <= Len(a)
      <4>1. i \in 1..Len(a) /\ i \in 1..Len(both)
        BY <2>1, <3>1
      <4>2. sboth[i] = <<Slash>> \o a[i] /\ sa[i] = <<Slash>> \o a[i] /\ (sa \o sb)[i] = sa[i]
        BY <2>1, <2>2, <2>3, <3>1, <4>1, Zenon
      <4>. QED
        BY <4>2, Zenon
    <3>2. CASE ~(i <= Len(a))
      <4>. DEFINE j == i - Len(a)
      <4>1. j \in 1..Len(b) /\ i \in 1..Len(both)
        BY <2>1, <3>2
      <4>2. sboth[i] = <<Slash>> \o b[j] /\ sb[j] = <<Slash>> \o b[j] /\ (sa \o sb)[i] = sb[j]
        BY <2>1, <2>2, <2>3, <3>2, <4>1, Zenon
      <4>. QED
        BY <4>2, Zenon
    <3>. QED
      BY <3>1, <3>2
  <2>5. sboth = sa \o sb
    <3>1. Len(sboth) = Len(sa \o sb) /\ \A i \in 1..Len(sboth) : sboth[i] = (sa \o sb)[i]
      BY <2>1, <2>2, <2>3, <2>4, Zenon
    <3>. QED
      BY <2>2, <2>3, <3>1, SeqEqual
  <2>. QED
    BY <2>5 DEF sboth, sa, sb, both
<1>3. Spelled(a) \in Seq(P) /\ Spelled(b) \in Seq(P)
  BY <1>1
<1>4. FlattenSeq(Spelled(a) \o Spelled(b)) = FlattenSeq(Spelled(a)) \o FlattenSeq(Spelled(b))
      /\ FlattenSeq(Spelled(a)) \in Seq(S)
  BY <1>3, FlattenConcat, FlattenType
<1>5. \A c : Join(c) = FlattenSeq(Spelled(c))
  BY Zenon DEF Join, Spelled
<1>. QED
  BY <1>2, <1>4, <1>5, Zenon

\* What it spells begins with a slash, if there is anything to spell.
LEMMA JoinHead ==
    ASSUME NEW S, Slash \in S, NEW c \in Seq(Seq(S))
    PROVE  Join(c) = <<>> \/ (Join(c) # <<>> /\ Head(Join(c)) = Slash)
<1>1. CASE c = <<>>
  <2>1. Join(c) = FlattenSeq(<<>>)
    BY <1>1 DEF Join
  <2>. QED
    BY <2>1, FlattenEmpty
<1>2. CASE c # <<>>
  <2>. DEFINE P == Seq(S)  x == c[1]  u == <<Slash>> \o x  rest == Join(Tail(c))
  <2>1. x \in P /\ Tail(c) \in Seq(P) /\ c = <<x>> \o Tail(c) /\ <<x>> \in Seq(P)
    <3>. HIDE DEF P
    <3>1. c \in Seq(P)
      BY DEF P
    <3>2. Len(c) \in 1..Len(c) /\ 1 \in 1..Len(c)
      BY <1>2, <3>1
    <3>3. SubSeq(c, 1, Len(c)) = <<c[1]>> \o SubSeq(c, 1 + 1, Len(c)) /\ SubSeq(c, 1, Len(c)) = c
      BY <3>1, <3>2, SubSeqRecursiveFirst, SubSeqFull
    <3>4. Tail(c) = SubSeq(c, 2, Len(c))
      BY <1>2, <3>1, TailIsSubSeq
    <3>. QED
      BY <1>2, <3>1, <3>2, <3>3, <3>4
  <2>2. Join(c) = Join(<<x>>) \o rest /\ rest \in Seq(S)
    BY <2>1, JoinConcat
  <2>3. u \in P /\ <<u>> = Append(<<>>, u) /\ <<>> \o u = u
    BY <2>1
  <2>4. Join(<<x>>) = FlattenSeq(<<u>>)
    <3>1. /\ Spelled(<<x>>) \in Seq(P) /\ Len(Spelled(<<x>>)) = Len(<<x>>)
          /\ \A i \in 1..Len(<<x>>) : Spelled(<<x>>)[i] = <<Slash>> \o <<x>>[i]
      BY <2>1, SpelledIs
    <3>2. Len(<<x>>) = 1 /\ <<x>>[1] = x
      OBVIOUS
    <3>. DEFINE y == Spelled(<<x>>)
    <3>3. y \in Seq(P) /\ Len(y) = 1 /\ y[1] = u
      <4>1. y \in Seq(P) /\ Len(y) = 1
        BY <3>1, <3>2, Zenon
      <4>2. 1 \in 1..Len(<<x>>)
        BY <3>2
      <4>3. y[1] = <<Slash>> \o <<x>>[1]
        BY <3>1, <4>2, Zenon
      <4>. QED
        BY <3>2, <4>1, <4>3, Zenon
    <3>. HIDE DEF y, u, P
    <3>4. y = <<u>>
      BY <3>3
    <3>. QED
      BY <3>4, Zenon DEF Join, Spelled, y
  <2>5. FlattenSeq(<<u>>) = u
    <3>0. <<>> \in Seq(Seq(S))
      OBVIOUS
    <3>1. FlattenSeq(Append(<<>>, u)) = FlattenSeq(<<>>) \o u
      <4>. HIDE DEF u
      <4>. QED
        BY <2>3, <3>0, FlattenAppend
    <3>. QED
      BY <2>3, <3>1, FlattenEmpty
  <2>. HIDE DEF rest
  <2>6. Join(c) = u \o rest
    BY <2>2, <2>4, <2>5
  <2>. HIDE DEF x
  <2>7. u \o rest # <<>> /\ Head(u \o rest) = Slash
    BY <2>1, <2>2
  <2>. QED
    BY <2>6, <2>7
<1>. QED
  BY <1>1, <1>2

\* Between canonical paths, "below the mount" is what storage_relative_path finds.
THEOREM CanonicalIsServed ==
    ASSUME NEW S, Slash \in S, NEW mount \in Seq(S), NEW path \in Seq(S), Refused \notin Seq(S),
           Canonical(mount), Canonical(path), IsPrefix(Components(mount), Components(path))
    PROVE  StorageRelativePath(mount, path) # Refused
<1>. DEFINE P == Seq(S)  cm == Components(mount)  cp == Components(path)
            c == SubSeq(cp, Len(cm) + 1, Len(cp))
            rest == SubSeq(path, Len(mount) + 1, Len(path))
<1>1. cm \in Seq(P) /\ cp \in Seq(P)
  BY ComponentsType
<1>2. c \in Seq(P) /\ cp = cm \o c
  <2>. HIDE DEF P, cm, cp
  <2>1. IsPrefix(cm, cp)
    BY DEF cm, cp
  <2>. QED
    BY <1>1, <2>1 DEF IsPrefix
<1>. HIDE DEF c
<1>3. mount = Join(cm) /\ path = Join(cp)
  BY DEF Canonical
<1>4. path = mount \o Join(c) /\ Join(c) \in Seq(S)
  BY <1>1, <1>2, <1>3, JoinConcat
<1>5. IsPrefix(mount, path) /\ rest = Join(c)
  <2>. DEFINE j == Join(c)
  <2>1. path = mount \o j /\ j \in Seq(S)
    BY <1>4
  <2>. HIDE DEF j
  <2>2. IsPrefix(mount, path)
    BY <2>1 DEF IsPrefix
  <2>3. rest = j
    BY <2>1
  <2>. QED
    BY <2>2, <2>3 DEF j
<1>6. rest = <<>> \/ Head(rest) = Slash
  BY <1>2, <1>5, JoinHead
<1>7. rest \in Seq(S) /\ (rest = <<>> \/ rest[1] = Slash)
  BY <1>4, <1>5, <1>6
<1>8. cp = cm \o Components(rest) /\ Components(rest) \in Seq(P)
  BY <1>4, <1>5, <1>7, ComponentsConcat, ComponentsType
<1>9. ~Contains(Components(rest), Parent)
  <2>. DEFINE r == Components(rest)
  <2>. HIDE DEF P, cm, cp, r
  <2>1. cp = cm \o r /\ r \in Seq(P)
    BY <1>8 DEF r
  <2>2. ASSUME NEW i \in 1..Len(r), r[i] = Parent  PROVE  FALSE
    <3>1. Len(cm) + i \in 1..Len(cp) /\ cp[Len(cm) + i] = r[i]
      BY <1>1, <2>1
    <3>2. ~Contains(cp, Parent)
      BY DEF Canonical, cp
    <3>. QED
      BY <2>2, <3>1, <3>2 DEF Contains
  <2>. QED
    BY <2>2 DEF Contains, r
<1>10. TrimSlashes(rest) \in Seq(S) /\ Components(TrimSlashes(rest)) = Components(rest)
  BY <1>7, TrimSlashesIsRest, TrimSlashesKeepsComponents
<1>11. StorageRelativePath(mount, path) = TrimSlashes(rest)
  BY <1>5, <1>6, <1>9, <1>10, Zenon DEF StorageRelativePath
<1>. QED
  BY <1>10, <1>11

-----------------------------------------------------------------------------
(* Base64.                                                                 *)

Byte == 0..255

\* Four characters give back the bytes they were made of: three, two or one.
LEMMA DecodeThree ==
    ASSUME NEW x \in Byte, NEW y \in Byte, NEW z \in Byte
    PROVE  DecodeGroup(x \div 4, (x % 4) * 16 + y \div 16, (y % 16) * 4 + z \div 64, z % 64)
             = <<x, y, z>>
<1>. DEFINE a == x \div 4  b == (x % 4) * 16 + y \div 16  c == (y % 16) * 4 + z \div 64  d == z % 64
<1>1. (a * 4 + b \div 16) % 256 = x /\ (b % 16) * 16 + c \div 4 = y /\ (c % 4) * 64 + d = z
  BY DEF Byte
<1>2. c # Pad /\ d # Pad
  BY DEF Byte, Pad
<1>. HIDE DEF a, b, c, d
<1>3. DecodeGroup(a, b, c, d) = <<x>> \o <<y>> \o <<z>>
  BY <1>1, <1>2 DEF DecodeGroup
<1>4. <<x>> \o <<y>> \o <<z>> = <<x, y, z>>
  <2>. DEFINE t == <<x>> \o <<y>> \o <<z>>
  <2>1. t \in Seq(Byte) /\ Len(t) = 3 /\ t[1] = x /\ t[2] = y /\ t[3] = z
    OBVIOUS
  <2>. HIDE DEF t
  <2>2. t = <<x, y, z>>
    BY <2>1
  <2>. QED
    BY <2>2 DEF t
<1>. QED
  BY <1>3, <1>4, Zenon DEF a, b, c, d

\* A group with one padding character holds two bytes.
LEMMA DecodeTwo ==
    ASSUME NEW x \in Byte, NEW y \in Byte
    PROVE  DecodeGroup(x \div 4, (x % 4) * 16 + y \div 16, (y % 16) * 4 + 0 \div 64, Pad) = <<x, y>>
<1>. DEFINE a == x \div 4  b == (x % 4) * 16 + y \div 16  c == (y % 16) * 4 + 0 \div 64
<1>1. (a * 4 + b \div 16) % 256 = x /\ (b % 16) * 16 + c \div 4 = y
  BY DEF Byte
<1>2. c # Pad
  BY DEF Byte, Pad
<1>. HIDE DEF a, b, c
<1>3. DecodeGroup(a, b, c, Pad) = <<x>> \o <<y>> \o <<>>
  BY <1>1, <1>2 DEF DecodeGroup
<1>4. <<x>> \o <<y>> \o <<>> = <<x, y>>
  <2>. DEFINE t == <<x>> \o <<y>> \o <<>>
  <2>1. t \in Seq(Byte) /\ Len(t) = 2 /\ t[1] = x /\ t[2] = y
    OBVIOUS
  <2>. HIDE DEF t
  <2>2. t = <<x, y>>
    BY <2>1
  <2>. QED
    BY <2>2 DEF t
<1>. QED
  BY <1>3, <1>4, Zenon DEF a, b, c

\* A group with two padding characters holds one byte.
LEMMA DecodeOne ==
    ASSUME NEW x \in Byte
    PROVE  DecodeGroup(x \div 4, (x % 4) * 16 + 0 \div 16, Pad, Pad) = <<x>>
<1>. DEFINE a == x \div 4  b == (x % 4) * 16 + 0 \div 16
<1>1. (a * 4 + b \div 16) % 256 = x
  BY DEF Byte
<1>. HIDE DEF a, b
<1>2. DecodeGroup(a, b, Pad, Pad) = <<x>> \o <<>> \o <<>>
  BY <1>1 DEF DecodeGroup
<1>. QED
  BY <1>2 DEF a, b

\* How many bytes the first k groups hold.
Held(bytes, k) == IF 3 * k <= Len(bytes) THEN 3 * k ELSE Len(bytes)

\* Every group of characters is decoded to the bytes it was made of.
LEMMA GroupDecodes ==
    ASSUME NEW bytes \in Seq(Byte), NEW j \in Nat, 3 * j < Len(bytes)
    PROVE  DecodeGroup(Base64Character(bytes, 4 * j), Base64Character(bytes, 4 * j + 1),
                       Base64Character(bytes, 4 * j + 2), Base64Character(bytes, 4 * j + 3))
             = SubSeq(bytes, 3 * j + 1, Held(bytes, j + 1))
<1>. DEFINE n == Len(bytes)  i == 3 * j
            x == bytes[i + 1]  y == bytes[i + 2]  z == bytes[i + 3]
<1>1. /\ n \in Nat /\ i \in Nat /\ i + 1 <= n
      /\ \A k \in 1..n : bytes[k] \in Byte
  OBVIOUS
<1>2. /\ (4 * j) \div 4 = j /\ (4 * j) % 4 = 0
      /\ (4 * j + 1) \div 4 = j /\ (4 * j + 1) % 4 = 1
      /\ (4 * j + 2) \div 4 = j /\ (4 * j + 2) % 4 = 2
      /\ (4 * j + 3) \div 4 = j /\ (4 * j + 3) % 4 = 3
  OBVIOUS
<1>. DEFINE Y == IF i + 2 <= n THEN y ELSE 0
            Z == IF i + 3 <= n THEN z ELSE 0
            X == IF i + 1 <= n THEN x ELSE 0
<1>. HIDE DEF x, y, z
<1>0. X = x
  BY <1>1
<1>3. Base64Character(bytes, 4 * j) = x \div 4
  <2>1. Base64Character(bytes, 4 * j) = X \div 4
    <3>. DEFINE p == 4 * j
    <3>1. p \div 4 = j /\ p % 4 = 0
      BY <1>2
    <3>. HIDE DEF p
    <3>2. Base64Character(bytes, p) = X \div 4
      BY <1>1, <3>1 DEF Base64Character, x
    <3>. QED
      BY <3>2 DEF p
  <2>. QED
    BY <1>0, <2>1, Zenon
<1>4. Base64Character(bytes, 4 * j + 1) = (x % 4) * 16 + Y \div 16
  <2>1. Base64Character(bytes, 4 * j + 1) = (X % 4) * 16 + Y \div 16
    <3>. DEFINE p == 4 * j + 1
    <3>1. p \div 4 = j /\ p % 4 = 1
      BY <1>2
    <3>. HIDE DEF p
    <3>2. Base64Character(bytes, p) = (X % 4) * 16 + Y \div 16
      BY <1>1, <3>1 DEF Base64Character, x, y
    <3>. QED
      BY <3>2 DEF p
  <2>. QED
    BY <1>0, <2>1, Zenon
<1>. USE DEF x, y, z
<1>5. Base64Character(bytes, 4 * j + 2) = IF i + 2 <= n THEN (Y % 16) * 4 + Z \div 64 ELSE Pad
  BY <1>1, <1>2 DEF Base64Character
<1>6. Base64Character(bytes, 4 * j + 3) = IF i + 3 <= n THEN Z % 64 ELSE Pad
  BY <1>1, <1>2 DEF Base64Character
<1>. DEFINE end == Held(bytes, j + 1)  part == SubSeq(bytes, i + 1, end)
            D == DecodeGroup(Base64Character(bytes, 4 * j), Base64Character(bytes, 4 * j + 1),
                       Base64Character(bytes, 4 * j + 2), Base64Character(bytes, 4 * j + 3))
<1>. HIDE DEF D
<1>7. CASE i + 3 <= n
  <2>1. x \in Byte /\ y \in Byte /\ z \in Byte /\ Y = y /\ Z = z
    BY <1>1, <1>7
  <2>2. D = DecodeGroup(x \div 4, (x % 4) * 16 + y \div 16, (y % 16) * 4 + z \div 64, z % 64)
    <3>1. i + 2 <= n
      BY <1>1, <1>7
    <3>. QED
      BY <1>3, <1>4, <1>5, <1>6, <1>7, <2>1, <3>1, Zenon DEF D
  <2>3. D = <<x, y, z>>
    <3>. HIDE DEF x, y, z
    <3>. QED
      BY <2>1, <2>2, DecodeThree, Zenon
  <2>4. end = i + 3
    BY <1>1, <1>7 DEF Held
  <2>5. part = <<x, y, z>>
    <3>. HIDE DEF end
    <3>1. /\ part \in Seq(Byte) /\ Len(part) = 3
          /\ part[1] = x /\ part[2] = y /\ part[3] = z
      BY <1>1, <1>7, <2>4
    <3>. HIDE DEF part, x, y, z
    <3>. QED
      BY <3>1
  <2>. QED
    BY <2>3, <2>5 DEF D
<1>8. CASE i + 2 = n
  <2>1. x \in Byte /\ y \in Byte /\ Y = y /\ Z = 0
    BY <1>1, <1>8
  <2>2. D = DecodeGroup(x \div 4, (x % 4) * 16 + y \div 16, (y % 16) * 4 + 0 \div 64, Pad)
    <3>1. i + 2 <= n /\ ~(i + 3 <= n)
      BY <1>1, <1>8
    <3>. QED
      BY <1>3, <1>4, <1>5, <1>6, <2>1, <3>1, Zenon DEF D
  <2>3. D = <<x, y>>
    <3>. HIDE DEF x, y
    <3>. QED
      BY <2>1, <2>2, DecodeTwo, Zenon
  <2>4. end = i + 2
    BY <1>1, <1>8 DEF Held
  <2>5. part = <<x, y>>
    <3>. HIDE DEF end
    <3>1. /\ part \in Seq(Byte) /\ Len(part) = 2
          /\ part[1] = x /\ part[2] = y
      BY <1>1, <1>8, <2>4
    <3>. HIDE DEF part, x, y
    <3>. QED
      BY <3>1
  <2>. QED
    BY <2>3, <2>5 DEF D
<1>9. CASE i + 1 = n
  <2>1. x \in Byte /\ Y = 0
    BY <1>1, <1>9
  <2>2. D = DecodeGroup(x \div 4, (x % 4) * 16 + 0 \div 16, Pad, Pad)
    <3>1. ~(i + 2 <= n) /\ ~(i + 3 <= n)
      BY <1>1, <1>9
    <3>. QED
      BY <1>3, <1>4, <1>5, <1>6, <2>1, <3>1, Zenon DEF D
  <2>3. D = <<x>>
    <3>. HIDE DEF x
    <3>. QED
      BY <2>1, <2>2, DecodeOne, Zenon
  <2>4. end = i + 1
    BY <1>1, <1>9 DEF Held
  <2>5. part = <<x>>
    <3>. HIDE DEF end
    <3>1. part \in Seq(Byte) /\ Len(part) = 1 /\ part[1] = x
      BY <1>1, <1>9, <2>4
    <3>. HIDE DEF part, x
    <3>. QED
      BY <3>1
  <2>. QED
    BY <2>3, <2>5 DEF D
<1>. QED
  BY <1>1, <1>7, <1>8, <1>9 DEF D

\* base64_decode gives back the bytes that base64_encode was given.
THEOREM Base64RoundTrip ==
    ASSUME NEW bytes \in Seq(Byte), Refused \notin Seq(Byte)
    PROVE  Base64Decode(Base64Encode(bytes)) = bytes
<1>. DEFINE n == Len(bytes)  G == (n + 2) \div 3  text == Base64Encode(bytes)
            Group(g) == DecodeGroup(text[4*g - 3], text[4*g - 2], text[4*g - 1], text[4*g])
            groups == [g \in 1..(Len(text) \div 4) |-> Group(g)]
<1>1. /\ n \in Nat /\ G \in Nat /\ n <= 3 * G /\ 3 * G < n + 3
      /\ \A k \in 1..n : bytes[k] \in Byte
  OBVIOUS
<1>. HIDE DEF G
<1>2. text = [k \in 1..(4 * G) |-> Base64Character(bytes, k - 1)]
  BY DEF Base64Encode, G
<1>3. /\ Len(text) = 4 * G /\ Len(text) % 4 = 0 /\ Len(text) \div 4 = G
      /\ \A k \in 1..(4 * G) : text[k] = Base64Character(bytes, k - 1)
  <2>1. Len(text) = 4 * G /\ \A k \in 1..(4 * G) : text[k] = Base64Character(bytes, k - 1)
    BY <1>1, <1>2
  <2>. QED
    BY <1>1, <2>1
<1>. HIDE DEF text
<1>4. ASSUME NEW k \in 1..Len(text), (k - 1) % 4 < 2  PROVE  text[k] # Pad
  <2>. DEFINE p == k - 1  i == 3 * (p \div 4)
              B(m) == IF i + m <= Len(bytes) THEN bytes[i + m] ELSE 0
  <2>1. p \in Nat /\ (p % 4 = 0 \/ p % 4 = 1) /\ i + 1 \in 1..n /\ i \in Nat
    BY <1>1, <1>3, <1>4
  <2>2. B(1) \in Byte /\ B(2) \in Byte
    BY <1>1, <2>1 DEF Byte
  <2>3. Base64Character(bytes, p) = IF p % 4 = 0 THEN B(1) \div 4 ELSE (B(1) % 4) * 16 + B(2) \div 16
    <3>1. CASE p % 4 = 0
      BY <3>1 DEF Base64Character
    <3>2. CASE p % 4 = 1
      BY <3>2 DEF Base64Character
    <3>. QED
      BY <2>1, <3>1, <3>2
  <2>4. text[k] = Base64Character(bytes, p)
    BY <1>3
  <2>. DEFINE x == B(1)  y == B(2)
  <2>5. x \div 4 # Pad /\ (x % 4) * 16 + y \div 16 # Pad
    <3>. HIDE DEF B
    <3>1. x \in Byte /\ y \in Byte
      BY <2>2
    <3>. HIDE DEF x, y
    <3>. QED
      BY <3>1 DEF Byte, Pad
  <2>. HIDE DEF B
  <2>. QED
    BY <2>3, <2>4, <2>5
<1>5. Base64Decode(text) = FlattenSeq(groups)
  BY <1>3, <1>4 DEF Base64Decode
<1>6. ASSUME NEW g \in 1..G
      PROVE  /\ groups[g] = SubSeq(bytes, 3 * (g - 1) + 1, Held(bytes, g))
             /\ groups[g] \in Seq(Byte) /\ Held(bytes, g - 1) = 3 * (g - 1)
             /\ Held(bytes, g) \in 3 * (g - 1)..n
  <2>. DEFINE j == g - 1
  <2>1. j \in Nat /\ 3 * j < n /\ g = j + 1
    BY <1>1
  <2>2. /\ 4 * g - 3 \in 1..(4 * G) /\ 4 * g - 2 \in 1..(4 * G)
        /\ 4 * g - 1 \in 1..(4 * G) /\ 4 * g \in 1..(4 * G)
        /\ (4 * g - 3) - 1 = 4 * j /\ (4 * g - 2) - 1 = 4 * j + 1
        /\ (4 * g - 1) - 1 = 4 * j + 2 /\ (4 * g) - 1 = 4 * j + 3
    BY <1>1
  <2>3. /\ text[4*g - 3] = Base64Character(bytes, 4 * j)
        /\ text[4*g - 2] = Base64Character(bytes, 4 * j + 1)
        /\ text[4*g - 1] = Base64Character(bytes, 4 * j + 2)
        /\ text[4*g] = Base64Character(bytes, 4 * j + 3)
    <3>. HIDE DEF j
    <3>. QED
      BY <1>3, <2>2, Zenon
  <2>4. groups[g] = Group(g)
    BY <1>3
  <2>5. groups[g] = SubSeq(bytes, 3 * j + 1, Held(bytes, j + 1))
    <3>. HIDE DEF groups, j
    <3>. QED
      BY <2>1, <2>3, <2>4, GroupDecodes, Zenon
  <2>6. Held(bytes, g - 1) = 3 * (g - 1) /\ Held(bytes, g) \in 3 * (g - 1)..n
    BY <1>1, <2>1 DEF Held
  <2>7. SubSeq(bytes, 3 * j + 1, Held(bytes, g)) \in Seq(Byte)
    <3>. DEFINE end == Held(bytes, g)
    <3>. HIDE DEF end
    <3>1. end \in 3 * (g - 1)..n
      BY <2>6 DEF end
    <3>. QED
      BY <1>1, <2>1, <3>1 DEF end
  <2>. QED
    BY <2>1, <2>5, <2>6, <2>7
<1>7. groups \in Seq(Seq(Byte)) /\ Len(groups) = G
  <2>. DEFINE P == Seq(Byte)
  <2>1. groups = [g \in 1..G |-> groups[g]]
    BY <1>3
  <2>2. \A g \in 1..G : groups[g] \in P
    BY <1>6
  <2>. HIDE DEF groups, P
  <2>3. groups \in Seq(P) /\ Len(groups) = G
    BY <1>1, <2>1, <2>2
  <2>. QED
    BY <2>3 DEF P
<1>. HIDE DEF groups
<1>. DEFINE U == {k \in 0..G : FlattenSeq(SubSeq(groups, 1, k)) = SubSeq(bytes, 1, Held(bytes, k))}
<1>8. 0 \in U
  <2>1. SubSeq(groups, 1, 0) = <<>> /\ SubSeq(bytes, 1, 0) = <<>> /\ Held(bytes, 0) = 0
    BY <1>1, SubSeqEmpty DEF Held
  <2>2. 0 \in 0..G
    BY <1>1
  <2>. QED
    BY <2>1, <2>2, FlattenEmpty, Zenon
<1>9. ASSUME NEW k \in 1..G, k - 1 \in U  PROVE  k \in U
  <2>. DEFINE before == SubSeq(groups, 1, k - 1)  x == groups[k]
              from == 3 * (k - 1)  to == Held(bytes, k)  P == Seq(Byte)
  <2>1. before \in Seq(P) /\ x \in P
    BY <1>1, <1>6, <1>7
  <2>2. SubSeq(groups, 1, k) = Append(before, x)
    <3>1. SubSeq(groups, 1, k) = before \o <<x>>
      BY <1>7, SubSeqRecursiveSecond
    <3>. HIDE DEF P, before, x
    <3>. QED
      BY <2>1, <3>1, AppendIsConcat
  <2>3. FlattenSeq(Append(before, x)) = FlattenSeq(before) \o x
    <3>. HIDE DEF before, x
    <3>. QED
      BY <2>1, FlattenAppend
  <2>4. FlattenSeq(before) = SubSeq(bytes, 1, from)
    BY <1>6, <1>9
  <2>5. SubSeq(bytes, 1, from) \o SubSeq(bytes, from + 1, to) = SubSeq(bytes, 1, to)
    <3>1. from \in Nat /\ to \in from..n
      BY <1>6
    <3>. HIDE DEF from, to
    <3>2. 1 \in 1..(Len(bytes) + 1) /\ from \in (1 - 1)..Len(bytes) /\ to \in from..Len(bytes)
      BY <1>1, <3>1
    <3>. QED
      BY <3>2, ConcatAdjacentSubSeq
  <2>6. x = SubSeq(bytes, from + 1, to)
    BY <1>6
  <2>. HIDE DEF before, x, from, to
  <2>7. FlattenSeq(SubSeq(groups, 1, k)) = SubSeq(bytes, 1, to)
    BY <2>2, <2>3, <2>4, <2>5, <2>6, Zenon
  <2>. QED
    BY <1>1, <2>7 DEF to
<1>10. 0..G \subseteq U
  <2>. HIDE DEF U
  <2>. QED
    BY <1>1, <1>8, <1>9, Induction
<1>11. FlattenSeq(SubSeq(groups, 1, G)) = SubSeq(bytes, 1, n) /\ SubSeq(bytes, 1, n) = bytes
       /\ SubSeq(groups, 1, G) = groups
  <2>1. G \in U
    BY <1>1, <1>10
  <2>2. Held(bytes, G) = n
    BY <1>1 DEF Held
  <2>. QED
    BY <1>7, <2>1, <2>2, SubSeqFull
<1>. QED
  BY <1>5, <1>11 DEF text

-----------------------------------------------------------------------------
(* Reading escaped text.                                                   *)

Unescapings(S) == [out : Seq(S), held : BOOLEAN]
NothingHeld == [out |-> <<>>, held |-> FALSE]
UnescapeStep(S, c) == [x \in Unescapings(S) \X S |-> UnescapeNext(x[1], x[2], c)]

\* A reading stays one.
LEMMA UnescapingType ==
    ASSUME NEW S, Backslash \in S, NEW r \in Unescapings(S), NEW x \in S, NEW c \in S
    PROVE  /\ UnescapeNext(r, x, c) \in Unescapings(S)
           /\ Released(r) \in Seq(S)
BY DEF UnescapeNext, Released, Unescapings

\* UnescapeAll is what the machine that reads one character at a time ends with.
LEMMA UnescapeRuns ==
    ASSUME NEW S, Backslash \in S, NEW c \in S, NEW s \in Seq(S)
    PROVE  \E f : /\ Runs(f, UnescapeStep(S, c), NothingHeld, Unescapings(S), s)
                  /\ UnescapeAll(s, c) = f[Len(s)]
<1>. DEFINE State == Unescapings(S)
            step == UnescapeStep(S, c)
            Body(f) == [n \in 0..Len(s) |->
                          IF n = 0 THEN NothingHeld ELSE UnescapeNext(f[n - 1], s[n], c)]
            chosen == CHOOSE f : f = Body(f)
<1>1. NothingHeld \in State
  BY DEF NothingHeld, Unescapings
<1>2. step \in [State \X S -> State] /\ \A r \in State, x \in S : step[<<r, x>>] = UnescapeNext(r, x, c)
  BY UnescapingType DEF UnescapeStep
<1>. HIDE DEF step, State
<1>3. PICK f : Runs(f, step, NothingHeld, State, s)
  BY <1>1, <1>2, RunExists
<1>4. Len(s) \in Nat /\ \A n \in 1..Len(s) : s[n] \in S
  OBVIOUS
<1>5. f = Body(f)
  <2>1. f \in [0..Len(s) -> State] /\ f[0] = NothingHeld
    BY <1>3 DEF Runs
  <2>2. ASSUME NEW n \in 1..Len(s)  PROVE  f[n] = UnescapeNext(f[n - 1], s[n], c)
    <3>1. f[n - 1] \in State /\ s[n] \in S
      BY <1>4, <2>1
    <3>2. f[n] = step[<<f[n - 1], s[n]>>]
      BY <1>3 DEF Runs
    <3>. QED
      BY <1>2, <3>1, <3>2
  <2>. QED
    BY <1>4, <2>1, <2>2
<1>6. chosen = Body(chosen)
  <2>. HIDE DEF Body
  <2>. QED
    BY <1>5
<1>7. UnescapeAll(s, c) = chosen[Len(s)]
  BY DEF UnescapeAll, NothingHeld
<1>. HIDE DEF chosen
<1>8. /\ chosen = [n \in 0..Len(s) |-> chosen[n]] /\ chosen[0] = NothingHeld
      /\ \A n \in 1..Len(s) : chosen[n] = UnescapeNext(chosen[n - 1], s[n], c)
  BY <1>4, <1>6
<1>9. \A n \in 1..Len(s) : chosen[n - 1] \in State => chosen[n] = step[<<chosen[n - 1], s[n]>>]
  BY <1>2, <1>4, <1>8
<1>10. Runs(chosen, step, NothingHeld, State, s)
  BY <1>1, <1>2, <1>8, <1>9, LoopRuns
<1>. QED
  BY <1>7, <1>10 DEF step, State

\* What UnescapeAll computes, one character at a time.
LEMMA UnescapeEmpty ==
    ASSUME NEW S, Backslash \in S, NEW c \in S
    PROVE  UnescapeAll(<<>>, c) = NothingHeld
<1>1. <<>> \in Seq(S) /\ Len(<<>>) = 0
  OBVIOUS
<1>2. \A s \in Seq(S) :
         \E f : /\ Runs(f, UnescapeStep(S, c), NothingHeld, Unescapings(S), s)
               /\ UnescapeAll(s, c) = f[Len(s)]
  BY UnescapeRuns
<1>3. PICK f : /\ Runs(f, UnescapeStep(S, c), NothingHeld, Unescapings(S), <<>>)
               /\ UnescapeAll(<<>>, c) = f[Len(<<>>)]
  BY <1>1, <1>2, Zenon
<1>. QED
  BY <1>1, <1>3 DEF Runs

\* Unescaped text is text.
LEMMA UnescapeType ==
    ASSUME NEW S, Backslash \in S, NEW c \in S, NEW s \in Seq(S)
    PROVE  UnescapeAll(s, c) \in Unescapings(S) /\ Unescape(s, c) \in Seq(S)
<1>. DEFINE step == UnescapeStep(S, c)
<1>1. PICK f : Runs(f, step, NothingHeld, Unescapings(S), s) /\ UnescapeAll(s, c) = f[Len(s)]
  BY UnescapeRuns
<1>. HIDE DEF step
<1>2. UnescapeAll(s, c) \in Unescapings(S)
  BY <1>1 DEF Runs
<1>. QED
  BY <1>2, UnescapingType DEF Unescape

\* One more character is one more step.
LEMMA UnescapeAppend ==
    ASSUME NEW S, Backslash \in S, NEW c \in S, NEW s \in Seq(S), NEW x \in S
    PROVE  UnescapeAll(Append(s, x), c) = UnescapeNext(UnescapeAll(s, c), x, c)
<1>. DEFINE step == UnescapeStep(S, c)
            t == Append(s, x)
<1>1. PICK f : Runs(f, step, NothingHeld, Unescapings(S), s) /\ UnescapeAll(s, c) = f[Len(s)]
  BY UnescapeRuns
<1>2. t \in Seq(S)
  OBVIOUS
<1>3. PICK g : Runs(g, step, NothingHeld, Unescapings(S), t) /\ UnescapeAll(t, c) = g[Len(t)]
  <2>. HIDE DEF t
  <2>. QED
    BY <1>2, UnescapeRuns
<1>4. f[Len(s)] \in Unescapings(S) /\ g[Len(t)] = step[<<f[Len(s)], x>>]
  <2>. HIDE DEF step
  <2>1. RunsOn(step, NothingHeld, Unescapings(S), s, x)
    BY RunAppend
  <2>. QED
    BY <1>1, <1>3, <2>1 DEF RunsOn
<1>5. step[<<f[Len(s)], x>>] = UnescapeNext(f[Len(s)], x, c)
  BY <1>4 DEF UnescapeStep
<1>. QED
  BY <1>1, <1>3, <1>4, <1>5, Zenon

\* A control character is no quote, no backslash and no comma.
LEMMA ControlsApart == Controls \cap {Quote, Backslash, Comma} = {}
<1>. DEFINE E == {"NUL", "SOH", "STX", "ETX", "EOT", "ENQ", "ACK", "BEL", "BS", "HT", "LF", "VT", "FF", "CR",
      "SO", "SI", "DLE", "DC1", "DC2", "DC3", "DC4", "NAK", "SYN", "ETB", "CAN", "EM", "SUB",
      "ESC", "FS", "GS", "RS", "US"}
<1>1. ControlNames \in Seq(E)
  BY DEF ControlNames
<1>2. \A x \in E : x \notin {Quote, Backslash, Comma}
  BY DEF Quote, Backslash, Comma
<1>3. Controls \subseteq E
  <2>. HIDE DEF E
  <2>. QED BY <1>1 DEF Controls, Range
<1>. QED
  BY <1>2, <1>3

\* Nor is what stands for one in an escape.
LEMMA EscapeLettersApart == EscapeLetters \cap {Quote, Backslash, Comma} = {}
<1>. DEFINE E == {"0", "1", "2", "3", "4", "5", "6", "7", "8", "9", "a", "b", "c", "d", "e", "f"}
<1>1. HexDigits \in Seq(E)
  BY DEF HexDigits
<1>2. Range(HexDigits) \subseteq E
  <2>. HIDE DEF E
  <2>. QED BY <1>1 DEF Range
<1>3. \A x \in E \cup {"t", "n", "r", "u"} : x \notin {Quote, Backslash, Comma}
  BY DEF Quote, Backslash, Comma
<1>. QED
  BY <1>2, <1>3 DEF EscapeLetters

\* An escape is made of these letters.
LEMMA EscapeOfType ==
    ASSUME NEW c \in Controls
    PROVE  EscapeOf(c) \in Seq(EscapeLetters)
<1>0. DOMAIN HexDigits = 1..16 /\ DOMAIN ControlNames = 1..32
  BY DEF HexDigits, ControlNames
<1>1. /\ HexDigits[12] = "b" /\ HexDigits[16] = "f" /\ HexDigits[1] = "0"
  BY DEF HexDigits
<1>2. /\ {"b", "t", "n", "f", "r", "u", "0"} \subseteq EscapeLetters
      /\ \A h \in 1..16 : HexDigits[h] \in EscapeLetters
  BY <1>0, <1>1 DEF EscapeLetters, Range
<1>. DEFINE u == CHOOSE u \in 1..32 : ControlNames[u] = c
            L == EscapeLetters
            x == HexDigits[((u - 1) \div 16) + 1]
            y == HexDigits[((u - 1) % 16) + 1]
<1>3. u \in 1..32
  BY <1>0 DEF Controls, Range
<1>. HIDE DEF u
<1>4. ((u - 1) \div 16) + 1 \in 1..16 /\ ((u - 1) % 16) + 1 \in 1..16
  BY <1>3
<1>5. x \in L /\ y \in L
  BY <1>2, <1>4
<1>6. EscapeOf(c) \in {<<"b">>, <<"t">>, <<"n">>, <<"f">>, <<"r">>, <<"u", "0", "0", x, y>>}
  <2>. HIDE DEF x, y
  <2>1. EscapeOf(c) = CASE c = "BS" -> <<"b">> [] c = "HT" -> <<"t">> [] c = "LF" -> <<"n">>
      [] c = "FF" -> <<"f">> [] c = "CR" -> <<"r">>
      [] OTHER -> <<"u", "0", "0", x, y>>
    BY Zenon DEF EscapeOf, u, x, y
  <2>. QED BY <2>1
<1>. QED
  <2>. HIDE DEF x, y, L
  <2>1. {"b", "t", "n", "f", "r", "u", "0"} \subseteq L
    BY <1>2 DEF L
  <2>2. /\ <<"b">> \in Seq(L) /\ <<"t">> \in Seq(L) /\ <<"n">> \in Seq(L) /\ <<"f">> \in Seq(L) /\ <<"r">> \in Seq(L)
        /\ <<"u", "0", "0", x, y>> \in Seq(L)
    BY <1>5, <2>1
  <2>3. EscapeOf(c) \in Seq(L)
    BY <1>6, <2>2, Zenon
  <2>. QED BY <2>3 DEF L

\* The four ways of escaping a character.
LEMMA EscapedIs ==
    ASSUME NEW S, {Quote, Backslash} \cup EscapeLetters \subseteq S, NEW e \in S
    PROVE  /\ Escaped(e) \in Seq(S)
           /\ e \in {Quote, Backslash} => Escaped(e) = <<Backslash, e>>
           /\ e \in Controls => /\ Escaped(e) = <<Backslash>> \o EscapeOf(e)
                               /\ EscapeOf(e) \in Seq(S)
                               /\ \A c \in {Quote, Backslash, Comma} : ~Contains(EscapeOf(e), c)
           /\ e \notin {Quote, Backslash} \cup Controls => Escaped(e) = <<e>>
<1>. DEFINE t == EscapeOf(e)
<1>1. e \in Controls => /\ t \in Seq(S)
                       /\ \A c \in {Quote, Backslash, Comma} : ~Contains(t, c)
  <2>. SUFFICES ASSUME e \in Controls
                PROVE  /\ t \in Seq(S)
                       /\ \A c \in {Quote, Backslash, Comma} : ~Contains(t, c)
    OBVIOUS
  <2>1. t \in Seq(EscapeLetters)
    BY EscapeOfType
  <2>. HIDE DEF t
  <2>2. t \in Seq(S) /\ \A i \in 1..Len(t) : t[i] \in EscapeLetters
    BY <2>1
  <2>. QED
    BY <2>2, EscapeLettersApart DEF Contains
<1>. HIDE DEF t
<1>2. e \in {Quote, Backslash} => Escaped(e) = <<Backslash, e>>
  BY ControlsApart DEF Escaped
<1>3. e \in Controls => Escaped(e) = <<Backslash>> \o t
  BY ControlsApart, Zenon DEF Escaped, t
<1>4. e \notin {Quote, Backslash} \cup Controls => Escaped(e) = <<e>>
  BY DEF Escaped
<1>5. <<Backslash, e>> \in Seq(S) /\ <<e>> \in Seq(S) /\ (t \in Seq(S) => <<Backslash>> \o t \in Seq(S))
  OBVIOUS
<1>6. Escaped(e) \in Seq(S)
  BY <1>1, <1>2, <1>3, <1>4, <1>5, Zenon
<1>. QED
  BY <1>1, <1>2, <1>3, <1>4, <1>6, Zenon DEF t

\* The escaped characters of a name, one behind the other.
LEMMA EscapedAllAppend ==
    ASSUME NEW S, {Quote, Backslash} \cup EscapeLetters \subseteq S, NEW name \in Seq(S), NEW e \in S
    PROVE  /\ EscapedAll(name) \in Seq(S) /\ Escaped(e) \in Seq(S)
           /\ EscapedAll(Append(name, e)) = EscapedAll(name) \o Escaped(e)
<1>. DEFINE P == Seq(S)
            texts(u) == [i \in 1..Len(u) |-> Escaped(u[i])]
            longer == Append(name, e)
<1>1. \A x \in S : Escaped(x) \in P
  BY EscapedIs
<1>2. /\ longer \in Seq(S) /\ Len(longer) = Len(name) + 1 /\ longer[Len(name) + 1] = e
      /\ Len(name) \in Nat /\ \A i \in 1..Len(name) : longer[i] = name[i] /\ name[i] \in S
  OBVIOUS
<1>. HIDE DEF P, longer
<1>3. texts(name) \in Seq(P) /\ Len(texts(name)) = Len(name)
  BY <1>1, <1>2
<1>4. texts(longer) = Append(texts(name), Escaped(e))
  <2>1. texts(longer) \in Seq(P) /\ Len(texts(longer)) = Len(name) + 1
    BY <1>1, <1>2
  <2>2. Append(texts(name), Escaped(e)) \in Seq(P) /\ Len(Append(texts(name), Escaped(e))) = Len(name) + 1
    BY <1>1, <1>2, <1>3
  <2>3. ASSUME NEW i \in 1..(Len(name) + 1)
        PROVE  texts(longer)[i] = Append(texts(name), Escaped(e))[i]
    BY <1>1, <1>2, <1>3
  <2>. HIDE DEF texts
  <2>. QED
    BY <2>1, <2>2, <2>3, SeqEqual
<1>5. /\ FlattenSeq(texts(name)) \in Seq(S)
      /\ FlattenSeq(Append(texts(name), Escaped(e))) = FlattenSeq(texts(name)) \o Escaped(e)
  <2>1. texts(name) \in Seq(Seq(S)) /\ Escaped(e) \in Seq(S)
    BY <1>1, <1>3 DEF P
  <2>. HIDE DEF texts
  <2>. QED
    BY <2>1, FlattenType, FlattenAppend
<1>. QED
  BY <1>1, <1>4, <1>5 DEF EscapedAll, P, longer

\* An empty name needs no escapes.
LEMMA EscapedAllEmpty == EscapedAll(<<>>) = <<>>
<1>1. EscapedAll(<<>>) = FlattenSeq(<<>>)
  BY DEF EscapedAll
<1>. QED
  BY <1>1, FlattenEmpty

\* What is left of it when the quotes are plain again: a backslash is two of them.
Doubled(x) == IF x = Backslash THEN <<Backslash, Backslash>> ELSE <<x>>

\* Reading an escaped character: `\"` becomes a quote, the two backslashes stay.
LEMMA QuotesStep ==
    ASSUME NEW S, {Quote, Backslash} \cup EscapeLetters \subseteq S, NEW e \in S, e \notin Controls,
           NEW s \in Seq(S)
    PROVE  Unescape(s \o Escaped(e), Quote) = Unescape(s, Quote) \o Doubled(e)
<1>. DEFINE R(u) == UnescapeAll(u, Quote)  out == Unescape(s, Quote)
<1>1. out \in Seq(S) /\ R(s) \in Unescapings(S) /\ out = Released(R(s))
  BY UnescapeType DEF Unescape
<1>2. \A u \in Seq(S), x \in S : R(Append(u, x)) = UnescapeNext(R(u), x, Quote)
  BY UnescapeAppend
<1>3. \A u : Unescape(u, Quote) = Released(R(u))
  BY DEF Unescape
<1>. HIDE DEF R, out
<1>4. \A x \in S : s \o <<x>> = Append(s, x) /\ Append(s, x) \in Seq(S)
      /\ \A y \in S : s \o <<x, y>> = Append(Append(s, x), y)
  OBVIOUS
<1>5. \A x \in S : out \o <<x>> = Append(out, x) /\ out \o <<x, x>> = Append(Append(out, x), x)
  BY <1>1
<1>6. R(Append(s, Backslash)) = [out |-> out, held |-> TRUE]
  BY <1>1, <1>2 DEF UnescapeNext, Quote, Backslash
<1>7. CASE e = Quote
  <2>1. R(Append(Append(s, Backslash), Quote)) = [out |-> Append(out, Quote), held |-> FALSE]
    <3>1. R(Append(Append(s, Backslash), Quote))
            = UnescapeNext([out |-> out, held |-> TRUE], Quote, Quote)
      BY <1>2, <1>4, <1>6
    <3>. QED
      BY <3>1 DEF UnescapeNext
  <2>2. Released([out |-> Append(out, Quote), held |-> FALSE]) = Append(out, Quote)
    BY DEF Released
  <2>3. Escaped(e) = <<Backslash, Quote>> /\ Doubled(e) = <<Quote>>
    BY <1>7, EscapedIs DEF Doubled, Quote, Backslash
  <2>4. s \o <<Backslash, Quote>> = Append(Append(s, Backslash), Quote)
        /\ out \o <<Quote>> = Append(out, Quote)
    BY <1>4, <1>5
  <2>. QED
    BY <1>3, <2>1, <2>2, <2>3, <2>4, Zenon DEF out
<1>8. CASE e = Backslash
  <2>1. R(Append(Append(s, Backslash), Backslash)) = [out |-> Append(out, Backslash), held |-> TRUE]
    <3>1. R(Append(Append(s, Backslash), Backslash))
            = UnescapeNext([out |-> out, held |-> TRUE], Backslash, Quote)
      BY <1>2, <1>4, <1>6
    <3>. QED
      BY <3>1 DEF UnescapeNext, Released, Quote, Backslash
  <2>2. Released([out |-> Append(out, Backslash), held |-> TRUE]) = Append(Append(out, Backslash), Backslash)
    BY DEF Released
  <2>3. Escaped(e) = <<Backslash, Backslash>> /\ Doubled(e) = <<Backslash, Backslash>>
    BY <1>8, EscapedIs DEF Doubled
  <2>4. /\ s \o <<Backslash, Backslash>> = Append(Append(s, Backslash), Backslash)
        /\ out \o <<Backslash, Backslash>> = Append(Append(out, Backslash), Backslash)
    BY <1>4, <1>5
  <2>. QED
    BY <1>3, <2>1, <2>2, <2>3, <2>4, Zenon DEF out
<1>9. CASE e \notin {Quote, Backslash}
  <2>1. R(Append(s, e)) = [out |-> Append(out, e), held |-> FALSE]
    BY <1>1, <1>2, <1>9 DEF UnescapeNext
  <2>2. Released([out |-> Append(out, e), held |-> FALSE]) = Append(out, e)
    BY DEF Released
  <2>3. Escaped(e) = <<e>> /\ Doubled(e) = <<e>>
    BY <1>9, EscapedIs DEF Doubled
  <2>4. s \o <<e>> = Append(s, e) /\ out \o <<e>> = Append(out, e)
    BY <1>4, <1>5
  <2>. QED
    BY <1>3, <2>1, <2>2, <2>3, <2>4, Zenon DEF out
<1>. QED
  BY <1>7, <1>8, <1>9 DEF out

\* Reading two backslashes gives one, and holds nothing back.
LEMMA BackslashesStep ==
    ASSUME NEW S, Backslash \in S, NEW e \in S, NEW s \in Seq(S), NEW t \in Seq(S),
           UnescapeAll(s, Backslash) = [out |-> t, held |-> FALSE]
    PROVE  UnescapeAll(s \o Doubled(e), Backslash) = [out |-> Append(t, e), held |-> FALSE]
<1>. DEFINE R(u) == UnescapeAll(u, Backslash)
<1>1. \A u \in Seq(S), x \in S : R(Append(u, x)) = UnescapeNext(R(u), x, Backslash)
  BY UnescapeAppend
<1>2. R(s) = [out |-> t, held |-> FALSE]
  OBVIOUS
<1>. HIDE DEF R
<1>3. \A x \in S : s \o <<x>> = Append(s, x) /\ Append(s, x) \in Seq(S)
      /\ \A y \in S : s \o <<x, y>> = Append(Append(s, x), y)
  OBVIOUS
<1>4. CASE e = Backslash
  <2>1. R(Append(s, Backslash)) = [out |-> t, held |-> TRUE]
    BY <1>1, <1>2 DEF UnescapeNext, Released
  <2>2. R(Append(Append(s, Backslash), Backslash)) = [out |-> Append(t, Backslash), held |-> FALSE]
    <3>1. R(Append(Append(s, Backslash), Backslash))
            = UnescapeNext([out |-> t, held |-> TRUE], Backslash, Backslash)
      BY <1>1, <1>3, <2>1
    <3>. QED
      BY <3>1 DEF UnescapeNext
  <2>3. Doubled(e) = <<Backslash, Backslash>>
    BY <1>4 DEF Doubled
  <2>. QED
    BY <1>3, <1>4, <2>2, <2>3 DEF R
<1>5. CASE e # Backslash
  <2>1. R(Append(s, e)) = [out |-> Append(t, e), held |-> FALSE]
    BY <1>1, <1>2, <1>5 DEF UnescapeNext, Released
  <2>2. Doubled(e) = <<e>>
    BY <1>5 DEF Doubled
  <2>. QED
    BY <1>3, <2>1, <2>2 DEF R
<1>. QED
  BY <1>4, <1>5

\* Both replacements, one after the other, give back a name without control
\* characters.
LEMMA UnescapesName ==
    ASSUME NEW S, {Quote, Backslash} \cup EscapeLetters \subseteq S, NEW name \in Seq(S),
           Printable(name)
    PROVE  Unescape(Unescape(EscapedAll(name), Quote), Backslash) = name
<1>. DEFINE M(u) == Unescape(EscapedAll(u), Quote)
            T == {u \in Seq(S) : Printable(u) =>
                      /\ M(u) \in Seq(S)
                      /\ UnescapeAll(M(u), Backslash) = [out |-> u, held |-> FALSE]}
<1>1. <<>> \in T
  <2>1. M(<<>>) = <<>>
    <3>1. Unescape(<<>>, Quote) = <<>>
      BY UnescapeEmpty DEF Unescape, NothingHeld, Released
    <3>. QED
      BY <3>1, EscapedAllEmpty, Zenon
  <2>2. UnescapeAll(<<>>, Backslash) = [out |-> <<>>, held |-> FALSE]
    BY UnescapeEmpty DEF NothingHeld
  <2>3. <<>> \in Seq(S)
    OBVIOUS
  <2>. HIDE DEF M
  <2>. QED
    BY <2>1, <2>2, <2>3
<1>2. ASSUME NEW u \in Seq(S), NEW e \in S, u \in T  PROVE  Append(u, e) \in T
  <2>. DEFINE v == Append(u, e)
  <2>1. v \in Seq(S)
    OBVIOUS
  <2>. SUFFICES ASSUME Printable(v)
                PROVE  /\ M(v) \in Seq(S)
                       /\ UnescapeAll(M(v), Backslash) = [out |-> v, held |-> FALSE]
    BY <2>1
  <2>2. Printable(u) /\ e \notin Controls
    <3>1. /\ Len(v) = Len(u) + 1 /\ v[Len(u) + 1] = e /\ Len(u) \in Nat
          /\ \A i \in 1..Len(u) : v[i] = u[i]
      OBVIOUS
    <3>. HIDE DEF v
    <3>. QED
      BY <3>1 DEF Contains, Printable
  <2>. DEFINE escaped == EscapedAll(u)  m == M(u)
  <2>3. escaped \in Seq(S) /\ EscapedAll(v) = escaped \o Escaped(e)
    BY EscapedAllAppend
  <2>4. M(v) = m \o Doubled(e)
    <3>1. Unescape(escaped \o Escaped(e), Quote) = Unescape(escaped, Quote) \o Doubled(e)
      <4>. HIDE DEF escaped
      <4>. QED
        BY <2>2, <2>3, QuotesStep
    <3>. QED
      BY <2>3, <3>1
  <2>5. m \in Seq(S) /\ UnescapeAll(m, Backslash) = [out |-> u, held |-> FALSE]
    BY <1>2, <2>2
  <2>6. M(v) \in Seq(S)
    <3>. HIDE DEF m
    <3>1. m \o Doubled(e) \in Seq(S)
      BY <2>5 DEF Doubled
    <3>. HIDE DEF M
    <3>. QED
      BY <2>4, <3>1
  <2>7. UnescapeAll(m \o Doubled(e), Backslash) = [out |-> v, held |-> FALSE]
    <3>. HIDE DEF m
    <3>. QED
      BY <2>5, BackslashesStep
  <2>. QED
    BY <2>4, <2>6, <2>7
<1>3. name \in T
  <2>. HIDE DEF T
  <2>. QED
    BY <1>1, <1>2, SequenceInduction
<1>. QED
  BY <1>3 DEF Unescape, Released

-----------------------------------------------------------------------------
(* Lists of names.                                                         *)

\* What is in a text that is put together.
LEMMA ContainsConcat ==
    ASSUME NEW S, NEW a \in Seq(S), NEW b \in Seq(S), NEW c
    PROVE  Contains(a \o b, c) <=> Contains(a, c) \/ Contains(b, c)
<1>. DEFINE t == a \o b
<1>1. /\ Len(t) = Len(a) + Len(b) /\ Len(a) \in Nat /\ Len(b) \in Nat
      /\ \A i \in 1..Len(a) : t[i] = a[i]
      /\ \A i \in 1..Len(b) : t[Len(a) + i] = b[i]
  OBVIOUS
<1>. HIDE DEF t
<1>2. ASSUME NEW i \in 1..Len(t), t[i] = c  PROVE  Contains(a, c) \/ Contains(b, c)
  <2>1. CASE i \in 1..Len(a)
    BY <1>1, <1>2, <2>1 DEF Contains
  <2>2. CASE i \notin 1..Len(a)
    <3>. DEFINE j == i - Len(a)
    <3>1. j \in 1..Len(b) /\ Len(a) + j = i
      BY <1>1, <2>2
    <3>2. b[j] = c
      BY <1>1, <1>2, <3>1
    <3>. QED
      BY <3>1, <3>2 DEF Contains
  <2>. QED
    BY <2>1, <2>2
<1>3. ASSUME NEW i \in 1..Len(a), a[i] = c  PROVE  Contains(t, c)
  BY <1>1, <1>3 DEF Contains
<1>4. ASSUME NEW i \in 1..Len(b), b[i] = c  PROVE  Contains(t, c)
  <2>1. Len(a) + i \in 1..Len(t)
    BY <1>1
  <2>. QED
    BY <1>1, <1>4, <2>1 DEF Contains
<1>. QED
  BY <1>2, <1>3, <1>4 DEF Contains, t

\* The characters of a text of one or two.
LEMMA ContainsFew ==
    ASSUME NEW x, NEW y, NEW c
    PROVE  /\ Contains(<<x>>, c) <=> x = c
           /\ Contains(<<x, y>>, c) <=> x = c \/ y = c
<1>1. Len(<<x>>) = 1 /\ <<x>>[1] = x /\ Len(<<x, y>>) = 2 /\ <<x, y>>[1] = x /\ <<x, y>>[2] = y
  OBVIOUS
<1>2. 1..1 = {1} /\ 1..2 = {1, 2}
  OBVIOUS
<1>. QED
  BY <1>1, <1>2, Zenon DEF Contains

\* The characters of a text that grew by one.
LEMMA ContainsAppend ==
    ASSUME NEW S, NEW s \in Seq(S), NEW e \in S, NEW c
    PROVE  Contains(Append(s, e), c) <=> Contains(s, c) \/ e = c
<1>1. <<e>> \in Seq(S) /\ Append(s, e) = s \o <<e>>
  OBVIOUS
<1>2. Contains(s \o <<e>>, c) <=> Contains(s, c) \/ Contains(<<e>>, c)
  BY <1>1, ContainsConcat
<1>. QED
  BY <1>1, <1>2, ContainsFew, Zenon

\* The reading of a list: it is split at commas.
SplitAt(text) == ReadAll(text, Comma, {})

\* What the reading of a list does.
LEMMA Splits ==
    ASSUME NEW S
    PROVE  /\ \A s \in Seq(S) : SplitAt(s) \in Readings(S)
           /\ \A s \in Seq(S), c \in S : SplitAt(Append(s, c)) = ReadNext(SplitAt(s), c, Comma, {})
           /\ SplitAt(<<>>) = NothingRead
BY ReadAllType, ReadAllAppend, ReadAllEmpty DEF SplitAt

\* A text without commas becomes part of the piece being read.
LEMMA ReadPlain ==
    ASSUME NEW S, NEW s \in Seq(S), NEW u \in Seq(S), ~Contains(u, Comma)
    PROVE  SplitAt(s \o u) = [pieces |-> SplitAt(s).pieces, piece |-> SplitAt(s).piece \o u]
<1>. DEFINE pieces == SplitAt(s).pieces  piece == SplitAt(s).piece
            T == {w \in Seq(S) : ~Contains(w, Comma) =>
                     SplitAt(s \o w) = [pieces |-> pieces, piece |-> piece \o w]}
<1>1. piece \in Seq(S) /\ SplitAt(s) = [pieces |-> pieces, piece |-> piece]
  BY Splits DEF Readings
<1>. HIDE DEF pieces, piece
<1>2. <<>> \in T
  <2>1. s \o <<>> = s /\ piece \o <<>> = piece /\ <<>> \in Seq(S)
    BY <1>1
  <2>. QED
    BY <1>1, <2>1
<1>3. ASSUME NEW w \in Seq(S), NEW e \in S, w \in T  PROVE  Append(w, e) \in T
  <2>1. /\ s \o Append(w, e) = Append(s \o w, e) /\ s \o w \in Seq(S) /\ Append(w, e) \in Seq(S)
        /\ piece \o Append(w, e) = Append(piece \o w, e)
    BY <1>1, AppendToConcat
  <2>. SUFFICES ASSUME ~Contains(Append(w, e), Comma)
                PROVE  SplitAt(s \o Append(w, e)) = [pieces |-> pieces, piece |-> piece \o Append(w, e)]
    BY <2>1
  <2>2. ~Contains(w, Comma) /\ e # Comma
    BY ContainsAppend
  <2>3. SplitAt(s \o w) = [pieces |-> pieces, piece |-> piece \o w]
    BY <1>3, <2>2
  <2>4. SplitAt(Append(s \o w, e)) = ReadNext(SplitAt(s \o w), e, Comma, {})
    BY <2>1, Splits
  <2>5. ReadNext(SplitAt(s \o w), e, Comma, {}) = [pieces |-> pieces, piece |-> Append(piece \o w, e)]
    BY <2>2, <2>3 DEF ReadNext
  <2>. QED
    BY <2>1, <2>4, <2>5, Zenon
<1>4. u \in T
  <2>. HIDE DEF T
  <2>. QED
    BY <1>2, <1>3, SequenceInduction
<1>. QED
  BY <1>4 DEF pieces, piece

\* Escaping and quoting put no comma into a name.
LEMMA QuotedPlain ==
    ASSUME NEW S, {Quote, Backslash} \cup EscapeLetters \subseteq S, NEW name \in Seq(S)
    PROVE  /\ Quoted(name) \in Seq(S)
           /\ ~Contains(name, Comma) => ~Contains(Quoted(name), Comma)
<1>. DEFINE T == {u \in Seq(S) : ~Contains(u, Comma) => ~Contains(EscapedAll(u), Comma)}
<1>1. <<>> \in T
  <2>1. <<>> \in Seq(S) /\ ~Contains(<<>>, Comma)
    BY DEF Contains
  <2>. QED
    BY <2>1, EscapedAllEmpty
<1>2. ASSUME NEW u \in Seq(S), NEW e \in S, u \in T  PROVE  Append(u, e) \in T
  <2>1. Append(u, e) \in Seq(S)
    OBVIOUS
  <2>. SUFFICES ASSUME ~Contains(Append(u, e), Comma)
                PROVE  ~Contains(EscapedAll(Append(u, e)), Comma)
    BY <2>1
  <2>2. ~Contains(u, Comma) /\ e # Comma
    BY ContainsAppend
  <2>3. ~Contains(Escaped(e), Comma)
    <3>1. Comma \notin {Quote, Backslash, e}
      BY <2>2 DEF Comma, Quote, Backslash
    <3>2. /\ ~Contains(<<Backslash, e>>, Comma) /\ ~Contains(<<Backslash>>, Comma)
          /\ ~Contains(<<e>>, Comma)
      BY <3>1, ContainsFew
    <3>3. e \in Controls => ~Contains(<<Backslash>> \o EscapeOf(e), Comma)
      <4>1. <<Backslash>> \in Seq(S)
        OBVIOUS
      <4>2. e \in Controls => EscapeOf(e) \in Seq(S) /\ ~Contains(EscapeOf(e), Comma)
        BY EscapedIs
      <4>. QED
        BY <3>2, <4>1, <4>2, ContainsConcat
    <3>. QED
      BY <3>2, <3>3, EscapedIs, Zenon
  <2>4. EscapedAll(u) \in Seq(S) /\ Escaped(e) \in Seq(S)
        /\ EscapedAll(Append(u, e)) = EscapedAll(u) \o Escaped(e)
    BY EscapedAllAppend
  <2>5. ~Contains(EscapedAll(u), Comma)
    BY <1>2, <2>2
  <2>. QED
    BY <2>3, <2>4, <2>5, ContainsConcat
<1>3. name \in T
  <2>. HIDE DEF T
  <2>. QED
    BY <1>1, <1>2, SequenceInduction
<1>4. <<Quote>> \in Seq(S) /\ ~Contains(<<Quote>>, Comma)
  <2>1. Quote # Comma
    BY DEF Quote, Comma
  <2>2. <<Quote>> \in Seq(S)
    OBVIOUS
  <2>. QED
    BY <2>1, <2>2, ContainsFew, Zenon
<1>. DEFINE escaped == EscapedAll(name)
<1>5. escaped \in Seq(S)
  <2>1. Quote \in S
    OBVIOUS
  <2>. QED
    BY <2>1, EscapedAllAppend
<1>6. ~Contains(name, Comma) => ~Contains(escaped, Comma)
  BY <1>3
<1>. HIDE DEF escaped
<1>7. <<Quote>> \o escaped \in Seq(S) /\ (<<Quote>> \o escaped) \o <<Quote>> \in Seq(S)
  BY <1>4, <1>5
<1>. QED
  BY <1>4, <1>5, <1>6, <1>7, ContainsConcat DEF Quoted, escaped

\* A list is its names, quoted, with a comma before every one but the first.
Before(names) == IF names = <<>> THEN <<>> ELSE <<Comma>>

\* One more name is listed behind the others.
LEMMA ListedAppend ==
    ASSUME NEW S, {Quote, Backslash, Comma} \cup EscapeLetters \subseteq S,
           NEW names \in Seq(Seq(S)), NEW name \in Seq(S)
    PROVE  /\ Listed(names) \in Seq(S) /\ Before(names) \in Seq(S)
           /\ Listed(Append(names, name)) = Listed(names) \o (Before(names) \o Quoted(name))
<1>. DEFINE P == Seq(S)
            item(u, i) == (IF i = 1 THEN <<>> ELSE <<Comma>>) \o Quoted(u[i])
            texts(u) == [i \in 1..Len(u) |-> item(u, i)]
            longer == Append(names, name)
            last == Before(names) \o Quoted(name)
<1>1. \A x \in P : Quoted(x) \in P
  BY QuotedPlain
<1>2. \A x \in P : <<>> \o x \in P /\ <<Comma>> \o x \in P
  OBVIOUS
<1>3. Before(names) \in P /\ name \in P
  BY DEF Before
<1>4. last \in P
  BY <1>1, <1>3
<1>. HIDE DEF P
<1>5. /\ longer \in Seq(P) /\ Len(longer) = Len(names) + 1 /\ longer[Len(names) + 1] = name
      /\ Len(names) \in Nat /\ \A i \in 1..Len(names) : longer[i] = names[i] /\ names[i] \in P
  <2>1. names \in Seq(P) /\ name \in P
    BY DEF P
  <2>. QED
    BY <2>1
<1>6. (names = <<>>) <=> (Len(names) = 0)
  <2>1. names \in Seq(P)
    BY DEF P
  <2>. QED
    BY <2>1
<1>. HIDE DEF longer
<1>7. /\ \A i \in 1..Len(names) : item(names, i) \in P /\ item(longer, i) = item(names, i)
      /\ item(longer, Len(names) + 1) = last
  <2>1. ASSUME NEW i \in 1..Len(names)
        PROVE  item(names, i) \in P /\ item(longer, i) = item(names, i)
    <3>1. longer[i] = names[i] /\ names[i] \in P
      BY <1>5
    <3>2. Quoted(names[i]) \in P
      BY <1>1, <3>1
    <3>. QED
      BY <1>2, <3>1, <3>2
  <2>2. item(longer, Len(names) + 1) = last
    BY <1>5, <1>6 DEF Before
  <2>. QED
    BY <2>1, <2>2
<1>. HIDE DEF item, last
<1>8. texts(names) \in Seq(P) /\ Len(texts(names)) = Len(names)
  BY <1>5, <1>7
<1>9. texts(longer) = Append(texts(names), last)
  <2>1. \A i \in 1..(Len(names) + 1) : item(longer, i) \in P
    <3>1. \A i \in 1..(Len(names) + 1) : i \in 1..Len(names) \/ i = Len(names) + 1
      BY <1>5
    <3>. QED
      BY <1>4, <1>7, <3>1, Zenon
  <2>2. texts(longer) \in Seq(P) /\ Len(texts(longer)) = Len(names) + 1
    BY <1>5, <2>1
  <2>3. Append(texts(names), last) \in Seq(P) /\ Len(Append(texts(names), last)) = Len(names) + 1
    BY <1>4, <1>8
  <2>4. ASSUME NEW i \in 1..(Len(names) + 1)
        PROVE  texts(longer)[i] = Append(texts(names), last)[i]
    BY <1>4, <1>5, <1>7, <1>8
  <2>. HIDE DEF texts
  <2>. QED
    BY <2>2, <2>3, <2>4, SeqEqual
<1>10. /\ FlattenSeq(texts(names)) \in Seq(S)
       /\ FlattenSeq(Append(texts(names), last)) = FlattenSeq(texts(names)) \o last
  <2>1. texts(names) \in Seq(Seq(S)) /\ last \in Seq(S)
    BY <1>4, <1>8 DEF P
  <2>. HIDE DEF texts
  <2>. QED
    BY <2>1, FlattenType, FlattenAppend
<1>. QED
  BY <1>3, <1>9, <1>10 DEF Listed, P, longer, last, item

\* No names, no text.
LEMMA ListedEmpty == Listed(<<>>) = <<>>
<1>1. Listed(<<>>) = FlattenSeq(<<>>)
  BY DEF Listed
<1>. QED
  BY <1>1, FlattenEmpty

AssociativeOn(S) == \A x, y, z \in Seq(S) : (x \o y) \o z = x \o (y \o z)

\* Concatenation is associative.
LEMMA Associative == ASSUME NEW S  PROVE  AssociativeOn(S)
BY ConcatAssociative DEF AssociativeOn

\* Names without commas are split as they were listed.
LEMMA PlainNames ==
    ASSUME NEW S, {Quote, Backslash, Comma} \cup EscapeLetters \subseteq S, NEW names \in Seq(Seq(S)),
           names # <<>>, \A i \in 1..Len(names) : ~Contains(names[i], Comma)
    PROVE  Split(Listed(names), Comma) = [i \in 1..Len(names) |-> Quoted(names[i])]
<1>. DEFINE P == Seq(S)
            quoted(u) == [i \in 1..Len(u) |-> Quoted(u[i])]
            started(u) == [pieces |-> quoted(u), piece |-> <<>>]
            T == {u \in Seq(P) : (\A i \in 1..Len(u) : ~Contains(u[i], Comma)) =>
                     SplitAt(Listed(u) \o Before(u)) = started(u)}
<1>0. AssociativeOn(S)
  BY Associative
<1>1. <<>> \in T
  <2>1. Listed(<<>>) \o Before(<<>>) = <<>>
    BY ListedEmpty DEF Before
  <2>2. <<>> \in Seq(P) /\ quoted(<<>>) = <<>>
    OBVIOUS
  <2>3. SplitAt(<<>>) = NothingRead
    BY Splits
  <2>. QED
    BY <2>1, <2>2, <2>3, Zenon DEF NothingRead
<1>2. ASSUME NEW u \in Seq(P), NEW name \in P, u \in T  PROVE  Append(u, name) \in T
  <2>. DEFINE v == Append(u, name)
  <2>1. /\ v \in Seq(P) /\ Len(v) = Len(u) + 1 /\ v[Len(u) + 1] = name /\ Len(u) \in Nat
        /\ \A i \in 1..Len(u) : v[i] = u[i] /\ u[i] \in P
        /\ v # <<>>
    <3>. HIDE DEF P
    <3>1. /\ v \in Seq(P) /\ Len(v) = Len(u) + 1 /\ v[Len(u) + 1] = name /\ Len(u) \in Nat
          /\ \A i \in 1..Len(u) : v[i] = u[i] /\ u[i] \in P
      OBVIOUS
    <3>. HIDE DEF v
    <3>2. v # <<>>
      BY <3>1
    <3>. QED
      BY <3>1, <3>2
  <2>2. /\ Listed(u) \in Seq(S) /\ Before(u) \in Seq(S) /\ Before(v) = <<Comma>>
        /\ Listed(v) = Listed(u) \o (Before(u) \o Quoted(name))
    BY <2>1, ListedAppend DEF Before
  <2>. SUFFICES v \in T
    OBVIOUS
  <2>. HIDE DEF v
  <2>. SUFFICES ASSUME \A i \in 1..Len(v) : ~Contains(v[i], Comma)
                PROVE  SplitAt(Listed(v) \o Before(v)) = started(v)
    BY <2>1, Zenon
  <2>3. ~Contains(name, Comma) /\ \A i \in 1..Len(u) : ~Contains(u[i], Comma)
    <3>1. Len(u) + 1 \in 1..Len(v) /\ \A i \in 1..Len(u) : i \in 1..Len(v)
      BY <2>1
    <3>. QED
      BY <2>1, <3>1, Zenon
  <2>. DEFINE s == Listed(u) \o Before(u)  q == Quoted(name)
  <2>4. SplitAt(s) = started(u)
    BY <1>2, <2>3
  <2>5. q \in Seq(S) /\ ~Contains(q, Comma) /\ s \in Seq(S)
    BY <2>2, <2>3, QuotedPlain
  <2>6. Listed(v) = s \o q
    <3>. DEFINE l == Listed(u)  b == Before(u)
    <3>1. l \in Seq(S) /\ b \in Seq(S) /\ q \in Seq(S) /\ Listed(v) = l \o (b \o q)
      BY <2>2, <2>5
    <3>. HIDE DEF l, b, q
    <3>2. (l \o b) \o q = l \o (b \o q)
      BY <1>0, <3>1, Zenon DEF AssociativeOn
    <3>. QED
      BY <3>1, <3>2, Zenon DEF l, b
  <2>. HIDE DEF s, q
  <2>7. SplitAt(s \o q) = [pieces |-> quoted(u), piece |-> q]
    <3>1. SplitAt(s \o q) = [pieces |-> SplitAt(s).pieces, piece |-> SplitAt(s).piece \o q]
      BY <2>5, ReadPlain
    <3>2. <<>> \o q = q
      BY <2>5
    <3>. QED
      BY <2>4, <3>1, <3>2
  <2>8. s \o q \in Seq(S) /\ Comma \in S /\ (s \o q) \o <<Comma>> = Append(s \o q, Comma)
    BY <2>5
  <2>9. SplitAt(Append(s \o q, Comma)) = [pieces |-> Append(quoted(u), q), piece |-> <<>>]
    <3>1. SplitAt(Append(s \o q, Comma)) = ReadNext(SplitAt(s \o q), Comma, Comma, {})
      BY <2>8, Splits
    <3>2. ReadNext([pieces |-> quoted(u), piece |-> q], Comma, Comma, {})
            = [pieces |-> Append(quoted(u), q), piece |-> <<>>]
      BY DEF ReadNext, Close
    <3>. QED
      BY <2>7, <3>1, <3>2, Zenon
  <2>10. Append(quoted(u), q) = quoted(v)
    <3>0. \A i \in 1..Len(u) : Quoted(u[i]) \in P
      BY <2>1, QuotedPlain
    <3>. HIDE DEF P
    <3>1. q \in P /\ q = Quoted(name)
      BY <2>5 DEF P, q
    <3>2. quoted(u) \in Seq(P) /\ Len(quoted(u)) = Len(u)
      BY <2>1, <3>0
    <3>3. \A i \in 1..(Len(u) + 1) : i \in 1..Len(u) \/ i = Len(u) + 1
      BY <2>1
    <3>4. \A i \in 1..Len(v) : Quoted(v[i]) \in P
      BY <2>1, <3>0, <3>1, <3>3
    <3>5. quoted(v) \in Seq(P) /\ Len(quoted(v)) = Len(u) + 1
      BY <2>1, <3>4
    <3>6. Append(quoted(u), q) \in Seq(P) /\ Len(Append(quoted(u), q)) = Len(u) + 1
      BY <2>1, <3>1, <3>2
    <3>7. ASSUME NEW i \in 1..(Len(u) + 1)  PROVE  Append(quoted(u), q)[i] = quoted(v)[i]
      BY <2>1, <3>1, <3>2, <3>3
    <3>. HIDE DEF quoted
    <3>. QED
      BY <3>5, <3>6, <3>7, SeqEqual
  <2>. QED
    BY <2>2, <2>6, <2>8, <2>9, <2>10, Zenon
<1>3. names \in T
  <2>0. names \in Seq(P)
    OBVIOUS
  <2>. HIDE DEF T, P
  <2>. QED
    BY <1>1, <1>2, <2>0, SequenceInduction
<1>. DEFINE l == Listed(names)
<1>4. l \in Seq(S) /\ Comma \in S /\ l \o Before(names) = Append(l, Comma)
  <2>1. l \in Seq(S) /\ <<>> \in Seq(S)
    BY ListedAppend
  <2>. HIDE DEF l
  <2>2. l \o <<Comma>> = Append(l, Comma)
    BY <2>1
  <2>. QED
    BY <2>1, <2>2 DEF Before
<1>5. SplitAt(Append(l, Comma)) = started(names)
  BY <1>3, <1>4
<1>6. SplitAt(Append(l, Comma)) = [pieces |-> Close(SplitAt(l), {}), piece |-> <<>>]
  <2>1. SplitAt(Append(l, Comma)) = ReadNext(SplitAt(l), Comma, Comma, {})
    BY <1>4, Splits
  <2>. QED
    BY <2>1 DEF ReadNext
<1>7. Close(SplitAt(l), {}) = quoted(names)
  BY <1>5, <1>6
<1>. QED
  BY <1>7, Zenon DEF Split, SplitAt

-----------------------------------------------------------------------------
(* A comma in a name.                                                      *)

\* A piece that is not a quoted name.
Spoiled(piece) == Len(piece) < 2 \/ piece[1] # Quote \/ piece[Len(piece)] # Quote

\* There is such a piece, or the one being read will be such.
Doomed(r) ==
    \/ \E i \in 1..Len(r.pieces) : Spoiled(r.pieces[i])
    \/ r.piece # <<>> /\ r.piece[1] # Quote

\* There is no way back.
LEMMA DoomedNext ==
    ASSUME NEW S, NEW r \in Readings(S), NEW c \in S, Doomed(r)
    PROVE  Doomed(ReadNext(r, c, Comma, {}))
<1>. DEFINE P == Seq(S)  pieces == r.pieces  piece == r.piece
<1>1. pieces \in Seq(P) /\ piece \in Seq(S)
  BY DEF Readings
<1>2. \/ \E i \in 1..Len(pieces) : Spoiled(pieces[i])
      \/ piece # <<>> /\ piece[1] # Quote
  BY DEF Doomed
<1>. HIDE DEF pieces
<1>3. CASE c = Comma
  <2>. DEFINE more == Append(pieces, piece)
  <2>1. /\ Len(pieces) \in Nat /\ Len(more) = Len(pieces) + 1 /\ more[Len(pieces) + 1] = piece
        /\ \A i \in 1..Len(pieces) : more[i] = pieces[i]
    <3>. HIDE DEF P
    <3>1. piece \in P
      BY <1>1 DEF P
    <3>. HIDE DEF piece
    <3>. QED
      BY <1>1, <3>1
  <2>2. ReadNext(r, c, Comma, {}) = [pieces |-> more, piece |-> <<>>]
    BY <1>3 DEF ReadNext, Close, pieces
  <2>. HIDE DEF more, piece
  <2>3. \E i \in 1..Len(more) : Spoiled(more[i])
    <3>1. CASE \E i \in 1..Len(pieces) : Spoiled(pieces[i])
      BY <2>1, <3>1
    <3>2. CASE piece # <<>> /\ piece[1] # Quote
      <4>1. Spoiled(piece) /\ Len(pieces) + 1 \in 1..Len(more)
        BY <2>1, <3>2 DEF Spoiled
      <4>. QED
        BY <2>1, <4>1
    <3>. QED
      BY <1>2, <3>1, <3>2
  <2>. QED
    BY <2>2, <2>3 DEF Doomed
<1>4. CASE c # Comma
  <2>1. ReadNext(r, c, Comma, {}) = [pieces |-> pieces, piece |-> Append(piece, c)]
    BY <1>4 DEF ReadNext, pieces
  <2>. HIDE DEF piece
  <2>2. piece # <<>> => Append(piece, c) # <<>> /\ Append(piece, c)[1] = piece[1]
    BY <1>1
  <2>. QED
    BY <1>2, <2>1, <2>2 DEF Doomed
<1>. QED
  BY <1>3, <1>4

\* Whatever text follows.
LEMMA DoomedForever ==
    ASSUME NEW S, NEW s \in Seq(S), Doomed(SplitAt(s)), NEW t \in Seq(S)
    PROVE  Doomed(SplitAt(s \o t))
<1>. DEFINE T == {u \in Seq(S) : Doomed(SplitAt(s \o u))}
<1>1. <<>> \in T
  <2>1. s \o <<>> = s /\ <<>> \in Seq(S)
    OBVIOUS
  <2>. QED
    BY <2>1
<1>2. ASSUME NEW u \in Seq(S), NEW e \in S, u \in T  PROVE  Append(u, e) \in T
  <2>1. s \o Append(u, e) = Append(s \o u, e) /\ s \o u \in Seq(S) /\ Append(u, e) \in Seq(S)
    BY AppendToConcat
  <2>2. SplitAt(Append(s \o u, e)) = ReadNext(SplitAt(s \o u), e, Comma, {})
        /\ SplitAt(s \o u) \in Readings(S)
    BY <2>1, Splits
  <2>3. Doomed(ReadNext(SplitAt(s \o u), e, Comma, {}))
    BY <1>2, <2>2, DoomedNext
  <2>. QED
    BY <2>1, <2>2, <2>3
<1>3. t \in T
  <2>. HIDE DEF T
  <2>. QED
    BY <1>1, <1>2, SequenceInduction
<1>. QED
  BY <1>3

\* Where a name goes on after a comma, no piece can begin with a quote.
Loose(r) == Doomed(r) \/ r.piece = <<>>

\* Short texts, as concatenations.
LEMMA PutTogether ==
    ASSUME NEW S, NEW x \in S, NEW y \in S
    PROVE  /\ <<x, y>> = <<x>> \o <<y>> /\ <<x>> = <<x>> \o <<>>
           /\ <<x>> \in Seq(S) /\ <<>> \in Seq(S)
<1>. DEFINE t == <<x>> \o <<y>>  u == <<x>> \o <<>>
<1>1. t \in Seq(S) /\ Len(t) = 2 /\ t[1] = x /\ t[2] = y
  OBVIOUS
<1>2. u \in Seq(S) /\ Len(u) = 1 /\ u[1] = x
  OBVIOUS
<1>. HIDE DEF t, u
<1>3. <<x, y>> = t /\ <<x>> = u
  BY <1>1, <1>2
<1>. QED
  BY <1>3 DEF t, u

\* The next character of the name settles it.
LEMMA EscapedDooms ==
    ASSUME NEW S, {Quote, Backslash, Comma} \cup EscapeLetters \subseteq S, NEW s \in Seq(S), NEW e \in S,
           Loose(SplitAt(s))
    PROVE  Doomed(SplitAt(s \o Escaped(e)))
<1>1. Escaped(e) \in Seq(S)
  BY EscapedIs
<1>2. CASE Doomed(SplitAt(s))
  BY <1>1, <1>2, DoomedForever
<1>3. CASE SplitAt(s).piece = <<>>
  <2>1. PICK x \in S \ {Quote}, rest \in Seq(S) : Escaped(e) = <<x>> \o rest
    <3>1. Backslash \in S \ {Quote}
      BY DEF Backslash, Quote
    <3>2. CASE e \in {Quote, Backslash}
      <4>1. Escaped(e) = <<Backslash, e>>
        BY <3>2, EscapedIs
      <4>2. <<Backslash, e>> = <<Backslash>> \o <<e>> /\ <<e>> \in Seq(S)
        BY <3>1, PutTogether
      <4>. QED
        BY <3>1, <4>1, <4>2, Zenon
    <3>3. CASE e \in Controls
      BY <3>1, <3>3, EscapedIs, Zenon
    <3>4. CASE e \notin {Quote, Backslash} \cup Controls
      <4>1. Escaped(e) = <<e>>
        BY <3>4, EscapedIs
      <4>2. <<e>> = <<e>> \o <<>> /\ <<>> \in Seq(S)
        BY PutTogether
      <4>3. e \in S \ {Quote}
        BY <3>4
      <4>. QED
        BY <4>1, <4>2, <4>3, Zenon
    <3>. QED
      BY <3>2, <3>3, <3>4
  <2>2. s \o <<x>> = Append(s, x) /\ Append(s, x) \in Seq(S) /\ <<x>> \in Seq(S)
    OBVIOUS
  <2>. DEFINE r == SplitAt(s)
  <2>3. r \in Readings(S) /\ SplitAt(Append(s, x)) = ReadNext(r, x, Comma, {})
    BY Splits
  <2>. HIDE DEF r
  <2>4. Doomed(ReadNext(r, x, Comma, {}))
    <3>. DEFINE P == Seq(S)  pieces == r.pieces
    <3>1. r.piece = <<>> /\ pieces \in Seq(P)
      BY <1>3, <2>3 DEF r, Readings
    <3>. HIDE DEF P, pieces
    <3>2. CASE x = Comma
      <4>. DEFINE more == Append(pieces, <<>>)
      <4>1. <<>> \in P
        BY DEF P
      <4>2. Len(more) \in 1..Len(more) /\ more[Len(more)] = <<>>
        BY <3>1, <4>1
      <4>3. ReadNext(r, x, Comma, {}) = [pieces |-> more, piece |-> <<>>]
        BY <3>1, <3>2 DEF ReadNext, Close, pieces
      <4>4. Spoiled(<<>>)
        BY DEF Spoiled
      <4>. HIDE DEF more
      <4>5. \E i \in 1..Len(more) : Spoiled(more[i])
        BY <4>2, <4>4
      <4>. QED
        BY <4>3, <4>5 DEF Doomed
    <3>3. CASE x # Comma
      <4>1. ReadNext(r, x, Comma, {}) = [pieces |-> pieces, piece |-> Append(<<>>, x)]
        BY <3>1, <3>3 DEF ReadNext, pieces
      <4>2. Append(<<>>, x) # <<>> /\ Append(<<>>, x)[1] = x
        OBVIOUS
      <4>. QED
        BY <4>1, <4>2 DEF Doomed
    <3>. QED
      BY <3>2, <3>3
  <2>5. Doomed(SplitAt((s \o <<x>>) \o rest))
    BY <2>2, <2>3, <2>4, DoomedForever
  <2>6. (s \o <<x>>) \o rest = s \o (<<x>> \o rest)
    BY <2>2, ConcatAssociative
  <2>. QED
    BY <2>1, <2>5, <2>6
<1>. QED
  BY <1>2, <1>3 DEF Loose

\* After a name with a comma in it, the piece being read cannot become a quoted name.
LEMMA NameLoosens ==
    ASSUME NEW S, {Quote, Backslash, Comma} \cup EscapeLetters \subseteq S, NEW s \in Seq(S),
           NEW name \in Seq(S), Contains(name, Comma)
    PROVE  Loose(SplitAt(s \o EscapedAll(name)))
<1>. DEFINE T == {u \in Seq(S) : Contains(u, Comma) => Loose(SplitAt(s \o EscapedAll(u)))}
<1>1. <<>> \in T
  BY DEF Contains
<1>2. ASSUME NEW u \in Seq(S), NEW e \in S, u \in T  PROVE  Append(u, e) \in T
  <2>1. Append(u, e) \in Seq(S)
    OBVIOUS
  <2>. SUFFICES ASSUME Contains(Append(u, e), Comma)
                PROVE  Loose(SplitAt(s \o EscapedAll(Append(u, e))))
    BY <2>1
  <2>. DEFINE escaped == EscapedAll(u)  last == Escaped(e)  before == s \o escaped
  <2>2. escaped \in Seq(S) /\ last \in Seq(S) /\ EscapedAll(Append(u, e)) = escaped \o last
    BY EscapedAllAppend
  <2>. HIDE DEF escaped, last
  <2>3. s \o (escaped \o last) = before \o last /\ before \in Seq(S)
    <3>1. before \in Seq(S)
      BY <2>2
    <3>2. before \o last = s \o (escaped \o last)
      BY <2>2, ConcatAssociative
    <3>. QED
      BY <3>1, <3>2, Zenon
  <2>4. CASE Contains(u, Comma)
    <3>1. Loose(SplitAt(before))
      BY <1>2, <2>4 DEF escaped
    <3>. HIDE DEF before
    <3>2. Doomed(SplitAt(before \o last))
      BY <2>3, <3>1, EscapedDooms DEF last
    <3>. QED
      BY <2>2, <2>3, <3>2, Zenon DEF Loose
  <2>5. CASE e = Comma
    <3>1. last = <<Comma>>
      <4>1. Comma \notin {Quote, Backslash} \cup Controls
        BY ControlsApart DEF Comma, Quote, Backslash
      <4>. QED
        BY <2>5, <4>1, EscapedIs DEF last
    <3>. HIDE DEF before
    <3>2. before \o last = Append(before, Comma)
      BY <2>3, <3>1
    <3>3. SplitAt(Append(before, Comma)) = ReadNext(SplitAt(before), Comma, Comma, {})
      BY <2>3, Splits
    <3>4. ReadNext(SplitAt(before), Comma, Comma, {}).piece = <<>>
      BY DEF ReadNext
    <3>. QED
      BY <2>2, <2>3, <3>2, <3>3, <3>4, Zenon DEF Loose
  <2>. QED
    BY <2>4, <2>5, ContainsAppend
<1>3. name \in T
  <2>. HIDE DEF T
  <2>. QED
    BY <1>1, <1>2, SequenceInduction
<1>. QED
  BY <1>3

\* Nor can what its closing quote begins.
LEMMA QuotedDooms ==
    ASSUME NEW S, {Quote, Backslash, Comma} \cup EscapeLetters \subseteq S, NEW s \in Seq(S),
           NEW name \in Seq(S), Contains(name, Comma)
    PROVE  Doomed(SplitAt((s \o Quoted(name)) \o <<Comma>>))
<1>. DEFINE escaped == EscapedAll(name)  open == s \o <<Quote>>  body == open \o escaped
<1>1. escaped \in Seq(S) /\ <<Quote>> \in Seq(S) /\ Quote \in S /\ Comma \in S
  BY EscapedAllAppend
<1>2. open \in Seq(S)
  BY <1>1
<1>3. Loose(SplitAt(body))
  <2>. HIDE DEF open
  <2>. QED
    BY <1>2, NameLoosens
<1>. HIDE DEF escaped
<1>4. /\ body \in Seq(S)
      /\ s \o ((<<Quote>> \o escaped) \o <<Quote>>) = body \o <<Quote>>
  <2>1. (<<Quote>> \o escaped) \o <<Quote>> = <<Quote>> \o (escaped \o <<Quote>>)
        /\ escaped \o <<Quote>> \in Seq(S)
    BY <1>1, ConcatAssociative
  <2>2. s \o (<<Quote>> \o (escaped \o <<Quote>>)) = open \o (escaped \o <<Quote>>)
    BY <1>1, <2>1, ConcatAssociative
  <2>3. open \o (escaped \o <<Quote>>) = (open \o escaped) \o <<Quote>>
    BY <1>1, <1>2, ConcatAssociative
  <2>4. open \o escaped \in Seq(S)
    BY <1>1, <1>2
  <2>. QED
    BY <2>1, <2>2, <2>3, <2>4, Zenon
<1>. HIDE DEF open, body
<1>5. s \o Quoted(name) = Append(body, Quote)
  <2>1. body \o <<Quote>> = Append(body, Quote)
    BY <1>1, <1>4
  <2>. QED
    BY <1>4, <2>1, Zenon DEF Quoted, escaped
<1>. DEFINE t == Append(body, Quote)  r == SplitAt(body)  q == SplitAt(t)
<1>6. t \in Seq(S) /\ Append(t, Comma) = t \o <<Comma>>
  BY <1>1, <1>4
<1>7. r \in Readings(S) /\ q \in Readings(S) /\ q = ReadNext(r, Quote, Comma, {})
      /\ SplitAt(Append(t, Comma)) = ReadNext(q, Comma, Comma, {})
  <2>. HIDE DEF t
  <2>1. q \in Readings(S) /\ SplitAt(Append(t, Comma)) = ReadNext(q, Comma, Comma, {})
    BY <1>1, <1>6, Splits
  <2>2. r \in Readings(S) /\ SplitAt(Append(body, Quote)) = ReadNext(r, Quote, Comma, {})
    BY <1>1, <1>4, Splits
  <2>. QED
    BY <2>1, <2>2 DEF t
<1>. HIDE DEF r, q
<1>8. Doomed(ReadNext(q, Comma, Comma, {}))
  <2>1. CASE Doomed(r)
    BY <1>1, <1>7, <2>1, DoomedNext
  <2>2. CASE r.piece = <<>>
    <3>. DEFINE P == Seq(S)  pieces == r.pieces  more == Append(pieces, <<Quote>>)
    <3>1. pieces \in Seq(P) /\ <<Quote>> \in P
      BY <1>1, <1>7 DEF Readings
    <3>2. q = [pieces |-> pieces, piece |-> <<Quote>>]
      <4>1. Quote # Comma
        BY DEF Quote, Comma
      <4>2. Append(<<>>, Quote) = <<Quote>>
        OBVIOUS
      <4>. QED
        BY <1>7, <2>2, <4>1, <4>2 DEF ReadNext
    <3>3. ReadNext(q, Comma, Comma, {}) = [pieces |-> more, piece |-> <<>>]
      BY <3>2 DEF ReadNext, Close
    <3>4. Spoiled(<<Quote>>)
      BY DEF Spoiled
    <3>5. Len(more) \in 1..Len(more) /\ more[Len(more)] = <<Quote>>
      <4>. DEFINE o == <<Quote>>
      <4>1. o \in P
        BY <3>1
      <4>. HIDE DEF P, pieces, o
      <4>2. pieces \in Seq(P)
        BY <3>1 DEF pieces
      <4>. QED
        BY <4>1, <4>2 DEF o
    <3>. HIDE DEF more
    <3>6. \E i \in 1..Len(more) : Spoiled(more[i])
      BY <3>4, <3>5
    <3>. QED
      BY <3>3, <3>6 DEF Doomed
  <2>. QED
    BY <1>3, <2>1, <2>2 DEF Loose, r
<1>. QED
  BY <1>5, <1>6, <1>7, <1>8, Zenon DEF t

\* A list of at least one name is not the empty array.
LEMMA ListedSomething ==
    ASSUME NEW S, {Quote, Backslash, Comma} \cup EscapeLetters \subseteq S, NEW names \in Seq(Seq(S)),
           names # <<>>
    PROVE  Listed(names) # <<>>
<1>. DEFINE P == Seq(S)
            T == {u \in Seq(P) : u # <<>> => Listed(u) # <<>>}
<1>1. <<>> \in T
  OBVIOUS
<1>2. ASSUME NEW u \in Seq(P), NEW name \in P, u \in T  PROVE  Append(u, name) \in T
  <2>. DEFINE l == Listed(u)  b == Before(u)  e == EscapedAll(name)
  <2>1. l \in Seq(S) /\ b \in Seq(S) /\ Listed(Append(u, name)) = l \o (b \o Quoted(name))
    BY ListedAppend
  <2>2. e \in Seq(S) /\ Quote \in S
    BY EscapedAllAppend
  <2>3. Quoted(name) = (<<Quote>> \o e) \o <<Quote>>
    BY Zenon DEF Quoted
  <2>4. Append(u, name) \in Seq(P)
    <3>. HIDE DEF P
    <3>. QED
      OBVIOUS
  <2>. HIDE DEF l, b, e
  <2>5. l \o (b \o ((<<Quote>> \o e) \o <<Quote>>)) # <<>>
    BY <2>1, <2>2
  <2>. QED
    BY <2>1, <2>3, <2>4, <2>5, Zenon
<1>3. names \in T
  <2>0. names \in Seq(P)
    OBVIOUS
  <2>. HIDE DEF T, P
  <2>. QED
    BY <1>1, <1>2, <2>0, SequenceInduction
<1>. QED
  BY <1>3

\* A list with a comma in a name is split into pieces that are not all names.
LEMMA CommaSpoils ==
    ASSUME NEW S, {Quote, Backslash, Comma} \cup EscapeLetters \subseteq S, NEW names \in Seq(Seq(S)),
           \E i \in 1..Len(names) : Contains(names[i], Comma)
    PROVE  \E i \in 1..Len(Split(Listed(names), Comma)) : Spoiled(Split(Listed(names), Comma)[i])
<1>. DEFINE P == Seq(S)
            T == {u \in Seq(P) : (\E i \in 1..Len(u) : Contains(u[i], Comma)) =>
                     Doomed(SplitAt(Listed(u) \o Before(u)))}
<1>0. AssociativeOn(S)
  BY Associative
<1>1. <<>> \in T
  OBVIOUS
<1>2. ASSUME NEW u \in Seq(P), NEW name \in P, u \in T  PROVE  Append(u, name) \in T
  <2>. DEFINE v == Append(u, name)
  <2>1. /\ v \in Seq(P) /\ Len(v) = Len(u) + 1 /\ v[Len(u) + 1] = name /\ Len(u) \in Nat
        /\ \A i \in 1..Len(u) : v[i] = u[i]
        /\ v # <<>>
    <3>. HIDE DEF P
    <3>1. /\ v \in Seq(P) /\ Len(v) = Len(u) + 1 /\ v[Len(u) + 1] = name /\ Len(u) \in Nat
          /\ \A i \in 1..Len(u) : v[i] = u[i]
      OBVIOUS
    <3>. HIDE DEF v
    <3>2. v # <<>>
      BY <3>1
    <3>. QED
      BY <3>1, <3>2
  <2>2. /\ Listed(u) \in Seq(S) /\ Before(u) \in Seq(S) /\ Before(v) = <<Comma>>
        /\ Listed(v) = Listed(u) \o (Before(u) \o Quoted(name))
    BY <2>1, ListedAppend DEF Before
  <2>. SUFFICES v \in T
    OBVIOUS
  <2>. HIDE DEF v
  <2>. SUFFICES ASSUME NEW i \in 1..Len(v), Contains(v[i], Comma)
                PROVE  Doomed(SplitAt(Listed(v) \o Before(v)))
    BY <2>1, Zenon
  <2>3. Contains(name, Comma) \/ \E j \in 1..Len(u) : Contains(u[j], Comma)
    <3>1. i \in 1..Len(u) \/ i = Len(u) + 1
      BY <2>1
    <3>. QED
      BY <2>1, <3>1, Zenon
  <2>. DEFINE s == Listed(u) \o Before(u)  q == Quoted(name)
  <2>4. q \in Seq(S) /\ s \in Seq(S) /\ <<Comma>> \in Seq(S)
    <3>1. Quoted(name) \in Seq(S)
      BY QuotedPlain
    <3>2. <<Comma>> \in Seq(S)
      OBVIOUS
    <3>3. \A l, b \in Seq(S) : l \o b \in Seq(S)
      OBVIOUS
    <3>. QED
      BY <2>2, <3>1, <3>2, <3>3, Zenon
  <2>5. Listed(v) \o Before(v) = (s \o q) \o <<Comma>>
    <3>. DEFINE l == Listed(u)  b == Before(u)
    <3>1. l \in Seq(S) /\ b \in Seq(S) /\ q \in Seq(S) /\ Listed(v) = l \o (b \o q)
      BY <2>2, <2>4
    <3>. HIDE DEF l, b, q
    <3>2. (l \o b) \o q = l \o (b \o q)
      BY <1>0, <3>1, Zenon DEF AssociativeOn
    <3>. QED
      BY <2>2, <3>1, <3>2, Zenon DEF l, b
  <2>6. CASE Contains(name, Comma)
    <3>1. Doomed(SplitAt((s \o q) \o <<Comma>>))
      <4>. HIDE DEF s
      <4>. QED
        BY <2>4, <2>6, QuotedDooms
    <3>. QED
      BY <2>5, <3>1, Zenon
  <2>7. CASE \E j \in 1..Len(u) : Contains(u[j], Comma)
    <3>1. Doomed(SplitAt(s))
      BY <1>2, <2>7
    <3>. DEFINE rest == q \o <<Comma>>
    <3>. HIDE DEF s, q
    <3>2. rest \in Seq(S) /\ (s \o q) \o <<Comma>> = s \o rest
      <4>1. rest \in Seq(S)
        BY <2>4
      <4>2. (s \o q) \o <<Comma>> = s \o (q \o <<Comma>>)
        BY <1>0, <2>4, Zenon DEF AssociativeOn
      <4>. QED
        BY <4>1, <4>2
    <3>. HIDE DEF rest
    <3>3. Doomed(SplitAt(s \o rest))
      BY <2>4, <3>1, <3>2, DoomedForever
    <3>. QED
      BY <2>5, <3>2, <3>3, Zenon
  <2>. QED
    BY <2>3, <2>6, <2>7
<1>3. names \in T
  <2>0. names \in Seq(P)
    OBVIOUS
  <2>. HIDE DEF T, P
  <2>. QED
    BY <1>1, <1>2, <2>0, SequenceInduction
<1>. DEFINE l == Listed(names)
<1>4. l \in Seq(S) /\ Comma \in S /\ l \o Before(names) = Append(l, Comma)
  <2>1. l \in Seq(S) /\ <<>> \in Seq(S) /\ names # <<>>
    BY ListedAppend
  <2>. HIDE DEF l
  <2>2. l \o <<Comma>> = Append(l, Comma)
    BY <2>1
  <2>. QED
    BY <2>1, <2>2 DEF Before
<1>5. Doomed(SplitAt(Append(l, Comma)))
  BY <1>3, <1>4
<1>6. SplitAt(Append(l, Comma)) = [pieces |-> Close(SplitAt(l), {}), piece |-> <<>>]
  <2>1. SplitAt(Append(l, Comma)) = ReadNext(SplitAt(l), Comma, Comma, {})
    BY <1>4, Splits
  <2>. QED
    BY <2>1 DEF ReadNext
<1>7. \E i \in 1..Len(Close(SplitAt(l), {})) : Spoiled(Close(SplitAt(l), {})[i])
  BY <1>5, <1>6 DEF Doomed
<1>. QED
  BY <1>7, Zenon DEF Split, SplitAt

\* What a text is split into are texts.
LEMMA SplitType ==
    ASSUME NEW S, NEW text \in Seq(S)
    PROVE  Split(text, Comma) \in Seq(Seq(S))
BY ReadAllType DEF Split, Close, Readings

\* A quoted name is read back; as another, if there is a control character in it.
LEMMA QuotedIsParsed ==
    ASSUME NEW S, {Quote, Backslash} \cup EscapeLetters \subseteq S, NEW name \in Seq(S)
    PROVE  /\ ParseItem(Quoted(name)) \in Seq(S)
           /\ Printable(name) => ParseItem(Quoted(name)) = name
<1>. DEFINE escaped == EscapedAll(name)  item == (<<Quote>> \o escaped) \o <<Quote>>
<1>1. escaped \in Seq(S) /\ Quote \in S /\ Backslash \in S
  BY EscapedAllAppend
<1>2. item = Quoted(name)
  BY Zenon DEF Quoted
<1>3. /\ Len(item) \in Nat /\ Len(item) >= 2 /\ item[1] = Quote /\ item[Len(item)] = Quote
      /\ SubSeq(item, 2, Len(item) - 1) = escaped
  <2>. HIDE DEF escaped
  <2>1. /\ item \in Seq(S) /\ Len(item) = Len(escaped) + 2 /\ Len(escaped) \in Nat
        /\ item[1] = Quote /\ item[Len(escaped) + 2] = Quote
        /\ \A i \in 1..Len(escaped) : item[i + 1] = escaped[i]
    BY <1>1
  <2>. HIDE DEF item
  <2>. DEFINE part == SubSeq(item, 2, Len(item) - 1)
  <2>2. /\ part \in Seq(S) /\ Len(part) = Len(escaped)
        /\ \A i \in 1..Len(escaped) : part[i] = item[i + 1]
    BY <2>1
  <2>. HIDE DEF part
  <2>3. part = escaped
    <3>1. Len(part) = Len(escaped) /\ \A i \in 1..Len(part) : part[i] = escaped[i]
      BY <2>1, <2>2
    <3>. QED
      BY <1>1, <2>2, <3>1, SeqEqual
  <2>. QED
    BY <2>1, <2>3 DEF part
<1>. HIDE DEF item, escaped
<1>4. ParseItem(item) = Unescape(Unescape(escaped, Quote), Backslash)
  <2>1. ~(Len(item) < 2)
    BY <1>3
  <2>. QED
    BY <1>3, <2>1, Zenon DEF ParseItem
<1>5. Unescape(escaped, Quote) \in Seq(S)
  BY <1>1, UnescapeType
<1>6. Unescape(Unescape(escaped, Quote), Backslash) \in Seq(S)
  BY <1>1, <1>5, UnescapeType
<1>7. Printable(name) => Unescape(Unescape(escaped, Quote), Backslash) = name
  BY UnescapesName DEF escaped
<1>. QED
  BY <1>2, <1>4, <1>6, <1>7, Zenon

\* parse_json_string_array undoes JSON.stringify: every name printed for the bridge is
\* read back in its place, with its quotes and backslashes.  It refuses a list only for a
\* comma in a name, and alters none but a name with control characters.
THEOREM ListIsParsed ==
    ASSUME NEW S, {Quote, Backslash, Comma} \cup EscapeLetters \subseteq S, NEW names \in Seq(Seq(S)),
           Refused \notin Seq(S), Refused \notin Seq(Seq(S))
    PROVE  LET answer == ParseJSONStringArray(JSONArray(names))
           IN  IF answer = Refused THEN \E i \in 1..Len(names) : Contains(names[i], Comma)
               ELSE /\ Len(answer) = Len(names)
                    /\ \A i \in 1..Len(names) : Printable(names[i]) => answer[i] = names[i]
<1>. DEFINE P == Seq(S)
            Has(c) == \E i \in 1..Len(names) : Contains(names[i], c)
            l == Listed(names)  text == JSONArray(names)
            answer == ParseJSONStringArray(text)
            W == S \cup {"[", "]"}
            Exact(a) == /\ Len(a) = Len(names)
                        /\ \A i \in 1..Len(names) : Printable(names[i]) => a[i] = names[i]
<1>. SUFFICES IF answer = Refused THEN Has(Comma) ELSE Exact(answer)
  BY Zenon
<1>1. names \in Seq(P) /\ \A i \in 1..Len(names) : names[i] \in P
  OBVIOUS
<1>2. l \in Seq(S)
  <2>1. <<>> \in Seq(S)
    OBVIOUS
  <2>. QED
    BY <2>1, ListedAppend
<1>3. /\ Len(text) = Len(l) + 2 /\ Len(l) \in Nat
      /\ SubSeq(text, 2, Len(text) - 1) = l
  <2>. DEFINE t == (<<"[">> \o l) \o <<"]">>
  <2>0. l \in Seq(W)
    <3>. HIDE DEF l
    <3>. QED
      BY <1>2
  <2>1. text = t
    BY Zenon DEF JSONArray
  <2>. HIDE DEF l
  <2>2. "[" \in W /\ "]" \in W
    OBVIOUS
  <2>. HIDE DEF W
  <2>3. /\ t \in Seq(W) /\ Len(t) = Len(l) + 2 /\ Len(l) \in Nat
        /\ \A i \in 1..Len(l) : t[i + 1] = l[i]
    BY <2>0, <2>2
  <2>. HIDE DEF t
  <2>. DEFINE part == SubSeq(t, 2, Len(t) - 1)
  <2>4. /\ part \in Seq(W) /\ Len(part) = Len(l)
        /\ \A i \in 1..Len(l) : part[i] = t[i + 1]
    BY <2>3
  <2>. HIDE DEF part
  <2>5. part = l
    <3>1. Len(part) = Len(l) /\ \A i \in 1..Len(part) : part[i] = l[i]
      BY <2>3, <2>4
    <3>. QED
      BY <2>0, <2>4, <3>1, SeqEqual
  <2>. QED
    BY <2>1, <2>3, <2>5 DEF part
<1>. DEFINE items == Split(l, Comma)
            parsed == [i \in 1..Len(items) |-> ParseItem(items[i])]
<1>4. text # <<"[", "]">> =>
         answer = IF \E i \in 1..Len(parsed) : parsed[i] = Refused THEN Refused ELSE parsed
  BY <1>3, Zenon DEF ParseJSONStringArray
<1>7. names # <<>> => text # <<"[", "]">>
  <2>1. names # <<>> => l # <<>>
    BY ListedSomething
  <2>2. Len(<<"[", "]">>) = 2
    OBVIOUS
  <2>3. l # <<>> => Len(l) # 0
    <3>. HIDE DEF l
    <3>. QED
      BY <1>2
  <2>4. Len(l) # 0 => Len(text) # 2
    <3>. HIDE DEF l, text
    <3>. QED
      BY <1>3
  <2>. QED
    BY <2>1, <2>2, <2>3, <2>4, Zenon
<1>5. CASE names = <<>>
  <2>1. text = <<"[", "]">>
    <3>1. l = <<>>
      BY <1>5, ListedEmpty
    <3>2. <<"[">> = <<"[">> \o <<>> /\ <<"[", "]">> = <<"[">> \o <<"]">>
      BY PutTogether
    <3>. QED
      BY <3>1, <3>2, Zenon DEF JSONArray
  <2>2. answer = <<>>
    BY <2>1, Zenon DEF ParseJSONStringArray
  <2>3. ~Has(Comma) /\ answer = names
    BY <1>5, <2>2
  <2>4. answer # Refused
    BY <1>5, <2>3
  <2>5. Exact(names)
    OBVIOUS
  <2>. QED
    BY <2>3, <2>4, <2>5, Zenon
<1>6. CASE names # <<>> /\ Has(Comma)
  <2>1. PICK i \in 1..Len(items) : Spoiled(items[i])
    BY <1>6, CommaSpoils
  <2>2. ParseItem(items[i]) = Refused
    BY <2>1, Zenon DEF ParseItem, Spoiled
  <2>3. items \in Seq(Seq(S))
    BY <1>2, SplitType
  <2>. HIDE DEF items
  <2>4. Len(parsed) = Len(items) /\ parsed[i] = Refused
    BY <2>1, <2>2, <2>3
  <2>5. answer = Refused
    BY <1>4, <1>7, <1>6, <2>1, <2>4, Zenon
  <2>. QED
    BY <1>6, <2>5, Zenon
<1>8. CASE names # <<>> /\ ~Has(Comma)
  <2>. DEFINE quoted == [i \in 1..Len(names) |-> Quoted(names[i])]
  <2>1. items = quoted
    BY <1>8, PlainNames
  <2>. HIDE DEF items
  <2>2. Len(parsed) = Len(names) /\ \A i \in 1..Len(names) : parsed[i] = ParseItem(Quoted(names[i]))
    BY <1>1, <2>1
  <2>3. parsed = [i \in 1..Len(names) |-> parsed[i]]
    BY <1>1, <2>1
  <2>4. \A i \in 1..Len(names) : parsed[i] \in Seq(S)
    BY <1>1, <2>2, QuotedIsParsed
  <2>. HIDE DEF parsed
  <2>5. \A i \in 1..Len(parsed) : parsed[i] # Refused
    BY <2>2, <2>4
  <2>6. answer = parsed
    BY <1>4, <1>7, <1>8, <2>5, Zenon
  <2>7. answer # Refused
    <3>1. parsed \in Seq(Seq(S))
      <4>. DEFINE R == Seq(S)
      <4>1. \A i \in 1..Len(names) : parsed[i] \in R
        BY <2>4
      <4>2. Len(names) \in Nat
        OBVIOUS
      <4>. HIDE DEF R
      <4>3. parsed \in Seq(R)
        BY <2>3, <4>1, <4>2
      <4>. QED
        BY <4>3 DEF R
    <3>. QED
      BY <2>6, <3>1
  <2>8. Exact(parsed)
    BY <1>1, <2>2, QuotedIsParsed
  <2>. QED
    BY <2>6, <2>7, <2>8, Zenon
<1>. QED
  BY <1>5, <1>6, <1>8, Zenon
=============================================================================
