--------------------------- MODULE SQLTextProofs ----------------------------
(***************************************************************************)
(* What the scanners of SQL text do, for every text: what the redaction    *)
(* lets through, which statements they find terminated, which calls are    *)
(* COUNT( * ), and that no executable comment gets lost.  The scanners are *)
(* recursive, so the proofs are inductions over positions: a set of        *)
(* positions that is not empty has a first and a last one, and there is    *)
(* none where a claim fails if it holds wherever it does before (or        *)
(* behind).                                                                *)
(***************************************************************************)
EXTENDS SQLLexer, FiniteSetTheorems, WellFoundedInduction, TLAPS

Before == {pair \in Nat \X Nat : pair[1] < pair[2]}

LEMMA LeastNumber ==
  ASSUME NEW S, S \subseteq Nat, S # {}
  PROVE  \E n \in S : \A m \in S : n <= m
<1>1. IsWellFoundedOn(Before, Nat)
  BY NatLessThanWellFounded DEF OpToRel, Before
<1>2. PICK n \in S : \A m \in S : <<m, n>> \notin Before
  BY <1>1, WFMin
<1>3. \A m \in S : <<m, n>>[1] = m /\ <<m, n>>[2] = n
  OBVIOUS
<1>4. \A m \in S : ~ (m < n)
  BY <1>2, <1>3 DEF Before
<1> QED
  BY <1>4

LEMMA LeastChosen ==
  ASSUME NEW S, S \subseteq Nat, S # {}
  PROVE  /\ (CHOOSE j \in S : \A k \in S : j <= k) \in S
         /\ \A k \in S : (CHOOSE j \in S : \A m \in S : j <= m) <= k
BY LeastNumber

LEMMA GreatestNumber ==
  ASSUME NEW N \in Nat, NEW S, S \subseteq 0 .. N, S # {}
  PROVE  \E n \in S : \A m \in S : m <= n
<1> DEFINE Mirror == {k \in 0 .. N : N - k \in S}
<1>1. Mirror \subseteq Nat /\ Mirror # {}
  <2>1. PICK m \in S : TRUE
    OBVIOUS
  <2>2. N - m \in 0 .. N /\ N - (N - m) = m
    OBVIOUS
  <2>3. N - m \in Mirror
    BY <2>1, <2>2
  <2>4. Mirror \subseteq Nat
    OBVIOUS
  <2> HIDE DEF Mirror
  <2> QED
    BY <2>3, <2>4
<1>2. PICK k \in Mirror : \A j \in Mirror : k <= j
  <2> HIDE DEF Mirror
  <2> QED
    BY <1>1, LeastNumber
<1>3. ASSUME NEW m \in S PROVE m <= N - k
  <2>1. N - m \in 0 .. N /\ N - (N - m) = m
    OBVIOUS
  <2>2. N - m \in Mirror
    BY <2>1
  <2> QED
    BY <1>2, <2>1, <2>2
<1> QED
  BY <1>3

-----------------------------------------------------------------------------
(* Recursive functions exist. *)

\* Step says what a recursive function from D to V is at each of its arguments, and only
\* looks at it where the rank is lower.
Causal(D, V, N, rank, Step) ==
  /\ V # {} /\ N \in Nat
  /\ rank \in [D -> 0 .. N] /\ Step \in [D \X [D -> V] -> V]
  /\ \A i \in D : \A f, g \in [D -> V] :
    (\A j \in D : rank[j] < rank[i] => f[j] = g[j]) => Step[<<i, f>>] = Step[<<i, g>>]

Defines(D, V, Step) == \E f \in [D -> V] : \A i \in D : f[i] = Step[<<i, f>>]

\* A recursive definition that only looks at what has a lower rank defines a function.
LEMMA RecursiveFunction ==
  ASSUME NEW D, NEW V, NEW N, NEW rank, NEW Step, Causal(D, V, N, rank, Step)
  PROVE  Defines(D, V, Step)
<1> USE DEF Causal
<1> DEFINE Upto(f, k) == \A i \in D : rank[i] < k => f[i] = Step[<<i, f>>]
           Bad == {k \in Nat : \A f \in [D -> V] : ~ Upto(f, k)}
<1>1. ASSUME NEW f \in [D -> V], NEW k \in Nat, Upto(f, k)
      PROVE  \E g \in [D -> V] : Upto(g, k + 1)
  <2> DEFINE g == [i \in D |-> IF rank[i] < k THEN f[i] ELSE Step[<<i, f>>]]
  <2>1. g \in [D -> V]
    OBVIOUS
  <2>2. \A j \in D : rank[j] < k => g[j] = f[j]
    OBVIOUS
  <2>3. \A i \in D : g[i] = IF rank[i] < k THEN f[i] ELSE Step[<<i, f>>]
    OBVIOUS
  <2> HIDE DEF g
  <2>4. ASSUME NEW i \in D, rank[i] < k + 1 PROVE g[i] = Step[<<i, g>>]
    <3>1. \A j \in D : rank[j] < rank[i] => f[j] = g[j]
      BY <2>2, <2>4
    <3>2. Step[<<i, f>>] = Step[<<i, g>>]
      BY <2>1, <3>1
    <3> QED
      BY <1>1, <2>3, <3>2
  <2> QED
    BY <2>1, <2>4
<1>2. \E f \in [D -> V] : Upto(f, 0)
  <2>1. PICK v \in V : TRUE
    OBVIOUS
  <2>2. [i \in D |-> v] \in [D -> V]
    OBVIOUS
  <2>3. \A i \in D : ~ (rank[i] < 0)
    OBVIOUS
  <2> QED
    BY <2>2, <2>3
<1>3. Bad = {}
  <2> SUFFICES ASSUME Bad # {} PROVE FALSE
    OBVIOUS
  <2>1. PICK k \in Bad : \A j \in Bad : k <= j
    <3>1. Bad \subseteq Nat
      OBVIOUS
    <3> HIDE DEF Bad
    <3> QED
      BY <3>1, LeastNumber
  <2>2. k \in Nat /\ k # 0
    BY <1>2
  <2>3. k - 1 \in Nat /\ k - 1 \notin Bad
    <3> HIDE DEF Bad
    <3> QED
      BY <2>1, <2>2
  <2>4. PICK f \in [D -> V] : Upto(f, k - 1)
    BY <2>3
  <2>5. k - 1 + 1 = k
    BY <2>2
  <2>6. \E g \in [D -> V] : Upto(g, k)
    <3> HIDE DEF Upto
    <3> QED
      BY <1>1, <2>3, <2>4, <2>5
  <2> QED
    BY <2>6
<1>4. PICK f \in [D -> V] : Upto(f, N + 1)
  <2>1. N + 1 \in Nat /\ N + 1 \notin Bad
    <3> HIDE DEF Bad
    <3> QED
      BY <1>3
  <2> QED
    BY <2>1
<1>5. \A i \in D : rank[i] < N + 1
  OBVIOUS
<1> QED
  BY <1>4, <1>5 DEF Defines

-----------------------------------------------------------------------------
(* Sequences. *)

LEMMA SequencesOf ==
  ASSUME NEW T
  PROVE  /\ <<>> \in Seq(T)
         /\ \A x \in T : <<x>> \in Seq(T)
         /\ \A a, b \in Seq(T) : a \o b \in Seq(T)
OBVIOUS

LEMMA SequenceIn ==
  ASSUME NEW T, NEW s \in Seq(T)
  PROVE  /\ Len(s) \in Nat /\ Len(s) + 1 \in Nat /\ DOMAIN s = 1 .. Len(s)
         /\ 1 \in 1 .. Len(s) + 1 /\ 1 .. Len(s) + 1 \subseteq 0 .. Len(s) + 1
         /\ \A i \in 1 .. Len(s) : s[i] \in T
         /\ \A i \in 1 .. Len(s) + 1 :
              /\ i > Len(s) \/ i <= Len(s)
              /\ Len(s) + 1 - i \in 0 .. Len(s) + 1
              /\ i <= Len(s) => /\ i \in 1 .. Len(s) /\ i + 1 \in 1 .. Len(s) + 1
                                /\ ~ (i + 1 <= i)
                                /\ Len(s) + 1 - (i + 1) < Len(s) + 1 - i
OBVIOUS

-----------------------------------------------------------------------------
(* Scanners. *)

\* A scanner goes to the right, and writes elements of T.
Scanner(s, next, written, T) ==
  /\ next \in [1 .. Len(s) -> 1 .. Len(s) + 1]
  /\ \A i \in 1 .. Len(s) : i < next[i]
  /\ written \in [1 .. Len(s) -> Seq(T)]

LEMMA ScanStep ==
  ASSUME NEW A, NEW s \in Seq(A), NEW T, NEW next, NEW written, Scanner(s, next, written, T)
  PROVE  \A i \in 1 .. Len(s) + 1 :
           /\ Scan(s, next, written)[i] \in Seq(T)
           /\ Scan(s, next, written)[i] =
                IF i > Len(s) THEN <<>> ELSE written[i] \o Scan(s, next, written)[next[i]]
<1> DEFINE n == Len(s)
           D == 1 .. n + 1
           V == Seq(T)
           rank == [i \in D |-> n + 1 - i]
           Rest(f, i) == IF i > n THEN <<>> ELSE written[i] \o f[next[i]]
           Is(f) == f = [i \in D |-> Rest(f, i)]
           Step == [p \in D \X [D -> V] |-> Rest(p[2], p[1])]
           from == CHOOSE f : Is(f)
<1>1. n \in Nat /\ n + 1 \in Nat
  BY SequenceIn
<1>2. Scan(s, next, written) = from
  BY DEF Scan
<1> HIDE DEF n
<1>n. n = Len(s)
  BY DEF n
<1>3. /\ next \in [1 .. n -> D]
      /\ \A i \in 1 .. n : i < next[i]
      /\ written \in [1 .. n -> V]
  BY DEF Scanner, n
<1>4. <<>> \in V /\ \A a, b \in V : a \o b \in V
  BY SequencesOf
<1> HIDE DEF V
<1>5. \A i \in D, f \in [D -> V] : Step[<<i, f>>] = Rest(f, i)
  <2> HIDE DEF Rest, D
  <2> QED
    OBVIOUS
<1>6. \A i \in D : i > n \/ (i \in 1 .. n /\ next[i] \in D /\ rank[next[i]] < rank[i])
  BY <1>1, <1>3
<1>7. \A i \in D, f \in [D -> V] : Rest(f, i) \in V
  BY <1>3, <1>4, <1>6
<1>8. Defines(D, V, Step)
  <2>1. rank \in [D -> 0 .. n + 1] /\ V # {}
    BY <1>1, <1>4
  <2>2. Step \in [D \X [D -> V] -> V]
    <3> HIDE DEF D, Rest
    <3> QED
      BY <1>7
  <2>3. ASSUME NEW i \in D, NEW f \in [D -> V], NEW g \in [D -> V],
               \A k \in D : rank[k] < rank[i] => f[k] = g[k]
        PROVE  Step[<<i, f>>] = Step[<<i, g>>]
    <3>1. Rest(f, i) = Rest(g, i)
      BY <1>6, <2>3
    <3> QED
      BY <1>5, <3>1
  <2> HIDE DEF Step, rank, D
  <2>4. Causal(D, V, n + 1, rank, Step)
    BY <1>1, <2>1, <2>2, <2>3 DEF Causal
  <2> QED
    BY <1>1, <2>4, RecursiveFunction
<1>9. PICK f \in [D -> V] : \A i \in D : f[i] = Step[<<i, f>>]
  <2> HIDE DEF Step, D
  <2> QED
    BY <1>8 DEF Defines
<1>10. Is(f)
  <2>1. \A i \in D : f[i] = Rest(f, i)
    <3> HIDE DEF Step, D, Rest
    <3> QED
      BY <1>5, <1>9
  <2> HIDE DEF D, Rest
  <2> QED
    BY <2>1
<1>11. Is(from)
  <2> HIDE DEF Is
  <2> QED
    BY <1>10
<1>12. \A i \in D : from[i] = Rest(from, i)
  <2> HIDE DEF from, D, Rest
  <2> QED
    BY <1>11
<1> HIDE DEF from
<1> DEFINE Bad == {i \in D : from[i] \notin V}
<1>13. Bad = {}
  <2> SUFFICES ASSUME Bad # {} PROVE FALSE
    OBVIOUS
  <2>1. PICK i \in Bad : \A k \in Bad : k <= i
    <3>1. Bad \subseteq 0 .. n + 1
      BY <1>1
    <3> HIDE DEF Bad
    <3> QED
      BY <1>1, <3>1, GreatestNumber
  <2>2. i \in D /\ from[i] \notin V /\ from[i] = Rest(from, i)
    BY <1>12
  <2>3. i \in 1 .. n /\ next[i] \in D /\ i < next[i]
    BY <1>3, <1>4, <1>6, <2>2
  <2>4. from[next[i]] \in V
    BY <1>1, <2>1, <2>3
  <2>5. ~ (i > n)
    BY <1>1, <2>3
  <2> QED
    BY <1>3, <1>4, <2>2, <2>3, <2>4, <2>5
<1> QED
  BY <1>2, <1>12, <1>13, <1>n DEF V

LEMMA Concatenation ==
  ASSUME NEW T, NEW a \in Seq(T), NEW b \in Seq(T), NEW c \in Seq(T)
  PROVE  /\ a \o (b \o c) = (a \o b) \o c
         /\ <<>> \o a = a /\ a \o <<>> = a
OBVIOUS

\* A claim holds of a set of positions if it holds of each that it holds behind.
LEMMA FromTheEnd ==
  ASSUME NEW n \in Nat, NEW I, I \subseteq 1 .. n, NEW Good,
         \A i \in I : (\A k \in I : i < k => k \in Good) => i \in Good
  PROVE  I \subseteq Good
<1> DEFINE Bad == I \ Good
<1>1. Bad = {}
  <2> SUFFICES ASSUME Bad # {} PROVE FALSE
    OBVIOUS
  <2>0. 1 .. n \subseteq 0 .. n
    OBVIOUS
  <2>1. Bad \subseteq 0 .. n
    BY <2>0, Zenon
  <2>2. PICK i \in Bad : \A k \in Bad : k <= i
    <3> HIDE DEF Bad
    <3> QED
      BY <2>1, GreatestNumber
  <2>3. \A k \in I : i < k => k \in Good
    BY <2>1, <2>2
  <2> QED
    BY <2>3
<1> QED
  BY <1>1

\* As long as it writes nothing, a scanner does not leave Inv.
StaysIn(Inv, s, next, written) ==
  /\ Inv \subseteq 1 .. Len(s) + 1
  /\ \A k \in Inv : k <= Len(s) /\ written[k] = <<>> => next[k] \in Inv

\* What is written from i on is nothing, or begins with what is written somewhere in Inv.
WritesFirst(i, Inv, s, next, written) ==
  LET from == Scan(s, next, written) IN
  \/ Len(s) + 1 \in Inv /\ from[i] = <<>>
  \/ \E k \in Inv : /\ i <= k /\ k <= Len(s) /\ written[k] # <<>>
                    /\ from[i] = written[k] \o from[next[k]]

\* The first thing that is written from i on, by a scanner that does not leave Inv before.
LEMMA ScanFirst ==
  ASSUME NEW A, NEW s \in Seq(A), NEW T, NEW next, NEW written, Scanner(s, next, written, T),
         NEW Inv, StaysIn(Inv, s, next, written), NEW i \in Inv
  PROVE  WritesFirst(i, Inv, s, next, written)
<1> DEFINE n == Len(s)
           from == Scan(s, next, written)
           Found(j, k) == /\ j <= k /\ k <= n /\ written[k] # <<>>
                          /\ from[j] = written[k] \o from[next[k]]
           Good == {j \in Inv : \/ n + 1 \in Inv /\ from[j] = <<>>
                                \/ \E k \in Inv : Found(j, k)}
<1>1. n \in Nat /\ n + 1 \in Nat
  BY SequenceIn
<1>2. \A j \in 1 .. n + 1 :
        /\ from[j] \in Seq(T)
        /\ from[j] = IF j > n THEN <<>> ELSE written[j] \o from[next[j]]
  BY ScanStep
<1>3. /\ next \in [1 .. n -> 1 .. n + 1]
      /\ \A k \in 1 .. n : k < next[k]
      /\ written \in [1 .. n -> Seq(T)]
  BY DEF Scanner
<1>4. \A k \in Inv : k <= n /\ written[k] = <<>> => next[k] \in Inv
  BY DEF StaysIn
<1>5. Inv \subseteq 1 .. n + 1
  BY DEF StaysIn
<1> HIDE DEF n, from
<1>6. ASSUME NEW j \in Inv, \A k \in Inv : j < k => k \in Good PROVE j \in Good
  <2>1. CASE j > n
    <3>1. j = n + 1
      BY <1>1, <1>5, <2>1
    <3> QED
      BY <1>2, <1>5, <2>1, <3>1
  <2>2. CASE ~ (j > n) /\ written[j] # <<>>
    <3>1. j <= n /\ j <= j
      BY <1>1, <1>5, <2>2
    <3>2. from[j] = written[j] \o from[next[j]]
      BY <1>2, <1>5, <2>2
    <3>3. Found(j, j)
      BY <2>2, <3>1, <3>2
    <3> QED
      BY <3>3
  <2>3. CASE ~ (j > n) /\ written[j] = <<>>
    <3>1. j \in 1 .. n /\ j <= n
      BY <1>1, <1>5, <2>3
    <3>2. next[j] \in Inv /\ j < next[j] /\ next[j] \in 1 .. n + 1
      BY <1>3, <1>4, <2>3, <3>1
    <3>3. from[j] = from[next[j]]
      <4>1. from[next[j]] \in Seq(T)
        BY <1>2, <3>2
      <4>2. <<>> \o from[next[j]] = from[next[j]]
        BY <4>1, Concatenation
      <4> QED
        BY <1>2, <1>5, <2>3, <4>2
    <3>4. next[j] \in Good
      BY <1>6, <3>2
    <3>5. ASSUME NEW k \in Inv, Found(next[j], k) PROVE Found(j, k)
      <4>1. j <= k
        BY <1>1, <1>5, <3>1, <3>2, <3>5
      <4> QED
        BY <3>3, <3>5, <4>1
    <3> HIDE DEF Found
    <3> QED
      BY <3>3, <3>4, <3>5
  <2> QED
    BY <2>1, <2>2, <2>3
<1>7. Inv \subseteq Good
  <2>1. n + 1 \in Nat
    BY <1>1
  <2> HIDE DEF Good
  <2> QED
    BY <1>5, <1>6, <2>1, FromTheEnd
<1>8. i \in Good
  BY <1>7
<1> QED
  BY <1>8 DEF n, from, WritesFirst

\* On its way to a position a scanner does not leave Inv.
Reaches(to, Inv, s, next) ==
  /\ to \in 1 .. Len(s) + 1 /\ Inv \subseteq 1 .. to
  /\ \A k \in Inv : k < to => next[k] \in Inv

\* A scanner that stays in Inv on its way gets to the end of it, and has written what it
\* wrote on the way and what it writes from there.
ReachesTo(i, to, Inv, s, next, written, T) ==
  LET from == Scan(s, next, written) IN
  /\ \E x \in Seq(T) : from[i] = x \o from[to]
  /\ (\A k \in Inv : k < to => written[k] = <<>>) => from[i] = from[to]

LEMMA ScanReaches ==
  ASSUME NEW A, NEW s \in Seq(A), NEW T, NEW next, NEW written, Scanner(s, next, written, T),
         NEW to, NEW Inv, Reaches(to, Inv, s, next), NEW i \in Inv
  PROVE  ReachesTo(i, to, Inv, s, next, written, T)
<1> DEFINE n == Len(s)
           from == Scan(s, next, written)
           Silent == \A k \in Inv : k < to => written[k] = <<>>
           Good == {j \in Inv : /\ \E x \in Seq(T) : from[j] = x \o from[to]
                                /\ Silent => from[j] = from[to]}
<1>1. n \in Nat /\ n + 1 \in Nat
  BY SequenceIn
<1>2. \A j \in 1 .. n + 1 :
        /\ from[j] \in Seq(T)
        /\ from[j] = IF j > n THEN <<>> ELSE written[j] \o from[next[j]]
  BY ScanStep
<1>3. /\ next \in [1 .. n -> 1 .. n + 1]
      /\ \A k \in 1 .. n : k < next[k]
      /\ written \in [1 .. n -> Seq(T)]
  BY DEF Scanner
<1>4. Inv \subseteq 1 .. to /\ to \in 1 .. n + 1 /\ to \in Nat
  BY <1>1 DEF Reaches
<1>5. \A k \in Inv : k < to => next[k] \in Inv
  BY DEF Reaches
<1>6. from[to] \in Seq(T) /\ <<>> \in Seq(T) /\ <<>> \o from[to] = from[to]
  BY <1>2, <1>4, SequencesOf, Concatenation
<1> HIDE DEF n, from
<1>7. ASSUME NEW j \in Inv, \A k \in Inv : j < k => k \in Good PROVE j \in Good
  <2>1. CASE j = to
    BY <1>6, <2>1
  <2>2. CASE j # to
    <3>1. j < to /\ j \in 1 .. n /\ ~ (j > n)
      BY <1>1, <1>4, <2>2
    <3>2. next[j] \in Inv /\ j < next[j]
      BY <1>3, <1>5, <3>1
    <3>3. PICK x \in Seq(T) : from[next[j]] = x \o from[to]
      BY <1>7, <3>2
    <3>4. from[j] = written[j] \o from[next[j]] /\ written[j] \in Seq(T)
      <4>1. j \in 1 .. n + 1
        BY <1>1, <3>1
      <4>2. from[j] = written[j] \o from[next[j]]
        BY <1>2, <3>1, <4>1, Zenon
      <4>3. written[j] \in Seq(T)
        BY <1>3, <3>1, Zenon
      <4> QED
        BY <4>2, <4>3
    <3>5. from[j] = (written[j] \o x) \o from[to] /\ written[j] \o x \in Seq(T)
      <4> DEFINE w == written[j]
                 rest == from[to]
      <4>1. w \in Seq(T) /\ rest \in Seq(T)
        BY <1>6, <3>4
      <4> HIDE DEF w, rest
      <4>2. w \o (x \o rest) = (w \o x) \o rest /\ w \o x \in Seq(T)
        BY <3>3, <4>1, Concatenation, SequencesOf
      <4> QED
        BY <3>3, <3>4, <4>2 DEF w, rest
    <3>6. Silent => from[j] = from[to]
      BY <1>6, <1>7, <3>1, <3>2, <3>4
    <3> QED
      BY <3>5, <3>6
  <2> QED
    BY <2>1, <2>2
<1>8. Inv \subseteq Good
  <2>1. Inv \subseteq 1 .. n + 1 /\ n + 1 \in Nat
    BY <1>1, <1>4
  <2> HIDE DEF Good
  <2> QED
    BY <1>7, <2>1, FromTheEnd
<1>9. i \in Good
  BY <1>8
<1> QED
  BY <1>9 DEF from, ReachesTo

-----------------------------------------------------------------------------
(* The modes of the reference lexer. *)

ModeNames ==
  {"code", "line", "identifier", "opening", "block", "executable", "closing",
   "'", "\"", "escaped in '", "escaped in \""}

LEMMA ModeStays ==
  ASSUME NEW s, NEW i, NEW mode \in ModeNames
  PROVE  ModeAfter(s, i, mode) \in ModeNames
<1>1. AfterLineElement(s, i) \in ModeNames /\ AfterCode(s, i) \in ModeNames
  BY DEF ModeNames, AfterLineElement, AfterCode, Quotes
<1>2. Escaped("'") = "escaped in '" /\ Escaped("\"") = "escaped in \""
  BY DEF Escaped
<1>3. CASE mode \in Quotes
  <2>1. /\ mode \in {"'", "\""} /\ Escaped(mode) \in ModeNames
        /\ ModeAfter(s, i, mode) \in {"code", Escaped(mode), mode}
    BY <1>2, <1>3 DEF ModeNames, ModeAfter, Quotes
  <2> QED
    BY <2>1 DEF ModeNames
<1>4. CASE mode \in {"code", "line", "identifier", "opening", "block", "executable", "closing"}
  <2>1. CASE mode \in {"code", "line"}
    <3>1. ModeAfter(s, i, mode) \in {AfterCode(s, i), AfterLineElement(s, i)}
      BY <1>2, <2>1 DEF ModeAfter, Quotes
    <3> QED
      BY <1>1, <3>1
  <2>2. CASE mode \in {"identifier", "opening"}
    BY <2>2 DEF ModeNames, ModeAfter, Quotes
  <2>3. CASE mode \in {"block", "executable", "closing"}
    BY <2>3 DEF ModeNames, ModeAfter, Quotes
  <2> QED
    BY <1>4, <2>1, <2>2, <2>3
<1>5. CASE mode \in {"escaped in '", "escaped in \""}
  BY <1>2, <1>5 DEF ModeNames, ModeAfter, Quotes
<1> QED
  BY <1>3, <1>4, <1>5 DEF ModeNames, Quotes

\* The modes are defined position by position.
LEMMA ModesStep ==
  ASSUME NEW s \in Seq(STRING)
  PROVE  /\ Modes(s)[1] = "code"
         /\ \A i \in 1 .. Len(s) + 1 : Modes(s)[i] \in ModeNames
         /\ \A i \in 1 .. Len(s) : Modes(s)[i + 1] = ModeAfter(s, i, Modes(s)[i])
<1> DEFINE D == 1 .. Len(s) + 1
           rank == [i \in D |-> i]
           Step == [p \in D \X [D -> ModeNames] |->
                      IF p[1] = 1 THEN "code"
                      ELSE ModeAfter(s, p[1] - 1, p[2][p[1] - 1])]
           Is(f) == f = [i \in D |-> IF i = 1 THEN "code" ELSE ModeAfter(s, i - 1, f[i - 1])]
<1>1. Len(s) \in Nat
  OBVIOUS
<1>2. Step \in [D \X [D -> ModeNames] -> ModeNames]
  <2> SUFFICES ASSUME NEW i \in D, NEW f \in [D -> ModeNames]
               PROVE  (IF i = 1 THEN "code" ELSE ModeAfter(s, i - 1, f[i - 1])) \in ModeNames
    OBVIOUS
  <2>1. i # 1 => f[i - 1] \in ModeNames
    BY <1>1
  <2> QED
    BY <2>1, ModeStays DEF ModeNames
<1>3. \A i \in D, f \in [D -> ModeNames] :
        Step[<<i, f>>] = IF i = 1 THEN "code" ELSE ModeAfter(s, i - 1, f[i - 1])
  OBVIOUS
<1>4. Defines(D, ModeNames, Step)
  <2>1. rank \in [D -> 0 .. Len(s) + 1] /\ Len(s) + 1 \in Nat /\ ModeNames # {}
    BY <1>1 DEF ModeNames
  <2>2. ASSUME NEW i \in D, NEW f \in [D -> ModeNames], NEW g \in [D -> ModeNames],
               \A j \in D : rank[j] < rank[i] => f[j] = g[j]
        PROVE  Step[<<i, f>>] = Step[<<i, g>>]
    <3>1. i # 1 => i - 1 \in D /\ rank[i - 1] < rank[i]
      BY <1>1
    <3> QED
      BY <1>3, <2>2, <3>1
  <2> HIDE DEF Step, rank, D
  <2>3. Causal(D, ModeNames, Len(s) + 1, rank, Step)
    BY <1>2, <2>1, <2>2 DEF Causal
  <2> QED
    BY <2>3, RecursiveFunction
<1>5. \E f : Is(f)
  <2>1. PICK f \in [D -> ModeNames] : \A i \in D : f[i] = Step[<<i, f>>]
    <3> HIDE DEF Step, D
    <3> QED
      BY <1>4 DEF Defines
  <2>2. \A i \in D : f[i] = IF i = 1 THEN "code" ELSE ModeAfter(s, i - 1, f[i - 1])
    <3> HIDE DEF Step, D
    <3> QED
      BY <1>3, <2>1
  <2> QED
    BY <2>2
<1>6. Modes(s) = CHOOSE f : Is(f)
  BY DEF Modes
<1>7. Is(Modes(s))
  <2> HIDE DEF Is
  <2> QED
    BY <1>5, <1>6
<1>8. \A i \in D : Modes(s)[i] = IF i = 1 THEN "code" ELSE ModeAfter(s, i - 1, Modes(s)[i - 1])
  BY <1>7
<1>9. \A i \in 1 .. Len(s) + 1 : Modes(s)[i] \in ModeNames
  <2> DEFINE Bad == {i \in D : Modes(s)[i] \notin ModeNames}
  <2> SUFFICES ASSUME Bad # {} PROVE FALSE
    OBVIOUS
  <2>1. PICK i \in Bad : \A j \in Bad : i <= j
    <3>1. Bad \subseteq Nat
      BY <1>1
    <3> HIDE DEF Bad
    <3> QED
      BY <3>1, LeastNumber
  <2>2. i # 1
    BY <1>8 DEF ModeNames
  <2>3. i - 1 \in D /\ i - 1 \notin Bad
    BY <1>1, <2>1, <2>2
  <2> QED
    BY <1>8, <2>1, <2>2, <2>3, ModeStays
<1>10. ASSUME NEW i \in 1 .. Len(s) PROVE Modes(s)[i + 1] = ModeAfter(s, i, Modes(s)[i])
  <2>1. i + 1 \in D /\ i + 1 # 1 /\ i + 1 - 1 = i
    BY <1>1
  <2> QED
    BY <1>8, <2>1
<1> QED
  BY <1>1, <1>8, <1>9, <1>10

\* A mode that nothing changes from a to b is the mode at b.
LEMMA ModeLasts ==
  ASSUME NEW s \in Seq(STRING), NEW a \in 1 .. Len(s) + 1, NEW b \in a .. Len(s) + 1, NEW mode,
         Modes(s)[a] = mode, \A k \in a .. b - 1 : ModeAfter(s, k, mode) = mode
  PROVE  Modes(s)[b] = mode
<1> DEFINE Bad == {k \in a .. b : Modes(s)[k] # mode}
<1>1. Len(s) \in Nat /\ a \in Nat /\ 1 <= a /\ a <= b /\ b <= Len(s) + 1 /\ b \in Nat
  OBVIOUS
<1>2. Bad = {}
  <2> SUFFICES ASSUME Bad # {} PROVE FALSE
    OBVIOUS
  <2>1. PICK k \in Bad : \A j \in Bad : k <= j
    <3>1. Bad \subseteq Nat
      BY <1>1
    <3> HIDE DEF Bad
    <3> QED
      BY <3>1, LeastNumber
  <2>2. k \in a + 1 .. b /\ Modes(s)[k] # mode
    BY <1>1
  <2>3. k - 1 \in a .. b - 1 /\ k - 1 \in 1 .. Len(s) /\ k - 1 + 1 = k
    BY <1>1, <2>2
  <2>4. Modes(s)[k - 1] = mode
    BY <1>1, <2>1, <2>2, <2>3
  <2>5. Modes(s)[k] = ModeAfter(s, k - 1, Modes(s)[k - 1])
    BY <2>3, ModesStep
  <2> QED
    BY <2>2, <2>3, <2>4, <2>5
<1> QED
  BY <1>1, <1>2

LEMMA ModeInString ==
  ASSUME NEW s, NEW i, NEW quote \in Quotes
  PROVE  /\ s[i] = quote => ModeAfter(s, i, quote) = "code"
         /\ s[i] = "\\" => ModeAfter(s, i, quote) = Escaped(quote)
         /\ s[i] \notin {quote, "\\"} => ModeAfter(s, i, quote) = quote
         /\ ModeAfter(s, i, Escaped(quote)) = quote
<1>1. CASE quote = "'"
  BY <1>1 DEF ModeAfter, Quotes, Escaped
<1>2. CASE quote = "\""
  BY <1>2 DEF ModeAfter, Quotes, Escaped
<1> QED
  BY <1>1, <1>2 DEF Quotes

LEMMA ModeEscapes ==
  ASSUME NEW s, NEW i, NEW quote \in Quotes, s[i] = "\\"
  PROVE  ModeAfter(s, i, quote) = Escaped(quote)
BY ModeInString

LEMMA ModeCloses ==
  ASSUME NEW s, NEW i, NEW quote \in Quotes, s[i] = quote
  PROVE  ModeAfter(s, i, quote) = "code"
BY ModeInString

-----------------------------------------------------------------------------
(* Where the scanners find the end of a lexeme, and in which mode the      *)
(* server is there.                                                        *)

LEMMA LineEnds ==
  ASSUME NEW s \in Seq(STRING), NEW i \in 1 .. Len(s)
  PROVE  /\ LineEnd(s, i) \in i .. Len(s) + 1
         /\ \A k \in i .. LineEnd(s, i) - 1 : s[k] # "\n"
         /\ LineEnd(s, i) <= Len(s) => s[LineEnd(s, i)] = "\n"
<1> DEFINE found == {j \in i .. Len(s) : s[j] = "\n"}
<1>1. Len(s) \in Nat
  OBVIOUS
<1>2. LineEnd(s, i) = IF found = {} THEN Len(s) + 1 ELSE CHOOSE j \in found : \A k \in found : j <= k
  BY DEF LineEnd, First
<1>3. CASE found = {}
  BY <1>1, <1>2, <1>3
<1>4. CASE found # {}
  <2>1. LineEnd(s, i) \in found /\ \A k \in found : LineEnd(s, i) <= k
    <3>1. found \subseteq Nat
      BY <1>1
    <3> HIDE DEF found
    <3> QED
      BY <1>2, <1>4, <3>1, LeastChosen
  <2> QED
    BY <1>1, <2>1
<1> QED
  BY <1>3, <1>4

LEMMA BlockEnds ==
  ASSUME NEW s \in Seq(STRING), NEW i \in 1 .. Len(s), NEW whole \in BOOLEAN
  PROVE  LET end == BlockEnd(s, i, whole) IN
         /\ end \in i + 1 .. Len(s) + 1
         /\ \/ /\ end - 2 \in i + 2 .. Len(s) /\ IsBlockCommentEnd(s, end - 2)
               /\ \A k \in i + 2 .. end - 3 : ~ IsBlockCommentEnd(s, k)
            \/ /\ \A k \in i + 2 .. Len(s) : ~ IsBlockCommentEnd(s, k)
               /\ whole => end = Len(s) + 1
<1> DEFINE end == BlockEnd(s, i, whole)
           found == {j \in i + 2 .. Len(s) : IsBlockCommentEnd(s, j)}
           close == IF found = {} THEN Len(s) + 1 ELSE CHOOSE j \in found : \A k \in found : j <= k
           all == whole = TRUE
<1>1. Len(s) \in Nat /\ i \in Nat /\ 1 <= i /\ i <= Len(s) /\ DOMAIN s = 1 .. Len(s)
  OBVIOUS
<1>2. /\ close <= Len(s) => end = close + 2
      /\ ~ (close <= Len(s)) /\ i + 2 > Len(s) => end = Len(s) + 1
      /\ ~ (close <= Len(s)) /\ ~ (i + 2 > Len(s)) /\ ~ all => end = Len(s)
      /\ ~ (close <= Len(s)) /\ all => end = Len(s) + 1
  BY DEF BlockEnd, First, end
<1> HIDE DEF end
<1>3. CASE found = {}
  <2>1. \A k \in i + 2 .. Len(s) : ~ IsBlockCommentEnd(s, k)
    BY <1>3
  <2>2. /\ end \in {Len(s), Len(s) + 1}
        /\ i + 2 > Len(s) \/ all => end = Len(s) + 1
    <3>1. close = Len(s) + 1
      <4> HIDE DEF found
      <4> QED
        BY <1>3
    <3> HIDE DEF close, all
    <3> QED
      BY <1>1, <1>2, <3>1
  <2>3. end \in i + 1 .. Len(s) + 1
    <3> HIDE DEF all
    <3> QED
      BY <1>1, <2>2
  <2> QED
    BY <2>1, <2>2, <2>3 DEF end
<1>4. CASE found # {}
  <2>1. close \in found /\ \A k \in found : close <= k
    <3>1. found \subseteq Nat
      BY <1>1
    <3> HIDE DEF found
    <3> QED
      BY <1>4, <3>1, LeastChosen
  <2>2. close \in i + 2 .. Len(s) /\ IsBlockCommentEnd(s, close)
    BY <2>1
  <2>3. ASSUME NEW k \in i + 2 .. close - 1 PROVE ~ IsBlockCommentEnd(s, k)
    <3> HIDE DEF close
    <3>1. k \in i + 2 .. Len(s) /\ ~ (close <= k)
      BY <1>1, <2>2
    <3> HIDE DEF found
    <3>2. k \notin found
      BY <2>1, <3>1
    <3> QED
      BY <3>1, <3>2 DEF found
  <2> HIDE DEF close
  <2>4. close + 1 \in DOMAIN s
    <3>1. At(s, close + 1) = "/"
      BY <2>2 DEF IsBlockCommentEnd
    <3> QED
      BY <3>1 DEF At, EndOfText
  <2>5. end = close + 2 /\ close + 1 <= Len(s) /\ close \in Nat
    <3>1. close \in Nat /\ close + 1 <= Len(s)
      BY <1>1, <2>2, <2>4
    <3>2. close <= Len(s)
      BY <1>1, <3>1
    <3> QED
      BY <1>2, <3>1, <3>2
  <2>6. end - 2 = close /\ end - 3 = close - 1
    BY <2>5
  <2>7. end \in i + 1 .. Len(s) + 1
    BY <1>1, <2>2, <2>5
  <2> QED
    BY <2>2, <2>3, <2>6, <2>7 DEF end
<1> QED
  BY <1>3, <1>4 DEF end

\* The letters, digits and points a number goes on with.
LEMMA NumberEnds ==
  ASSUME NEW s \in Seq(STRING), NEW i \in 1 .. Len(s), s[i] \in Digits, ~ IsComment(s, i)
  PROVE  /\ RedactedEnd(s, i) \in i + 1 .. Len(s) + 1
         /\ \A k \in i .. RedactedEnd(s, i) - 1 : s[k] \in Letters \cup Digits \cup {"."}
<1> DEFINE found == {j \in i .. Len(s) : s[j] \notin Letters \cup Digits \cup {"."}}
<1>1. Len(s) \in Nat
  OBVIOUS
<1>2. RedactedEnd(s, i) = IF found = {} THEN Len(s) + 1 ELSE CHOOSE j \in found : \A k \in found : j <= k
  BY TextAssumption DEF RedactedEnd, First, Bytes
<1>3. CASE found = {}
  BY <1>1, <1>2, <1>3
<1>4. CASE found # {}
  <2>1. RedactedEnd(s, i) \in found /\ \A k \in found : RedactedEnd(s, i) <= k
    <3>1. found \subseteq Nat
      BY <1>1
    <3> HIDE DEF found
    <3> QED
      BY <1>2, <1>4, <3>1, LeastChosen
  <2> QED
    BY <1>1, <2>1
<1> QED
  BY <1>3, <1>4

\* A string or a quoted identifier ends behind the quote that closes it, in the server's
\* reading too; a doubled quote ends it and begins another.
LEMMA QuotedEnds ==
  ASSUME NEW s \in Seq(STRING), NEW i \in 1 .. Len(s), s[i] \in Quotes \cup {BackQuote},
         NEW whole \in BOOLEAN
  PROVE  LET end == QuotedEnd(s, i, whole) IN
         /\ end \in i + 1 .. Len(s) + 1
         /\ ~ whole /\ Modes(s)[i] = "code" =>
              /\ \A k \in i + 1 .. end - 1 : Modes(s)[k] # "code"
              /\ end <= Len(s) => Modes(s)[end] = "code"
<1> DEFINE n == Len(s)
           escapes(j) == s[j] = "\\" /\ s[i] # BackQuote /\ j < n
           doubled(j) == whole /\ s[j] = s[i] /\ At(s, j + 1) = s[i]
           hop == [j \in DOMAIN s |-> IF escapes(j) \/ doubled(j) THEN j + 2 ELSE j + 1]
           ends == [j \in DOMAIN s |-> IF s[j] = s[i] /\ ~ doubled(j) THEN <<j + 1>> ELSE <<>>]
           from == Scan(s, hop, ends)
           end == QuotedEnd(s, i, whole)
<1>1. n \in Nat /\ n + 1 \in Nat /\ DOMAIN s = 1 .. n /\ i \in 1 .. n /\ i + 1 \in 1 .. n + 1
  OBVIOUS
<1>2. end = Head(from[i + 1] \o <<n + 1>>)
  BY DEF QuotedEnd
<1> HIDE DEF n, end
<1>3. s[i] # EndOfText
  BY DEF Quotes, BackQuote, EndOfText
<1>4. \A j \in 1 .. n : doubled(j) => j + 1 <= n
  BY <1>1, <1>3 DEF At
<1> HIDE DEF doubled
<1>5. \A j \in 1 .. n :
        /\ hop[j] = IF escapes(j) \/ doubled(j) THEN j + 2 ELSE j + 1
        /\ ends[j] = IF s[j] = s[i] /\ ~ doubled(j) THEN <<j + 1>> ELSE <<>>
  BY <1>1
<1>6. /\ hop \in [1 .. n -> 1 .. n + 1]
      /\ \A j \in 1 .. n : j < hop[j]
      /\ ends \in [1 .. n -> Seq(1 .. n + 1)]
  <2>1. \A j \in 1 .. n : hop[j] \in 1 .. n + 1 /\ j < hop[j]
    BY <1>1, <1>4, <1>5
  <2>2. \A j \in 1 .. n : ends[j] \in Seq(1 .. n + 1)
    <3>1. \A j \in 1 .. n : j + 1 \in 1 .. n + 1
      BY <1>1
    <3>2. <<>> \in Seq(1 .. n + 1) /\ \A x \in 1 .. n + 1 : <<x>> \in Seq(1 .. n + 1)
      BY SequencesOf
    <3> HIDE DEF ends
    <3> QED
      BY <1>5, <3>1, <3>2
  <2> QED
    BY <1>1, <2>1, <2>2
<1> HIDE DEF hop, ends
<1>7. Scanner(s, hop, ends, 1 .. n + 1)
  BY <1>6 DEF Scanner, n
<1> HIDE DEF from
<1>8. \A j \in 1 .. n + 1 : from[j] \in Seq(1 .. n + 1)
  BY <1>7, ScanStep DEF from, n
<1>9. \A j, k \in 1 .. n + 1 : from[j] = <<>> => Head(from[j] \o <<k>>) = k
  OBVIOUS
<1>10. \A k \in 1 .. n + 1, rest \in Seq(1 .. n + 1) : Head((<<k>> \o rest) \o <<n + 1>>) = k
  <2> SUFFICES ASSUME NEW k \in 1 .. n + 1, NEW rest \in Seq(1 .. n + 1)
               PROVE  Head((<<k>> \o rest) \o <<n + 1>>) = k
    OBVIOUS
  <2> QED
    BY <1>1
<1>11. ASSUME NEW Inv, Inv \subseteq i + 1 .. n + 1, i + 1 \in Inv,
              \A k \in Inv : k <= n /\ ends[k] = <<>> => hop[k] \in Inv
       PROVE  \/ n + 1 \in Inv /\ end = n + 1
              \/ \E k \in Inv : k <= n /\ s[k] = s[i] /\ ~ doubled(k) /\ end = k + 1
  <2>1. i + 1 .. n + 1 \subseteq 1 .. n + 1
    BY <1>1
  <2>2. Inv \subseteq 1 .. Len(s) + 1 /\ n + 1 \in 1 .. n + 1
    BY <1>1, <1>11, <2>1 DEF n
  <2>3. \A k \in Inv : k <= Len(s) /\ ends[k] = <<>> => hop[k] \in Inv
    BY <1>11 DEF n
  <2>4. \/ n + 1 \in Inv /\ from[i + 1] = <<>>
        \/ \E k \in Inv : /\ i + 1 <= k /\ k <= n /\ ends[k] # <<>>
                          /\ from[i + 1] = ends[k] \o from[hop[k]]
    <3>1. StaysIn(Inv, s, hop, ends)
      BY <2>2, <2>3 DEF StaysIn
    <3>2. i + 1 \in Inv
      BY <1>11
    <3> DEFINE T == 1 .. n + 1
    <3>3. Scanner(s, hop, ends, T)
      BY <1>7
    <3> HIDE DEF T
    <3>4. WritesFirst(i + 1, Inv, s, hop, ends)
      BY <3>1, <3>2, <3>3, ScanFirst
    <3> QED
      BY <3>4 DEF WritesFirst, from, n
  <2>5. CASE n + 1 \in Inv /\ from[i + 1] = <<>>
    BY <1>1, <1>2, <1>9, <2>2, <2>5
  <2>6. CASE \E k \in Inv : /\ i + 1 <= k /\ k <= n /\ ends[k] # <<>>
                            /\ from[i + 1] = ends[k] \o from[hop[k]]
    <3>1. PICK k \in Inv : /\ k <= n /\ ends[k] # <<>>
                           /\ from[i + 1] = ends[k] \o from[hop[k]]
      BY <2>6
    <3>2. k \in 1 .. n /\ k + 1 \in 1 .. n + 1
      BY <1>1, <1>11, <3>1
    <3>3. ends[k] = <<k + 1>> /\ s[k] = s[i] /\ ~ doubled(k)
      BY <1>5, <3>1, <3>2
    <3>4. from[hop[k]] \in Seq(1 .. n + 1)
      BY <1>6, <1>8, <3>2
    <3>5. end = k + 1
      BY <1>2, <1>10, <3>1, <3>2, <3>3, <3>4
    <3> QED
      BY <3>1, <3>3, <3>5
  <2> QED
    BY <2>4, <2>5, <2>6
<1>12. end \in i + 1 .. n + 1
  <2> DEFINE Inv == i + 1 .. n + 1
  <2>1. i + 1 \in Inv
    BY <1>1
  <2>2. \A k \in Inv : k <= n => hop[k] \in Inv
    BY <1>1, <1>6
  <2>3. \A k \in Inv : k <= n => k + 1 \in Inv
    BY <1>1
  <2>4. n + 1 \in Inv
    BY <1>1
  <2> HIDE DEF Inv
  <2>5. \/ n + 1 \in Inv /\ end = n + 1
        \/ \E k \in Inv : k <= n /\ s[k] = s[i] /\ ~ doubled(k) /\ end = k + 1
    <3>1. Inv \subseteq i + 1 .. n + 1
      BY DEF Inv
    <3> QED
      BY <1>11, <2>1, <2>2, <3>1
  <2>6. end \in Inv
    BY <2>3, <2>4, <2>5
  <2> QED
    BY <2>6 DEF Inv
<1>13. ASSUME ~ whole, Modes(s)[i] = "code"
       PROVE  /\ \A k \in i + 1 .. end - 1 : Modes(s)[k] # "code"
              /\ end <= n => Modes(s)[end] = "code"
  <2> DEFINE inside == Modes(s)[i + 1]
             Stays(k) == \A j \in i + 1 .. k : Modes(s)[j] # "code"
             Inv == {k \in i + 1 .. n + 1 : Stays(k) /\ (k <= n => Modes(s)[k] = inside)}
  <2>1. \A k : ~ doubled(k)
    BY <1>13 DEF doubled
  <2>12. \A k \in 1 .. n :
           /\ hop[k] = IF escapes(k) THEN k + 2 ELSE k + 1
           /\ ends[k] = <<>> => s[k] # s[i]
    <3> HIDE DEF escapes
    <3>1. \A k \in 1 .. n : <<k + 1>> # <<>>
      OBVIOUS
    <3> QED
      BY <1>5, <2>1, <3>1
  <2>2. \A k \in 1 .. n : Modes(s)[k + 1] = ModeAfter(s, k, Modes(s)[k])
    BY ModesStep DEF n
  <2>3. /\ inside = IF s[i] = BackQuote THEN "identifier" ELSE s[i]
        /\ inside \in Quotes \cup {"identifier"}
    <3>1. AfterCode(s, i) = IF s[i] = BackQuote THEN "identifier" ELSE s[i]
      BY DEF AfterCode, IsLineComment, Quotes, BackQuote
    <3>2. inside = AfterCode(s, i)
      BY <1>1, <1>13, <2>2 DEF ModeAfter, Quotes, Escaped
    <3> QED
      BY <3>1, <3>2
  <2>4. \A k : /\ s[k] = s[i] => ModeAfter(s, k, inside) = "code"
               /\ s[k] # s[i] /\ ~ (s[i] # BackQuote /\ s[k] = "\\") =>
                    ModeAfter(s, k, inside) = inside
               /\ s[k] # s[i] /\ s[i] # BackQuote /\ s[k] = "\\" =>
                    ModeAfter(s, k, inside) = Escaped(inside)
    <3>1. CASE s[i] = BackQuote
      BY <2>3, <3>1 DEF ModeAfter, Quotes, Escaped
    <3>2. CASE s[i] # BackQuote
      <4>1. inside = s[i] /\ s[i] \in Quotes
        BY <2>3, <3>2
      <4> HIDE DEF inside
      <4>2. \A k : s[k] = inside => ModeAfter(s, k, inside) = "code"
        BY <4>1, ModeCloses
      <4>3. \A k : s[k] = "\\" => ModeAfter(s, k, inside) = Escaped(inside)
        BY <4>1, ModeEscapes
      <4>4. \A k : s[k] # inside /\ s[k] # "\\" => ModeAfter(s, k, inside) = inside
        BY <4>1, ModeInString
      <4> QED
        BY <3>2, <4>1, <4>2, <4>3, <4>4
    <3> QED
      BY <3>1, <3>2
  <2>5. s[i] # BackQuote => \A k : ModeAfter(s, k, Escaped(inside)) = inside
    BY <2>3, ModeInString
  <2>6. inside # "code" /\ Escaped(inside) # "code" /\ s[i] # "\\"
    BY <2>3 DEF Quotes, Escaped, BackQuote
  <2> HIDE DEF inside
  <2>7. i + 1 \in Inv
    <3>1. Stays(i + 1)
      BY <1>1, <2>6 DEF inside
    <3> QED
      BY <1>1, <3>1 DEF inside
  <2>8. ASSUME NEW k \in Inv, k <= n, ends[k] = <<>> PROVE hop[k] \in Inv
    <3>1. k \in i + 1 .. n /\ k \in 1 .. n /\ Modes(s)[k] = inside /\ Stays(k)
      BY <1>1, <2>8
    <3>2. s[k] # s[i]
      BY <2>12, <2>8, <3>1
    <3>3. Modes(s)[k + 1] = ModeAfter(s, k, inside)
      BY <2>2, <3>1
    <3>4. CASE escapes(k)
      <4>1. hop[k] = k + 2 /\ k + 1 \in 1 .. n /\ k + 1 + 1 = k + 2
        BY <1>1, <2>12, <3>1, <3>4
      <4>2. Modes(s)[k + 1] = Escaped(inside)
        BY <2>4, <3>2, <3>3, <3>4
      <4>3. Modes(s)[k + 2] = ModeAfter(s, k + 1, Modes(s)[k + 1])
        BY <2>2, <4>1
      <4>4. Modes(s)[k + 2] = inside
        BY <2>5, <3>4, <4>2, <4>3
      <4>5. \A j \in i + 1 .. k + 2 : j \in i + 1 .. k \/ j = k + 1 \/ j = k + 2
        BY <1>1, <3>1
      <4>6. Stays(k + 2)
        BY <2>6, <3>1, <4>2, <4>4, <4>5
      <4>7. k + 2 \in i + 1 .. n + 1
        BY <1>1, <3>1, <4>1
      <4> HIDE DEF Stays
      <4> QED
        BY <4>1, <4>4, <4>6, <4>7
    <3>5. CASE ~ escapes(k)
      <4>1. hop[k] = k + 1 /\ k + 1 \in i + 1 .. n + 1
        BY <1>1, <2>12, <3>1, <3>5
      <4>2. (Modes(s)[k + 1] = Escaped(inside) /\ ~ (k + 1 <= n)) \/ Modes(s)[k + 1] = inside
        BY <1>1, <2>4, <3>1, <3>2, <3>3, <3>5
      <4>3. \A j \in i + 1 .. k + 1 : j \in i + 1 .. k \/ j = k + 1
        BY <1>1, <3>1
      <4>4. Stays(k + 1)
        BY <2>6, <3>1, <4>2, <4>3
      <4> HIDE DEF Stays
      <4> QED
        BY <4>1, <4>2, <4>4
    <3> QED
      BY <3>4, <3>5
  <2>9. \/ n + 1 \in Inv /\ end = n + 1
        \/ \E k \in Inv : k <= n /\ s[k] = s[i] /\ ~ doubled(k) /\ end = k + 1
    <3>1. Inv \subseteq i + 1 .. n + 1
      OBVIOUS
    <3> HIDE DEF Inv
    <3> QED
      BY <1>11, <2>7, <2>8, <3>1
  <2>10. CASE n + 1 \in Inv /\ end = n + 1
    <3>1. Stays(n + 1) /\ ~ (end <= n)
      BY <1>1, <2>10
    <3>2. \A k \in i + 1 .. end - 1 : k \in i + 1 .. n + 1
      BY <1>1, <2>10
    <3> QED
      BY <3>1, <3>2
  <2>11. CASE \E k \in Inv : k <= n /\ s[k] = s[i] /\ ~ doubled(k) /\ end = k + 1
    <3>1. PICK k \in Inv : k <= n /\ s[k] = s[i] /\ end = k + 1
      BY <2>11
    <3>2. k \in 1 .. n /\ Stays(k) /\ Modes(s)[k] = inside /\ end - 1 = k
      BY <1>1, <3>1
    <3>3. Modes(s)[end] = "code"
      BY <2>2, <2>4, <3>1, <3>2
    <3> QED
      BY <3>2, <3>3
  <2> QED
    BY <2>9, <2>10, <2>11
<1> QED
  BY <1>12, <1>13 DEF end, n

InComment == {"line", "opening", "block", "executable", "closing"}

\* Two dashes that are a comment to the server and not to the scanners.
OddDash(s, i) == s[i] = "-" /\ IsLineComment(s, i) /\ ~ IsDashDashComment(s, i)

\* What is a comment to the scanners is one to the server, and the other way round but for
\* some that begin with two dashes.
LEMMA CommentsBegin ==
  ASSUME NEW s, NEW i
  PROVE  /\ IsDashDashComment(s, i) => s[i] = "-" /\ IsLineComment(s, i)
         /\ s[i] = "#" => IsLineComment(s, i)
         /\ IsLineComment(s, i) => s[i] = "#" \/ IsDashDashComment(s, i) \/ OddDash(s, i)
         /\ IsLineComment(s, i) => s[i] \in {"#", "-"}
         /\ BeginsComment(s, i) <=> IsLineComment(s, i) \/ (s[i] = "/" /\ At(s, i + 1) = "*")
         /\ IsComment(s, i) => BeginsComment(s, i)
         /\ BeginsComment(s, i) => IsComment(s, i) \/ OddDash(s, i)
<1>1. IsDashDashComment(s, i) => s[i] = "-" /\ IsLineComment(s, i)
  BY DEF IsDashDashComment, IsLineComment, Spaces, WhiteSpace
<1>2. IsLineComment(s, i) => s[i] \in {"#", "-"}
  BY DEF IsLineComment
<1>3. s[i] = "#" => IsLineComment(s, i)
  BY DEF IsLineComment
<1>4. IsLineComment(s, i) => s[i] = "#" \/ IsDashDashComment(s, i) \/ OddDash(s, i)
  BY <1>2 DEF OddDash
<1>5. BeginsComment(s, i) <=> IsLineComment(s, i) \/ (s[i] = "/" /\ At(s, i + 1) = "*")
  BY DEF BeginsComment
<1> QED
  BY <1>1, <1>2, <1>3, <1>4, <1>5 DEF IsComment

LEMMA NoOddDash ==
  ASSUME NEW s \in Seq(STRING), DashesSpaced(s), NEW i \in 1 .. Len(s), Modes(s)[i] = "code"
  PROVE  ~ OddDash(s, i)
<1>1. i \in DOMAIN s
  OBVIOUS
<1>2. ASSUME OddDash(s, i) PROVE FALSE
  <2>1. s[i] = "-" /\ IsLineComment(s, i) /\ ~ IsDashDashComment(s, i)
    BY <1>2 DEF OddDash
  <2>2. At(s, i + 2) \in Spaces
    BY <1>1, <2>1 DEF DashesSpaced, Spaces
  <2>3. At(s, i + 1) = "-"
    BY <2>1 DEF IsLineComment
  <2> QED
    BY <2>1, <2>2, <2>3 DEF IsDashDashComment
<1> QED
  BY <1>2

\* The scanners skip a line comment as the server does.
\* It is the only kind of dashes that DashesSpaced rules out.
LEMMA DashesAreSpaced ==
  ASSUME NEW s, NEW i, s[i] = "-", IsLineComment(s, i), ~ OddDash(s, i)
  PROVE  At(s, i + 2) \in {" ", "\n"}
<1>1. IsDashDashComment(s, i)
  BY DEF OddDash
<1> QED
  BY <1>1 DEF IsDashDashComment, Spaces

LEMMA LineIsSkipped ==
  ASSUME NEW s \in Seq(STRING), NEW i \in 1 .. Len(s), Modes(s)[i] = "code",
         IsLineComment(s, i)
  PROVE  LET end == LineEnd(s, i) IN
         /\ end \in i + 1 .. Len(s) + 1
         /\ \A k \in i + 1 .. end - 1 : Modes(s)[k] = "line"
         /\ end <= Len(s) => Modes(s)[end] = "code"
<1> DEFINE end == LineEnd(s, i)
<1>1. Len(s) \in Nat /\ i \in Nat /\ 1 <= i /\ i <= Len(s) /\ DOMAIN s = 1 .. Len(s)
  OBVIOUS
<1>2. end \in i .. Len(s) + 1 /\ \A k \in i .. end - 1 : s[k] # "\n"
  BY LineEnds
<1>3. end <= Len(s) => s[end] = "\n"
  BY LineEnds
<1> HIDE DEF end
<1>4. s[i] \notin Quotes \cup {BackQuote, "/", "\n"}
  BY DEF IsLineComment, Quotes, BackQuote
<1>5. end \in i + 1 .. Len(s) + 1
  <2>1. end # i
    BY <1>1, <1>3, <1>4
  <2> QED
    BY <1>1, <1>2, <2>1
<1>6. Modes(s)[i + 1] = AfterLineElement(s, i)
  <2>1. Modes(s)[i + 1] = ModeAfter(s, i, "code")
    BY ModesStep
  <2>2. ModeAfter(s, i, "code") = AfterCode(s, i)
    BY DEF ModeAfter, Quotes, Escaped
  <2>3. AfterCode(s, i) = AfterLineElement(s, i)
    BY <1>4 DEF AfterCode
  <2> QED
    BY <2>1, <2>2, <2>3
<1>7. \A k : ModeAfter(s, k, "line") = AfterLineElement(s, k)
  BY DEF ModeAfter, Quotes, Escaped
<1>8. \A k \in i .. end - 2 : AfterLineElement(s, k) = "line"
  <2> SUFFICES ASSUME NEW k \in i .. end - 2 PROVE AfterLineElement(s, k) = "line"
    OBVIOUS
  <2>1. k + 1 \in DOMAIN s /\ k + 1 \in i .. end - 1
    BY <1>1, <1>5
  <2> QED
    BY <1>2, <2>1 DEF AfterLineElement, At
<1>9. ASSUME NEW k \in i + 1 .. end - 1 PROVE Modes(s)[k] = "line"
  <2>1. i + 1 \in 1 .. Len(s) + 1 /\ k \in i + 1 .. Len(s) + 1 /\ i \in i .. end - 2
    BY <1>1, <1>5
  <2>2. Modes(s)[i + 1] = "line"
    BY <1>6, <1>8, <2>1
  <2>3. \A j \in i + 1 .. k - 1 : j \in i .. end - 2
    BY <1>1, <1>5
  <2>4. \A j \in i + 1 .. k - 1 : ModeAfter(s, j, "line") = "line"
    BY <1>7, <1>8, <2>3
  <2> QED
    BY <2>1, <2>2, <2>4, ModeLasts
<1>10. ASSUME end <= Len(s) PROVE Modes(s)[end] = "code"
  <2>1. end \in DOMAIN s /\ end - 1 + 1 = end /\ end - 1 \in 1 .. Len(s)
    BY <1>1, <1>5, <1>10
  <2>2. Modes(s)[end] = AfterLineElement(s, end - 1)
    <3>1. CASE end = i + 1
      <4>1. end - 1 = i
        BY <1>1, <3>1
      <4> QED
        BY <1>6, <3>1, <4>1
    <3>2. CASE end # i + 1
      <4>1. end - 1 \in i + 1 .. end - 1
        BY <1>1, <1>5, <3>2
      <4> QED
        BY <1>7, <1>9, <2>1, <4>1, ModesStep
    <3> QED
      BY <3>1, <3>2
  <2> QED
    BY <1>3, <1>10, <2>1, <2>2 DEF AfterLineElement, At
<1> QED
  BY <1>5, <1>9, <1>10 DEF end

\* A block comment too, unless it is not closed: then the rest of the text is in it.
LEMMA BlockIsSkipped ==
  ASSUME NEW s \in Seq(STRING), NEW i \in 1 .. Len(s), Modes(s)[i] = "code",
         s[i] = "/", At(s, i + 1) = "*", NEW whole \in BOOLEAN
  PROVE  LET end == BlockEnd(s, i, whole) IN
         /\ end \in i + 1 .. Len(s) + 1
         /\ \A k \in i + 1 .. end - 1 : Modes(s)[k] \in InComment
         /\ \/ Modes(s)[end] = "code"
            \/ /\ ~ Closed(s)
               /\ \A k \in i + 1 .. Len(s) + 1 : Modes(s)[k] \in InComment
               /\ whole => end = Len(s) + 1
<1> DEFINE end == BlockEnd(s, i, whole)
           inside == Modes(s)[i + 2]
<1>1. Len(s) \in Nat /\ i \in Nat /\ 1 <= i /\ i <= Len(s) /\ DOMAIN s = 1 .. Len(s)
  OBVIOUS
<1>2. end \in i + 1 .. Len(s) + 1
  BY BlockEnds
<1>3. \/ /\ end - 2 \in i + 2 .. Len(s) /\ IsBlockCommentEnd(s, end - 2)
         /\ \A k \in i + 2 .. end - 3 : ~ IsBlockCommentEnd(s, k)
      \/ /\ \A k \in i + 2 .. Len(s) : ~ IsBlockCommentEnd(s, k)
         /\ whole => end = Len(s) + 1
  BY BlockEnds
<1> HIDE DEF end
<1>4. i + 1 \in 1 .. Len(s) /\ i + 1 + 1 = i + 2
  BY <1>1 DEF At, EndOfText
<1>5. Modes(s)[i + 1] = "opening"
  <2>1. Modes(s)[i + 1] = ModeAfter(s, i, "code")
    BY ModesStep
  <2>2. AfterCode(s, i) = "opening"
    BY DEF AfterCode, IsLineComment, Quotes, BackQuote
  <2> QED
    BY <2>1, <2>2 DEF ModeAfter, Quotes, Escaped
<1>6. inside \in {"block", "executable"}
  <2>1. Modes(s)[i + 2] = ModeAfter(s, i + 1, "opening")
    BY <1>4, <1>5, ModesStep
  <2> QED
    BY <2>1 DEF ModeAfter, Quotes, Escaped
<1>7. \A k : ModeAfter(s, k, inside) = IF IsBlockCommentEnd(s, k) THEN "closing" ELSE inside
  <2>1. \A k : ModeAfter(s, k, "block") = IF IsBlockCommentEnd(s, k) THEN "closing" ELSE "block"
    BY DEF ModeAfter, IsBlockCommentEnd, Quotes, Escaped
  <2>2. \A k : ModeAfter(s, k, "executable")
                 = IF IsBlockCommentEnd(s, k) THEN "closing" ELSE "executable"
    BY DEF ModeAfter, IsBlockCommentEnd, Quotes, Escaped
  <2> QED
    BY <1>6, <2>1, <2>2
<1>8. \A k : ModeAfter(s, k, "closing") = "code"
  BY DEF ModeAfter, Quotes, Escaped
<1>9. i + 2 \in 1 .. Len(s) + 1 /\ Modes(s)[i + 2] = inside
  BY <1>1, <1>4
<1> HIDE DEF inside
<1>10. ASSUME NEW j \in i + 2 .. Len(s) + 1,
              \A k \in i + 2 .. j - 1 : ~ IsBlockCommentEnd(s, k)
       PROVE  Modes(s)[j] = inside
  <2>1. \A k \in i + 2 .. j - 1 : ModeAfter(s, k, inside) = inside
    BY <1>7, <1>10
  <2> QED
    BY <1>9, <2>1, ModeLasts
<1>11. inside \in InComment /\ "opening" \in InComment /\ "closing" \in InComment
  BY <1>6 DEF InComment
<1>12. CASE \A k \in i + 2 .. Len(s) : ~ IsBlockCommentEnd(s, k)
  <2>1. ASSUME NEW j \in i + 2 .. Len(s) + 1 PROVE Modes(s)[j] = inside
    <3>1. \A k \in i + 2 .. j - 1 : k \in i + 2 .. Len(s)
      BY <1>1
    <3> QED
      BY <1>10, <1>12, <3>1
  <2>2. \A k \in i + 1 .. Len(s) + 1 : k = i + 1 \/ k \in i + 2 .. Len(s) + 1
    BY <1>1
  <2>3. \A k \in i + 1 .. Len(s) + 1 : Modes(s)[k] \in InComment
    BY <1>5, <1>11, <2>1, <2>2
  <2>4. \A k \in i + 1 .. end - 1 : k \in i + 1 .. Len(s) + 1
    BY <1>1, <1>2
  <2>5. ~ Closed(s)
    <3>1. Len(s) + 1 \in i + 2 .. Len(s) + 1
      BY <1>1, <1>4
    <3> QED
      BY <1>6, <2>1, <3>1 DEF Closed
  <2>6. whole => end = Len(s) + 1
    <3>1. CASE end - 2 \in i + 2 .. Len(s) /\ IsBlockCommentEnd(s, end - 2)
      BY <1>12, <3>1
    <3> QED
      BY <1>3, <3>1
  <2> QED
    BY <1>2, <2>3, <2>4, <2>5, <2>6 DEF end
<1>13. CASE /\ end - 2 \in i + 2 .. Len(s) /\ IsBlockCommentEnd(s, end - 2)
            /\ \A k \in i + 2 .. end - 3 : ~ IsBlockCommentEnd(s, k)
  <2> DEFINE close == end - 2
  <2>1. /\ close \in i + 2 .. Len(s) + 1 /\ close \in 1 .. Len(s)
        /\ close + 1 + 1 = end /\ close - 1 = end - 3
    BY <1>1, <1>2, <1>13
  <2>2. IsBlockCommentEnd(s, close)
    BY <1>13
  <2>3. \A k \in i + 1 .. end - 1 : k = i + 1 \/ k \in i + 2 .. close \/ k = close + 1
    BY <1>1, <1>2
  <2>4. \A k \in i + 2 .. close - 1 : ~ IsBlockCommentEnd(s, k)
    BY <1>13, <2>1
  <2> HIDE DEF close
  <2>5. ASSUME NEW j \in i + 2 .. close PROVE Modes(s)[j] = inside
    <3>1. \A k \in i + 2 .. j - 1 : k \in i + 2 .. close - 1
      BY <1>1, <2>1
    <3>2. j \in i + 2 .. Len(s) + 1
      BY <1>1, <2>1
    <3> QED
      BY <1>10, <2>4, <3>1, <3>2
  <2>6. Modes(s)[close] = inside
    BY <1>1, <2>1, <2>5
  <2>7. Modes(s)[close + 1] = "closing"
    BY <1>7, <2>1, <2>2, <2>6, ModesStep
  <2>8. close + 1 \in 1 .. Len(s)
    <3>1. At(s, close + 1) = "/"
      BY <2>2 DEF IsBlockCommentEnd
    <3> QED
      BY <1>1, <3>1 DEF At, EndOfText
  <2>9. Modes(s)[end] = "code"
    BY <1>8, <2>1, <2>7, <2>8, ModesStep
  <2>10. \A k \in i + 1 .. end - 1 : Modes(s)[k] \in InComment
    BY <1>5, <1>11, <2>3, <2>5, <2>7
  <2> QED
    BY <1>2, <2>9, <2>10 DEF end
<1> QED
  BY <1>3, <1>12, <1>13

\* What is white space or a comment to a scanner is so to the server, as far as the
\* scanner skips it.
LEMMA BlankIsSkipped ==
  ASSUME NEW s \in Seq(STRING), NEW i \in 1 .. Len(s), Modes(s)[i] = "code", IsBlank(s, i),
         NEW whole \in BOOLEAN
  PROVE  LET end == LexemeEnd(s, i, whole) IN
         /\ end \in i + 1 .. Len(s) + 1
         /\ \A k \in i + 1 .. end - 1 : Modes(s)[k] \in InComment
         /\ \/ end <= Len(s) => Modes(s)[end] = "code"
            \/ /\ ~ Closed(s)
               /\ \A k \in i + 1 .. Len(s) + 1 : Modes(s)[k] \in InComment
               /\ whole => end = Len(s) + 1
<1>1. Len(s) \in Nat /\ i \in Nat /\ 1 <= i /\ i <= Len(s) /\ DOMAIN s = 1 .. Len(s)
  OBVIOUS
<1>2. CASE Lexeme(s, i) = "line"
  <2>1. IsLineComment(s, i)
    BY <1>2, CommentsBegin DEF Lexeme
  <2>2. LexemeEnd(s, i, whole) = LineEnd(s, i)
    BY <1>2 DEF LexemeEnd
  <2> QED
    BY <2>1, <2>2, LineIsSkipped DEF InComment
<1>3. CASE Lexeme(s, i) = "block"
  <2>1. s[i] = "/" /\ At(s, i + 1) = "*"
    BY <1>3 DEF Lexeme
  <2>2. LexemeEnd(s, i, whole) = BlockEnd(s, i, whole)
    BY <1>3 DEF LexemeEnd
  <2> QED
    BY <2>1, <2>2, BlockIsSkipped
<1>4. CASE s[i] \in Spaces
  <2>1. s[i] \notin Quotes \cup {BackQuote, "/", "#", "-"}
    BY <1>4 DEF Spaces, Quotes, BackQuote
  <2>2. Lexeme(s, i) = "byte" /\ AfterCode(s, i) = "code"
    BY <2>1 DEF Lexeme, AfterCode, IsDashDashComment, IsLineComment
  <2>3. LexemeEnd(s, i, whole) = i + 1
    BY <2>2 DEF LexemeEnd
  <2>4. Modes(s)[i + 1] = ModeAfter(s, i, "code")
    BY ModesStep
  <2>5. Modes(s)[i + 1] = "code"
    BY <2>2, <2>4 DEF ModeAfter, Quotes, Escaped
  <2> QED
    BY <1>1, <2>3, <2>5
<1> QED
  BY <1>2, <1>3, <1>4 DEF IsBlank

\* From code to code: in between there is none, whatever a scanner skips.
LEMMA LexemeIsSkipped ==
  ASSUME NEW s \in Seq(STRING), NEW i \in 1 .. Len(s), Modes(s)[i] = "code",
         ~ IsVersionedComment(s, i), ~ OddDash(s, i)
  PROVE  LET end == LexemeEnd(s, i, FALSE) IN
         /\ end \in i + 1 .. Len(s) + 1
         /\ \A k \in i + 1 .. end - 1 : Modes(s)[k] # "code"
         /\ \/ end <= Len(s) => Modes(s)[end] = "code"
            \/ ~ Closed(s) /\ \A k \in i + 1 .. Len(s) + 1 : Modes(s)[k] # "code"
<1>1. Len(s) \in Nat /\ i \in Nat /\ 1 <= i /\ i <= Len(s) /\ DOMAIN s = 1 .. Len(s)
  OBVIOUS
<1>2. CASE IsBlank(s, i)
  <2>1. FALSE \in BOOLEAN /\ "code" \notin InComment
    BY DEF InComment
  <2> QED
    BY <1>2, <2>1, BlankIsSkipped
<1>3. CASE Lexeme(s, i) \in {"string", "identifier"}
  <2>1. s[i] \in Quotes \cup {BackQuote}
    BY <1>3 DEF Lexeme
  <2>2. LexemeEnd(s, i, FALSE) = QuotedEnd(s, i, FALSE)
    BY <1>3 DEF LexemeEnd
  <2> QED
    BY <2>1, <2>2, QuotedEnds
<1>4. CASE ~ IsBlank(s, i) /\ Lexeme(s, i) \notin {"string", "identifier"}
  <2>1. Lexeme(s, i) \notin {"string", "identifier", "line", "block"}
    BY <1>4 DEF IsBlank
  <2>2. AfterCode(s, i) = "code"
    BY <2>1, CommentsBegin DEF Lexeme, AfterCode
  <2>3. LexemeEnd(s, i, FALSE) = i + 1
    BY <2>1 DEF LexemeEnd
  <2>4. Modes(s)[i + 1] = ModeAfter(s, i, "code")
    BY ModesStep
  <2>5. Modes(s)[i + 1] = "code"
    BY <2>2, <2>4 DEF ModeAfter, Quotes, Escaped
  <2> DEFINE end == LexemeEnd(s, i, FALSE)
  <2>6. end = i + 1
    BY <2>3
  <2> HIDE DEF end
  <2>7. end \in i + 1 .. Len(s) + 1 /\ i + 1 .. end - 1 = {}
    BY <1>1, <2>6
  <2>8. Modes(s)[end] = "code"
    BY <2>5, <2>6
  <2>9. /\ \A k \in i + 1 .. end - 1 : Modes(s)[k] # "code"
        /\ end <= Len(s) => Modes(s)[end] = "code"
    BY <2>7, <2>8
  <2> QED
    BY <2>7, <2>9 DEF end
<1> QED
  BY <1>2, <1>3, <1>4

LEMMA NumberIsSkipped ==
  ASSUME NEW s \in Seq(STRING), NEW i \in 1 .. Len(s), Modes(s)[i] \in {"code", "identifier"},
         s[i] \in Digits, ~ IsComment(s, i)
  PROVE  /\ RedactedEnd(s, i) \in i + 1 .. Len(s) + 1
         /\ Modes(s)[RedactedEnd(s, i)] = Modes(s)[i]
<1>1. /\ RedactedEnd(s, i) \in i + 1 .. Len(s) + 1
      /\ \A k \in i .. RedactedEnd(s, i) - 1 : s[k] \in Letters \cup Digits \cup {"."}
  BY NumberEnds
<1>2. \A x \in Letters \cup Digits \cup {"."} :
        x \notin Quotes \cup {BackQuote, "/", "#", "-"}
  BY TextAssumption DEF Bytes, Quotes, BackQuote
<1>3. ASSUME NEW k \in i .. RedactedEnd(s, i) - 1
      PROVE  ModeAfter(s, k, Modes(s)[i]) = Modes(s)[i]
  <2>1. s[k] \notin Quotes \cup {BackQuote, "/", "#", "-"}
    BY <1>1, <1>2
  <2>2. AfterCode(s, k) = "code"
    BY <2>1 DEF AfterCode, IsLineComment
  <2>3. ModeAfter(s, k, "code") = "code"
    BY <2>2 DEF ModeAfter, Quotes, Escaped
  <2>4. ModeAfter(s, k, "identifier") = "identifier"
    BY <2>1 DEF ModeAfter, Quotes, Escaped
  <2> QED
    BY <2>3, <2>4
<1>4. RedactedEnd(s, i) \in i .. Len(s) + 1 /\ i \in 1 .. Len(s) + 1
  BY <1>1
<1> QED
  BY <1>1, <1>3, <1>4, ModeLasts

-----------------------------------------------------------------------------
(* The redaction. *)

\* The redaction goes on to the right, wherever it is.
LEMMA RedactionGoesOn ==
  ASSUME NEW s \in Seq(STRING), NEW i \in 1 .. Len(s)
  PROVE  RedactedEnd(s, i) \in i + 1 .. Len(s) + 1
<1>1. Len(s) \in Nat /\ i \in Nat /\ 1 <= i /\ i <= Len(s) /\ DOMAIN s = 1 .. Len(s)
  OBVIOUS
<1>2. CASE IsComment(s, i) /\ s[i] = "/"
  <2>1. RedactedEnd(s, i) = BlockEnd(s, i, FALSE) /\ FALSE \in BOOLEAN
    BY <1>2 DEF RedactedEnd
  <2> QED
    BY <2>1, BlockEnds
<1>3. CASE IsComment(s, i) /\ s[i] # "/"
  <2>1. s[i] # "\n"
    BY <1>3 DEF IsComment, IsDashDashComment
  <2>2. LineEnd(s, i) # i /\ LineEnd(s, i) \in i .. Len(s) + 1
    BY <1>1, <2>1, LineEnds
  <2>3. RedactedEnd(s, i) = LineEnd(s, i)
    BY <1>3 DEF RedactedEnd
  <2> QED
    BY <1>1, <2>2, <2>3
<1>4. CASE ~ IsComment(s, i) /\ s[i] \in Quotes
  <2>1. RedactedEnd(s, i) = QuotedEnd(s, i, FALSE) /\ FALSE \in BOOLEAN
    BY <1>4 DEF RedactedEnd
  <2> QED
    BY <1>4, <2>1, QuotedEnds
<1>5. CASE ~ IsComment(s, i) /\ s[i] \notin Quotes /\ s[i] \in Digits
  BY <1>5, NumberEnds
<1>6. CASE ~ IsComment(s, i) /\ s[i] \notin Quotes \cup Digits
  <2>1. RedactedEnd(s, i) = i + 1
    BY <1>6 DEF RedactedEnd
  <2> QED
    BY <1>1, <2>1
<1> QED
  BY <1>2, <1>3, <1>4, <1>5, <1>6

\* Where the redaction goes on after i, if i is not in a string or a comment.
LEMMA RedactionStaysOutside ==
  ASSUME NEW s \in Seq(STRING), Regular(s), NEW i \in 1 .. Len(s),
         Modes(s)[i] \in {"code", "identifier"}
  PROVE  /\ RedactedEnd(s, i) \in i + 1 .. Len(s) + 1
         /\ RedactedEnd(s, i) <= Len(s) => Modes(s)[RedactedEnd(s, i)] \in {"code", "identifier"}
         /\ IsComment(s, i) \/ s[i] \in Quotes \cup Digits \/ ~ InLiteral(s, i)
         /\ ~ IsComment(s, i) /\ s[i] \notin Quotes \cup Digits => RedactedEnd(s, i) = i + 1
<1>1. Len(s) \in Nat /\ i \in Nat /\ 1 <= i /\ i <= Len(s) /\ DOMAIN s = 1 .. Len(s)
  OBVIOUS
<1>2. IsComment(s, i) => BeginsComment(s, i)
  BY CommentsBegin
<1>c. Modes(s)[i] = "code" /\ BeginsComment(s, i) => IsComment(s, i)
  BY CommentsBegin, NoOddDash DEF Regular
<1>3. IsComment(s, i) \/ s[i] \in Quotes => Modes(s)[i] = "code"
  BY <1>1, <1>2 DEF Regular
<1>4. IsComment(s, i) \/ s[i] \in Quotes \cup Digits \/ ~ InLiteral(s, i)
  BY <1>c DEF InLiteral
<1>5. CASE IsComment(s, i) /\ s[i] = "/"
  <2>1. At(s, i + 1) = "*"
    BY <1>5 DEF IsComment, IsDashDashComment
  <2>2. RedactedEnd(s, i) = BlockEnd(s, i, FALSE) /\ FALSE \in BOOLEAN
    BY <1>5 DEF RedactedEnd
  <2>3. Closed(s)
    BY DEF Regular
  <2> QED
    BY <1>3, <1>4, <1>5, <2>1, <2>2, <2>3, BlockIsSkipped
<1>6. CASE IsComment(s, i) /\ s[i] # "/"
  <2>1. IsLineComment(s, i)
    BY <1>6, CommentsBegin DEF IsComment
  <2>2. RedactedEnd(s, i) = LineEnd(s, i)
    BY <1>6 DEF RedactedEnd
  <2> QED
    BY <1>3, <1>4, <1>6, <2>1, <2>2, LineIsSkipped
<1>7. CASE ~ IsComment(s, i) /\ s[i] \in Quotes
  <2>1. RedactedEnd(s, i) = QuotedEnd(s, i, FALSE) /\ FALSE \in BOOLEAN
    BY <1>7 DEF RedactedEnd
  <2> QED
    BY <1>3, <1>4, <1>7, <2>1, QuotedEnds
<1>8. CASE ~ IsComment(s, i) /\ s[i] \in Digits
  BY <1>4, <1>8, NumberIsSkipped
<1>9. CASE ~ IsComment(s, i) /\ s[i] \notin Quotes \cup Digits
  <2>1. RedactedEnd(s, i) = i + 1
    BY <1>9 DEF RedactedEnd
  <2>2. Modes(s)[i + 1] = ModeAfter(s, i, Modes(s)[i])
    BY ModesStep
  <2>3. Modes(s)[i] = "code" => AfterCode(s, i) \in {"code", "identifier"}
    BY <1>9, <1>c DEF AfterCode, BeginsComment
  <2>4. Modes(s)[i] = "code" => ModeAfter(s, i, "code") \in {"code", "identifier"}
    BY <2>3 DEF ModeAfter, Quotes, Escaped
  <2>5. ModeAfter(s, i, "identifier") \in {"code", "identifier"}
    BY DEF ModeAfter, Quotes, Escaped
  <2>6. Modes(s)[i + 1] \in {"code", "identifier"}
    BY <2>2, <2>4, <2>5
  <2> QED
    BY <1>1, <1>4, <1>9, <2>1, <2>6
<1> QED
  BY <1>5, <1>6, <1>7, <1>8, <1>9

\* What may be logged of a text.
Harmless(s) ==
  {e \in STRING : /\ e \notin Digits
                  /\ \/ e \in {"?", " "}
                     \/ \E j \in DOMAIN s : e = s[j] /\ ~ InLiteral(s, j)}

LEMMA RedactionOutside ==
  ASSUME NEW s \in Seq(STRING), Regular(s)
  PROVE  Redaction(s) \in Seq(Harmless(s))
<1> DEFINE D == 1 .. Len(s) + 1
           V == [BOOLEAN -> Seq(STRING)]
           rank == [i \in D |-> Len(s) + 1 - i]
           Rest(f, i) == [placeholder \in BOOLEAN |->
             IF i > Len(s) THEN <<>>
             ELSE IF IsComment(s, i) THEN <<" ">> \o f[RedactedEnd(s, i)][FALSE]
             ELSE IF s[i] \in Quotes \cup Digits
               THEN (IF placeholder THEN <<>> ELSE <<"?">>) \o f[RedactedEnd(s, i)][TRUE]
             ELSE <<s[i]>> \o f[i + 1][s[i] = "?"]]
           Is(f) == f = [i \in D |-> Rest(f, i)]
           Step == [p \in D \X [D -> V] |-> Rest(p[2], p[1])]
           from == CHOOSE f : Is(f)
<1>1. Len(s) \in Nat
  OBVIOUS
<1>2. Redaction(s) = from[1][FALSE]
  BY DEF Redaction
<1>3. \A i \in D, f \in [D -> V] : Step[<<i, f>>] = Rest(f, i)
  <2> HIDE DEF Rest, V, D
  <2> QED
    OBVIOUS
<1>4. \A i \in D : i <= Len(s) =>
        /\ RedactedEnd(s, i) \in D /\ rank[RedactedEnd(s, i)] < rank[i]
        /\ i + 1 \in D /\ rank[i + 1] < rank[i]
  BY <1>1, RedactionGoesOn
<1>5. ASSUME NEW i \in D, NEW f, NEW p \in BOOLEAN
      PROVE  Rest(f, i)[p] =
               IF i > Len(s) THEN <<>>
               ELSE IF IsComment(s, i) THEN <<" ">> \o f[RedactedEnd(s, i)][FALSE]
               ELSE IF s[i] \in Quotes \cup Digits
                 THEN (IF p THEN <<>> ELSE <<"?">>) \o f[RedactedEnd(s, i)][TRUE]
               ELSE <<s[i]>> \o f[i + 1][s[i] = "?"]
  OBVIOUS
<1>6. ASSUME NEW T, " " \in T, "?" \in T, NEW i \in D, NEW f,
             i <= Len(s) => f[RedactedEnd(s, i)] \in [BOOLEAN -> Seq(T)],
             i <= Len(s) /\ ~ IsComment(s, i) /\ s[i] \notin Quotes \cup Digits =>
               s[i] \in T /\ f[i + 1] \in [BOOLEAN -> Seq(T)]
      PROVE  Rest(f, i) \in [BOOLEAN -> Seq(T)]
  <2> DEFINE S == Seq(T)
  <2>1. <<>> \in S /\ <<" ">> \in S /\ <<"?">> \in S /\ \A a, b \in S : a \o b \in S
    BY <1>6, SequencesOf
  <2>2. \A x \in T : <<x>> \in S
    BY SequencesOf
  <2> HIDE DEF S
  <2>3. i <= Len(s) => f[RedactedEnd(s, i)] \in [BOOLEAN -> S]
    BY <1>6 DEF S
  <2>4. i <= Len(s) /\ ~ IsComment(s, i) /\ s[i] \notin Quotes \cup Digits =>
          <<s[i]>> \in S /\ f[i + 1] \in [BOOLEAN -> S]
    BY <1>6, <2>2 DEF S
  <2>5. ~ (i > Len(s)) => i <= Len(s)
    BY <1>1
  <2>6. ASSUME NEW p \in BOOLEAN PROVE Rest(f, i)[p] \in S
    <3> HIDE DEF Rest, D
    <3> DEFINE yes == f[RedactedEnd(s, i)][TRUE]
               no == f[RedactedEnd(s, i)][FALSE]
               next == f[i + 1][s[i] = "?"]
    <3>1. i <= Len(s) => yes \in S /\ no \in S
      BY <2>3
    <3>2. i <= Len(s) /\ ~ IsComment(s, i) /\ s[i] \notin Quotes \cup Digits => next \in S
      BY <2>4
    <3>3. Rest(f, i)[p] =
            IF i > Len(s) THEN <<>>
            ELSE IF IsComment(s, i) THEN <<" ">> \o no
            ELSE IF s[i] \in Quotes \cup Digits
              THEN (IF p THEN <<>> ELSE <<"?">>) \o yes
            ELSE <<s[i]>> \o next
      BY <1>5
    <3> HIDE DEF yes, no, next
    <3>4. CASE i > Len(s)
      BY <2>1, <3>3, <3>4
    <3>5. CASE ~ (i > Len(s)) /\ IsComment(s, i)
      BY <2>1, <2>5, <3>1, <3>3, <3>5
    <3>6. CASE ~ (i > Len(s)) /\ ~ IsComment(s, i) /\ s[i] \in Quotes \cup Digits
      <4>1. (IF p THEN <<>> ELSE <<"?">>) \in S /\ yes \in S
        BY <2>1, <2>5, <3>1, <3>6
      <4> QED
        BY <2>1, <3>3, <3>6, <4>1
    <3>7. CASE ~ (i > Len(s)) /\ ~ IsComment(s, i) /\ s[i] \notin Quotes \cup Digits
      BY <2>1, <2>4, <2>5, <3>2, <3>3, <3>7
    <3> QED
      BY <3>4, <3>5, <3>6, <3>7
  <2> QED
    BY <2>6 DEF S
<1>7. <<>> \in Seq(STRING)
  OBVIOUS
<1> HIDE DEF Rest
<1>8. Defines(D, V, Step)
  <2>1. rank \in [D -> 0 .. Len(s) + 1] /\ Len(s) + 1 \in Nat
    BY <1>1
  <2>2. [p \in BOOLEAN |-> <<>>] \in V
    OBVIOUS
  <2>3. ASSUME NEW i \in D, NEW f \in [D -> V] PROVE Rest(f, i) \in V
    <3>1. i <= Len(s) => f[RedactedEnd(s, i)] \in V /\ f[i + 1] \in V
      <4> HIDE DEF V
      <4> QED
        BY <1>4
    <3>2. i <= Len(s) => s[i] \in STRING
      BY <1>1
    <3>3. " " \in STRING /\ "?" \in STRING
      BY TextAssumption DEF Bytes, Spaces, AllSpaces
    <3>4. Rest(f, i) \in [BOOLEAN -> Seq(STRING)]
      BY <1>6, <3>1, <3>2, <3>3
    <3> QED
      BY <3>4
  <2>4. Step \in [D \X [D -> V] -> V]
    <3> HIDE DEF D, V
    <3> QED
      BY <2>3
  <2>5. ASSUME NEW i \in D, NEW f \in [D -> V], NEW g \in [D -> V],
               \A k \in D : rank[k] < rank[i] => f[k] = g[k]
        PROVE  Step[<<i, f>>] = Step[<<i, g>>]
    <3>1. i <= Len(s) => f[RedactedEnd(s, i)] = g[RedactedEnd(s, i)] /\ f[i + 1] = g[i + 1]
      BY <1>4, <2>5
    <3>2. ~ (i > Len(s)) => i <= Len(s)
      BY <1>1
    <3>3. Rest(f, i) = Rest(g, i)
      BY <3>1, <3>2 DEF Rest
    <3> QED
      BY <1>3, <3>3
  <2> HIDE DEF Step, rank, D, V
  <2>6. Causal(D, V, Len(s) + 1, rank, Step)
    BY <2>1, <2>2, <2>4, <2>5 DEF Causal
  <2> QED
    BY <2>6, RecursiveFunction
<1>9. Is(from)
  <2>1. PICK f \in [D -> V] : \A i \in D : f[i] = Step[<<i, f>>]
    <3> HIDE DEF Step, D, V
    <3> QED
      BY <1>8 DEF Defines
  <2>2. \A i \in D : f[i] = Rest(f, i)
    <3> HIDE DEF Step, D, V
    <3> QED
      BY <1>3, <2>1
  <2>3. \E g : Is(g)
    <3> HIDE DEF D, V
    <3> QED
      BY <2>2
  <2> HIDE DEF Is
  <2> QED
    BY <2>3
<1>10. \A i \in D : from[i] = Rest(from, i)
  <2> HIDE DEF from, D
  <2> QED
    BY <1>9
<1> HIDE DEF from
<1> DEFINE Outside(i) == i = Len(s) + 1 \/ Modes(s)[i] \in {"code", "identifier"}
           Good(i) == from[i] \in [BOOLEAN -> Seq(Harmless(s))]
           Bad == {i \in D : Outside(i) /\ ~ Good(i)}
<1>11. " " \in Harmless(s) /\ "?" \in Harmless(s)
  BY TextAssumption DEF Harmless, Bytes, Spaces, AllSpaces
<1>12. ASSUME NEW i \in D, Outside(i), \A k \in D : i < k /\ Outside(k) => Good(k)
       PROVE  Good(i)
  <2>1. CASE i > Len(s)
    <3>1. ~ (i <= Len(s))
      BY <1>1, <2>1
    <3>2. Rest(from, i) \in [BOOLEAN -> Seq(Harmless(s))]
      BY <1>6, <1>11, <3>1
    <3> QED
      BY <1>10, <3>2
  <2>2. CASE i <= Len(s)
    <3>1. i \in 1 .. Len(s) /\ Modes(s)[i] \in {"code", "identifier"}
      BY <1>1, <1>12, <2>2
    <3>2. /\ RedactedEnd(s, i) \in i + 1 .. Len(s) + 1
          /\ RedactedEnd(s, i) <= Len(s) => Modes(s)[RedactedEnd(s, i)] \in {"code", "identifier"}
          /\ IsComment(s, i) \/ s[i] \in Quotes \cup Digits \/ ~ InLiteral(s, i)
          /\ ~ IsComment(s, i) /\ s[i] \notin Quotes \cup Digits => RedactedEnd(s, i) = i + 1
      BY <3>1, RedactionStaysOutside
    <3>3. RedactedEnd(s, i) \in D /\ i < RedactedEnd(s, i) /\ Outside(RedactedEnd(s, i))
      BY <1>1, <3>1, <3>2
    <3>4. Good(RedactedEnd(s, i))
      BY <1>12, <3>3
    <3>5. ~ IsComment(s, i) /\ s[i] \notin Quotes \cup Digits => s[i] \in Harmless(s)
      <4>1. s[i] \in STRING /\ i \in DOMAIN s
        BY <3>1
      <4> QED
        BY <3>2, <4>1 DEF Harmless
    <3>6. Rest(from, i) \in [BOOLEAN -> Seq(Harmless(s))]
      BY <1>6, <1>11, <3>2, <3>4, <3>5
    <3> QED
      BY <1>10, <3>6
  <2> QED
    BY <1>1, <2>1, <2>2
<1>13. Bad = {}
  <2> SUFFICES ASSUME Bad # {} PROVE FALSE
    OBVIOUS
  <2>1. PICK i \in Bad : \A k \in Bad : k <= i
    <3>1. Bad \subseteq 0 .. Len(s) + 1 /\ Len(s) + 1 \in Nat
      BY <1>1
    <3> HIDE DEF Bad
    <3> QED
      BY <3>1, GreatestNumber
  <2> HIDE DEF Good, Outside
  <2>2. i \in D /\ Outside(i) /\ ~ Good(i)
    OBVIOUS
  <2>3. \A k \in D : i < k /\ Outside(k) => Good(k)
    BY <1>1, <2>1, <2>2
  <2> QED
    BY <1>12, <2>2, <2>3
<1>14. 1 \in D /\ Outside(1)
  BY <1>1, ModesStep
<1>15. Good(1)
  <2> HIDE DEF Good, Outside, D
  <2> QED
    BY <1>13, <1>14
<1> QED
  BY <1>2, <1>15

\* What strings.Fields and strings.Join keep.
Squeezed(s) ==
  [i \in DOMAIN s |->
     IF s[i] \notin AllSpaces THEN <<s[i]>>
     ELSE IF /\ At(s, i + 1) \notin AllSpaces \cup {EndOfText}
             /\ \E j \in 1 .. i - 1 : s[j] \notin AllSpaces
       THEN <<" ">> ELSE <<>>]

LEMMA NextPosition ==
  ASSUME NEW n \in Nat
  PROVE  \A i \in 1 .. n : i + 1 \in 1 .. n + 1 /\ i < i + 1
OBVIOUS

LEMMA SqueezeScans ==
  ASSUME NEW T, " " \in T, NEW s \in Seq(T)
  PROVE  /\ Squeeze(s) = Scan(s, [i \in DOMAIN s |-> i + 1], Squeezed(s))[1]
         /\ Scanner(s, [i \in DOMAIN s |-> i + 1], Squeezed(s), T)
<1> DEFINE next == [i \in DOMAIN s |-> i + 1]
<1>1. Squeeze(s) = Scan(s, next, Squeezed(s))[1]
  BY DEF Squeeze, Squeezed
<1>2. next \in [1 .. Len(s) -> 1 .. Len(s) + 1] /\ \A i \in 1 .. Len(s) : i < next[i]
  <2>1. DOMAIN s = 1 .. Len(s) /\ Len(s) \in Nat
    BY SequenceIn
  <2>2. \A i \in 1 .. Len(s) : i + 1 \in 1 .. Len(s) + 1 /\ i < i + 1
    BY <2>1, NextPosition
  <2> QED
    BY <2>1, <2>2
<1>3. Squeezed(s) \in [1 .. Len(s) -> Seq(T)]
  <2>1. <<>> \in Seq(T) /\ <<" ">> \in Seq(T) /\ \A i \in 1 .. Len(s) : <<s[i]>> \in Seq(T)
    BY SequencesOf, SequenceIn
  <2>2. DOMAIN s = 1 .. Len(s)
    BY SequenceIn
  <2> QED
    BY <2>1, <2>2 DEF Squeezed
<1> QED
  BY <1>1, <1>2, <1>3 DEF Scanner

LEMMA SqueezeAddsBlanks ==
  ASSUME NEW T, " " \in T, NEW s \in Seq(T)
  PROVE  Squeeze(s) \in Seq(T)
<1>1. 1 \in 1 .. Len(s) + 1
  BY SequenceIn
<1> DEFINE next == [i \in DOMAIN s |-> i + 1]
<1>2. Squeeze(s) = Scan(s, next, Squeezed(s))[1] /\ Scanner(s, next, Squeezed(s), T)
  BY SqueezeScans
<1> HIDE DEF next
<1>3. Scan(s, next, Squeezed(s))[1] \in Seq(T)
  BY <1>1, <1>2, ScanStep
<1> QED
  BY <1>2, <1>3

-----------------------------------------------------------------------------
(* The classifier's scanners, against the server's reading.                *)

\* Whatever a scanner has before it, it goes on.
LEMMA LexemeGoesOn ==
  ASSUME NEW s \in Seq(STRING), NEW i \in 1 .. Len(s), NEW whole \in BOOLEAN
  PROVE  LexemeEnd(s, i, whole) \in i + 1 .. Len(s) + 1
<1>1. Len(s) \in Nat /\ i \in Nat /\ 1 <= i /\ i <= Len(s) /\ DOMAIN s = 1 .. Len(s)
  OBVIOUS
<1>2. CASE Lexeme(s, i) = "line"
  <2>1. s[i] # "\n"
    BY <1>2 DEF Lexeme, IsDashDashComment
  <2>2. LineEnd(s, i) # i /\ LineEnd(s, i) \in i .. Len(s) + 1
    BY <1>1, <2>1, LineEnds
  <2>3. LexemeEnd(s, i, whole) = LineEnd(s, i)
    BY <1>2 DEF LexemeEnd
  <2> QED
    BY <1>1, <2>2, <2>3
<1>3. CASE Lexeme(s, i) = "block"
  <2>1. LexemeEnd(s, i, whole) = BlockEnd(s, i, whole)
    BY <1>3 DEF LexemeEnd
  <2> QED
    BY <2>1, BlockEnds
<1>4. CASE Lexeme(s, i) \in {"string", "identifier"}
  <2>1. s[i] \in Quotes \cup {BackQuote}
    BY <1>4 DEF Lexeme
  <2>2. LexemeEnd(s, i, whole) = QuotedEnd(s, i, whole)
    BY <1>4 DEF LexemeEnd
  <2> QED
    BY <2>1, <2>2, QuotedEnds
<1>5. CASE Lexeme(s, i) \notin {"line", "block", "string", "identifier"}
  <2>1. LexemeEnd(s, i, whole) = i + 1
    BY <1>5 DEF LexemeEnd
  <2> QED
    BY <1>1, <2>1
<1> QED
  BY <1>2, <1>3, <1>4, <1>5

LEMMA LexemesScan ==
  ASSUME NEW s \in Seq(STRING), NEW whole \in BOOLEAN,
         NEW T, NEW written \in [1 .. Len(s) -> Seq(T)]
  PROVE  Scanner(s, LexemeEnds(s, whole), written, T)
<1>1. DOMAIN s = 1 .. Len(s) /\ Len(s) \in Nat
  OBVIOUS
<1>2. \A i \in 1 .. Len(s) : /\ LexemeEnds(s, whole)[i] = LexemeEnd(s, i, whole)
                             /\ LexemeEnd(s, i, whole) \in 1 .. Len(s) + 1
                             /\ i < LexemeEnd(s, i, whole)
  BY <1>1, LexemeGoesOn DEF LexemeEnds
<1>3. LexemeEnds(s, whole) \in [1 .. Len(s) -> 1 .. Len(s) + 1]
  BY <1>1, <1>2 DEF LexemeEnds
<1> QED
  BY <1>2, <1>3 DEF Scanner

\* The comments with an exclamation mark are those the server executes.
LEMMA VersionedIsExecuted ==
  ASSUME NEW s \in Seq(STRING), NEW i \in 1 .. Len(s), Modes(s)[i] = "code",
         IsVersionedComment(s, i)
  PROVE  i + 2 \in 1 .. Len(s) /\ Modes(s)[i + 2] = "executable"
<1>1. Len(s) \in Nat /\ DOMAIN s = 1 .. Len(s)
  OBVIOUS
<1>2. s[i] = "/" /\ At(s, i + 1) = "*" /\ At(s, i + 2) = "!"
  BY DEF IsVersionedComment
<1>3. i + 1 \in 1 .. Len(s) /\ i + 2 \in 1 .. Len(s) /\ i + 1 + 1 = i + 2
  BY <1>1, <1>2 DEF At, EndOfText
<1>4. Modes(s)[i + 1] = "opening"
  <2>1. Modes(s)[i + 1] = ModeAfter(s, i, "code")
    BY ModesStep
  <2>2. AfterCode(s, i) = "opening"
    BY <1>2 DEF AfterCode, Quotes, BackQuote, IsLineComment
  <2> QED
    BY <2>1, <2>2 DEF ModeAfter, Quotes, Escaped
<1>5. Modes(s)[i + 2] = ModeAfter(s, i + 1, "opening")
  BY <1>3, <1>4, ModesStep
<1>6. At(s, i + 1 + 1) = "!"
  BY <1>2, <1>3
<1> QED
  BY <1>3, <1>5, <1>6 DEF ModeAfter, Quotes, Escaped

LEMMA NothingVersioned ==
  ASSUME NEW s \in Seq(STRING), ~ HasExecutable(s), NEW i \in 1 .. Len(s), Modes(s)[i] = "code"
  PROVE  ~ IsVersionedComment(s, i)
<1>1. DOMAIN s = 1 .. Len(s)
  OBVIOUS
<1> QED
  BY <1>1, VersionedIsExecuted DEF HasExecutable

\* What the scanners take for white space and comments is so to the server.
LEMMA BlankToScanners ==
  ASSUME NEW s \in Seq(STRING), NEW i, Modes(s)[i] = "code", IsBlank(s, i)
  PROVE  Blank(s, i)
<1>1. s[i] \in Spaces => s[i] \in WhiteSpace
  BY DEF Spaces, WhiteSpace
<1>2. Lexeme(s, i) \in {"line", "block"} => BeginsComment(s, i)
  BY CommentsBegin DEF Lexeme
<1> QED
  BY <1>1, <1>2 DEF Blank, IsBlank

\* The other way round there are dashes and vertical tabs.
LEMMA BlankToServer ==
  ASSUME NEW s \in Seq(STRING), ~ HasExecutable(s), NEW i \in 1 .. Len(s), Modes(s)[i] = "code",
         Blank(s, i), ~ IsBlank(s, i)
  PROVE  s[i] = VerticalTab \/ OddDash(s, i)
<1>1. ~ IsVersionedComment(s, i)
  BY NothingVersioned
<1>2. s[i] \in WhiteSpace \/ BeginsComment(s, i)
  BY DEF Blank
<1>3. BeginsComment(s, i) => s[i] \notin Quotes \cup {BackQuote}
  BY DEF BeginsComment, IsLineComment, Quotes, BackQuote
<1>4. BeginsComment(s, i) => OddDash(s, i)
  <2>1. Lexeme(s, i) \notin {"line", "block"}
    BY DEF IsBlank
  <2>2. BeginsComment(s, i) => ~ IsComment(s, i)
    BY <1>1, <1>3, <2>1 DEF Lexeme, IsComment
  <2> QED
    BY <2>2, CommentsBegin
<1>5. s[i] \in WhiteSpace => s[i] = VerticalTab
  BY DEF IsBlank, Spaces, WhiteSpace
<1> QED
  BY <1>2, <1>4, <1>5

\* The scanners and the server take the same for white space and comments, if there is no
\* such thing.
AsScanned(s) == ~ HasExecutable(s) /\ DashesSpaced(s) /\ BlanksKnown(s)

LEMMA NothingOdd ==
  ASSUME NEW s \in Seq(STRING), AsScanned(s), NEW i \in 1 .. Len(s), Modes(s)[i] = "code"
  PROVE  ~ IsVersionedComment(s, i) /\ ~ OddDash(s, i)
BY NothingVersioned, NoOddDash DEF AsScanned

LEMMA BlankIsBlank ==
  ASSUME NEW s \in Seq(STRING), AsScanned(s), NEW i \in 1 .. Len(s), Modes(s)[i] = "code"
  PROVE  Blank(s, i) <=> IsBlank(s, i)
<1>1. s[i] # VerticalTab
  BY DEF AsScanned, BlanksKnown
<1>2. ~ OddDash(s, i)
  BY NothingOdd
<1> QED
  BY <1>1, <1>2, BlankToScanners, BlankToServer DEF AsScanned

LEMMA CommentIsBlank ==
  ASSUME NEW s, NEW i, Modes(s)[i] \in InComment
  PROVE  Blank(s, i)
BY DEF Blank, InComment

\* Where a scanner may be on its way from one position to another.
CodeBetween(s, a, b) == {k \in a .. b : k = b \/ Modes(s)[k] = "code"}

\* The lexemes lead from code to code and to the end.
Leads(s, a, b) ==
  /\ a \in 1 .. b /\ b \in 1 .. Len(s) + 1
  /\ \A k \in a .. b - 1 : Modes(s)[k] = "code" => ~ IsVersionedComment(s, k) /\ ~ OddDash(s, k)
  /\ \/ b <= Len(s) /\ Modes(s)[b] = "code"
     \/ b = Len(s) + 1 /\ Closed(s)

LEMMA LexemesLead ==
  ASSUME NEW s \in Seq(STRING), NEW a, NEW b, Leads(s, a, b)
  PROVE  Reaches(b, CodeBetween(s, a, b), s, LexemeEnds(s, FALSE))
<1>1. /\ Len(s) \in Nat /\ DOMAIN s = 1 .. Len(s)
      /\ a \in Nat /\ b \in Nat /\ 1 <= a /\ a <= b /\ b <= Len(s) + 1
  BY DEF Leads
<1>2. ASSUME NEW k \in CodeBetween(s, a, b), k < b
      PROVE  LexemeEnds(s, FALSE)[k] \in CodeBetween(s, a, b)
  <2> DEFINE end == LexemeEnd(s, k, FALSE)
  <2>1. /\ k \in a .. b - 1 /\ k \in 1 .. Len(s) /\ Modes(s)[k] = "code"
        /\ ~ IsVersionedComment(s, k) /\ ~ OddDash(s, k)
    BY <1>1, <1>2 DEF CodeBetween, Leads
  <2>2. LexemeEnds(s, FALSE)[k] = end
    BY <1>1, <2>1 DEF LexemeEnds
  <2>3. /\ end \in k + 1 .. Len(s) + 1
        /\ \A j \in k + 1 .. end - 1 : Modes(s)[j] # "code"
        /\ \/ end <= Len(s) => Modes(s)[end] = "code"
           \/ ~ Closed(s) /\ \A j \in k + 1 .. Len(s) + 1 : Modes(s)[j] # "code"
    BY <2>1, LexemeIsSkipped
  <2> HIDE DEF end
  <2>4. end <= b
    <3> SUFFICES ASSUME b < end PROVE FALSE
      BY <1>1, <2>3
    <3>1. b \in k + 1 .. end - 1
      BY <1>1, <2>1, <2>3
    <3>2. b # Len(s) + 1
      BY <1>1, <2>3
    <3> QED
      BY <2>3, <3>1, <3>2 DEF Leads
  <2>5. end = b \/ Modes(s)[end] = "code"
    <3> SUFFICES ASSUME end < b PROVE Modes(s)[end] = "code"
      BY <1>1, <2>3, <2>4
    <3>1. end <= Len(s)
      BY <1>1, <2>3
    <3>2. b \in k + 1 .. Len(s) + 1
      BY <1>1, <2>1
    <3> QED
      BY <2>3, <3>1, <3>2 DEF Leads
  <2>6. end \in a .. b
    BY <1>1, <2>1, <2>3, <2>4
  <2> QED
    BY <2>2, <2>5, <2>6 DEF CodeBetween
<1>3. CodeBetween(s, a, b) \subseteq 1 .. b
  BY <1>1 DEF CodeBetween
<1>4. b \in 1 .. Len(s) + 1
  BY DEF Leads
<1> QED
  BY <1>2, <1>3, <1>4 DEF Reaches

\* So what a scanner writes from one to the other comes first, and is nothing if it
\* writes nothing on the way.
LEMMA LexemesWrite ==
  ASSUME NEW s \in Seq(STRING), NEW a, NEW b, Leads(s, a, b), a = b \/ Modes(s)[a] = "code",
         NEW T, NEW written \in [1 .. Len(s) -> Seq(T)]
  PROVE  ReachesTo(a, b, CodeBetween(s, a, b), s, LexemeEnds(s, FALSE), written, T)
<1>1. Scanner(s, LexemeEnds(s, FALSE), written, T)
  <2>1. FALSE \in BOOLEAN
    OBVIOUS
  <2> QED
    BY <2>1, LexemesScan
<1>2. Reaches(b, CodeBetween(s, a, b), s, LexemeEnds(s, FALSE))
  BY LexemesLead
<1>3. a \in CodeBetween(s, a, b)
  BY DEF CodeBetween, Leads
<1> DEFINE next == LexemeEnds(s, FALSE)
<1>4. Scanner(s, next, written, T) /\ Reaches(b, CodeBetween(s, a, b), s, next)
  BY <1>1, <1>2
<1> HIDE DEF next
<1>5. ReachesTo(a, b, CodeBetween(s, a, b), s, next, written, T)
  BY <1>3, <1>4, ScanReaches
<1> QED
  BY <1>5 DEF next

\* After white space or in a comment, there is code or a comment.
LEMMA BlankGoesOn ==
  ASSUME NEW s \in Seq(STRING), NEW k \in 1 .. Len(s), Blank(s, k)
  PROVE  Modes(s)[k + 1] \in InComment \cup {"code"}
<1>1. Modes(s)[k + 1] = ModeAfter(s, k, Modes(s)[k])
  BY ModesStep
<1>2. AfterLineElement(s, k) \in {"line", "code"}
  BY DEF AfterLineElement
<1>3. CASE Modes(s)[k] = "code"
  <2>1. s[k] \notin Quotes \cup {BackQuote}
    BY <1>3 DEF Blank, BeginsComment, IsLineComment, Quotes, BackQuote, WhiteSpace, VerticalTab
  <2>2. AfterCode(s, k) \in InComment \cup {"code"}
    BY <1>2, <2>1 DEF AfterCode, InComment
  <2> QED
    BY <1>1, <1>3, <2>2 DEF ModeAfter, Quotes, Escaped
<1>4. CASE Modes(s)[k] \in InComment
  BY <1>1, <1>2, <1>4 DEF ModeAfter, InComment, Quotes, Escaped
<1> QED
  BY <1>3, <1>4 DEF Blank, InComment

LEMMA SolidWrites ==
  ASSUME NEW s \in Seq(STRING)
  PROVE  /\ Solid(s) \in [1 .. Len(s) -> Seq(STRING)]
         /\ \A i \in 1 .. Len(s) : Solid(s)[i] = IF IsBlank(s, i) THEN <<>> ELSE <<s[i]>>
<1>1. DOMAIN s = 1 .. Len(s) /\ \A i \in 1 .. Len(s) : s[i] \in STRING
  BY SequenceIn
<1>2. <<>> \in Seq(STRING) /\ \A i \in 1 .. Len(s) : <<s[i]>> \in Seq(STRING)
  BY <1>1, SequencesOf
<1> QED
  BY <1>1, <1>2 DEF Solid

\* From a position behind which there is nothing but white space and comments, nothing
\* is written.
LEMMA NothingSolid ==
  ASSUME NEW s \in Seq(STRING), AsScanned(s), Closed(s),
         NEW a \in 1 .. Len(s) + 1, a = Len(s) + 1 \/ Modes(s)[a] = "code",
         \A k \in a .. Len(s) : Modes(s)[k] = "code" => IsBlank(s, k)
  PROVE  Scan(s, LexemeEnds(s, FALSE), Solid(s))[a] = <<>>
<1> DEFINE next == LexemeEnds(s, FALSE)
           from == Scan(s, next, Solid(s))
           end == Len(s) + 1
           Inv == CodeBetween(s, a, end)
<1>1. Len(s) \in Nat /\ a \in Nat /\ a <= end /\ end \in 1 .. end /\ end > Len(s)
  OBVIOUS
<1>2. Leads(s, a, end)
  <2>1. \A k \in a .. end - 1 : k \in 1 .. Len(s)
    BY <1>1
  <2>2. \A k \in a .. end - 1 :
          Modes(s)[k] = "code" => ~ IsVersionedComment(s, k) /\ ~ OddDash(s, k)
    BY <2>1, NothingOdd
  <2>3. a \in 1 .. end
    OBVIOUS
  <2> QED
    BY <1>1, <2>2, <2>3 DEF Leads
<1>3. ReachesTo(a, end, Inv, s, next, Solid(s), STRING)
  BY <1>2, SolidWrites, LexemesWrite
<1>4. \A k \in Inv : k < end => Solid(s)[k] = <<>>
  <2> SUFFICES ASSUME NEW k \in Inv, k < end PROVE Solid(s)[k] = <<>>
    OBVIOUS
  <2>1. k \in a .. Len(s) /\ k \in 1 .. Len(s) /\ Modes(s)[k] = "code"
    BY <1>1 DEF CodeBetween
  <2> QED
    BY <2>1, SolidWrites
<1> HIDE DEF Inv
<1>5. from[a] = from[end]
  BY <1>3, <1>4 DEF ReachesTo
<1>6. from[end] = <<>>
  <2>1. FALSE \in BOOLEAN
    OBVIOUS
  <2>2. Scanner(s, next, Solid(s), STRING)
    BY <2>1, SolidWrites, LexemesScan
  <2> HIDE DEF next
  <2> QED
    BY <1>1, <2>2, ScanStep
<1> QED
  BY <1>5, <1>6

\* The last of what is written is what stands at the last position that is written.
LEMMA LastSolid ==
  ASSUME NEW s \in Seq(STRING), AsScanned(s), Closed(s),
         NEW i \in 1 .. Len(s), Modes(s)[i] = "code", ~ IsBlank(s, i),
         \A k \in i + 1 .. Len(s) : Modes(s)[k] = "code" => IsBlank(s, k)
  PROVE  LET bytes == Scan(s, LexemeEnds(s, FALSE), Solid(s))[1] IN
         bytes # <<>> /\ Last(bytes) = s[i]
<1> DEFINE next == LexemeEnds(s, FALSE)
           from == Scan(s, next, Solid(s))
<1>1. /\ Len(s) \in Nat /\ DOMAIN s = 1 .. Len(s) /\ 1 \in 1 .. i /\ i \in 1 .. Len(s) + 1
      /\ i <= Len(s) /\ ~ (i > Len(s)) /\ i \in Nat /\ s[i] \in STRING
  OBVIOUS
<1>2. Modes(s)[1] = "code"
  BY ModesStep
<1>3. Leads(s, 1, i)
  <2>1. \A k \in 1 .. i - 1 : k \in 1 .. Len(s)
    BY <1>1
  <2> QED
    BY <1>1, <2>1, NothingOdd DEF Leads
<1>4. ReachesTo(1, i, CodeBetween(s, 1, i), s, next, Solid(s), STRING)
  BY <1>2, <1>3, SolidWrites, LexemesWrite
<1>5. PICK x \in Seq(STRING) : from[1] = x \o from[i]
  BY <1>4 DEF ReachesTo
<1>6. /\ next[i] \in i + 1 .. Len(s) + 1
      /\ next[i] <= Len(s) => Modes(s)[next[i]] = "code"
  <2>1. next[i] = LexemeEnd(s, i, FALSE)
    BY <1>1 DEF LexemeEnds
  <2>2. /\ LexemeEnd(s, i, FALSE) \in i + 1 .. Len(s) + 1
        /\ LexemeEnd(s, i, FALSE) <= Len(s) => Modes(s)[LexemeEnd(s, i, FALSE)] = "code"
    BY NothingOdd, LexemeIsSkipped
  <2> HIDE DEF next
  <2> QED
    BY <2>1, <2>2
<1>7. from[next[i]] = <<>>
  <2> DEFINE a == next[i]
  <2> HIDE DEF next
  <2>1. /\ a \in 1 .. Len(s) + 1 /\ (a = Len(s) + 1 \/ Modes(s)[a] = "code")
        /\ \A k \in a .. Len(s) : k \in i + 1 .. Len(s)
    BY <1>1, <1>6
  <2> HIDE DEF a
  <2>2. Scan(s, LexemeEnds(s, FALSE), Solid(s))[a] = <<>>
    BY <2>1, NothingSolid
  <2> QED
    BY <2>2 DEF a, next
<1>8. from[i] = <<s[i]>>
  <2>1. FALSE \in BOOLEAN
    OBVIOUS
  <2>2. Scanner(s, next, Solid(s), STRING)
    BY <2>1, SolidWrites, LexemesScan
  <2> HIDE DEF next
  <2>5. \A j \in 1 .. Len(s) + 1 :
          from[j] = IF j > Len(s) THEN <<>> ELSE Solid(s)[j] \o from[next[j]]
    BY <2>2, ScanStep
  <2> HIDE DEF from
  <2>3. from[i] = Solid(s)[i] \o from[next[i]]
    BY <1>1, <2>5
  <2>4. Solid(s)[i] = <<s[i]>>
    BY SolidWrites
  <2> QED
    BY <1>1, <1>7, <2>3, <2>4
<1>9. from[1] = x \o <<s[i]>>
  BY <1>5, <1>8
<1>10. \A e \in STRING : x \o <<e>> # <<>> /\ Last(x \o <<e>>) = e
  BY DEF Last
<1> HIDE DEF next, from
<1>11. from[1] # <<>> /\ Last(from[1]) = s[i]
  BY <1>1, <1>9, <1>10
<1> QED
  BY <1>11 DEF next, from

\* The last element outside of white space and comments is a semicolon to the scanner
\* if it is to the server (hasTrailingStatementTerminator).
LEMMA TerminatorIsFound ==
  ASSUME NEW s \in Seq(STRING), AsScanned(s), Closed(s)
  PROVE  HasTrailingStatementTerminator(s) <=> Terminated(s)
<1> DEFINE bytes == Scan(s, LexemeEnds(s, FALSE), Solid(s))[1]
           solid == {k \in 1 .. Len(s) : Modes(s)[k] = "code" /\ ~ IsBlank(s, k)}
<1>1. Len(s) \in Nat /\ DOMAIN s = 1 .. Len(s) /\ 1 \in 1 .. Len(s) + 1
  OBVIOUS
<1>2. HasTrailingStatementTerminator(s) <=> bytes # <<>> /\ Last(bytes) = ";"
  BY DEF HasTrailingStatementTerminator
<1>3. Modes(s)[1] = "code"
  BY ModesStep
<1> HIDE DEF bytes
<1>4. CASE solid = {}
  <2>1. bytes = <<>>
    BY <1>1, <1>3, <1>4, NothingSolid DEF bytes
  <2>2. ~ Terminated(s)
    <3> SUFFICES ASSUME NEW i \in 1 .. Len(s), Modes(s)[i] = "code", s[i] = ";" PROVE FALSE
      BY <1>1 DEF Terminated
    <3>1. ~ IsBlank(s, i)
      BY DEF IsBlank, Lexeme, IsDashDashComment, Spaces, Quotes, BackQuote
    <3> QED
      BY <1>4, <3>1
  <2> QED
    BY <1>2, <2>1, <2>2
<1>5. CASE solid # {}
  <2>1. PICK i \in solid : \A k \in solid : k <= i
    <3>1. solid \subseteq 0 .. Len(s)
      BY <1>1
    <3> HIDE DEF solid
    <3> QED
      BY <1>1, <1>5, <3>1, GreatestNumber
  <2>2. i \in 1 .. Len(s) /\ Modes(s)[i] = "code" /\ ~ IsBlank(s, i)
    OBVIOUS
  <2>3. \A k \in i + 1 .. Len(s) : Modes(s)[k] = "code" => IsBlank(s, k)
    <3> SUFFICES ASSUME NEW k \in i + 1 .. Len(s), Modes(s)[k] = "code", ~ IsBlank(s, k)
                 PROVE  FALSE
      OBVIOUS
    <3>1. k \in 1 .. Len(s) /\ ~ (k <= i)
      BY <1>1, <2>2
    <3> QED
      BY <2>1, <3>1
  <2>4. bytes # <<>> /\ Last(bytes) = s[i]
    BY <2>2, <2>3, LastSolid DEF bytes
  <2>5. ASSUME s[i] = ";", NEW j \in i + 1 .. Len(s)
        PROVE  Blank(s, j)
    <3> DEFINE Bad == {k \in i + 1 .. Len(s) : ~ Blank(s, k)}
    <3> SUFFICES ASSUME Bad # {} PROVE FALSE
      BY <2>5
    <3>1. PICK k \in Bad : \A m \in Bad : k <= m
      <4>1. Bad \subseteq Nat
        BY <1>1
      <4> HIDE DEF Bad
      <4> QED
        BY <4>1, LeastNumber
    <3>2. k \in i + 1 .. Len(s) /\ ~ Blank(s, k)
      OBVIOUS
    <3>3. k - 1 \in 1 .. Len(s) /\ k - 1 + 1 = k /\ k \in 1 .. Len(s) /\ ~ (k <= k - 1)
      BY <1>1, <2>2, <3>2
    <3>4. Modes(s)[k] \in InComment \cup {"code"}
      <4>1. CASE k - 1 = i
        <5>1. AfterCode(s, i) = "code"
          BY <2>5 DEF AfterCode, IsLineComment, Quotes, BackQuote
        <5>2. ModeAfter(s, i, "code") = "code"
          BY <5>1 DEF ModeAfter, Quotes, Escaped
        <5> QED
          BY <2>2, <3>3, <4>1, <5>2, ModesStep
      <4>2. CASE k - 1 # i
        <5>1. k - 1 \in i + 1 .. Len(s)
          BY <1>1, <2>2, <3>2, <4>2
        <5>2. Blank(s, k - 1)
          BY <3>1, <3>3, <5>1
        <5> QED
          BY <3>3, <5>2, BlankGoesOn
      <4> QED
        BY <4>1, <4>2
    <3>5. Modes(s)[k] = "code" => Blank(s, k)
      BY <2>3, <3>2, <3>3, BlankIsBlank
    <3> QED
      BY <3>2, <3>4, <3>5, CommentIsBlank
  <2>6. ASSUME Terminated(s) PROVE s[i] = ";"
    <3>1. PICK k \in 1 .. Len(s) :
            Modes(s)[k] = "code" /\ s[k] = ";" /\ \A j \in k + 1 .. Len(s) : Blank(s, j)
      BY <1>1, <2>6 DEF Terminated
    <3>2. ~ IsBlank(s, k)
      BY <3>1 DEF IsBlank, Lexeme, IsDashDashComment, Spaces, Quotes, BackQuote
    <3>3. k <= i
      BY <2>1, <3>1, <3>2
    <3>4. ~ Blank(s, i)
      BY <2>2, BlankIsBlank
    <3>5. k = i
      <4>1. i \notin k + 1 .. Len(s)
        BY <3>1, <3>4
      <4>2. k \in 1 .. Len(s)
        BY <3>1
      <4>3. i \in 1 .. Len(s)
        BY <2>2
      <4> QED
        BY <1>1, <3>3, <4>1, <4>2, <4>3
    <3> QED
      BY <3>1, <3>5
  <2> QED
    BY <1>1, <1>2, <2>2, <2>4, <2>5, <2>6 DEF Terminated
<1> QED
  BY <1>4, <1>5

\* A comment with an exclamation mark begins somewhere in the text.
LEMMA VersionedInside ==
  ASSUME NEW x \in Seq(STRING), NEW y \in Seq(STRING), NEW t,
         t = x \o (<<"/">> \o (<<"*">> \o (<<"!">> \o y)))
  PROVE  \E p \in DOMAIN t : IsVersionedComment(t, p)
<1> DEFINE p == Len(x) + 1
<1>1. "/" \in STRING /\ "*" \in STRING /\ "!" \in STRING
  BY TextAssumption DEF Bytes
<1>2. DOMAIN t = 1 .. Len(x) + 3 + Len(y)
  BY <1>1
<1>3. t[p] = "/" /\ t[p + 1] = "*" /\ t[p + 2] = "!"
  BY <1>1
<1>4. p \in DOMAIN t /\ p + 1 \in DOMAIN t /\ p + 2 \in DOMAIN t
  BY <1>2
<1> HIDE DEF p
<1>5. IsVersionedComment(t, p)
  BY <1>3, <1>4 DEF IsVersionedComment, At
<1> QED
  BY <1>4, <1>5

\* Joining the fields keeps it.
LEMMA SqueezeKeepsVersioned ==
  ASSUME NEW t \in Seq(STRING), NEW p \in DOMAIN t, IsVersionedComment(t, p)
  PROVE  \E q \in DOMAIN Squeeze(t) : IsVersionedComment(Squeeze(t), q)
<1> DEFINE next == [i \in DOMAIN t |-> i + 1]
           from == Scan(t, next, Squeezed(t))
<1>1. Len(t) \in Nat /\ DOMAIN t = 1 .. Len(t) /\ p \in 1 .. Len(t) /\ p \in Nat
  OBVIOUS
<1>2. /\ p + 1 \in 1 .. Len(t) /\ p + 2 \in 1 .. Len(t)
      /\ t[p] = "/" /\ t[p + 1] = "*" /\ t[p + 2] = "!"
  BY <1>1 DEF IsVersionedComment, At, EndOfText
<1>3. Squeeze(t) = from[1] /\ Scanner(t, next, Squeezed(t), STRING)
  <2>1. " " \in STRING
    BY TextAssumption DEF Bytes, Spaces, AllSpaces
  <2> QED
    BY <2>1, SqueezeScans
<1>4. Reaches(p, 1 .. p, t, next)
  <2>1. \A k \in 1 .. p : k < p => next[k] \in 1 .. p
    BY <1>1
  <2>2. p \in 1 .. Len(t) + 1
    BY <1>1
  <2> QED
    BY <2>1, <2>2 DEF Reaches
<1>5. \A k \in 1 .. Len(t) : next[k] = k + 1
  BY <1>1
<1>6. /\ Squeezed(t)[p] = <<"/">> /\ Squeezed(t)[p + 1] = <<"*">>
      /\ Squeezed(t)[p + 2] = <<"!">>
  <2>1. \A k \in 1 .. Len(t) : t[k] \notin AllSpaces => Squeezed(t)[k] = <<t[k]>>
    BY <1>1 DEF Squeezed
  <2>2. "/" \notin AllSpaces /\ "*" \notin AllSpaces /\ "!" \notin AllSpaces
    BY DEF AllSpaces, Spaces, VerticalTab
  <2> QED
    BY <1>1, <1>2, <2>1, <2>2
<1> HIDE DEF next
<1>7. \A k \in 1 .. Len(t) + 1 :
        /\ from[k] \in Seq(STRING)
        /\ from[k] = IF k > Len(t) THEN <<>> ELSE Squeezed(t)[k] \o from[next[k]]
  BY <1>3, ScanStep
<1>8. PICK x \in Seq(STRING) : from[1] = x \o from[p]
  <2>1. 1 \in 1 .. p
    BY <1>1
  <2>2. ReachesTo(1, p, 1 .. p, t, next, Squeezed(t), STRING)
    BY <1>3, <1>4, <2>1, ScanReaches
  <2> QED
    BY <2>2 DEF ReachesTo
<1> HIDE DEF from
<1>9. \A k \in 1 .. Len(t) : from[k] = Squeezed(t)[k] \o from[k + 1]
  <2> SUFFICES ASSUME NEW k \in 1 .. Len(t) PROVE from[k] = Squeezed(t)[k] \o from[k + 1]
    OBVIOUS
  <2>1. k \in 1 .. Len(t) + 1 /\ ~ (k > Len(t))
    BY <1>1
  <2> QED
    BY <1>5, <1>7, <2>1
<1>10. p + 1 + 1 = p + 2 /\ p + 2 + 1 \in 1 .. Len(t) + 1
  BY <1>1, <1>2
<1> DEFINE y == from[p + 2 + 1]
<1>11. y \in Seq(STRING)
  BY <1>7, <1>10
<1>12. /\ from[p] = <<"/">> \o from[p + 1]
       /\ from[p + 1] = <<"*">> \o from[p + 2]
       /\ from[p + 2] = <<"!">> \o y
  BY <1>1, <1>2, <1>6, <1>9, <1>10
<1> HIDE DEF y
<1>13. Squeeze(t) = x \o (<<"/">> \o (<<"*">> \o (<<"!">> \o y)))
  BY <1>3, <1>8, <1>12
<1> QED
  BY <1>8, <1>11, <1>13, VersionedInside

LEMMA ImageWrites ==
  ASSUME NEW s \in Seq(STRING)
  PROVE  /\ [i \in DOMAIN s |-> Image(s, i)] \in [1 .. Len(s) -> Seq(STRING)]
         /\ \A i \in 1 .. Len(s) : Lexeme(s, i) = "byte" => Image(s, i) = <<s[i]>>
<1>1. DOMAIN s = 1 .. Len(s) /\ Len(s) \in Nat
  OBVIOUS
<1>2. "?" \in STRING /\ " " \in STRING
  BY TextAssumption DEF Bytes, Spaces, AllSpaces
<1>3. ASSUME NEW i \in 1 .. Len(s) PROVE Image(s, i) \in Seq(STRING)
  <2>1. <<"?">> \in Seq(STRING) /\ <<" ">> \in Seq(STRING) /\ <<s[i]>> \in Seq(STRING)
    BY <1>2, SequenceIn, SequencesOf
  <2> DEFINE found == {j \in i + 1 .. Len(s) : s[j] = BackQuote}
             stop == First(s, i + 1, LAMBDA j : s[j] = BackQuote)
  <2>2. stop = IF found = {} THEN Len(s) + 1 ELSE CHOOSE j \in found : \A k \in found : j <= k
    BY DEF First
  <2>3. stop \in i + 1 .. Len(s) + 1
    <3>1. CASE found = {}
      BY <1>1, <2>2, <3>1
    <3>2. CASE found # {}
      <4>1. found \subseteq Nat
        BY <1>1
      <4>2. stop \in found
        <5> HIDE DEF found, stop
        <5> QED
          BY <2>2, <3>2, <4>1, LeastChosen
      <4> QED
        BY <1>1, <4>2
    <3> QED
      BY <3>1, <3>2
  <2> DEFINE quoted == SubSeq(s, i + 1, stop - 1)
  <2>4. Image(s, i) \in {<<"?">>, <<" ">>, <<s[i]>>, quoted}
    BY DEF Image
  <2> HIDE DEF stop
  <2>5. quoted \in Seq(STRING)
    BY <1>1, <2>3
  <2> HIDE DEF quoted
  <2> QED
    BY <2>1, <2>4, <2>5
<1>4. \A i \in 1 .. Len(s) : Lexeme(s, i) = "byte" => Image(s, i) = <<s[i]>>
  BY DEF Image
<1> QED
  BY <1>1, <1>3, <1>4

\* What follows where the scanner writes one byte and goes on to the next.
LEMMA ByteIsCopied ==
  ASSUME NEW s \in Seq(STRING), NEW i \in 1 .. Len(s), Lexeme(s, i) = "byte"
  PROVE  LET from == Scan(s, LexemeEnds(s, FALSE), [k \in DOMAIN s |-> Image(s, k)]) IN
         /\ from[i] = <<s[i]>> \o from[i + 1]
         /\ from[i + 1] \in Seq(STRING)
<1> DEFINE next == LexemeEnds(s, FALSE)
           images == [k \in DOMAIN s |-> Image(s, k)]
           from == Scan(s, next, images)
<1>1. /\ Len(s) \in Nat /\ DOMAIN s = 1 .. Len(s) /\ ~ (i > Len(s))
      /\ i \in 1 .. Len(s) + 1 /\ i + 1 \in 1 .. Len(s) + 1
  OBVIOUS
<1>2. Scanner(s, next, images, STRING)
  <2>1. FALSE \in BOOLEAN
    OBVIOUS
  <2> QED
    BY <2>1, ImageWrites, LexemesScan
<1>3. images[i] = <<s[i]>>
  BY <1>1, ImageWrites
<1>4. next[i] = i + 1
  BY <1>1 DEF LexemeEnds, LexemeEnd
<1> HIDE DEF next, images
<1>5. \A k \in 1 .. Len(s) + 1 :
        /\ from[k] \in Seq(STRING)
        /\ from[k] = IF k > Len(s) THEN <<>> ELSE images[k] \o from[next[k]]
  BY <1>2, ScanStep
<1> HIDE DEF from
<1>6. from[i] = <<s[i]>> \o from[i + 1] /\ from[i + 1] \in Seq(STRING)
  BY <1>1, <1>3, <1>4, <1>5
<1> QED
  BY <1>6 DEF from, next, images

\* A comment the server executes is still there after normalization (scanSQL).
LEMMA ExecutableIsKept ==
  ASSUME NEW s \in Seq(STRING), HasExecutable(s), DashesSpaced(s)
  PROVE  \E q \in DOMAIN Normalize(s) : IsVersionedComment(Normalize(s), q)
<1> DEFINE executed == {k \in 1 .. Len(s) : Modes(s)[k] = "executable"}
           next == LexemeEnds(s, FALSE)
           images == [k \in DOMAIN s |-> Image(s, k)]
           from == Scan(s, next, images)
<1>1. Len(s) \in Nat /\ DOMAIN s = 1 .. Len(s)
  OBVIOUS
<1>2. PICK e \in executed : \A k \in executed : e <= k
  <2>1. executed \subseteq Nat /\ executed # {}
    BY <1>1 DEF HasExecutable
  <2> HIDE DEF executed
  <2> QED
    BY <2>1, LeastNumber
<1>3. e \in 1 .. Len(s) /\ Modes(s)[e] = "executable"
  OBVIOUS
<1>4. ASSUME NEW k \in 1 .. Len(s), k < e PROVE Modes(s)[k] # "executable"
  <2>1. ~ (e <= k)
    BY <1>1, <1>3, <1>4
  <2> QED
    BY <1>2, <2>1
<1> HIDE DEF executed
<1>5. \A k \in 1 .. Len(s) : Modes(s)[k] \in ModeNames
  BY <1>1, ModesStep
<1>6. e > 1 /\ e - 1 \in 1 .. Len(s) /\ e - 1 + 1 = e /\ e - 1 < e
  <2>1. e # 1
    BY <1>3, ModesStep
  <2> QED
    BY <1>1, <1>3, <2>1
<1>7. Modes(s)[e - 1] = "opening" /\ At(s, e) = "!"
  <2>1. Modes(s)[e] = ModeAfter(s, e - 1, Modes(s)[e - 1])
    BY <1>6, ModesStep
  <2>2. Modes(s)[e - 1] # "executable"
    BY <1>4, <1>6
  <2>3. AfterCode(s, e - 1) # "executable" /\ AfterLineElement(s, e - 1) # "executable"
    BY DEF AfterCode, AfterLineElement, Quotes
  <2> QED
    BY <1>3, <1>5, <1>6, <2>1, <2>2, <2>3 DEF ModeAfter, ModeNames, Quotes, Escaped
<1>8. e - 1 > 1 /\ e - 2 \in 1 .. Len(s) /\ e - 2 + 1 = e - 1 /\ e - 2 + 2 = e /\ e - 2 < e
  <2>1. e - 1 # 1
    BY <1>7, ModesStep
  <2> QED
    BY <1>1, <1>3, <1>6, <2>1
<1> DEFINE p == e - 2
<1>9. p \in 1 .. Len(s) /\ p + 1 = e - 1 /\ p + 2 = e /\ p < e
  BY <1>8
<1> HIDE DEF p
<1>10. Modes(s)[p] = "code" /\ IsVersionedComment(s, p)
  <2>1. Modes(s)[p + 1] = ModeAfter(s, p, Modes(s)[p])
    BY <1>9, ModesStep
  <2>2. Modes(s)[p + 1] = "opening"
    BY <1>7, <1>9
  <2>3. AfterLineElement(s, p) # "opening"
    BY DEF AfterLineElement
  <2>4. Modes(s)[p] = "code" /\ AfterCode(s, p) = "opening"
    BY <1>5, <1>9, <2>1, <2>2, <2>3 DEF ModeAfter, ModeNames, Quotes, Escaped
  <2>5. s[p] = "/" /\ At(s, p + 1) = "*"
    BY <2>3, <2>4 DEF AfterCode, Quotes
  <2> QED
    BY <1>7, <1>9, <2>4, <2>5 DEF IsVersionedComment
<1>11. Leads(s, 1, p)
  <2>1. ASSUME NEW k \in 1 .. p - 1, Modes(s)[k] = "code"
        PROVE  ~ IsVersionedComment(s, k) /\ ~ OddDash(s, k)
    <3>1. k \in 1 .. Len(s)
      BY <1>1, <1>9
    <3>2. k + 2 < e
      BY <1>1, <1>9
    <3> QED
      BY <1>4, <2>1, <3>1, <3>2, VersionedIsExecuted, NoOddDash
  <2>2. 1 \in 1 .. p /\ p \in 1 .. Len(s) + 1 /\ p <= Len(s)
    BY <1>1, <1>9
  <2> QED
    BY <1>10, <2>1, <2>2 DEF Leads
<1>12. PICK x \in Seq(STRING) : from[1] = x \o from[p]
  <2>1. Modes(s)[1] = "code"
    BY ModesStep
  <2>2. ReachesTo(1, p, CodeBetween(s, 1, p), s, next, images, STRING)
    BY <1>11, <2>1, ImageWrites, LexemesWrite
  <2> QED
    BY <2>2 DEF ReachesTo
<1>13. /\ s[p] = "/" /\ At(s, p + 1) = "*" /\ At(s, p + 2) = "!"
       /\ p + 1 \in 1 .. Len(s) /\ p + 2 \in 1 .. Len(s)
       /\ s[p + 1] = "*" /\ s[p + 2] = "!"
  BY <1>1, <1>10 DEF IsVersionedComment, At, EndOfText
<1>14. /\ Lexeme(s, p) = "byte" /\ Lexeme(s, p + 1) = "byte" /\ Lexeme(s, p + 2) = "byte"
  BY <1>10, <1>13 DEF Lexeme, IsDashDashComment, Quotes, BackQuote
<1>15. p + 1 + 1 = p + 2
  BY <1>9
<1> DEFINE y == from[p + 2 + 1]
<1>16. /\ from[p] = <<"/">> \o from[p + 1]
       /\ from[p + 1] = <<"*">> \o from[p + 2]
       /\ from[p + 2] = <<"!">> \o y
       /\ y \in Seq(STRING)
  <2>1. from[p] = <<s[p]>> \o from[p + 1]
    BY <1>9, <1>14, ByteIsCopied
  <2>2. from[p + 1] = <<s[p + 1]>> \o from[p + 1 + 1]
    BY <1>13, <1>14, ByteIsCopied
  <2>3. from[p + 2] = <<s[p + 2]>> \o y /\ y \in Seq(STRING)
    BY <1>13, <1>14, ByteIsCopied
  <2> HIDE DEF from, y
  <2> QED
    BY <1>13, <1>15, <2>1, <2>2, <2>3
<1>17. ScanSQL(s) = from[1]
  BY DEF ScanSQL
<1> HIDE DEF from, y
<1>18. ScanSQL(s) = x \o (<<"/">> \o (<<"*">> \o (<<"!">> \o y)))
  BY <1>12, <1>16, <1>17
<1>19. \E q \in DOMAIN ScanSQL(s) : IsVersionedComment(ScanSQL(s), q)
  BY <1>12, <1>16, <1>18, VersionedInside
<1>20. ScanSQL(s) \in Seq(STRING)
  <2>1. "/" \in STRING /\ "*" \in STRING /\ "!" \in STRING
    BY TextAssumption DEF Bytes
  <2> QED
    BY <1>12, <1>16, <1>18, <2>1
<1> QED
  BY <1>19, <1>20, SqueezeKeepsVersioned DEF Normalize

-----------------------------------------------------------------------------
(* COUNT( * ), wherever white space and comments come between.             *)

\* Part of a text up to a closing parenthesis is read as in the text.
LEMMA PartOfText ==
  ASSUME NEW s \in Seq(STRING), NEW i \in 1 .. Len(s), NEW e \in i .. Len(s)
  PROVE  LET t == SubSeq(s, i, e) IN
         /\ t \in Seq(STRING) /\ Len(t) = e - i + 1
         /\ \A k \in 1 .. e - i + 1 : t[k] = s[i + k - 1]
BY SequenceIn

LEMMA PartBeginsComment ==
  ASSUME NEW s \in Seq(STRING), NEW i \in 1 .. Len(s), NEW e \in i .. Len(s), s[e] = ")",
         NEW k \in 1 .. e - i + 1
  PROVE  LET t == SubSeq(s, i, e) IN
         /\ k < e - i + 1 => At(t, k + 1) = At(s, i + k - 1 + 1)
         /\ IsLineComment(t, k) <=> IsLineComment(s, i + k - 1)
         /\ BeginsComment(t, k) <=> BeginsComment(s, i + k - 1)
         /\ OddDash(t, k) <=> OddDash(s, i + k - 1)
<1> DEFINE t == SubSeq(s, i, e)
           n == e - i + 1
           j == i + k - 1
<1>1. /\ Len(s) \in Nat /\ i \in Nat /\ e \in Nat /\ k \in Nat /\ j \in Nat /\ n \in Nat
      /\ 1 <= i /\ i <= e /\ e <= Len(s) /\ 1 <= k /\ k <= n /\ DOMAIN s = 1 .. Len(s)
  OBVIOUS
<1>2. DOMAIN t = 1 .. n /\ \A m \in 1 .. n : t[m] = s[i + m - 1]
  BY PartOfText
<1>3. k < n => k + 1 \in 1 .. n /\ j + 1 \in 1 .. Len(s) /\ i + (k + 1) - 1 = j + 1
  BY <1>1
<1>4. k + 1 < n => k + 2 \in 1 .. n /\ j + 2 \in 1 .. Len(s) /\ i + (k + 2) - 1 = j + 2
  BY <1>1
<1>5. k = n => j = e /\ k + 1 \notin 1 .. n
  BY <1>1
<1>6. k + 1 = n => j + 1 = e
  BY <1>1
<1>7. ~ (k < n) => k = n
  BY <1>1
<1>8. k < n => k + 1 < n \/ k + 1 = n
  BY <1>1
<1>9. t[k] = s[j]
  BY <1>2
<1> HIDE DEF t, n, j
<1>10. k < n => At(t, k + 1) = At(s, j + 1)
  BY <1>1, <1>2, <1>3 DEF At
<1>11. k + 1 < n => At(t, k + 2) = At(s, j + 2)
  <2> SUFFICES ASSUME k + 1 < n PROVE At(t, k + 2) = At(s, j + 2)
    OBVIOUS
  <2>1. k + 2 \in DOMAIN t /\ j + 2 \in DOMAIN s
    BY <1>1, <1>2, <1>4
  <2>2. t[k + 2] = s[i + (k + 2) - 1]
    BY <1>2, <1>4
  <2>3. t[k + 2] = s[j + 2]
    BY <1>4, <2>2
  <2> QED
    BY <2>1, <2>3 DEF At
<1>12. (IsDashDashComment(t, k) <=> IsDashDashComment(s, j))
       /\ (IsLineComment(t, k) <=> IsLineComment(s, j))
  <2>1. CASE k = n
    BY <1>5, <1>9, <2>1 DEF IsDashDashComment, IsLineComment
  <2>2. CASE k < n /\ k + 1 = n
    <3>1. At(s, j + 1) = ")"
      BY <1>1, <1>3, <1>6, <2>2 DEF At
    <3> QED
      BY <1>9, <1>10, <2>2, <3>1 DEF IsDashDashComment, IsLineComment
  <2>3. CASE k < n /\ k + 1 < n
    <3> DEFINE one == At(t, k + 1)
               two == At(t, k + 2)
    <3>1. t[k] = s[j] /\ one = At(s, j + 1) /\ two = At(s, j + 2)
      BY <1>9, <1>10, <1>11, <2>3
    <3> HIDE DEF one, two
    <3> QED
      BY <3>1 DEF one, two, IsDashDashComment, IsLineComment
  <2> QED
    BY <1>7, <1>8, <2>1, <2>2, <2>3
<1>13. BeginsComment(t, k) <=> BeginsComment(s, j)
  <2>1. CASE k = n
    BY <1>5, <1>9, <1>12, <2>1, CommentsBegin
  <2>2. CASE k < n
    BY <1>9, <1>10, <1>12, <2>2, CommentsBegin
  <2> QED
    BY <1>7, <2>1, <2>2
<1>14. OddDash(t, k) <=> OddDash(s, j)
  BY <1>9, <1>12 DEF OddDash
<1> QED
  BY <1>10, <1>12, <1>13, <1>14 DEF t, n, j

LEMMA PartMode ==
  ASSUME NEW s \in Seq(STRING), NEW i \in 1 .. Len(s), NEW e \in i .. Len(s), s[e] = ")",
         NEW k \in 1 .. e - i, NEW mode
  PROVE  ModeAfter(SubSeq(s, i, e), k, mode) = ModeAfter(s, i + k - 1, mode)
<1> DEFINE t == SubSeq(s, i, e)
           j == i + k - 1
<1>1. k \in 1 .. e - i + 1 /\ k < e - i + 1
  OBVIOUS
<1>2. t[k] = s[j]
  BY <1>1, PartOfText
<1>3. /\ At(t, k + 1) = At(s, j + 1)
      /\ IsLineComment(t, k) <=> IsLineComment(s, j)
  BY <1>1, PartBeginsComment
<1> HIDE DEF t, j
<1>4. AfterLineElement(t, k) = AfterLineElement(s, j)
  BY <1>3 DEF AfterLineElement
<1>5. AfterCode(t, k) = AfterCode(s, j)
  BY <1>2, <1>3, <1>4 DEF AfterCode
<1>7. ModeAfter(t, k, mode) = ModeAfter(s, j, mode)
  BY <1>2, <1>3, <1>4, <1>5 DEF ModeAfter
<1> QED
  BY <1>7 DEF t, j

LEMMA PartModes ==
  ASSUME NEW s \in Seq(STRING), NEW i \in 1 .. Len(s), NEW e \in i .. Len(s), s[e] = ")",
         Modes(s)[i] = "code"
  PROVE  LET t == SubSeq(s, i, e) IN
         \A k \in 1 .. e - i + 1 :
           /\ Modes(t)[k] = Modes(s)[i + k - 1]
           /\ Blank(t, k) <=> Blank(s, i + k - 1)
<1> DEFINE t == SubSeq(s, i, e)
           n == e - i + 1
           Bad == {k \in 1 .. n : Modes(t)[k] # Modes(s)[i + k - 1]}
<1>1. /\ Len(s) \in Nat /\ i \in Nat /\ e \in Nat /\ n \in Nat
      /\ 1 <= i /\ i <= e /\ e <= Len(s)
  OBVIOUS
<1>2. t \in Seq(STRING) /\ Len(t) = n /\ \A k \in 1 .. n : t[k] = s[i + k - 1]
  BY PartOfText
<1>3. Bad = {}
  <2> SUFFICES ASSUME Bad # {} PROVE FALSE
    OBVIOUS
  <2>1. PICK k \in Bad : \A m \in Bad : k <= m
    <3>1. Bad \subseteq Nat
      BY <1>1
    <3> HIDE DEF Bad
    <3> QED
      BY <3>1, LeastNumber
  <2>2. k \in 1 .. n /\ Modes(t)[k] # Modes(s)[i + k - 1]
    OBVIOUS
  <2>3. k # 1
    <3>1. Modes(t)[1] = "code"
      BY <1>2, ModesStep
    <3> QED
      BY <1>1, <2>2, <3>1
  <2>4. /\ k - 1 \in 1 .. n /\ k - 1 \in 1 .. e - i /\ k - 1 + 1 = k /\ ~ (k <= k - 1)
        /\ i + (k - 1) - 1 \in 1 .. Len(s) /\ i + (k - 1) - 1 + 1 = i + k - 1
    BY <1>1, <2>2, <2>3
  <2>5. Modes(t)[k - 1] = Modes(s)[i + (k - 1) - 1]
    BY <2>1, <2>4
  <2>6. Modes(t)[k] = ModeAfter(t, k - 1, Modes(t)[k - 1])
    BY <1>2, <2>4, ModesStep
  <2>7. Modes(s)[i + k - 1] = ModeAfter(s, i + (k - 1) - 1, Modes(s)[i + (k - 1) - 1])
    BY <2>4, ModesStep
  <2>8. ModeAfter(t, k - 1, Modes(t)[k - 1]) = ModeAfter(s, i + (k - 1) - 1, Modes(t)[k - 1])
    BY <2>4, PartMode
  <2> QED
    BY <2>2, <2>5, <2>6, <2>7, <2>8
<1>4. \A k \in 1 .. n : Modes(t)[k] = Modes(s)[i + k - 1]
  BY <1>3
<1>5. ASSUME NEW k \in 1 .. n PROVE Blank(t, k) <=> Blank(s, i + k - 1)
  <2>1. BeginsComment(t, k) <=> BeginsComment(s, i + k - 1)
    BY PartBeginsComment
  <2>2. t[k] = s[i + k - 1] /\ Modes(t)[k] = Modes(s)[i + k - 1]
    BY <1>2, <1>4
  <2> DEFINE j == i + k - 1
  <2> HIDE DEF t, j
  <2> QED
    BY <2>1, <2>2 DEF Blank, j
<1> QED
  BY <1>4, <1>5

\* The element in lower case.
LowerOf(e) == IF e \in Letters THEN LowerCase[e] ELSE e

CountStarText == <<"count", "(", "*", ")">>

\* IsCountStar, with the places of the parentheses and of the star.
CountStarAt(s, i, a, b, c) ==
  /\ i < a /\ a < b /\ b < c
  /\ LowerOf(s[i]) = "count" /\ s[a] = "(" /\ s[b] = "*" /\ s[c] = ")"
  /\ \A k \in {i, a, b, c} : Modes(s)[k] = "code" /\ ~ BeginsComment(s, k)
  /\ \A k \in i .. c : k \in {i, a, b, c} \/ Blank(s, k)

LEMMA CountStarSomewhere ==
  ASSUME NEW s \in Seq(STRING), NEW i \in 1 .. Len(s)
  PROVE  IsCountStar(s, i) <=> \E a, b, c \in i + 1 .. Len(s) : CountStarAt(s, i, a, b, c)
<1>1. Lower(s)[i] = LowerOf(s[i])
  BY DEF Lower, LowerOf
<1>2. Len(s) \in Nat /\ \A a \in i + 1 .. Len(s) : i < a
  OBVIOUS
<1> QED
  BY <1>1, <1>2 DEF IsCountStar, CountStarAt

LEMMA LowerIsCountStar ==
  ASSUME NEW x \in Seq(STRING)
  PROVE  Lower(x) = CountStarText <=>
           \E e \in STRING : LowerOf(e) = "count" /\ x = <<e, "(", "*", ")">>
<1>1. DOMAIN x = 1 .. Len(x) /\ Len(x) \in Nat /\ \A k \in 1 .. Len(x) : x[k] \in STRING
  OBVIOUS
<1>2. DOMAIN Lower(x) = 1 .. Len(x) /\ \A k \in 1 .. Len(x) : Lower(x)[k] = LowerOf(x[k])
  BY <1>1 DEF Lower, LowerOf
<1>3. \A e : LowerOf(e) \in {"(", "*", ")"} => LowerOf(e) = e
  BY TextAssumption DEF LowerOf, Bytes
<1>4. LowerOf("(") = "(" /\ LowerOf("*") = "*" /\ LowerOf(")") = ")"
  BY TextAssumption DEF LowerOf, Bytes
<1>5. DOMAIN CountStarText = 1 .. 4
  BY DEF CountStarText
<1>6. ASSUME Lower(x) = CountStarText
      PROVE  LowerOf(x[1]) = "count" /\ x[1] \in STRING /\ x = <<x[1], "(", "*", ")">>
  <2>1. Len(x) = 4
    <3>1. 1 .. Len(x) = 1 .. 4
      BY <1>2, <1>5, <1>6
    <3>2. 4 \in 1 .. Len(x)
      BY <3>1
    <3>3. Len(x) \in 1 .. 4
      BY <1>1, <3>1, <3>2
    <3> QED
      BY <1>1, <3>2, <3>3
  <2>2. /\ LowerOf(x[1]) = "count" /\ LowerOf(x[2]) = "(" /\ LowerOf(x[3]) = "*"
        /\ LowerOf(x[4]) = ")"
    BY <1>2, <1>6, <2>1 DEF CountStarText
  <2>3. x[2] = "(" /\ x[3] = "*" /\ x[4] = ")"
    BY <1>3, <2>2
  <2> QED
    BY <1>1, <2>1, <2>2, <2>3
<1>7. ASSUME NEW e \in STRING, LowerOf(e) = "count", x = <<e, "(", "*", ")">>
      PROVE  Lower(x) = CountStarText
  <2>1. Len(x) = 4 /\ x[1] = e /\ x[2] = "(" /\ x[3] = "*" /\ x[4] = ")"
    BY <1>7
  <2>2. /\ Lower(x)[1] = "count" /\ Lower(x)[2] = "(" /\ Lower(x)[3] = "*"
        /\ Lower(x)[4] = ")"
    BY <1>2, <1>4, <1>7, <2>1
  <2>3. DOMAIN Lower(x) = 1 .. 4
    BY <1>2, <2>1
  <2>4. Lower(x) = [k \in 1 .. 4 |-> Lower(x)[k]]
    BY <2>3 DEF Lower
  <2> QED
    BY <2>2, <2>4 DEF CountStarText
<1> QED
  BY <1>6, <1>7

\* The scanner that leaves white space and comments out.
SolidEnds(s) ==
  [i \in DOMAIN s |-> IF IsBlank(s, i) THEN LexemeEnd(s, i, TRUE) ELSE i + 1]

LEMMA SolidScans ==
  ASSUME NEW s \in Seq(STRING)
  PROVE  Scanner(s, SolidEnds(s), Solid(s), STRING)
<1>1. DOMAIN s = 1 .. Len(s) /\ Len(s) \in Nat
  OBVIOUS
<1>2. \A i \in 1 .. Len(s) : LexemeEnd(s, i, TRUE) \in i + 1 .. Len(s) + 1
  <2>1. TRUE \in BOOLEAN
    OBVIOUS
  <2> QED
    BY <2>1, LexemeGoesOn
<1>3. \A i \in 1 .. Len(s) : SolidEnds(s)[i] \in i + 1 .. Len(s) + 1
  <2> SUFFICES ASSUME NEW i \in 1 .. Len(s) PROVE SolidEnds(s)[i] \in i + 1 .. Len(s) + 1
    OBVIOUS
  <2> DEFINE end == LexemeEnd(s, i, TRUE)
  <2>1. end \in i + 1 .. Len(s) + 1
    BY <1>2
  <2>2. SolidEnds(s)[i] = IF IsBlank(s, i) THEN end ELSE i + 1
    BY <1>1 DEF SolidEnds
  <2> HIDE DEF end
  <2> QED
    BY <1>1, <2>1, <2>2
<1>4. SolidEnds(s) \in [1 .. Len(s) -> 1 .. Len(s) + 1]
  <2>1. \A i \in 1 .. Len(s) : SolidEnds(s)[i] \in 1 .. Len(s) + 1
    BY <1>1, <1>3
  <2> QED
    BY <1>1, <2>1 DEF SolidEnds
<1>5. \A i \in 1 .. Len(s) : i < SolidEnds(s)[i]
  BY <1>1, <1>3
<1> QED
  BY <1>4, <1>5, SolidWrites DEF Scanner

LEMMA FirstOfText ==
  ASSUME NEW T, NEW d \in T, NEW e \in T, NEW x \in Seq(T), NEW y \in Seq(T),
         <<d>> \o x = <<e>> \o y
  PROVE  d = e /\ x = y
<1>1. (<<d>> \o x)[1] = d /\ (<<e>> \o y)[1] = e
  OBVIOUS
<1>2. Tail(<<d>> \o x) = x /\ Tail(<<e>> \o y) = y
  OBVIOUS
<1> QED
  BY <1>1, <1>2

LEMMA FirstOfString ==
  ASSUME NEW d, NEW e, NEW x, NEW y, d \in STRING, e \in STRING,
         x \in Seq(STRING), y \in Seq(STRING), <<d>> \o x = <<e>> \o y
  PROVE  d = e /\ x = y
  BY FirstOfText, Zenon

\* The scanner that leaves white space and comments out finds e from p on, at k.
SolidIs(t, p, e, rest, k) ==
  /\ Modes(t)[k] = "code" /\ ~ IsBlank(t, k) /\ t[k] = e
  /\ \A j \in p .. k - 1 : Blank(t, j)
  /\ Scan(t, SolidEnds(t), Solid(t))[k + 1] = rest

\* What the scanner writes next stands behind nothing but white space and comments.
LEMMA NextSolid ==
  ASSUME NEW t \in Seq(STRING), ~ HasExecutable(t),
         NEW p \in 1 .. Len(t) + 1, p = Len(t) + 1 \/ Modes(t)[p] = "code",
         NEW e \in STRING, NEW rest \in Seq(STRING),
         Scan(t, SolidEnds(t), Solid(t))[p] = <<e>> \o rest
  PROVE  \E k \in p .. Len(t) : SolidIs(t, p, e, rest, k)
<1> DEFINE n == Len(t)
           from == Scan(t, SolidEnds(t), Solid(t))
           Inv == {k \in p .. n + 1 : /\ k = n + 1 \/ Modes(t)[k] = "code"
                                      /\ \A j \in p .. k - 1 : Blank(t, j)}
<1>1. n \in Nat /\ DOMAIN t = 1 .. n /\ p \in Nat /\ 1 <= p /\ p <= n + 1
  OBVIOUS
<1>2. ASSUME NEW k \in Inv, k <= n, Solid(t)[k] = <<>> PROVE SolidEnds(t)[k] \in Inv
  <2> DEFINE end == LexemeEnd(t, k, TRUE)
  <2>1. k \in 1 .. Len(t) /\ k \in p .. n /\ Modes(t)[k] = "code"
    BY <1>1, <1>2
  <2>2. IsBlank(t, k)
    <3>1. <<t[k]>> # <<>>
      OBVIOUS
    <3> QED
      BY <1>2, <2>1, <3>1, SolidWrites
  <2>3. SolidEnds(t)[k] = end
    BY <1>1, <2>1, <2>2 DEF SolidEnds
  <2>4. /\ end \in k + 1 .. n + 1
        /\ \A j \in k + 1 .. end - 1 : Modes(t)[j] \in InComment
        /\ end <= n => Modes(t)[end] = "code"
    <3>1. TRUE \in BOOLEAN
      OBVIOUS
    <3>2. /\ end \in k + 1 .. n + 1
          /\ \A j \in k + 1 .. end - 1 : Modes(t)[j] \in InComment
          /\ (end <= n => Modes(t)[end] = "code") \/ end = n + 1
      BY <2>1, <2>2, <3>1, BlankIsSkipped
    <3> HIDE DEF end
    <3> QED
      BY <1>1, <3>2
  <2> HIDE DEF end
  <2>5. Blank(t, k)
    BY <2>1, <2>2, BlankToScanners
  <2>6. ASSUME NEW j \in p .. end - 1 PROVE Blank(t, j)
    <3>1. CASE j \in k + 1 .. end - 1
      BY <2>4, <3>1, CommentIsBlank
    <3>2. CASE j \notin k + 1 .. end - 1
      <4>1. j \in p .. k - 1 \/ j = k
        BY <1>1, <2>1, <2>4, <2>6, <3>2
      <4> QED
        BY <1>2, <2>5, <4>1
    <3> QED
      BY <3>1, <3>2
  <2>7. end \in p .. n + 1 /\ (end = n + 1 \/ Modes(t)[end] = "code")
    <3>1. end \in p .. n + 1 /\ (end = n + 1 \/ end <= n)
      BY <1>1, <2>1, <2>4
    <3> QED
      BY <2>4, <3>1
  <2> QED
    BY <2>3, <2>6, <2>7
<1>3. p \in Inv
  <2>1. p \in p .. n + 1 /\ p .. p - 1 = {}
    BY <1>1
  <2> QED
    BY <2>1
<1>4. Inv \subseteq 1 .. Len(t) + 1
  BY <1>1
<1>5. \A k \in Inv : k <= Len(t) /\ Solid(t)[k] = <<>> => SolidEnds(t)[k] \in Inv
  BY <1>2
<1>6. WritesFirst(p, Inv, t, SolidEnds(t), Solid(t))
  <2> HIDE DEF Inv
  <2>1. StaysIn(Inv, t, SolidEnds(t), Solid(t))
    BY <1>4, <1>5 DEF StaysIn
  <2> QED
    BY <1>3, <2>1, SolidScans, ScanFirst
<1>7. <<e>> \o rest # <<>>
  BY SequenceIn
<1>8. \A k \in 1 .. Len(t) + 1 : from[k] \in Seq(STRING)
  BY SolidScans, ScanStep
<1>9. PICK k \in Inv : /\ k <= n /\ Solid(t)[k] # <<>>
                       /\ from[p] = Solid(t)[k] \o from[SolidEnds(t)[k]]
  <2> HIDE DEF Inv
  <2> QED
    BY <1>6, <1>7 DEF WritesFirst
<1>10. /\ k \in 1 .. Len(t) /\ k \in p .. Len(t) /\ k + 1 \in 1 .. Len(t) + 1
       /\ Modes(t)[k] = "code" /\ \A j \in p .. k - 1 : Blank(t, j)
  BY <1>1, <1>9
<1>11. ~ IsBlank(t, k) /\ Solid(t)[k] = <<t[k]>>
  BY <1>9, <1>10, SolidWrites
<1>12. SolidEnds(t)[k] = k + 1
  BY <1>1, <1>10, <1>11 DEF SolidEnds
<1>13. t[k] = e /\ from[k + 1] = rest
  <2> DEFINE d == t[k]
             x == from[k + 1]
  <2>1. d \in STRING /\ x \in Seq(STRING)
    BY <1>8, <1>10
  <2>2. <<d>> \o x = <<e>> \o rest
    BY <1>9, <1>11, <1>12
  <2> HIDE DEF d, x
  <2>3. d = e /\ x = rest
    BY <2>1, <2>2, FirstOfText
  <2> QED
    BY <2>3 DEF d, x
<1> QED
  BY <1>10, <1>11, <1>13 DEF SolidIs

\* Code goes on behind whatever opens neither a string nor a comment.
LEMMA CodeGoesOn ==
  ASSUME NEW s \in Seq(STRING), NEW k \in 1 .. Len(s), Modes(s)[k] = "code",
         ~ BeginsComment(s, k), s[k] \notin Quotes \cup {BackQuote}
  PROVE  Modes(s)[k + 1] = "code"
<1>1. AfterCode(s, k) = "code"
  BY CommentsBegin DEF AfterCode
<1>2. Modes(s)[k + 1] = ModeAfter(s, k, "code")
  BY ModesStep
<1> QED
  BY <1>1, <1>2 DEF ModeAfter, Quotes, Escaped

LEMMA CountIsNoQuote ==
  ASSUME NEW e, LowerOf(e) = "count"
  PROVE  e \notin Quotes \cup {BackQuote, "(", ")", "#", "-", "/"} \cup WhiteSpace
<1>1. CASE e \in Letters
  <2>1. WhiteSpace \subseteq Bytes
    BY DEF WhiteSpace, Bytes, AllSpaces, Spaces
  <2>2. e \notin WhiteSpace
    BY <1>1, <2>1, TextAssumption
  <2> QED
    BY <1>1, <2>2, TextAssumption DEF Bytes
<1>2. CASE e \notin Letters
  <2>1. e = "count"
    BY <1>2 DEF LowerOf
  <2> QED
    BY <2>1 DEF Quotes, BackQuote, WhiteSpace, VerticalTab
<1> QED
  BY <1>1, <1>2

\* It finds d from p on, at k, and goes on in code.
NextIs(t, p, d, rest, k) ==
  /\ Modes(t)[k] = "code" /\ ~ BeginsComment(t, k) /\ t[k] = d
  /\ \A j \in p .. k - 1 : Blank(t, j)
  /\ Scan(t, SolidEnds(t), Solid(t))[k + 1] = rest
  /\ Modes(t)[k + 1] = "code" /\ k + 1 \in 1 .. Len(t) + 1

LEMMA NextByte ==
  ASSUME NEW t \in Seq(STRING), ~ HasExecutable(t),
         NEW p \in 1 .. Len(t) + 1, Modes(t)[p] = "code",
         NEW d \in {"(", "*", ")"}, NEW rest \in Seq(STRING),
         Scan(t, SolidEnds(t), Solid(t))[p] = <<d>> \o rest
  PROVE  \E k \in p .. Len(t) : NextIs(t, p, d, rest, k)
<1>1. d \in STRING /\ d \notin Quotes \cup {BackQuote}
  BY TextAssumption DEF Bytes, Quotes, BackQuote
<1>2. PICK k \in p .. Len(t) : SolidIs(t, p, d, rest, k)
  BY <1>1, NextSolid
<1>3. k \in 1 .. Len(t) /\ k + 1 \in 1 .. Len(t) + 1
  BY <1>2
<1>4. ~ BeginsComment(t, k)
  BY <1>2 DEF SolidIs, BeginsComment, IsLineComment
<1>5. Modes(t)[k + 1] = "code"
  BY <1>1, <1>2, <1>3, <1>4, CodeGoesOn DEF SolidIs
<1> QED
  BY <1>2, <1>3, <1>4, <1>5 DEF SolidIs, NextIs

\* A text that is COUNT( * ) but for white space and comments calls COUNT( * ).
LEMMA CompactTextCounts ==
  ASSUME NEW t \in Seq(STRING), ~ HasExecutable(t), 1 \in 1 .. Len(t), ~ Blank(t, 1),
         CompactSQLSyntax(t) = CountStarText
  PROVE  \E a, b, c \in 2 .. Len(t) : CountStarAt(t, 1, a, b, c)
<1> DEFINE n == Len(t)
           from == Scan(t, SolidEnds(t), Solid(t))
<1>1. n \in Nat /\ 1 <= n /\ DOMAIN t = 1 .. n /\ 2 \in 1 .. n + 1 /\ 1 + 1 = 2
  OBVIOUS
<1>2. \A k \in 1 .. n + 1 :
        /\ from[k] \in Seq(STRING)
        /\ from[k] = IF k > n THEN <<>> ELSE Solid(t)[k] \o from[SolidEnds(t)[k]]
  BY SolidScans, ScanStep
<1>3. CompactSQLSyntax(t) = Lower(from[1])
  BY DEF CompactSQLSyntax, SolidEnds
<1>4. Modes(t)[1] = "code" /\ ~ IsBlank(t, 1) /\ ~ BeginsComment(t, 1)
  <2>1. Modes(t)[1] = "code"
    BY ModesStep
  <2> QED
    BY <2>1, BlankToScanners DEF Blank
<1> HIDE DEF from
<1>5. PICK e \in STRING : LowerOf(e) = "count" /\ from[1] = <<e, "(", "*", ")">>
  <2>1. 1 \in 1 .. n + 1
    BY <1>1
  <2>2. from[1] \in Seq(STRING)
    BY <1>2, <2>1
  <2> QED
    BY <1>3, <2>2, LowerIsCountStar
<1>6. "(" \in STRING /\ "*" \in STRING /\ ")" \in STRING
  BY TextAssumption DEF Bytes
<1> DEFINE three == <<"(", "*", ")">>
           two == <<"*", ")">>
           one == <<")">>
<1>7. /\ three \in Seq(STRING) /\ two \in Seq(STRING) /\ one \in Seq(STRING)
      /\ <<>> \in Seq(STRING)
      /\ three = <<"(">> \o two /\ two = <<"*">> \o one /\ one = <<")">> \o <<>>
      /\ <<e, "(", "*", ")">> = <<e>> \o three
  BY <1>6
<1> HIDE DEF three, two, one
<1>8. t[1] = e /\ from[2] = three
  <2> DEFINE d == t[1]
             x == from[2]
  <2>1. SolidEnds(t)[1] = 2 /\ Solid(t)[1] = <<d>> /\ ~ (1 > n) /\ 1 \in 1 .. n + 1
    <3>1. SolidEnds(t)[1] = 2
      BY <1>1, <1>4 DEF SolidEnds
    <3>2. Solid(t)[1] = <<d>>
      BY <1>1, <1>4, SolidWrites
    <3> QED
      BY <1>1, <3>1, <3>2
  <2>2. <<d>> \o x = <<e>> \o three
    BY <1>2, <1>5, <1>7, <2>1
  <2>3. d \in STRING /\ x \in Seq(STRING)
    BY <1>1, <1>2
  <2>4. e \in STRING /\ three \in Seq(STRING)
    BY <1>7
  <2> HIDE DEF d, x
  <2>5. d = e /\ x = three
    BY <2>2, <2>3, <2>4, FirstOfString, Zenon
  <2> QED
    BY <2>5 DEF d, x
<1>9. Modes(t)[2] = "code"
  BY <1>1, <1>4, <1>5, <1>8, CountIsNoQuote, CodeGoesOn
<1> HIDE DEF n
<1>10. \A p \in 1 .. n + 1 : \A d \in {"(", "*", ")"} : \A rest \in Seq(STRING) :
         Modes(t)[p] = "code" /\ from[p] = <<d>> \o rest =>
           \E k \in p .. n : NextIs(t, p, d, rest, k)
  BY NextByte DEF from, n
<1>11. PICK a \in 2 .. n : NextIs(t, 2, "(", two, a)
  <2>1. from[2] = <<"(">> \o two /\ two \in Seq(STRING)
    BY <1>7, <1>8
  <2> QED
    BY <1>1, <1>9, <1>10, <2>1
<1>12. PICK b \in a + 1 .. n : NextIs(t, a + 1, "*", one, b)
  <2>1. from[a + 1] = <<"*">> \o one /\ one \in Seq(STRING)
    BY <1>7, <1>11 DEF NextIs, from
  <2>2. a + 1 \in 1 .. n + 1 /\ Modes(t)[a + 1] = "code"
    BY <1>11 DEF NextIs, n
  <2> QED
    BY <1>10, <2>1, <2>2
<1>13. PICK c \in b + 1 .. n : NextIs(t, b + 1, ")", <<>>, c)
  <2>1. from[b + 1] = <<")">> \o <<>> /\ <<>> \in Seq(STRING)
    BY <1>7, <1>12 DEF NextIs, from
  <2>2. b + 1 \in 1 .. n + 1 /\ Modes(t)[b + 1] = "code"
    BY <1>12 DEF NextIs, n
  <2> QED
    BY <1>10, <2>1, <2>2
<1>14. /\ a \in 2 .. n /\ b \in 2 .. n /\ c \in 2 .. n /\ 1 < a /\ a < b /\ b < c
       /\ \A k \in 1 .. c : \/ k \in {1, a, b, c} \/ k \in 2 .. a - 1
                            \/ k \in a + 1 .. b - 1 \/ k \in b + 1 .. c - 1
  BY <1>1, <1>11, <1>12, <1>13
<1>15. \A k \in 1 .. c : k \in {1, a, b, c} \/ Blank(t, k)
  BY <1>11, <1>12, <1>13, <1>14 DEF NextIs
<1>16. CountStarAt(t, 1, a, b, c)
  BY <1>4, <1>5, <1>8, <1>11, <1>12, <1>13, <1>14, <1>15 DEF CountStarAt, NextIs
<1> QED
  BY <1>14, <1>16 DEF n

\* A scanner that skips white space and comments, and writes nothing of them.
SkipsBlanks(s, next, written) ==
  \A k \in 1 .. Len(s) : IsBlank(s, k) => next[k] = LexemeEnd(s, k, TRUE) /\ written[k] = <<>>

LEMMA BlanksAreSkipped ==
  ASSUME NEW s \in Seq(STRING), AsScanned(s), NEW T, NEW next, NEW written,
         Scanner(s, next, written, T), SkipsBlanks(s, next, written),
         NEW b \in 1 .. Len(s), NEW a \in 1 .. b, Modes(s)[a] = "code", Modes(s)[b] = "code",
         \A k \in a .. b - 1 : Blank(s, k)
  PROVE  Scan(s, next, written)[a] = Scan(s, next, written)[b]
<1> DEFINE Inv == CodeBetween(s, a, b)
<1>1. /\ Len(s) \in Nat /\ a \in Nat /\ b \in Nat /\ 1 <= a /\ a <= b /\ b <= Len(s)
      /\ a \in a .. b /\ b \in 1 .. Len(s) + 1 /\ a .. b \subseteq 1 .. b
  OBVIOUS
<1>2. ASSUME NEW k \in Inv, k < b PROVE next[k] \in Inv /\ written[k] = <<>>
  <2> DEFINE end == LexemeEnd(s, k, TRUE)
  <2>1. k \in a .. b - 1 /\ k \in 1 .. Len(s) /\ Modes(s)[k] = "code"
    BY <1>1, <1>2 DEF CodeBetween
  <2>2. IsBlank(s, k)
    <3>1. Blank(s, k)
      BY <2>1
    <3> QED
      BY <2>1, <3>1, BlankIsBlank
  <2>3. next[k] = end /\ written[k] = <<>>
    BY <2>1, <2>2 DEF SkipsBlanks
  <2>4. /\ end \in k + 1 .. Len(s) + 1
        /\ \A j \in k + 1 .. end - 1 : Modes(s)[j] \in InComment
        /\ \/ end <= Len(s) => Modes(s)[end] = "code"
           \/ \A j \in k + 1 .. Len(s) + 1 : Modes(s)[j] \in InComment
    <3>1. TRUE \in BOOLEAN
      OBVIOUS
    <3> QED
      BY <2>1, <2>2, <3>1, BlankIsSkipped
  <2> HIDE DEF end
  <2>5. "code" \notin InComment
    BY DEF InComment
  <2>6. end <= b
    <3> SUFFICES ASSUME b < end PROVE FALSE
      BY <1>1, <2>4
    <3>1. b \in k + 1 .. end - 1
      BY <1>1, <2>1, <2>4
    <3> QED
      BY <2>4, <2>5, <3>1
  <2>7. Modes(s)[end] = "code"
    <3>1. b \in k + 1 .. Len(s) + 1 /\ end <= Len(s)
      BY <1>1, <2>1, <2>4, <2>6
    <3> QED
      BY <2>4, <2>5, <3>1
  <2>8. end \in a .. b
    BY <1>1, <2>1, <2>4, <2>6
  <2> QED
    BY <2>3, <2>7, <2>8 DEF CodeBetween
<1>3. Reaches(b, Inv, s, next)
  <2>1. Inv \subseteq 1 .. b
    BY <1>1 DEF CodeBetween
  <2> HIDE DEF Inv
  <2> QED
    BY <1>1, <1>2, <2>1 DEF Reaches
<1>4. a \in Inv
  BY <1>1 DEF CodeBetween
<1> HIDE DEF Inv
<1>5. ReachesTo(a, b, Inv, s, next, written, T)
  BY <1>3, <1>4, ScanReaches
<1> QED
  BY <1>2, <1>5 DEF ReachesTo


\* What a scanner that skips white space and comments writes of COUNT( * ).
WritesCall(s, i, a, b, c, next, written, T) ==
  LET from == Scan(s, next, written) IN
  /\ from[i] = written[i] \o from[a]
  /\ from[a] = written[a] \o from[b]
  /\ from[b] = written[b] \o from[c]
  /\ from[c] = written[c] \o from[c + 1]
  /\ from[a] \in Seq(T) /\ from[b] \in Seq(T) /\ from[c] \in Seq(T) /\ from[c + 1] \in Seq(T)

LEMMA CallIsScanned ==
  ASSUME NEW s \in Seq(STRING), AsScanned(s), NEW T, NEW next, NEW written,
         Scanner(s, next, written, T), SkipsBlanks(s, next, written),
         NEW i \in 1 .. Len(s), NEW a \in i + 1 .. Len(s), NEW b \in i + 1 .. Len(s),
         NEW c \in i + 1 .. Len(s), CountStarAt(s, i, a, b, c),
         \A k \in {i, a, b, c} : next[k] = k + 1
  PROVE  WritesCall(s, i, a, b, c, next, written, T)
<1> DEFINE from == Scan(s, next, written)
           n == Len(s)
<1>1. /\ n \in Nat /\ i \in 1 .. n /\ a \in i + 1 .. n /\ b \in a + 1 .. n /\ c \in b + 1 .. n
      /\ a \in 1 .. n /\ b \in 1 .. n /\ c \in 1 .. n
  BY DEF CountStarAt
<1>2. \A k \in 1 .. n + 1 :
        /\ from[k] \in Seq(T)
        /\ from[k] = IF k > n THEN <<>> ELSE written[k] \o from[next[k]]
  BY ScanStep
<1>3. \A k \in {i, a, b} : Modes(s)[k + 1] = "code"
  <2> SUFFICES ASSUME NEW k \in {i, a, b} PROVE Modes(s)[k + 1] = "code"
    OBVIOUS
  <2>1. /\ k \in 1 .. Len(s) /\ Modes(s)[k] = "code" /\ ~ BeginsComment(s, k)
        /\ s[k] = "(" \/ s[k] = "*" \/ LowerOf(s[k]) = "count"
    BY <1>1 DEF CountStarAt
  <2>2. s[k] \notin Quotes \cup {BackQuote}
    <3>1. CASE s[k] = "(" \/ s[k] = "*"
      BY <3>1 DEF Quotes, BackQuote
    <3>2. CASE LowerOf(s[k]) = "count"
      <4> DEFINE e == s[k]
      <4>1. LowerOf(e) = "count"
        BY <3>2
      <4> HIDE DEF e
      <4>2. e \notin Quotes \cup {BackQuote}
        BY <4>1, CountIsNoQuote
      <4> QED
        BY <4>2 DEF e
    <3> QED
      BY <2>1, <3>1, <3>2
  <2> QED
    BY <2>1, <2>2, CodeGoesOn
<1>4. \A x \in {a, b, c} : Modes(s)[x] = "code"
  BY DEF CountStarAt
<1>5. /\ \A k \in i + 1 .. a - 1 : Blank(s, k)
      /\ \A k \in a + 1 .. b - 1 : Blank(s, k)
      /\ \A k \in b + 1 .. c - 1 : Blank(s, k)
  <2>1. \A k \in i .. c : k \in {i, a, b, c} \/ Blank(s, k)
    BY DEF CountStarAt
  <2>2. /\ \A k \in i + 1 .. a - 1 : k \in i .. c /\ k \notin {i, a, b, c}
        /\ \A k \in a + 1 .. b - 1 : k \in i .. c /\ k \notin {i, a, b, c}
        /\ \A k \in b + 1 .. c - 1 : k \in i .. c /\ k \notin {i, a, b, c}
    BY <1>1
  <2> QED
    BY <2>1, <2>2
<1>6. from[i + 1] = from[a]
  <2>1. i + 1 \in 1 .. a
    BY <1>1
  <2> QED
    BY <1>1, <1>3, <1>4, <1>5, <2>1, BlanksAreSkipped
<1>7. from[a + 1] = from[b]
  <2>1. a + 1 \in 1 .. b
    BY <1>1
  <2> QED
    BY <1>1, <1>3, <1>4, <1>5, <2>1, BlanksAreSkipped
<1>8. from[b + 1] = from[c]
  <2>1. b + 1 \in 1 .. c
    BY <1>1
  <2> QED
    BY <1>1, <1>3, <1>4, <1>5, <2>1, BlanksAreSkipped
<1> HIDE DEF from
<1>9. \A k \in {i, a, b, c} : from[k] = written[k] \o from[k + 1]
  <2> SUFFICES ASSUME NEW k \in {i, a, b, c} PROVE from[k] = written[k] \o from[k + 1]
    OBVIOUS
  <2>1. k \in 1 .. n + 1 /\ ~ (k > n)
    BY <1>1
  <2> HIDE DEF n
  <2> QED
    BY <1>2, <2>1
<1>10. c + 1 \in 1 .. n + 1 /\ a \in 1 .. n + 1 /\ b \in 1 .. n + 1 /\ c \in 1 .. n + 1
  BY <1>1
<1> HIDE DEF n
<1>11. /\ from[a] \in Seq(T) /\ from[b] \in Seq(T) /\ from[c] \in Seq(T)
       /\ from[c + 1] \in Seq(T)
  BY <1>2, <1>10
<1> QED
  BY <1>6, <1>7, <1>8, <1>9, <1>11 DEF WritesCall, from

LEMMA CallIsSolid ==
  ASSUME NEW s \in Seq(STRING), AsScanned(s),
         NEW i \in 1 .. Len(s), NEW a, NEW b, NEW c, CountStarAt(s, i, a, b, c),
         NEW k \in {i, a, b, c}, k \in 1 .. Len(s)
  PROVE  ~ IsBlank(s, k) /\ s[k] \notin Quotes \cup {BackQuote}
<1>1. /\ Modes(s)[k] = "code" /\ ~ BeginsComment(s, k)
      /\ s[k] \in {"(", "*", ")"} \/ LowerOf(s[k]) = "count"
  BY DEF CountStarAt
<1>2. s[k] \notin Quotes \cup {BackQuote} \cup WhiteSpace
  <2>1. CASE s[k] \in {"(", "*", ")"}
    BY <2>1 DEF Quotes, BackQuote, WhiteSpace, VerticalTab
  <2>2. CASE LowerOf(s[k]) = "count"
    <3> DEFINE e == s[k]
    <3>1. LowerOf(e) = "count"
      BY <2>2
    <3> HIDE DEF e
    <3>2. e \notin Quotes \cup {BackQuote} \cup WhiteSpace
      BY <3>1, CountIsNoQuote
    <3> QED
      BY <3>2 DEF e
  <2> QED
    BY <1>1, <2>1, <2>2
<1>3. ~ Blank(s, k)
  BY <1>1, <1>2 DEF Blank
<1> QED
  BY <1>1, <1>2, <1>3, BlankIsBlank

LEMMA FourInARow ==
  ASSUME NEW e, e \in STRING, "(" \in STRING, "*" \in STRING, ")" \in STRING
  PROVE  <<e>> \o (<<"(">> \o (<<"*">> \o (<<")">> \o <<>>))) = <<e, "(", "*", ")">>
<1> DEFINE three == <<"(", "*", ")">>
           two == <<"*", ")">>
           one == <<")">>
<1>1. /\ three = <<"(">> \o two /\ two = <<"*">> \o one /\ one = <<")">> \o <<>>
      /\ <<e, "(", "*", ")">> = <<e>> \o three
  OBVIOUS
<1> HIDE DEF three, two, one
<1> QED
  BY <1>1

\* A text that ends where its call of COUNT( * ) does is COUNT( * ) once compact.
LEMMA CountingIsCompact ==
  ASSUME NEW t \in Seq(STRING), AsScanned(t), 1 \in 1 .. Len(t),
         NEW a \in 2 .. Len(t), NEW b \in 2 .. Len(t), CountStarAt(t, 1, a, b, Len(t))
  PROVE  CompactSQLSyntax(t) = CountStarText
<1> DEFINE c == Len(t)
           from == Scan(t, SolidEnds(t), Solid(t))
<1>1. /\ c \in Nat /\ DOMAIN t = 1 .. c /\ 1 + 1 = 2
      /\ 1 \in 1 .. c /\ a \in 1 .. c /\ b \in 1 .. c /\ c \in 1 .. c /\ c \in 2 .. c
      /\ a \in 1 + 1 .. c /\ b \in 1 + 1 .. c /\ c \in 1 + 1 .. c /\ c + 1 \in 1 .. c + 1 /\ c + 1 > c
  OBVIOUS
<1>2. Scanner(t, SolidEnds(t), Solid(t), STRING)
  BY SolidScans
<1>3. SkipsBlanks(t, SolidEnds(t), Solid(t))
  <2>1. \A k \in 1 .. Len(t) : IsBlank(t, k) => SolidEnds(t)[k] = LexemeEnd(t, k, TRUE)
    BY <1>1 DEF SolidEnds
  <2> QED
    BY <2>1, SolidWrites DEF SkipsBlanks
<1>4. \A k \in {1, a, b, c} : ~ IsBlank(t, k)
  BY <1>1, CallIsSolid
<1>5. \A k \in {1, a, b, c} : SolidEnds(t)[k] = k + 1 /\ Solid(t)[k] = <<t[k]>>
  BY <1>1, <1>4, SolidWrites DEF SolidEnds
<1>6. WritesCall(t, 1, a, b, c, SolidEnds(t), Solid(t), STRING)
  BY <1>1, <1>2, <1>3, <1>5, CallIsScanned
<1>7. from[c + 1] = <<>>
  BY <1>1, <1>2, ScanStep
<1>8. /\ from[1] = <<t[1]>> \o from[a] /\ from[a] = <<t[a]>> \o from[b]
      /\ from[b] = <<t[b]>> \o from[c] /\ from[c] = <<t[c]>> \o <<>>
  BY <1>5, <1>6, <1>7 DEF WritesCall
<1> HIDE DEF from, c
<1>9. t[1] \in STRING /\ LowerOf(t[1]) = "count" /\ t[a] = "(" /\ t[b] = "*" /\ t[c] = ")"
  <2>1. t[1] \in STRING
    BY <1>1, SequenceIn DEF c
  <2> QED
    BY <2>1 DEF CountStarAt, c
<1>10. "(" \in STRING /\ "*" \in STRING /\ ")" \in STRING
  BY TextAssumption DEF Bytes
<1>11. from[1] = <<t[1], "(", "*", ")">>
  <2>1. from[1] = <<t[1]>> \o (<<"(">> \o (<<"*">> \o (<<")">> \o <<>>)))
    BY <1>8, <1>9
  <2> QED
    BY <1>9, <1>10, <2>1, FourInARow
<1>12. from[1] \in Seq(STRING)
  BY <1>9, <1>10, <1>11
<1>13. Lower(from[1]) = CountStarText
  BY <1>9, <1>11, <1>12, LowerIsCountStar
<1> QED
  BY <1>13 DEF from, CompactSQLSyntax, SolidEnds

-----------------------------------------------------------------------------
(* Where a call ends. *)

\* The places of the parentheses.
ParensAt(s) == [j \in DOMAIN s |-> IF s[j] \in {"(", ")"} THEN <<j>> ELSE <<>>]

ParensFrom(s, i) == Scan(s, LexemeEnds(s, TRUE), ParensAt(s))[i]

\* How many of the first k parentheses close.
ClosedBy(s, parens, k) == Cardinality({m \in 1 .. k : s[parens[m]] = ")"})

Balanced(s, parens) == {k \in DOMAIN parens : k <= 2 * ClosedBy(s, parens, k)}

LEMMA CallEndIs ==
  ASSUME NEW s, NEW i
  PROVE  LET parens == ParensFrom(s, i)
             balanced == Balanced(s, parens)
         IN CallEnd(s, i) = IF balanced = {} \/ 1 \in balanced THEN 0
                            ELSE parens[CHOOSE k \in balanced : \A m \in balanced : k <= m] + 1
BY DEF CallEnd, ParensFrom, ParensAt, Balanced, ClosedBy

Parens(s) == {j \in 1 .. Len(s) : s[j] \in {"(", ")"}}

LEMMA ParensScan ==
  ASSUME NEW s \in Seq(STRING)
  PROVE  /\ Scanner(s, LexemeEnds(s, TRUE), ParensAt(s), Parens(s))
         /\ SkipsBlanks(s, LexemeEnds(s, TRUE), ParensAt(s))
         /\ \A i \in 1 .. Len(s) + 1 : ParensFrom(s, i) \in Seq(Parens(s))
<1>1. DOMAIN s = 1 .. Len(s)
  OBVIOUS
<1>2. ParensAt(s) \in [1 .. Len(s) -> Seq(Parens(s))]
  <2>1. \A j \in 1 .. Len(s) : ParensAt(s)[j] \in Seq(Parens(s))
    BY <1>1, SequencesOf DEF ParensAt, Parens
  <2> QED
    BY <1>1, <2>1 DEF ParensAt
<1>3. Scanner(s, LexemeEnds(s, TRUE), ParensAt(s), Parens(s))
  <2>1. TRUE \in BOOLEAN
    OBVIOUS
  <2> QED
    BY <1>2, <2>1, LexemesScan
<1>4. SkipsBlanks(s, LexemeEnds(s, TRUE), ParensAt(s))
  <2> SUFFICES ASSUME NEW k \in 1 .. Len(s), IsBlank(s, k)
               PROVE  LexemeEnds(s, TRUE)[k] = LexemeEnd(s, k, TRUE) /\ ParensAt(s)[k] = <<>>
    BY DEF SkipsBlanks
  <2>1. s[k] \notin {"(", ")"}
    BY DEF IsBlank, Lexeme, Spaces, Quotes, IsDashDashComment
  <2> QED
    BY <1>1, <2>1 DEF LexemeEnds, ParensAt
<1>5. \A i \in 1 .. Len(s) + 1 : ParensFrom(s, i) \in Seq(Parens(s))
  BY <1>3, ScanStep DEF ParensFrom
<1> QED
  BY <1>3, <1>4, <1>5

LEMMA ClosedIsNat ==
  ASSUME NEW s, NEW parens, NEW k \in Nat
  PROVE  ClosedBy(s, parens, k) \in Nat
<1>1. IsFiniteSet(1 .. k)
  BY FS_Interval
<1>2. IsFiniteSet({m \in 1 .. k : s[parens[m]] = ")"})
  BY <1>1, FS_Subset
<1> QED
  BY <1>2, FS_CardinalityType DEF ClosedBy

\* The call of COUNT( * ) ends with its second parenthesis.
LEMMA CountingEnds ==
  ASSUME NEW s \in Seq(STRING), AsScanned(s), NEW i \in 1 .. Len(s),
         NEW a \in i + 1 .. Len(s), NEW b \in i + 1 .. Len(s), NEW c \in i + 1 .. Len(s),
         CountStarAt(s, i, a, b, c)
  PROVE  CallEnd(s, i) = c + 1
<1> DEFINE parens == ParensFrom(s, i)
           y == ParensFrom(s, c + 1)
           balanced == Balanced(s, parens)
<1>1. /\ DOMAIN s = 1 .. Len(s) /\ Len(s) \in Nat
      /\ a \in 1 .. Len(s) /\ b \in 1 .. Len(s) /\ c \in 1 .. Len(s)
      /\ s[a] = "(" /\ s[b] = "*" /\ s[c] = ")" /\ LowerOf(s[i]) = "count"
      /\ \A k \in {i, a, b, c} : k \in 1 .. Len(s)
  BY DEF CountStarAt
<1>2. s[i] \notin {"(", ")"}
  <2> DEFINE e == s[i]
  <2>1. LowerOf(e) = "count"
    BY <1>1
  <2> HIDE DEF e
  <2>2. e \notin {"(", ")"}
    BY <2>1, CountIsNoQuote
  <2> QED
    BY <2>2 DEF e
<1>3. /\ ParensAt(s)[i] = <<>> /\ ParensAt(s)[b] = <<>>
      /\ ParensAt(s)[a] = <<a>> /\ ParensAt(s)[c] = <<c>>
  BY <1>1, <1>2 DEF ParensAt
<1>4. \A k \in {i, a, b, c} : LexemeEnds(s, TRUE)[k] = k + 1
  <2> SUFFICES ASSUME NEW k \in {i, a, b, c} PROVE LexemeEnds(s, TRUE)[k] = k + 1
    OBVIOUS
  <2>1. ~ IsBlank(s, k) /\ s[k] \notin Quotes \cup {BackQuote}
    BY <1>1, CallIsSolid
  <2>2. Lexeme(s, k) = "byte"
    BY <2>1 DEF IsBlank, Lexeme
  <2>3. LexemeEnd(s, k, TRUE) = k + 1
    BY <2>2 DEF LexemeEnd
  <2> QED
    BY <1>1, <2>3 DEF LexemeEnds
<1>5. WritesCall(s, i, a, b, c, LexemeEnds(s, TRUE), ParensAt(s), Parens(s))
  BY <1>4, ParensScan, CallIsScanned
<1> DEFINE fromA == ParensFrom(s, a)
           fromB == ParensFrom(s, b)
           fromC == ParensFrom(s, c)
<1>6. /\ parens = <<>> \o fromA /\ fromA = <<a>> \o fromB
      /\ fromB = <<>> \o fromC /\ fromC = <<c>> \o y
      /\ fromA \in Seq(Parens(s)) /\ fromB \in Seq(Parens(s)) /\ fromC \in Seq(Parens(s))
      /\ y \in Seq(Parens(s))
  BY <1>3, <1>5 DEF WritesCall, ParensFrom
<1> HIDE DEF parens, y, fromA, fromB, fromC
<1>7. parens = <<a>> \o (<<c>> \o y)
  BY <1>6, Concatenation
<1>8. /\ DOMAIN parens = 1 .. Len(parens) /\ Len(parens) \in Nat /\ 2 <= Len(parens)
      /\ parens[1] = a /\ parens[2] = c
  <2>1. a \in Parens(s) /\ c \in Parens(s)
    BY <1>1 DEF Parens
  <2>2. y \in Seq(Parens(s))
    BY <1>6
  <2> DEFINE T == Parens(s)
  <2> HIDE DEF T
  <2>3. a \in T /\ c \in T /\ y \in Seq(T)
    BY <2>1, <2>2 DEF T
  <2>4. /\ <<a>> \o (<<c>> \o y) \in Seq(T) /\ Len(<<a>> \o (<<c>> \o y)) = Len(y) + 2
        /\ Len(y) \in Nat
    BY <2>3
  <2>5. (<<a>> \o (<<c>> \o y))[1] = a /\ (<<a>> \o (<<c>> \o y))[2] = c
    BY <2>3
  <2> QED
    BY <1>7, <2>4, <2>5
<1>9. ClosedBy(s, parens, 1) = 0
  <2>1. {m \in 1 .. 1 : s[parens[m]] = ")"} = {}
    BY <1>1, <1>8
  <2> QED
    BY <2>1, FS_EmptySet DEF ClosedBy
<1>10. ClosedBy(s, parens, 2) = 1
  <2>1. {m \in 1 .. 2 : s[parens[m]] = ")"} = {2}
    BY <1>1, <1>8
  <2> QED
    BY <2>1, FS_Singleton DEF ClosedBy
<1>11. balanced \subseteq Nat /\ 2 \in balanced /\ 1 \notin balanced
       /\ \A k \in balanced : k \in Nat /\ 1 <= k
  BY <1>8, <1>9, <1>10 DEF Balanced
<1> DEFINE least == CHOOSE k \in balanced : \A m \in balanced : k <= m
<1> HIDE DEF balanced
<1>12. balanced # {} /\ least \in balanced /\ \A m \in balanced : least <= m
  BY <1>11, LeastChosen
<1> HIDE DEF least
<1>13. least = 2
  BY <1>11, <1>12
<1>14. CallEnd(s, i) = parens[least] + 1
  BY <1>11, <1>12, CallEndIs DEF parens, balanced, least
<1> QED
  BY <1>8, <1>13, <1>14

\* A call ends with a parenthesis that closes.
LEMMA CallsClose ==
  ASSUME NEW s \in Seq(STRING), NEW i \in 1 .. Len(s), CallEnd(s, i) # 0
  PROVE  /\ CallEnd(s, i) - 1 \in 1 .. Len(s)
         /\ s[CallEnd(s, i) - 1] = ")"
<1> DEFINE parens == ParensFrom(s, i)
           balanced == Balanced(s, parens)
           k == CHOOSE j \in balanced : \A m \in balanced : j <= m
<1>1. parens \in Seq(Parens(s))
  <2>1. i \in 1 .. Len(s) + 1
    OBVIOUS
  <2> QED
    BY <2>1, ParensScan
<1> HIDE DEF parens
<1>2. /\ DOMAIN parens = 1 .. Len(parens) /\ Len(parens) \in Nat
      /\ \A m \in 1 .. Len(parens) : parens[m] \in Parens(s)
  BY <1>1, SequenceIn
<1>3. balanced # {} /\ 1 \notin balanced /\ CallEnd(s, i) = parens[k] + 1
  BY CallEndIs DEF parens
<1>4. balanced \subseteq Nat
  BY <1>2 DEF Balanced
<1>5. k \in balanced /\ \A m \in balanced : k <= m
  <2> HIDE DEF balanced
  <2> QED
    BY <1>3, <1>4, LeastChosen
<1> HIDE DEF k
<1>6. k \in 1 .. Len(parens) /\ k <= 2 * ClosedBy(s, parens, k)
  BY <1>2, <1>5 DEF Balanced
<1>7. k # 1 /\ k \in Nat /\ k - 1 \in Nat /\ k - 1 \in 1 .. Len(parens)
  BY <1>2, <1>3, <1>5, <1>6
<1>8. parens[k] \in 1 .. Len(s) /\ s[parens[k]] \in {"(", ")"}
  BY <1>2, <1>6 DEF Parens
<1>9. s[parens[k]] = ")"
  <2> SUFFICES ASSUME s[parens[k]] # ")" PROVE FALSE
    OBVIOUS
  <2>1. ClosedBy(s, parens, k) = ClosedBy(s, parens, k - 1)
    <3>1. {m \in 1 .. k : s[parens[m]] = ")"} = {m \in 1 .. k - 1 : s[parens[m]] = ")"}
      <4>1. \A m : m \in 1 .. k <=> m \in 1 .. k - 1 \/ m = k
        BY <1>7
      <4> QED
        BY <4>1
    <3> QED
      BY <3>1 DEF ClosedBy
  <2>2. ClosedBy(s, parens, k) \in Nat /\ k - 1 <= 2 * ClosedBy(s, parens, k - 1)
    BY <1>6, <1>7, <2>1, ClosedIsNat
  <2>3. k - 1 \in balanced
    BY <1>2, <1>7, <2>2 DEF Balanced
  <2> QED
    BY <1>5, <1>7, <2>3
<1>10. CallEnd(s, i) - 1 = parens[k]
  BY <1>3, <1>8
<1> QED
  BY <1>8, <1>9, <1>10

-----------------------------------------------------------------------------
(* COUNT( * ) in a text and in the part of it that is the call. *)

LEMMA PartCounts ==
  ASSUME NEW s \in Seq(STRING), NEW i \in 1 .. Len(s), NEW e \in i .. Len(s), s[e] = ")",
         Modes(s)[i] = "code",
         NEW a \in i + 1 .. e, NEW b \in i + 1 .. e, NEW c \in i + 1 .. e
  PROVE  CountStarAt(SubSeq(s, i, e), 1, a - i + 1, b - i + 1, c - i + 1)
           <=> CountStarAt(s, i, a, b, c)
<1> DEFINE t == SubSeq(s, i, e)
           in(k) == k - i + 1
<1>1. /\ Len(s) \in Nat /\ i \in Nat /\ e \in Nat /\ a \in Nat /\ b \in Nat /\ c \in Nat
      /\ 1 <= i /\ i < a /\ a <= e /\ i < b /\ b <= e /\ i < c /\ c <= e /\ e <= Len(s)
  OBVIOUS
<1>2. \A k \in i .. e : in(k) \in 1 .. e - i + 1 /\ i + in(k) - 1 = k
  BY <1>1
<1>3. ASSUME NEW k \in i .. e
      PROVE  /\ t[in(k)] = s[k]
             /\ Modes(t)[in(k)] = Modes(s)[k]
             /\ Blank(t, in(k)) <=> Blank(s, k)
             /\ BeginsComment(t, in(k)) <=> BeginsComment(s, k)
  <2> DEFINE j == in(k)
  <2>1. j \in 1 .. e - i + 1 /\ i + j - 1 = k
    BY <1>2
  <2> HIDE DEF j
  <2>2. t[j] = s[i + j - 1]
    BY <2>1, PartOfText
  <2>3. Modes(t)[j] = Modes(s)[i + j - 1] /\ (Blank(t, j) <=> Blank(s, i + j - 1))
    BY <2>1, PartModes
  <2>4. BeginsComment(t, j) <=> BeginsComment(s, i + j - 1)
    BY <2>1, PartBeginsComment
  <2> HIDE DEF t
  <2> QED
    BY <2>1, <2>2, <2>3, <2>4 DEF j
<1>4. in(i) = 1 /\ i \in i .. e /\ a \in i .. e /\ b \in i .. e /\ c \in i .. e
  BY <1>1
<1>5. /\ 1 < in(a) <=> i < a
      /\ in(a) < in(b) <=> a < b
      /\ in(b) < in(c) <=> b < c
  BY <1>1
<1>6. \A k \in i .. c : k \in i .. e /\ in(k) \in 1 .. in(c)
  BY <1>1
<1>7. \A j \in 1 .. in(c) : \E k \in i .. c : in(k) = j
  <2> SUFFICES ASSUME NEW j \in 1 .. in(c) PROVE \E k \in i .. c : in(k) = j
    OBVIOUS
  <2>1. i + j - 1 \in i .. c /\ in(i + j - 1) = j
    BY <1>1
  <2> QED
    BY <2>1
<1>8. \A k \in i .. c : in(k) \in {1, in(a), in(b), in(c)} <=> k \in {i, a, b, c}
  BY <1>1
<1> HIDE DEF t, in
<1>9. (\A k \in {1, in(a), in(b), in(c)} : Modes(t)[k] = "code" /\ ~ BeginsComment(t, k))
        <=> \A k \in {i, a, b, c} : Modes(s)[k] = "code" /\ ~ BeginsComment(s, k)
  BY <1>3, <1>4
<1>10. (\A k \in 1 .. in(c) : k \in {1, in(a), in(b), in(c)} \/ Blank(t, k))
         <=> \A k \in i .. c : k \in {i, a, b, c} \/ Blank(s, k)
  <2>1. \A k \in i .. c : in(k) \in 1 .. in(c) /\ (Blank(t, in(k)) <=> Blank(s, k))
    BY <1>3, <1>6
  <2>2. ASSUME \A k \in i .. c : k \in {i, a, b, c} \/ Blank(s, k), NEW j \in 1 .. in(c)
        PROVE  j \in {1, in(a), in(b), in(c)} \/ Blank(t, j)
    <3>1. PICK k \in i .. c : in(k) = j
      BY <1>7
    <3> QED
      BY <1>8, <2>1, <2>2, <3>1
  <2>3. ASSUME \A k \in 1 .. in(c) : k \in {1, in(a), in(b), in(c)} \/ Blank(t, k),
               NEW k \in i .. c
        PROVE  k \in {i, a, b, c} \/ Blank(s, k)
    BY <1>8, <2>1, <2>3
  <2> QED
    BY <2>2, <2>3
<1>11. t[1] = s[i] /\ t[in(a)] = s[a] /\ t[in(b)] = s[b] /\ t[in(c)] = s[c]
  BY <1>3, <1>4
<1>12. CountStarAt(t, 1, in(a), in(b), in(c)) <=> CountStarAt(s, i, a, b, c)
  BY <1>5, <1>9, <1>10, <1>11 DEF CountStarAt
<1> QED
  BY <1>12 DEF t, in

LEMMA PartExecutes ==
  ASSUME NEW s \in Seq(STRING), NEW i \in 1 .. Len(s), NEW e \in i .. Len(s), s[e] = ")",
         Modes(s)[i] = "code", ~ HasExecutable(s)
  PROVE  ~ HasExecutable(SubSeq(s, i, e))
<1> DEFINE t == SubSeq(s, i, e)
<1>1. Len(s) \in Nat /\ i \in Nat /\ e \in Nat /\ 1 <= i /\ i <= e /\ e <= Len(s)
  OBVIOUS
<1>2. t \in Seq(STRING) /\ Len(t) = e - i + 1
  BY PartOfText
<1>3. \A k \in 1 .. e - i + 1 : Modes(t)[k] = Modes(s)[i + k - 1]
  BY PartModes
<1> HIDE DEF t
<1>4. DOMAIN t = 1 .. e - i + 1 /\ DOMAIN s = 1 .. Len(s)
  BY <1>2
<1>5. \A k \in 1 .. e - i + 1 : i + k - 1 \in 1 .. Len(s)
  BY <1>1
<1>6. ~ HasExecutable(t)
  BY <1>3, <1>4, <1>5 DEF HasExecutable
<1> QED
  BY <1>6 DEF t

LEMMA PartAsScanned ==
  ASSUME NEW s \in Seq(STRING), NEW i \in 1 .. Len(s), NEW e \in i .. Len(s), s[e] = ")",
         Modes(s)[i] = "code", AsScanned(s)
  PROVE  AsScanned(SubSeq(s, i, e))
<1> DEFINE t == SubSeq(s, i, e)
<1>1. Len(s) \in Nat /\ i \in Nat /\ e \in Nat /\ 1 <= i /\ i <= e /\ e <= Len(s)
  OBVIOUS
<1>2. t \in Seq(STRING) /\ Len(t) = e - i + 1
  BY PartOfText
<1>3. \A k \in 1 .. e - i + 1 :
        /\ Modes(t)[k] = Modes(s)[i + k - 1] /\ t[k] = s[i + k - 1]
        /\ OddDash(t, k) <=> OddDash(s, i + k - 1)
  BY PartModes, PartOfText, PartBeginsComment
<1> HIDE DEF t
<1>4. DOMAIN t = 1 .. e - i + 1 /\ DOMAIN s = 1 .. Len(s)
  BY <1>2
<1>5. \A k \in 1 .. e - i + 1 : i + k - 1 \in 1 .. Len(s)
  BY <1>1
<1>6. ASSUME NEW k \in 1 .. e - i + 1, Modes(t)[k] = "code"
      PROVE  ~ OddDash(t, k) /\ t[k] # VerticalTab
  <2> DEFINE j == i + k - 1
  <2>1. /\ j \in 1 .. Len(s) /\ Modes(s)[j] = "code" /\ t[k] = s[j]
        /\ OddDash(t, k) <=> OddDash(s, j)
    BY <1>3, <1>5, <1>6
  <2> HIDE DEF j
  <2>2. ~ OddDash(s, j)
    BY <2>1, NothingOdd
  <2>3. s[j] # VerticalTab
    BY <1>4, <2>1 DEF AsScanned, BlanksKnown
  <2> QED
    BY <2>1, <2>2, <2>3
<1>7. DashesSpaced(t)
  BY <1>4, <1>6, DashesAreSpaced DEF DashesSpaced
<1>8. BlanksKnown(t)
  BY <1>4, <1>6 DEF BlanksKnown
<1>9. ~ HasExecutable(t)
  BY PartExecutes DEF AsScanned, t
<1>10. AsScanned(t)
  BY <1>7, <1>8, <1>9 DEF AsScanned
<1> QED
  BY <1>10 DEF t

LEMMA SolidEnd ==
  ASSUME NEW t \in Seq(STRING)
  PROVE  \A i \in 1 .. Len(t) + 1 : i > Len(t) => Scan(t, SolidEnds(t), Solid(t))[i] = <<>>
<1>1. \A i \in 1 .. Len(t) + 1 :
        Scan(t, SolidEnds(t), Solid(t))[i] =
          IF i > Len(t) THEN <<>>
          ELSE Solid(t)[i] \o Scan(t, SolidEnds(t), Solid(t))[SolidEnds(t)[i]]
  BY SolidScans, ScanStep
<1> QED
  BY <1>1

\* A text with nothing in it is not COUNT( * ).
LEMMA EmptyIsNoCall ==
  ASSUME NEW t \in Seq(STRING), Len(t) = 0
  PROVE  CompactSQLSyntax(t) # CountStarText
<1> DEFINE from == Scan(t, SolidEnds(t), Solid(t))
<1>1. 1 \in 1 .. Len(t) + 1 /\ 1 > Len(t)
  OBVIOUS
<1>2. from[1] = <<>>
  <2>1. \A i \in 1 .. Len(t) + 1 : i > Len(t) => from[i] = <<>>
    BY SolidEnd
  <2> HIDE DEF from
  <2> QED
    BY <1>1, <2>1
<1>3. CompactSQLSyntax(t) = Lower(from[1])
  BY DEF CompactSQLSyntax, SolidEnds
<1> HIDE DEF from
<1>4. Lower(<<>>) # CountStarText
  <2>1. <<>> \in Seq(STRING) /\ \A e : <<>> # <<e, "(", "*", ")">>
    OBVIOUS
  <2> QED
    BY <2>1, LowerIsCountStar
<1> QED
  BY <1>2, <1>3, <1>4

\* What the classifier takes for COUNT( * ), the server does.  The other way round it takes
\* a text that the scanners read alike.
LEMMA CountStarIsRecognized ==
  ASSUME NEW s \in Seq(STRING), ~ HasExecutable(s), NEW i \in 1 .. Len(s),
         Modes(s)[i] = "code", ~ Blank(s, i)
  PROVE  /\ CompactSQLCallAt(s, i) = CountStarText => IsCountStar(s, i)
         /\ AsScanned(s) /\ IsCountStar(s, i) => CompactSQLCallAt(s, i) = CountStarText
<1>0. Len(s) \in Nat /\ i \in Nat /\ 1 <= i /\ i <= Len(s)
  OBVIOUS
<1>1. ASSUME CompactSQLCallAt(s, i) = CountStarText PROVE IsCountStar(s, i)
  <2> DEFINE e == CallEnd(s, i) - 1
             t == SubSeq(s, i, e)
  <2>1. <<>> # CountStarText
    <3>1. DOMAIN <<>> = {} /\ 1 \in DOMAIN CountStarText
      BY DEF CountStarText
    <3> QED
      BY <3>1
  <2>2. CallEnd(s, i) # 0 /\ CompactSQLSyntax(t) = CountStarText
    BY <1>1, <2>1 DEF CompactSQLCallAt
  <2>3. e \in 1 .. Len(s) /\ s[e] = ")"
    BY <2>2, CallsClose
  <2> HIDE DEF e
  <2>4. i <= e
    <3> SUFFICES ASSUME e < i PROVE FALSE
      BY <1>0, <2>3
    <3>1. t \in Seq(STRING) /\ Len(t) = 0
      BY <1>0, <2>3, SequenceIn
    <3> QED
      BY <2>2, <3>1, EmptyIsNoCall
  <2>5. e \in i .. Len(s)
    BY <1>0, <2>3, <2>4
  <2>6. t \in Seq(STRING) /\ Len(t) = e - i + 1
    BY <2>5, PartOfText
  <2>7. ~ HasExecutable(t)
    BY <2>3, <2>5, PartExecutes
  <2>8. ~ Blank(t, 1)
    <3>1. 1 \in 1 .. e - i + 1 /\ i + 1 - 1 = i
      BY <1>0, <2>5
    <3>2. Blank(t, 1) <=> Blank(s, i + 1 - 1)
      BY <2>3, <2>5, <3>1, PartModes
    <3> HIDE DEF t
    <3> QED
      BY <3>1, <3>2
  <2> HIDE DEF t
  <2>9. 1 \in 1 .. Len(t)
    BY <1>0, <2>5, <2>6
  <2>10. PICK a, b, c \in 2 .. Len(t) : CountStarAt(t, 1, a, b, c)
    BY <2>2, <2>6, <2>7, <2>8, <2>9, CompactTextCounts
  <2>11. /\ a + i - 1 \in i + 1 .. e /\ b + i - 1 \in i + 1 .. e /\ c + i - 1 \in i + 1 .. e
         /\ (a + i - 1) - i + 1 = a /\ (b + i - 1) - i + 1 = b /\ (c + i - 1) - i + 1 = c
    BY <1>0, <2>5, <2>6
  <2>12. CountStarAt(s, i, a + i - 1, b + i - 1, c + i - 1)
    <3> DEFINE x == a + i - 1
               y == b + i - 1
               z == c + i - 1
    <3>1. /\ x \in i + 1 .. e /\ y \in i + 1 .. e /\ z \in i + 1 .. e
          /\ x - i + 1 = a /\ y - i + 1 = b /\ z - i + 1 = c
      BY <2>11
    <3> HIDE DEF x, y, z
    <3>2. CountStarAt(t, 1, x - i + 1, y - i + 1, z - i + 1)
      BY <2>10, <3>1
    <3>3. CountStarAt(s, i, x, y, z)
      BY <2>3, <2>5, <3>1, <3>2, PartCounts DEF t
    <3> QED
      BY <3>3 DEF x, y, z
  <2>13. /\ a + i - 1 \in i + 1 .. Len(s) /\ b + i - 1 \in i + 1 .. Len(s)
         /\ c + i - 1 \in i + 1 .. Len(s)
    BY <1>0, <2>5, <2>11
  <2> QED
    BY <2>12, <2>13, CountStarSomewhere
<1>2. ASSUME AsScanned(s), IsCountStar(s, i) PROVE CompactSQLCallAt(s, i) = CountStarText
  <2>1. PICK a, b, c \in i + 1 .. Len(s) : CountStarAt(s, i, a, b, c)
    BY <1>2, CountStarSomewhere
  <2> DEFINE t == SubSeq(s, i, c)
  <2>2. /\ c \in i .. Len(s) /\ s[c] = ")" /\ a \in i + 1 .. c /\ b \in i + 1 .. c
        /\ c \in i + 1 .. c /\ i <= c
    BY <1>0, <2>1 DEF CountStarAt
  <2>3. CallEnd(s, i) = c + 1
    BY <1>2, <2>1, CountingEnds
  <2>4. CompactSQLCallAt(s, i) = CompactSQLSyntax(t)
    <3>1. c + 1 # 0 /\ c + 1 - 1 = c
      BY <1>0
    <3> QED
      BY <2>3, <3>1 DEF CompactSQLCallAt
  <2>5. t \in Seq(STRING) /\ Len(t) = c - i + 1
    BY <2>2, PartOfText
  <2>6. AsScanned(t)
    BY <1>2, <2>2, PartAsScanned
  <2>7. CountStarAt(t, 1, a - i + 1, b - i + 1, c - i + 1)
    BY <2>1, <2>2, PartCounts
  <2> HIDE DEF t
  <2>8. /\ 1 \in 1 .. Len(t) /\ a - i + 1 \in 2 .. Len(t) /\ b - i + 1 \in 2 .. Len(t)
    BY <1>0, <2>2, <2>5
  <2>9. CompactSQLSyntax(t) = CountStarText
    BY <2>5, <2>6, <2>7, <2>8, CountingIsCompact
  <2> QED
    BY <2>4, <2>9
<1> QED
  BY <1>1, <1>2

-----------------------------------------------------------------------------
(* Every word of a text is there after normalization, in its place, and    *)
(* nothing else is.                                                        *)

\* Something is in a text; of two things, one comes before the other.
Occurs(t, a) == \E q \in DOMAIN t : t[q] = a
Follows(t, a, b) == \E q, r \in DOMAIN t : q < r /\ t[q] = a /\ t[r] = b

\* What scanSQL writes from each position on.
Images(s) == [k \in DOMAIN s |-> Image(s, k)]
WrittenFrom(s) == Scan(s, LexemeEnds(s, FALSE), Images(s))

\* What is written from a on has in it what is written for i.
WritesImage(s, a, i) ==
  \E x, z \in Seq(STRING) : /\ WrittenFrom(s)[a] = x \o (Image(s, i) \o z)
                            /\ z = WrittenFrom(s)[LexemeEnd(s, i, FALSE)]

\* From code on, what is written for another position in code is there.
LEMMA ImageIsWritten ==
  ASSUME NEW s \in Seq(STRING), ~ HasExecutable(s),
         NEW i \in 1 .. Len(s), Modes(s)[i] = "code",
         NEW a \in 1 .. i, Modes(s)[a] = "code",
         \A k \in a .. i - 1 : Modes(s)[k] = "code" => ~ OddDash(s, k)
  PROVE  WritesImage(s, a, i)
<1> DEFINE next == LexemeEnds(s, FALSE)
           from == WrittenFrom(s)
<1>1. /\ Len(s) \in Nat /\ DOMAIN s = 1 .. Len(s) /\ i \in 1 .. Len(s) + 1
      /\ i <= Len(s) /\ ~ (i > Len(s))
  OBVIOUS
<1>2. Images(s) \in [1 .. Len(s) -> Seq(STRING)] /\ Images(s)[i] = Image(s, i)
  BY <1>1, ImageWrites DEF Images
<1>3. Leads(s, a, i)
  <2>1. \A k \in a .. i - 1 : k \in 1 .. Len(s)
    BY <1>1
  <2> QED
    BY <1>1, <2>1, NothingVersioned DEF Leads
<1>4. ReachesTo(a, i, CodeBetween(s, a, i), s, next, Images(s), STRING)
  BY <1>2, <1>3, LexemesWrite
<1>5. PICK x \in Seq(STRING) : from[a] = x \o from[i]
  BY <1>4 DEF ReachesTo, WrittenFrom
<1>6. Scanner(s, next, Images(s), STRING)
  <2>1. FALSE \in BOOLEAN
    OBVIOUS
  <2> QED
    BY <1>2, <2>1, LexemesScan
<1>7. next[i] = LexemeEnd(s, i, FALSE) /\ next[i] \in 1 .. Len(s) + 1
  BY <1>1, <1>6 DEF LexemeEnds, Scanner
<1>8. \A k \in 1 .. Len(s) + 1 :
        /\ from[k] \in Seq(STRING)
        /\ from[k] = IF k > Len(s) THEN <<>> ELSE Images(s)[k] \o from[next[k]]
  <2>1. from = Scan(s, next, Images(s))
    BY DEF WrittenFrom
  <2> HIDE DEF next, from
  <2> QED
    BY <1>6, <2>1, ScanStep
<1> HIDE DEF next, from
<1>9. from[i] = Image(s, i) \o from[next[i]] /\ from[next[i]] \in Seq(STRING)
  BY <1>1, <1>2, <1>7, <1>8
<1> QED
  BY <1>5, <1>7, <1>9 DEF from, WritesImage

LEMMA PlainIsWritten ==
  ASSUME NEW s \in Seq(STRING), ~ HasExecutable(s), DashesSpaced(s),
         NEW i \in 1 .. Len(s), Modes(s)[i] = "code",
         NEW a \in 1 .. i, Modes(s)[a] = "code"
  PROVE  WritesImage(s, a, i)
<1>1. \A k \in a .. i - 1 : k \in 1 .. Len(s)
  OBVIOUS
<1> QED
  BY <1>1, NoOddDash, ImageIsWritten

LEMMA ScanSQLWrites ==
  ASSUME NEW s \in Seq(STRING)
  PROVE  /\ ScanSQL(s) = WrittenFrom(s)[1]
         /\ ScanSQL(s) \in Seq(STRING)
<1> DEFINE next == LexemeEnds(s, FALSE)
<1>1. ScanSQL(s) = Scan(s, next, Images(s))[1]
  BY DEF ScanSQL, Images
<1>2. Images(s) \in [1 .. Len(s) -> Seq(STRING)]
  BY ImageWrites DEF Images
<1>3. Scanner(s, next, Images(s), STRING)
  <2>1. FALSE \in BOOLEAN
    OBVIOUS
  <2> QED
    BY <1>2, <2>1, LexemesScan
<1>4. 1 \in 1 .. Len(s) + 1
  BY SequenceIn
<1>5. ScanSQL(s) \in Seq(STRING)
  <2> HIDE DEF next
  <2> QED
    BY <1>1, <1>3, <1>4, ScanStep
<1> QED
  BY <1>1, <1>5 DEF WrittenFrom

\* A quoted identifier begins at a quote in code, and has no quote in it.
LEMMA IdentifierBegins ==
  ASSUME NEW s \in Seq(STRING), NEW j \in 1 .. Len(s), Modes(s)[j] = "identifier"
  PROVE  \E p \in 1 .. j - 1 :
           /\ Modes(s)[p] = "code" /\ s[p] = BackQuote
           /\ \A m \in p + 1 .. j - 1 : s[m] # BackQuote
           /\ \A m \in p + 1 .. j : Modes(s)[m] = "identifier"
<1> DEFINE Begins(k, p) == /\ Modes(s)[p] = "code" /\ s[p] = BackQuote
                           /\ \A m \in p + 1 .. k - 1 : s[m] # BackQuote
                           /\ \A m \in p + 1 .. k : Modes(s)[m] = "identifier"
           Bad == {k \in 1 .. Len(s) : /\ Modes(s)[k] = "identifier"
                                       /\ ~ \E p \in 1 .. k - 1 : Begins(k, p)}
<1>1. Len(s) \in Nat
  OBVIOUS
<1>2. Bad = {}
  <2> SUFFICES ASSUME Bad # {} PROVE FALSE
    OBVIOUS
  <2>1. PICK k \in Bad : \A m \in Bad : k <= m
    <3>1. Bad \subseteq Nat
      BY <1>1
    <3> HIDE DEF Bad
    <3> QED
      BY <3>1, LeastNumber
  <2>2. k \in 1 .. Len(s) /\ Modes(s)[k] = "identifier" /\ ~ \E p \in 1 .. k - 1 : Begins(k, p)
    OBVIOUS
  <2>3. k # 1
    BY <2>2, ModesStep
  <2>4. /\ k - 1 \in 1 .. Len(s) /\ k - 1 + 1 = k /\ k - 1 \in 1 .. k - 1
        /\ k \in Nat /\ ~ (k <= k - 1)
    BY <1>1, <2>2, <2>3
  <2>5. Modes(s)[k] = ModeAfter(s, k - 1, Modes(s)[k - 1]) /\ Modes(s)[k - 1] \in ModeNames
    <3>1. k - 1 \in 1 .. Len(s) + 1
      BY <1>1, <2>4
    <3> QED
      BY <2>4, <3>1, ModesStep
  <2>6. \/ Modes(s)[k - 1] = "code" /\ AfterCode(s, k - 1) = "identifier"
        \/ Modes(s)[k - 1] = "identifier" /\ s[k - 1] # BackQuote
    BY <2>2, <2>5 DEF ModeAfter, ModeNames, Quotes, Escaped, AfterLineElement
  <2>7. CASE Modes(s)[k - 1] = "code" /\ AfterCode(s, k - 1) = "identifier"
    <3>1. s[k - 1] = BackQuote
      BY <2>7 DEF AfterCode, AfterLineElement, Quotes
    <3>2. \A m \in k - 1 + 1 .. k : m = k
      BY <2>4
    <3>3. k - 1 + 1 .. k - 1 = {}
      BY <2>4
    <3>4. Begins(k, k - 1)
      BY <2>2, <2>7, <3>1, <3>2, <3>3
    <3> HIDE DEF Begins
    <3> QED
      BY <2>2, <2>4, <3>4
  <2>8. CASE Modes(s)[k - 1] = "identifier" /\ s[k - 1] # BackQuote
    <3>1. PICK p \in 1 .. k - 1 - 1 : Begins(k - 1, p)
      BY <2>1, <2>4, <2>8
    <3>2. p \in 1 .. k - 1
      BY <2>4
    <3>3. \A m \in p + 1 .. k - 1 : m = k - 1 \/ m \in p + 1 .. k - 1 - 1
      BY <2>4
    <3>4. \A m \in p + 1 .. k : m = k \/ m \in p + 1 .. k - 1
      BY <2>4
    <3>5. Begins(k, p)
      BY <2>2, <2>8, <3>1, <3>3, <3>4
    <3> HIDE DEF Begins
    <3> QED
      BY <2>2, <3>2, <3>5
  <2> QED
    BY <2>6, <2>7, <2>8
<1>3. \E p \in 1 .. j - 1 : Begins(j, p)
  BY <1>2
<1> QED
  BY <1>3

LEMMA OccursInside ==
  ASSUME NEW A, NEW x \in Seq(A), NEW m \in Seq(A), NEW z \in Seq(A), NEW a, Occurs(m, a)
  PROVE  Occurs(x \o (m \o z), a)
<1>1. PICK q \in 1 .. Len(m) : m[q] = a
  BY DEF Occurs
<1> DEFINE t == x \o (m \o z)
<1>2. Len(x) + q \in DOMAIN t /\ t[Len(x) + q] = a
  BY <1>1
<1> QED
  BY <1>2 DEF Occurs

LEMMA OccursAlone ==
  ASSUME NEW e
  PROVE  \A a : Occurs(<<e>>, a) <=> a = e
<1>1. DOMAIN <<e>> = {1} /\ <<e>>[1] = e
  OBVIOUS
<1> DEFINE t == <<e>>
<1> HIDE DEF t
<1>2. DOMAIN t = {1} /\ t[1] = e
  BY <1>1 DEF t
<1>3. \A a : Occurs(t, a) <=> a = e
  BY <1>2 DEF Occurs
<1> QED
  BY <1>3 DEF t

LEMMA ThreeWords ==
  ASSUME NEW a, NEW b, NEW c
  PROVE  LET t == <<a, b, c>> IN
         /\ t \in Seq({a, b, c}) /\ Len(t) = 3
         /\ t[1] = a /\ t[2] = b /\ t[3] = c
         /\ \A w : Occurs(t, w) => w \in {a, b, c}
<1> DEFINE t == <<a, b, c>>
<1>1. t \in Seq({a, b, c}) /\ Len(t) = 3 /\ DOMAIN t = 1 .. 3
  OBVIOUS
<1>2. t[1] = a /\ t[2] = b /\ t[3] = c
  OBVIOUS
<1> HIDE DEF t
<1>3. \A i \in DOMAIN t : i \in {1, 2, 3}
  BY <1>1
<1>4. \A w : Occurs(t, w) => w \in {a, b, c}
  BY <1>2, <1>3 DEF Occurs
<1> QED
  BY <1>1, <1>2, <1>4 DEF t

LEMMA FourWords ==
  ASSUME NEW a, NEW b, NEW c, NEW d
  PROVE  LET t == <<a, b, c, d>> IN
         /\ t \in Seq({a, b, c, d}) /\ Len(t) = 4
         /\ t[1] = a /\ t[2] = b /\ t[3] = c /\ t[4] = d
         /\ \A w : Occurs(t, w) => w \in {a, b, c, d}
<1> DEFINE t == <<a, b, c, d>>
<1>1. t \in Seq({a, b, c, d}) /\ Len(t) = 4 /\ DOMAIN t = 1 .. 4
  OBVIOUS
<1>2. t[1] = a /\ t[2] = b /\ t[3] = c /\ t[4] = d
  OBVIOUS
<1> HIDE DEF t
<1>3. \A i \in DOMAIN t : i \in {1, 2, 3, 4}
  BY <1>1
<1>4. \A w : Occurs(t, w) => w \in {a, b, c, d}
  BY <1>2, <1>3 DEF Occurs
<1> QED
  BY <1>1, <1>2, <1>4 DEF t

LEMMA FiveWords ==
  ASSUME NEW a, NEW b, NEW c, NEW d, NEW e
  PROVE  LET t == <<a, b, c, d, e>> IN
         /\ t \in Seq({a, b, c, d, e}) /\ Len(t) = 5
         /\ t[1] = a /\ t[2] = b /\ t[3] = c /\ t[4] = d /\ t[5] = e
         /\ \A w : Occurs(t, w) => w \in {a, b, c, d, e}
<1> DEFINE t == <<a, b, c, d, e>>
<1>1. t \in Seq({a, b, c, d, e}) /\ Len(t) = 5 /\ DOMAIN t = 1 .. 5
  OBVIOUS
<1>2. t[1] = a /\ t[2] = b /\ t[3] = c /\ t[4] = d /\ t[5] = e
  OBVIOUS
<1> HIDE DEF t
<1>3. \A i \in DOMAIN t : i \in {1, 2, 3, 4, 5}
  BY <1>1
<1>4. \A w : Occurs(t, w) => w \in {a, b, c, d, e}
  BY <1>2, <1>3 DEF Occurs
<1> QED
  BY <1>1, <1>2, <1>4 DEF t

LEMMA AmongFour ==
  ASSUME NEW a, NEW b, NEW c, NEW d, NEW w, Occurs(<<a, b, c, d>>, w)
  PROVE  w \in {a, b, c, d}
BY FourWords

LEMMA AmongFive ==
  ASSUME NEW a, NEW b, NEW c, NEW d, NEW e, NEW w, Occurs(<<a, b, c, d, e>>, w)
  PROVE  w \in {a, b, c, d, e}
BY FiveWords

LEMMA Joined ==
  ASSUME NEW T, NEW a \in Seq(T), NEW b \in Seq(T), NEW t, t = a \o b
  PROVE  /\ t \in Seq(T)
         /\ Len(a) \in Nat
         /\ \A k \in 1 .. Len(a) : k \in 1 .. Len(t) /\ t[k] = a[k]
         /\ \A k \in 1 .. Len(b) : Len(a) + k \in 1 .. Len(t) /\ t[Len(a) + k] = b[k]
<1>1. a \o b \in Seq(T) /\ Len(a) \in Nat /\ Len(b) \in Nat /\ Len(a \o b) = Len(a) + Len(b)
  OBVIOUS
<1>2. \A k \in 1 .. Len(a) : (a \o b)[k] = a[k]
  OBVIOUS
<1>3. \A k \in 1 .. Len(b) : (a \o b)[Len(a) + k] = b[k]
  OBVIOUS
<1> QED
  BY <1>1, <1>2, <1>3

LEMMA FollowsInside ==
  ASSUME NEW A, NEW x \in Seq(A), NEW m \in Seq(A), NEW y \in Seq(A),
         NEW z \in Seq(A), NEW a, NEW b \in A, Occurs(m, a)
  PROVE  Follows(x \o (m \o (y \o (<<b>> \o z))), a, b)
<1> DEFINE last == <<b>> \o z
           rest == y \o last
           tail == m \o rest
           t == x \o tail
<1>1. PICK q \in 1 .. Len(m) : m[q] = a
  BY DEF Occurs
<1>2. last \in Seq(A) /\ 1 \in 1 .. Len(last) /\ last[1] = b
  <2>1. <<b>> \in Seq(A)
    OBVIOUS
  <2>2. Len(<<b>>) = 1 /\ <<b>>[1] = b /\ 1 \in 1 .. 1
    OBVIOUS
  <2>3. last = <<b>> \o z
    OBVIOUS
  <2> DEFINE first == <<b>>
  <2> HIDE DEF last, first
  <2> QED
    BY <2>1, <2>2, <2>3, Joined DEF first
<1> HIDE DEF last
<1>3. /\ rest \in Seq(A) /\ Len(y) + 1 \in 1 .. Len(rest) /\ rest[Len(y) + 1] = b
      /\ Len(y) \in Nat
  <2>1. rest = y \o last
    OBVIOUS
  <2> HIDE DEF rest
  <2> QED
    BY <1>2, <2>1, Joined
<1> DEFINE r == Len(y) + 1
<1>4. r \in 1 .. Len(rest) /\ rest[r] = b
  BY <1>3
<1> HIDE DEF rest, r
<1>5. /\ tail \in Seq(A) /\ Len(m) \in Nat
      /\ q \in 1 .. Len(tail) /\ tail[q] = a
      /\ Len(m) + r \in 1 .. Len(tail) /\ tail[Len(m) + r] = b
  <2>1. tail = m \o rest
    OBVIOUS
  <2> HIDE DEF tail
  <2> QED
    BY <1>1, <1>3, <1>4, <2>1, Joined, SMTT(30)
<1> DEFINE e == Len(m) + r
<1>6. e \in 1 .. Len(tail) /\ tail[e] = b /\ q < e
  BY <1>3, <1>4, <1>5 DEF r
<1> HIDE DEF tail, e
<1>7. /\ t \in Seq(A) /\ Len(x) \in Nat
      /\ Len(x) + q \in 1 .. Len(t) /\ t[Len(x) + q] = a
      /\ Len(x) + e \in 1 .. Len(t) /\ t[Len(x) + e] = b
  <2>1. t = x \o tail
    OBVIOUS
  <2> HIDE DEF t
  <2> QED
    BY <1>5, <1>6, <2>1, Joined, SMTT(30)
<1>8. Len(x) + q < Len(x) + e /\ DOMAIN t = 1 .. Len(t)
  BY <1>5, <1>6, <1>7
<1> HIDE DEF t
<1>9. Follows(t, a, b)
  BY <1>7, <1>8 DEF Follows
<1> QED
  BY <1>9 DEF t, tail, rest, last

\* Outside of quotes and blanks an element is copied, and a string becomes ?.
LEMMA CodeIsCopied ==
  ASSUME NEW s \in Seq(STRING), ~ HasExecutable(s), NEW i \in 1 .. Len(s), Code(s, i)
  PROVE  /\ Modes(s)[i] = "code"
         /\ s[i] \in Quotes => Image(s, i) = <<"?">>
         /\ s[i] \notin Quotes \cup {BackQuote} => Image(s, i) = <<s[i]>>
<1>1. Modes(s)[i] = "code" /\ ~ Blank(s, i)
  BY DEF Code
<1>2. ~ IsBlank(s, i)
  BY <1>1, BlankToScanners
<1>3. s[i] \in Quotes => Lexeme(s, i) = "string"
  BY DEF Lexeme
<1>4. s[i] \notin Quotes \cup {BackQuote} => Lexeme(s, i) = "byte"
  BY <1>2 DEF Lexeme, IsBlank
<1> QED
  BY <1>1, <1>3, <1>4 DEF Image

LEMMA WordIsWritten ==
  ASSUME NEW s \in Seq(STRING), ~ HasExecutable(s), DashesSpaced(s),
         NEW i \in 1 .. Len(s), Code(s, i), s[i] \notin Quotes \cup {BackQuote}
  PROVE  Occurs(ScanSQL(s), s[i])
<1>1. Modes(s)[i] = "code" /\ Image(s, i) = <<s[i]>>
  BY CodeIsCopied
<1>2. Modes(s)[1] = "code" /\ 1 \in 1 .. i
  BY ModesStep
<1>3. WritesImage(s, 1, i)
  BY <1>1, <1>2, PlainIsWritten
<1>6. PICK x, z \in Seq(STRING) : WrittenFrom(s)[1] = x \o (Image(s, i) \o z)
  BY <1>3 DEF WritesImage
<1>4. <<s[i]>> \in Seq(STRING) /\ Occurs(<<s[i]>>, s[i])
  BY DEF Occurs
<1>5. Occurs(x \o (<<s[i]>> \o z), s[i])
  BY <1>4, OccursInside
<1> QED
  BY <1>1, <1>5, <1>6, ScanSQLWrites

\* Where a word is written from: from where it stands, or from where the quoted
\* identifier begins that it is in.
LEMMA WordIsInImage ==
  ASSUME NEW s \in Seq(STRING), ~ HasExecutable(s), NEW j \in 1 .. Len(s), Word(s, j)
  PROVE  \E p \in 1 .. j :
           Modes(s)[p] = "code" /\ \E a \in {s[j], "?"} : Occurs(Image(s, p), a)
<1>0. Len(s) \in Nat /\ DOMAIN s = 1 .. Len(s) /\ j \in 1 .. j
  OBVIOUS
<1>1. CASE Code(s, j)
  <2>1. Modes(s)[j] = "code" /\ Image(s, j) \in {<<s[j]>>, <<"?">>}
    BY <1>1, CodeIsCopied DEF Word
  <2>2. \A a : Occurs(<<a>>, a)
    BY DEF Occurs
  <2> QED
    BY <1>0, <2>1, <2>2
<1>2. CASE Modes(s)[j] = "identifier"
  <2>1. PICK p \in 1 .. j - 1 : /\ Modes(s)[p] = "code" /\ s[p] = BackQuote
                                /\ \A m \in p + 1 .. j - 1 : s[m] # BackQuote
    BY <1>2, IdentifierBegins
  <2>2. p \in 1 .. j /\ p \in 1 .. Len(s) /\ p \in Nat /\ p + 1 <= j
    BY <1>0
  <2>3. s[j] # BackQuote
    BY DEF Word
  <2> DEFINE found == {k \in p + 1 .. Len(s) : s[k] = BackQuote}
             stop == First(s, p + 1, LAMBDA k : s[k] = BackQuote)
             image == SubSeq(s, p + 1, stop - 1)
  <2>4. stop = IF found = {} THEN Len(s) + 1 ELSE CHOOSE k \in found : \A m \in found : k <= m
    BY DEF First
  <2>5. Image(s, p) = image
    <3>1. Lexeme(s, p) = "identifier"
      BY <2>1 DEF Lexeme, Quotes, BackQuote
    <3> QED
      BY <3>1 DEF Image
  <2>6. \A k \in found : j < k
    <3> SUFFICES ASSUME NEW k \in p + 1 .. Len(s), s[k] = BackQuote PROVE j < k
      OBVIOUS
    <3>1. k # j /\ k \notin p + 1 .. j - 1
      BY <2>1, <2>3
    <3> QED
      BY <1>0, <2>2, <3>1
  <2>7. stop \in j + 1 .. Len(s) + 1
    <3>1. CASE found = {}
      BY <1>0, <2>4, <3>1
    <3>2. CASE found # {}
      <4>1. found \subseteq Nat
        BY <1>0, <2>2
      <4>2. stop \in found
        <5> HIDE DEF found, stop
        <5> QED
          BY <2>4, <3>2, <4>1, LeastChosen
      <4> QED
        BY <1>0, <2>6, <4>2
    <3> QED
      BY <3>1, <3>2
  <2> HIDE DEF stop, found
  <2>8. j - p \in DOMAIN image /\ image[j - p] = s[j]
    BY <1>0, <2>2, <2>7
  <2>9. Occurs(image, s[j])
    BY <2>8 DEF Occurs
  <2> QED
    BY <2>1, <2>2, <2>5, <2>9
<1> QED
  BY <1>1, <1>2 DEF Word

\* Two words come in the order of the text.
LEMMA WordsKeepOrder ==
  ASSUME NEW s \in Seq(STRING), ~ HasExecutable(s), DashesSpaced(s),
         NEW i \in 1 .. Len(s), Code(s, i), s[i] \notin Quotes \cup {BackQuote},
         NEW j \in 1 .. i - 1, Word(s, j)
  PROVE  \E a \in {s[j], "?"} : Follows(ScanSQL(s), a, s[i])
<1>0. Len(s) \in Nat /\ i \in Nat /\ j \in 1 .. Len(s) /\ s[i] \in STRING
  OBVIOUS
<1>1. Modes(s)[i] = "code" /\ Image(s, i) = <<s[i]>>
  BY CodeIsCopied
<1>2. PICK p \in 1 .. j :
        Modes(s)[p] = "code" /\ \E a \in {s[j], "?"} : Occurs(Image(s, p), a)
  BY <1>0, WordIsInImage
<1>3. PICK a \in {s[j], "?"} : Occurs(Image(s, p), a)
  BY <1>2
<1>4. p \in 1 .. Len(s) /\ p < i /\ p \in Nat /\ 1 \in 1 .. p
  BY <1>0
<1> DEFINE after == LexemeEnd(s, p, FALSE)
<1>5. /\ after \in p + 1 .. Len(s) + 1
      /\ \A k \in p + 1 .. after - 1 : Modes(s)[k] # "code"
      /\ \/ after <= Len(s) => Modes(s)[after] = "code"
         \/ \A k \in p + 1 .. Len(s) + 1 : Modes(s)[k] # "code"
  <2>1. ~ IsVersionedComment(s, p)
    BY <1>2, <1>4, NothingVersioned
  <2>2. ~ OddDash(s, p)
    BY <1>2, <1>4, NoOddDash
  <2> QED
    BY <1>2, <1>4, <2>1, <2>2, LexemeIsSkipped
<1>6. PICK x, z \in Seq(STRING) : /\ WrittenFrom(s)[1] = x \o (Image(s, p) \o z)
                                  /\ z = WrittenFrom(s)[after]
  <2>1. WritesImage(s, 1, p)
    BY <1>2, <1>4, ModesStep, PlainIsWritten
  <2> QED
    BY <2>1 DEF WritesImage
<1> HIDE DEF after
<1>7. after \in 1 .. i /\ Modes(s)[after] = "code"
  <2>1. i \in p + 1 .. Len(s) + 1 /\ i \notin p + 1 .. after - 1
    BY <1>0, <1>1, <1>4, <1>5
  <2>2. after \in 1 .. i /\ after <= Len(s)
    BY <1>0, <1>4, <1>5, <2>1
  <2> QED
    BY <1>1, <1>5, <2>1, <2>2
<1>8. PICK y, rest \in Seq(STRING) : z = y \o (Image(s, i) \o rest)
  <2>1. WritesImage(s, after, i)
    BY <1>1, <1>7, PlainIsWritten
  <2> QED
    BY <1>6, <2>1 DEF WritesImage
<1>9. Image(s, p) \in Seq(STRING)
  <2>1. Images(s) \in [1 .. Len(s) -> Seq(STRING)]
    BY ImageWrites DEF Images
  <2>2. Images(s)[p] = Image(s, p)
    BY <1>4 DEF Images
  <2> QED
    BY <1>4, <2>1, <2>2
<1>10. Follows(x \o (Image(s, p) \o (y \o (<<s[i]>> \o rest))), a, s[i])
  BY <1>0, <1>3, <1>9, FollowsInside
<1>11. ScanSQL(s) = x \o (Image(s, p) \o (y \o (<<s[i]>> \o rest)))
  BY <1>1, <1>6, <1>8, ScanSQLWrites
<1> QED
  BY <1>10, <1>11

\* White space is the same to the server as to strings.Fields.
LEMMA SpacesAreAlike == WhiteSpace = AllSpaces
BY DEF WhiteSpace, AllSpaces, Spaces

\* The words of a text, and what scanSQL puts in the place of others.
Words(s) ==
  {e \in STRING : e = "?" \/ e \in AllSpaces \/ \E k \in DOMAIN s : Word(s, k) /\ e = s[k]}

\* What is written for a position in code consists of words.
LEMMA ImageIsWords ==
  ASSUME NEW s \in Seq(STRING), ~ HasExecutable(s), NEW i \in 1 .. Len(s),
         Modes(s)[i] = "code", ~ OddDash(s, i)
  PROVE  Image(s, i) \in Seq(Words(s))
<1>0. Len(s) \in Nat /\ DOMAIN s = 1 .. Len(s) /\ \A k \in 1 .. Len(s) : s[k] \in STRING
  OBVIOUS
<1>1. "?" \in Words(s) /\ " " \in Words(s) /\ \A e \in AllSpaces : e \in Words(s)
  BY TextAssumption DEF Words, Bytes, Spaces, AllSpaces
<1>2. <<"?">> \in Seq(Words(s)) /\ <<" ">> \in Seq(Words(s))
  BY <1>1, SequencesOf
<1>3. CASE Lexeme(s, i) = "identifier"
  <2>1. s[i] = BackQuote
    BY <1>3 DEF Lexeme
  <2> DEFINE found == {k \in i + 1 .. Len(s) : s[k] = BackQuote}
             stop == First(s, i + 1, LAMBDA k : s[k] = BackQuote)
             image == SubSeq(s, i + 1, stop - 1)
  <2>2. stop = IF found = {} THEN Len(s) + 1 ELSE CHOOSE k \in found : \A m \in found : k <= m
    BY DEF First
  <2>3. stop \in i + 1 .. Len(s) + 1 /\ \A k \in i + 1 .. stop - 1 : s[k] # BackQuote
    <3> HIDE DEF stop
    <3>1. CASE found = {}
      <4>1. stop = Len(s) + 1
        BY <2>2, <3>1
      <4>2. i + 1 .. stop - 1 = i + 1 .. Len(s)
        BY <1>0, <4>1
      <4> QED
        BY <1>0, <3>1, <4>1, <4>2
    <3>2. CASE found # {}
      <4>1. found \subseteq Nat
        BY <1>0
      <4>2. stop \in found /\ \A k \in found : stop <= k
        <5> HIDE DEF found
        <5> QED
          BY <2>2, <3>2, <4>1, LeastChosen
      <4>3. ASSUME NEW k \in i + 1 .. stop - 1 PROVE s[k] # BackQuote
        <5>1. k \in i + 1 .. Len(s) /\ ~ (stop <= k)
          BY <1>0, <4>2
        <5> QED
          BY <4>2, <5>1
      <4> QED
        BY <1>0, <4>2, <4>3
    <3> QED
      BY <3>1, <3>2
  <2>4. Image(s, i) = image
    BY <1>3 DEF Image
  <2> HIDE DEF stop, found
  <2>5. Modes(s)[i + 1] = "identifier"
    <3>1. Modes(s)[i + 1] = ModeAfter(s, i, "code")
      BY ModesStep
    <3>2. AfterCode(s, i) = "identifier"
      BY <2>1 DEF AfterCode, Quotes, BackQuote, IsLineComment
    <3> QED
      BY <3>1, <3>2 DEF ModeAfter, Quotes, Escaped
  <2>6. ASSUME NEW k \in i + 1 .. stop - 1 PROVE Modes(s)[k] = "identifier"
    <3>1. i + 1 \in 1 .. Len(s) + 1 /\ k \in i + 1 .. Len(s) + 1
      BY <1>0, <2>3
    <3>2. \A m \in i + 1 .. k - 1 : m \in i + 1 .. stop - 1
      BY <1>0, <2>3
    <3>3. \A m \in i + 1 .. k - 1 : ModeAfter(s, m, "identifier") = "identifier"
      BY <2>3, <3>2 DEF ModeAfter, Quotes, Escaped
    <3> QED
      BY <2>5, <3>1, <3>3, ModeLasts
  <2>7. ASSUME NEW k \in i + 1 .. stop - 1 PROVE s[k] \in Words(s)
    <3>1. k \in 1 .. Len(s) /\ s[k] # BackQuote
      BY <1>0, <2>3
    <3>2. s[k] \in AllSpaces \/ Word(s, k)
      BY <2>6, <3>1, SpacesAreAlike DEF Word
    <3> QED
      BY <1>0, <3>1, <3>2 DEF Words
  <2>8. image \in Seq(Words(s))
    <3>1. image \in Seq(STRING) /\ Len(image) = stop - (i + 1)
      BY <1>0, <2>3
    <3>2. \A m \in 1 .. Len(image) : image[m] = s[i + m] /\ i + m \in i + 1 .. stop - 1
      BY <1>0, <2>3
    <3>3. \A m \in 1 .. Len(image) : image[m] \in Words(s)
      BY <2>7, <3>2
    <3> DEFINE W == Words(s)
    <3> HIDE DEF image, W
    <3>4. \A m \in 1 .. Len(image) : image[m] \in W
      BY <3>3 DEF W
    <3>5. image \in Seq(W)
      BY <3>1, <3>4
    <3> QED
      BY <3>5 DEF W
  <2> QED
    BY <2>4, <2>8
<1>4. CASE Lexeme(s, i) = "byte"
  <2>1. s[i] \notin Quotes \cup {BackQuote}
    BY <1>4 DEF Lexeme
  <2>2. s[i] \in AllSpaces \/ Word(s, i)
    <3>1. IsBlank(s, i) => s[i] \in WhiteSpace
      BY <1>4 DEF IsBlank, Spaces, WhiteSpace
    <3>2. Blank(s, i) => s[i] \in WhiteSpace
      <4>1. s[i] = VerticalTab => s[i] \in WhiteSpace
        BY DEF WhiteSpace
      <4> QED
        BY <3>1, <4>1, BlankToServer
    <3>3. s[i] \notin WhiteSpace => Word(s, i)
      BY <2>1, <3>2 DEF Code, Word
    <3> QED
      BY <3>3, SpacesAreAlike
  <2>3. s[i] \in Words(s)
    BY <1>0, <2>1, <2>2 DEF Words
  <2>4. <<s[i]>> \in Seq(Words(s))
    BY <2>3, SequencesOf
  <2> QED
    BY <1>4, <2>4 DEF Image
<1>5. CASE Lexeme(s, i) \in {"string", "line", "block"}
  BY <1>2, <1>5 DEF Image
<1> QED
  BY <1>3, <1>4, <1>5 DEF Lexeme

\* Nothing else is written (scanSQL).
LEMMA NothingElseIsWritten ==
  ASSUME NEW s \in Seq(STRING), ~ HasExecutable(s), DashesSpaced(s), Closed(s)
  PROVE  Normalize(s) \in Seq(Words(s))
<1> DEFINE next == LexemeEnds(s, FALSE)
           from == WrittenFrom(s)
           end == Len(s) + 1
           Inv == CodeBetween(s, 1, end)
           Good == {k \in Inv : from[k] \in Seq(Words(s))}
<1>1. Len(s) \in Nat /\ DOMAIN s = 1 .. Len(s) /\ 1 \in 1 .. end /\ end \in 1 .. end /\ end \in Nat
  OBVIOUS
<1>2. Images(s) \in [1 .. Len(s) -> Seq(STRING)]
  BY ImageWrites DEF Images
<1>3. Scanner(s, next, Images(s), STRING)
  <2>1. FALSE \in BOOLEAN
    OBVIOUS
  <2> QED
    BY <1>2, <2>1, LexemesScan
<1>4. \A k \in 1 .. end :
        /\ from[k] \in Seq(STRING)
        /\ from[k] = IF k > Len(s) THEN <<>> ELSE Images(s)[k] \o from[next[k]]
  <2>1. from = Scan(s, next, Images(s))
    BY DEF WrittenFrom
  <2> HIDE DEF next, from
  <2> QED
    BY <1>3, <2>1, ScanStep
<1>5. Leads(s, 1, end)
  <2>1. \A k \in 1 .. end - 1 : k \in 1 .. Len(s)
    BY <1>1
  <2> QED
    BY <1>1, <2>1, NothingVersioned, NoOddDash DEF Leads
<1>6. \A k \in Inv : k < end => next[k] \in Inv
  BY <1>5, LexemesLead DEF Reaches
<1>7. \A k \in 1 .. Len(s) : k < next[k]
  BY <1>3 DEF Scanner
<1>8. Inv \subseteq 1 .. end /\ 1 \in Inv /\ \A k \in Inv : k = end \/ Modes(s)[k] = "code"
  BY <1>1, ModesStep DEF CodeBetween
<1> HIDE DEF next, from, Inv
<1>9. ASSUME NEW k \in Inv, \A j \in Inv : k < j => j \in Good PROVE k \in Good
  <2>1. CASE k = end
    <3>1. k \in 1 .. end /\ k > Len(s)
      BY <1>1, <2>1
    <3>2. from[k] = <<>> /\ <<>> \in Seq(Words(s))
      BY <1>4, <3>1, SequencesOf
    <3> QED
      BY <3>2
  <2>2. CASE k # end
    <3>1. k \in 1 .. Len(s) /\ k \in 1 .. end /\ ~ (k > Len(s)) /\ k < end /\ Modes(s)[k] = "code"
      BY <1>1, <1>8, <2>2
    <3>2. next[k] \in Inv /\ k < next[k]
      BY <1>6, <1>7, <3>1
    <3>3. from[next[k]] \in Seq(Words(s))
      BY <1>9, <3>2
    <3>4. Images(s)[k] = Image(s, k) /\ Image(s, k) \in Seq(Words(s))
      BY <1>1, <3>1, NoOddDash, ImageIsWords DEF Images
    <3>5. from[k] = Image(s, k) \o from[next[k]]
      BY <1>4, <3>1, <3>4
    <3>6. from[k] \in Seq(Words(s))
      BY <3>3, <3>4, <3>5, SequencesOf
    <3> QED
      BY <3>6
  <2> QED
    BY <2>1, <2>2
<1>10. Inv \subseteq Good
  <2> HIDE DEF Good, end
  <2> QED
    BY <1>1, <1>8, <1>9, FromTheEnd
<1>11. ScanSQL(s) \in Seq(Words(s))
  <2>1. from[1] \in Seq(Words(s))
    BY <1>8, <1>10
  <2> QED
    BY <2>1, ScanSQLWrites DEF from
<1>12. " " \in Words(s)
  BY TextAssumption DEF Words, Bytes, Spaces, AllSpaces
<1> QED
  BY <1>11, <1>12, SqueezeAddsBlanks DEF Normalize

\* What is not white space is kept where fields are joined, in its order.
LEMMA SqueezeKeeps ==
  ASSUME NEW t \in Seq(STRING), NEW p \in 1 .. Len(t), t[p] \notin AllSpaces,
         NEW a \in 1 .. p
  PROVE  LET from == Scan(t, [i \in DOMAIN t |-> i + 1], Squeezed(t)) IN
         /\ \E x \in Seq(STRING) : from[a] = x \o (<<t[p]>> \o from[p + 1])
         /\ from[p + 1] \in Seq(STRING)
<1> DEFINE next == [i \in DOMAIN t |-> i + 1]
           from == Scan(t, next, Squeezed(t))
<1>0. Len(t) \in Nat /\ DOMAIN t = 1 .. Len(t)
  BY SequenceIn
<1>1. /\ Len(t) \in Nat /\ DOMAIN t = 1 .. Len(t) /\ p \in Nat /\ a \in Nat
      /\ 1 <= a /\ a <= p /\ p <= Len(t)
  BY <1>0
<1>2. Scanner(t, next, Squeezed(t), STRING)
  <2>1. " " \in STRING
    BY TextAssumption DEF Bytes, Spaces, AllSpaces
  <2> QED
    BY <2>1, SqueezeScans
<1>3. Reaches(p, a .. p, t, next)
  <2>1. \A k \in a .. p : k < p => next[k] \in a .. p
    BY <1>1
  <2>2. p \in 1 .. Len(t) + 1 /\ a .. p \subseteq 1 .. p
    BY <1>1
  <2> QED
    BY <2>1, <2>2 DEF Reaches
<1>4. next[p] = p + 1 /\ p \in 1 .. Len(t) + 1 /\ p + 1 \in 1 .. Len(t) + 1 /\ ~ (p > Len(t))
  BY <1>1
<1>5. Squeezed(t)[p] = <<t[p]>>
  BY <1>1 DEF Squeezed
<1> HIDE DEF next
<1>6. \A k \in 1 .. Len(t) + 1 :
        /\ from[k] \in Seq(STRING)
        /\ from[k] = IF k > Len(t) THEN <<>> ELSE Squeezed(t)[k] \o from[next[k]]
  BY <1>2, ScanStep
<1> HIDE DEF from
<1>7. PICK x \in Seq(STRING) : from[a] = x \o from[p]
  <2>1. a \in a .. p
    BY <1>1
  <2>2. ReachesTo(a, p, a .. p, t, next, Squeezed(t), STRING)
    BY <1>2, <1>3, <2>1, ScanReaches
  <2> QED
    BY <2>2 DEF ReachesTo, from
<1>8. from[p] = <<t[p]>> \o from[p + 1] /\ from[p + 1] \in Seq(STRING)
  BY <1>4, <1>5, <1>6
<1> QED
  BY <1>7, <1>8 DEF from, next

LEMMA SqueezeKeepsOne ==
  ASSUME NEW t \in Seq(STRING), NEW a, a \notin AllSpaces, Occurs(t, a)
  PROVE  Occurs(Squeeze(t), a)
<1>1. PICK p \in 1 .. Len(t) : t[p] = a
  BY SequenceIn DEF Occurs
<1> DEFINE from == Scan(t, [i \in DOMAIN t |-> i + 1], Squeezed(t))
<1>2. 1 \in 1 .. p
  <2>1. Len(t) \in Nat
    BY SequenceIn
  <2> QED
    BY <2>1
<1>3. /\ \E x \in Seq(STRING) : from[1] = x \o (<<t[p]>> \o from[p + 1])
      /\ from[p + 1] \in Seq(STRING)
  BY <1>1, <1>2, SqueezeKeeps
<1>4. Squeeze(t) = from[1]
  <2>1. " " \in STRING
    BY TextAssumption DEF Bytes, Spaces, AllSpaces
  <2> QED
    BY <2>1, SqueezeScans
<1> HIDE DEF from
<1>5. PICK x \in Seq(STRING) : from[1] = x \o (<<t[p]>> \o from[p + 1])
  BY <1>3
<1>6. <<t[p]>> \in Seq(STRING)
  BY SequenceIn, SequencesOf
<1>7. Occurs(<<t[p]>>, t[p])
  <2>1. \A e : Occurs(<<e>>, e)
    BY DEF Occurs
  <2> QED
    BY <2>1
<1> QED
  BY <1>1, <1>3, <1>4, <1>5, <1>6, <1>7, OccursInside

LEMMA SqueezeKeepsOrder ==
  ASSUME NEW t \in Seq(STRING), NEW a, a \notin AllSpaces, NEW b, b \notin AllSpaces,
         Follows(t, a, b)
  PROVE  Follows(Squeeze(t), a, b)
<1>1. PICK p, r \in 1 .. Len(t) : p < r /\ t[p] = a /\ t[r] = b
  BY SequenceIn DEF Follows
<1> DEFINE from == Scan(t, [i \in DOMAIN t |-> i + 1], Squeezed(t))
<1>2. 1 \in 1 .. p /\ p + 1 \in 1 .. r
  <2>1. Len(t) \in Nat
    BY SequenceIn
  <2> QED
    BY <1>1, <2>1
<1>3. /\ \E x \in Seq(STRING) : from[1] = x \o (<<t[p]>> \o from[p + 1])
      /\ \E x \in Seq(STRING) : from[p + 1] = x \o (<<t[r]>> \o from[r + 1])
      /\ from[r + 1] \in Seq(STRING)
  BY <1>1, <1>2, SqueezeKeeps
<1>4. Squeeze(t) = from[1]
  <2>1. " " \in STRING
    BY TextAssumption DEF Bytes, Spaces, AllSpaces
  <2> QED
    BY <2>1, SqueezeScans
<1> HIDE DEF from
<1>5. PICK x \in Seq(STRING) : from[1] = x \o (<<t[p]>> \o from[p + 1])
  BY <1>3
<1>6. PICK y \in Seq(STRING) : from[p + 1] = y \o (<<t[r]>> \o from[r + 1])
  BY <1>3
<1>7. <<t[p]>> \in Seq(STRING) /\ t[r] \in STRING
  BY SequenceIn, SequencesOf
<1>8. Occurs(<<t[p]>>, t[p])
  <2>1. \A e : Occurs(<<e>>, e)
    BY DEF Occurs
  <2> QED
    BY <2>1
<1>9. Follows(x \o (<<t[p]>> \o (y \o (<<t[r]>> \o from[r + 1]))), t[p], t[r])
  BY <1>3, <1>7, <1>8, FollowsInside
<1> QED
  BY <1>1, <1>4, <1>5, <1>6, <1>9

\* Two dashes that the scanners do not take for a comment are there after normalization.
LEMMA OddDashIsKept ==
  ASSUME NEW s \in Seq(STRING), ~ HasExecutable(s), ~ DashesSpaced(s)
  PROVE  Occurs(Normalize(s), "-")
<1> DEFINE odd == {k \in 1 .. Len(s) : Modes(s)[k] = "code" /\ OddDash(s, k)}
<1>1. Len(s) \in Nat /\ DOMAIN s = 1 .. Len(s)
  OBVIOUS
<1>2. odd # {}
  <2>1. PICK k \in DOMAIN s :
          /\ Modes(s)[k] = "code" /\ s[k] = "-" /\ IsLineComment(s, k)
          /\ At(s, k + 2) \notin {" ", "\n"}
    BY DEF DashesSpaced
  <2>2. OddDash(s, k)
    BY <2>1, DashesAreSpaced
  <2> QED
    BY <1>1, <2>1, <2>2
<1>3. PICK i \in odd : \A k \in odd : i <= k
  <2>1. odd \subseteq Nat
    BY <1>1
  <2> HIDE DEF odd
  <2> QED
    BY <1>2, <2>1, LeastNumber
<1>4. i \in 1 .. Len(s) /\ Modes(s)[i] = "code" /\ OddDash(s, i) /\ 1 \in 1 .. i
  BY <1>1
<1>5. ASSUME NEW k \in 1 .. i - 1, Modes(s)[k] = "code" PROVE ~ OddDash(s, k)
  <2>1. k \in 1 .. Len(s) /\ ~ (i <= k)
    BY <1>1, <1>4
  <2> QED
    BY <1>3, <1>5, <2>1
<1> HIDE DEF odd
<1>6. WritesImage(s, 1, i)
  BY <1>4, <1>5, ModesStep, ImageIsWritten
<1>7. s[i] = "-" /\ Image(s, i) = <<s[i]>>
  <2>1. s[i] = "-" /\ ~ IsDashDashComment(s, i)
    BY <1>4 DEF OddDash
  <2>2. Lexeme(s, i) = "byte"
    BY <2>1 DEF Lexeme, Quotes, BackQuote
  <2> QED
    BY <2>1, <2>2 DEF Image
<1>8. PICK x, z \in Seq(STRING) : WrittenFrom(s)[1] = x \o (Image(s, i) \o z)
  BY <1>6 DEF WritesImage
<1>9. <<s[i]>> \in Seq(STRING) /\ Occurs(<<s[i]>>, s[i])
  <2>1. \A e : Occurs(<<e>>, e)
    BY DEF Occurs
  <2> QED
    BY <1>4, <2>1, SequenceIn, SequencesOf
<1>10. Occurs(x \o (<<s[i]>> \o z), s[i])
  BY <1>9, OccursInside
<1>11. Occurs(ScanSQL(s), "-") /\ ScanSQL(s) \in Seq(STRING)
  BY <1>7, <1>8, <1>10, ScanSQLWrites
<1>12. "-" \notin AllSpaces
  BY DEF AllSpaces, Spaces, VerticalTab
<1> QED
  BY <1>11, <1>12, SqueezeKeepsOne DEF Normalize

-----------------------------------------------------------------------------
(* What is trimmed. *)

LEMMA SuffixIs ==
  ASSUME NEW s \in Seq(STRING), NEW B, NEW suffix \in Seq(B), IsSuffix(suffix, s)
  PROVE  /\ Len(suffix) <= Len(s)
         /\ \A k \in 1 .. Len(s) : k > Len(s) - Len(suffix) => Occurs(suffix, s[k])
<1> DEFINE n == Len(s)
           m == Len(suffix)
           u == Reverse(suffix)
           v == Reverse(s)
<1>1. n \in Nat /\ m \in Nat
  OBVIOUS
<1>2. /\ u \in Seq(B) /\ Len(u) = m /\ \A i \in 1 .. m : u[i] = suffix[m - i + 1]
      /\ v \in Seq(STRING) /\ Len(v) = n /\ \A i \in 1 .. n : v[i] = s[n - i + 1]
  <2>1. u = [i \in 1 .. m |-> suffix[(m - i) + 1]] /\ v = [i \in 1 .. n |-> s[(n - i) + 1]]
    BY DEF Reverse
  <2> HIDE DEF u, v
  <2>2. \A i \in 1 .. m : suffix[(m - i) + 1] \in B
    BY <1>1
  <2>3. \A i \in 1 .. n : s[(n - i) + 1] \in STRING
    BY <1>1
  <2>4. u \in [1 .. m -> B] /\ v \in [1 .. n -> STRING]
    BY <2>1, <2>2, <2>3
  <2>5. u \in Seq(B) /\ Len(u) = m /\ v \in Seq(STRING) /\ Len(v) = n
    <3> HIDE DEF n, m
    <3>1. u \in Seq(B) /\ v \in Seq(STRING)
      <4>1. ASSUME NEW S, NEW l \in Nat, NEW f \in [1 .. l -> S] PROVE f \in Seq(S)
        OBVIOUS
      <4>2. u \in Seq(B)
        BY <1>1, <2>4, <4>1
      <4>3. v \in Seq(STRING)
        BY <1>1, <2>4, <4>1
      <4> QED
        BY <4>2, <4>3
    <3>2. DOMAIN u = 1 .. m /\ DOMAIN v = 1 .. n
      BY <2>4
    <3> QED
      BY <1>1, <3>1, <3>2
  <2> QED
    BY <2>1, <2>5
<1>3. m <= n /\ SubSeq(u, 1, m) = SubSeq(v, 1, m)
  <2>1. IsPrefix(u, v)
    BY DEF IsSuffix
  <2> HIDE DEF u, v
  <2> QED
    BY <1>2, <2>1 DEF IsPrefix
<1> HIDE DEF u, v
<1>4. \A i \in 1 .. m : SubSeq(u, 1, m)[i] = u[i] /\ SubSeq(v, 1, m)[i] = v[i]
  BY <1>1, <1>2, <1>3
<1>5. ASSUME NEW k \in 1 .. n, k > n - m PROVE Occurs(suffix, s[k])
  <2> DEFINE i == n - k + 1
  <2>1. i \in 1 .. m /\ i \in 1 .. n /\ n - i + 1 = k /\ m - i + 1 \in 1 .. m
    BY <1>1, <1>3, <1>5
  <2>2. v[i] = s[k] /\ u[i] = suffix[m - i + 1] /\ u[i] = v[i]
    BY <1>2, <1>3, <1>4, <2>1
  <2>3. m - i + 1 \in DOMAIN suffix
    BY <2>1
  <2> QED
    BY <2>2, <2>3 DEF Occurs
<1> QED
  BY <1>3, <1>5

LEMMA SuffixTrimmed ==
  ASSUME NEW s \in Seq(STRING), NEW B, NEW suffix \in Seq(B)
  PROVE  LET t == TrimSuffix(s, suffix) IN
         /\ t \in Seq(STRING) /\ Len(t) <= Len(s)
         /\ \A k \in 1 .. Len(t) : t[k] = s[k]
         /\ \A k \in 1 .. Len(s) : k <= Len(t) \/ Occurs(suffix, s[k])
<1>0. Len(s) \in Nat /\ Len(suffix) \in Nat
  OBVIOUS
<1>1. CASE ~ IsSuffix(suffix, s)
  <2>1. TrimSuffix(s, suffix) = s
    BY <1>1 DEF TrimSuffix
  <2> QED
    BY <1>0, <2>1
<1>2. CASE IsSuffix(suffix, s)
  <2> DEFINE t == SubSeq(s, 1, Len(s) - Len(suffix))
  <2>1. TrimSuffix(s, suffix) = t
    BY <1>2 DEF TrimSuffix
  <2>2. /\ Len(suffix) <= Len(s)
        /\ \A k \in 1 .. Len(s) : k > Len(s) - Len(suffix) => Occurs(suffix, s[k])
    BY <1>2, SuffixIs
  <2>3. /\ t \in Seq(STRING) /\ Len(t) = Len(s) - Len(suffix)
        /\ \A k \in 1 .. Len(t) : t[k] = s[k]
    BY <1>0, <2>2
  <2> HIDE DEF t
  <2>4. \A k \in 1 .. Len(s) : k <= Len(t) \/ k > Len(s) - Len(suffix)
    BY <1>0, <2>3
  <2> QED
    BY <1>0, <2>1, <2>2, <2>3, <2>4
<1> QED
  BY <1>1, <1>2

\* Only what the suffix has is trimmed.
LEMMA SuffixKeeps ==
  ASSUME NEW s \in Seq(STRING), NEW B, NEW suffix \in Seq(B)
  PROVE  LET t == TrimSuffix(s, suffix) IN
         /\ t \in Seq(STRING)
         /\ \A a : Occurs(s, a) /\ ~ Occurs(suffix, a) => Occurs(t, a)
         /\ \A a, b : Follows(s, a, b) /\ ~ Occurs(suffix, b) => Follows(t, a, b)
         /\ \A a : Occurs(t, a) => Occurs(s, a)
<1> DEFINE t == TrimSuffix(s, suffix)
<1>1. /\ t \in Seq(STRING) /\ Len(t) <= Len(s)
      /\ \A k \in 1 .. Len(t) : t[k] = s[k]
      /\ \A k \in 1 .. Len(s) : k <= Len(t) \/ Occurs(suffix, s[k])
  BY SuffixTrimmed
<1> HIDE DEF t
<1>2. Len(s) \in Nat /\ Len(t) \in Nat /\ DOMAIN s = 1 .. Len(s) /\ DOMAIN t = 1 .. Len(t)
  BY <1>1
<1>3. ASSUME NEW a, Occurs(s, a), ~ Occurs(suffix, a) PROVE Occurs(t, a)
  <2>1. PICK q \in 1 .. Len(s) : s[q] = a
    BY <1>2, <1>3 DEF Occurs
  <2>2. q \in 1 .. Len(t)
    BY <1>1, <1>2, <1>3, <2>1
  <2> QED
    BY <1>1, <1>2, <2>1, <2>2 DEF Occurs
<1>4. ASSUME NEW a, NEW b, Follows(s, a, b), ~ Occurs(suffix, b) PROVE Follows(t, a, b)
  <2>1. PICK q, r \in 1 .. Len(s) : q < r /\ s[q] = a /\ s[r] = b
    BY <1>2, <1>4 DEF Follows
  <2>2. r <= Len(t)
    BY <1>1, <1>4, <2>1
  <2>3. q \in 1 .. Len(t) /\ r \in 1 .. Len(t)
    BY <1>2, <2>1, <2>2
  <2> QED
    BY <1>1, <1>2, <2>1, <2>3 DEF Follows
<1>5. ASSUME NEW a, Occurs(t, a) PROVE Occurs(s, a)
  <2>1. PICK q \in 1 .. Len(t) : t[q] = a
    BY <1>2, <1>5 DEF Occurs
  <2>2. q \in 1 .. Len(s)
    BY <1>1, <1>2
  <2> QED
    BY <1>1, <1>2, <2>1, <2>2 DEF Occurs
<1> QED
  BY <1>1, <1>3, <1>4, <1>5 DEF t

LEMMA SpaceTrimmed ==
  ASSUME NEW s \in Seq(STRING)
  PROVE  LET t == TrimSpace(s) IN
         /\ t \in Seq(STRING)
         /\ \E d \in 0 .. 1 :
              /\ \A k \in 1 .. Len(t) : k + d \in 1 .. Len(s) /\ t[k] = s[k + d]
              /\ \A k \in 1 .. Len(s) : s[k] \in AllSpaces \/ k - d \in 1 .. Len(t)
<1>0. Len(s) \in Nat
  OBVIOUS
<1>1. CASE s # <<>> /\ s[1] \in AllSpaces
  <2> DEFINE t == Tail(s)
  <2>1. TrimSpace(s) = t
    BY <1>1 DEF TrimSpace
  <2>2. /\ t \in Seq(STRING) /\ Len(t) = Len(s) - 1
        /\ \A k \in 1 .. Len(t) : t[k] = s[k + 1]
    BY <1>1
  <2> HIDE DEF t
  <2>3. \A k \in 1 .. Len(t) : k + 1 \in 1 .. Len(s)
    BY <1>0, <2>2
  <2>4. \A k \in 1 .. Len(s) : s[k] \in AllSpaces \/ k - 1 \in 1 .. Len(t)
    BY <1>0, <1>1, <2>2
  <2>5. 1 \in 0 .. 1
    OBVIOUS
  <2> QED
    BY <2>1, <2>2, <2>3, <2>4, <2>5
<1>2. CASE ~ (s # <<>> /\ s[1] \in AllSpaces) /\ s # <<>> /\ Last(s) \in AllSpaces
  <2> DEFINE t == SubSeq(s, 1, Len(s) - 1)
  <2>1. TrimSpace(s) = t
    BY <1>2 DEF TrimSpace, Front
  <2>2. /\ t \in Seq(STRING) /\ Len(t) = Len(s) - 1
        /\ \A k \in 1 .. Len(t) : t[k] = s[k]
    <3> DEFINE m == Len(s) - 1
    <3>1. Len(s) > 0
      BY <1>2
    <3>2. m \in 0 .. Len(s)
      BY <1>0, <3>1
    <3>3. t = SubSeq(s, 1, m)
      OBVIOUS
    <3> HIDE DEF m
    <3>4. t \in Seq(STRING) /\ Len(t) = m /\ \A k \in 1 .. Len(t) : t[k] = s[k]
      BY <1>0, <3>2, <3>3
    <3> QED
      BY <3>4 DEF m
  <2> HIDE DEF t
  <2>3. \A k \in 1 .. Len(t) : k + 0 \in 1 .. Len(s) /\ k + 0 = k
    BY <1>0, <2>2
  <2>4. \A k \in 1 .. Len(s) : s[k] \in AllSpaces \/ k - 0 \in 1 .. Len(t)
    BY <1>0, <1>2, <2>2 DEF Last
  <2>5. 0 \in 0 .. 1
    OBVIOUS
  <2> QED
    BY <2>1, <2>2, <2>3, <2>4, <2>5
<1>3. CASE ~ (s # <<>> /\ s[1] \in AllSpaces) /\ ~ (s # <<>> /\ Last(s) \in AllSpaces)
  <2>1. TrimSpace(s) = s
    BY <1>3 DEF TrimSpace
  <2>2. \A k \in 1 .. Len(s) : k + 0 = k /\ k - 0 = k
    BY <1>0
  <2>3. 0 \in 0 .. 1
    OBVIOUS
  <2> QED
    BY <2>1, <2>2, <2>3
<1> QED
  BY <1>1, <1>2, <1>3

\* Only white space is trimmed.
LEMMA SpaceKeeps ==
  ASSUME NEW s \in Seq(STRING)
  PROVE  LET t == TrimSpace(s) IN
         /\ t \in Seq(STRING)
         /\ \A a : Occurs(s, a) /\ a \notin AllSpaces => Occurs(t, a)
         /\ \A a, b : Follows(s, a, b) /\ a \notin AllSpaces /\ b \notin AllSpaces => Follows(t, a, b)
         /\ \A a : Occurs(t, a) => Occurs(s, a)
<1> DEFINE t == TrimSpace(s)
<1>1. t \in Seq(STRING)
  BY SpaceTrimmed
<1>2. PICK d \in 0 .. 1 :
        /\ \A k \in 1 .. Len(t) : k + d \in 1 .. Len(s) /\ t[k] = s[k + d]
        /\ \A k \in 1 .. Len(s) : s[k] \in AllSpaces \/ k - d \in 1 .. Len(t)
  BY SpaceTrimmed
<1> HIDE DEF t
<1>3. Len(s) \in Nat /\ Len(t) \in Nat /\ DOMAIN s = 1 .. Len(s) /\ DOMAIN t = 1 .. Len(t)
  BY <1>1
<1>4. ASSUME NEW k \in 1 .. Len(s), s[k] \notin AllSpaces
      PROVE  k - d \in 1 .. Len(t) /\ t[k - d] = s[k]
  <2>1. k - d \in 1 .. Len(t)
    BY <1>2, <1>4
  <2>2. k - d + d = k
    BY <1>3
  <2> QED
    BY <1>2, <2>1, <2>2
<1>5. ASSUME NEW a, Occurs(s, a), a \notin AllSpaces PROVE Occurs(t, a)
  <2>1. PICK q \in 1 .. Len(s) : s[q] = a
    BY <1>3, <1>5 DEF Occurs
  <2> QED
    BY <1>3, <1>4, <1>5, <2>1 DEF Occurs
<1>6. ASSUME NEW a, NEW b, Follows(s, a, b), a \notin AllSpaces, b \notin AllSpaces
      PROVE  Follows(t, a, b)
  <2>1. PICK q, r \in 1 .. Len(s) : q < r /\ s[q] = a /\ s[r] = b
    BY <1>3, <1>6 DEF Follows
  <2>2. q - d < r - d
    BY <1>3, <2>1
  <2>3. /\ q - d \in 1 .. Len(t) /\ t[q - d] = a
        /\ r - d \in 1 .. Len(t) /\ t[r - d] = b
    BY <1>4, <1>6, <2>1
  <2> QED
    BY <1>3, <2>2, <2>3 DEF Follows
<1>7. ASSUME NEW a, Occurs(t, a) PROVE Occurs(s, a)
  BY <1>2, <1>3, <1>7 DEF Occurs
<1> QED
  BY <1>1, <1>5, <1>6, <1>7 DEF t

\* What comes after a prefix.
LEMMA PrefixTrimmed ==
  ASSUME NEW s \in Seq(STRING), NEW B, NEW prefix \in Seq(B), IsPrefix(prefix, s)
  PROVE  LET t == TrimPrefix(s, prefix) IN
         /\ t \in Seq(STRING) /\ Len(s) = Len(prefix) + Len(t)
         /\ \A k \in 1 .. Len(prefix) : s[k] = prefix[k]
         /\ \A k \in 1 .. Len(t) : t[k] = s[Len(prefix) + k]
<1> DEFINE n == Len(prefix)
           t == SubSeq(s, n + 1, Len(s))
<1>1. n \in Nat /\ Len(s) \in Nat /\ n <= Len(s)
  BY DEF IsPrefix
<1>2. TrimPrefix(s, prefix) = t
  BY DEF TrimPrefix
<1>3. t \in Seq(STRING) /\ Len(t) = Len(s) - n /\ \A k \in 1 .. Len(t) : t[k] = s[n + k]
  BY <1>1
<1>4. \A k \in 1 .. n : SubSeq(s, 1, n)[k] = s[k] /\ SubSeq(prefix, 1, n)[k] = prefix[k]
  BY <1>1
<1>5. SubSeq(s, 1, n) = SubSeq(prefix, 1, n)
  BY DEF IsPrefix
<1> HIDE DEF t
<1> QED
  BY <1>1, <1>2, <1>3, <1>4, <1>5

LEMMA PrefixKeeps ==
  ASSUME NEW s \in Seq(STRING), NEW B, NEW prefix \in Seq(B)
  PROVE  LET t == TrimPrefix(s, prefix) IN
         /\ t \in Seq(STRING)
         /\ \A a : Occurs(s, a) => Occurs(prefix, a) \/ Occurs(t, a)
         /\ \A a, b : Follows(s, a, b) =>
              Occurs(prefix, a) \/ Occurs(prefix, b) \/ Follows(t, a, b)
         /\ \A a, b : Len(prefix) = 1 /\ Follows(s, a, b) => Occurs(t, b)
<1> DEFINE n == Len(prefix)
           t == TrimPrefix(s, prefix)
<1>1. /\ Len(s) \in Nat /\ n \in Nat /\ DOMAIN s = 1 .. Len(s) /\ DOMAIN prefix = 1 .. n
  OBVIOUS
<1>2. CASE ~ IsPrefix(prefix, s)
  <2>1. TrimPrefix(s, prefix) = s
    BY <1>2 DEF TrimPrefix
  <2>2. \A a, b : Follows(s, a, b) => Occurs(s, b)
    BY DEF Follows, Occurs
  <2> QED
    BY <2>1, <2>2
<1>3. CASE IsPrefix(prefix, s)
  <2>1. /\ t \in Seq(STRING) /\ Len(s) = n + Len(t)
        /\ \A k \in 1 .. n : s[k] = prefix[k]
        /\ \A k \in 1 .. Len(t) : t[k] = s[n + k]
    BY <1>3, PrefixTrimmed
  <2> HIDE DEF t, n
  <2>2. Len(t) \in Nat /\ DOMAIN t = 1 .. Len(t)
    BY <2>1
  <2>3. ASSUME NEW k \in 1 .. Len(s)
        PROVE  \/ k \in 1 .. n /\ Occurs(prefix, s[k])
               \/ k > n /\ k - n \in 1 .. Len(t) /\ t[k - n] = s[k]
    <3>1. CASE k <= n
      <4>1. k \in 1 .. n
        BY <1>1, <3>1
      <4> QED
        BY <1>1, <2>1, <4>1 DEF Occurs
    <3>2. CASE k > n
      <4>1. k - n \in 1 .. Len(t) /\ n + (k - n) = k
        BY <1>1, <2>1, <2>2, <3>2
      <4> QED
        BY <2>1, <3>2, <4>1
    <3> QED
      BY <1>1, <3>1, <3>2
  <2>4. ASSUME NEW a, Occurs(s, a) PROVE Occurs(prefix, a) \/ Occurs(t, a)
    <3>1. PICK q \in 1 .. Len(s) : s[q] = a
      BY <1>1, <2>4 DEF Occurs
    <3> QED
      BY <2>2, <2>3, <3>1 DEF Occurs
  <2>5. ASSUME NEW a, NEW b, Follows(s, a, b)
        PROVE  /\ Occurs(prefix, a) \/ Occurs(prefix, b) \/ Follows(t, a, b)
               /\ n = 1 => Occurs(t, b)
    <3>1. PICK q, r \in 1 .. Len(s) : q < r /\ s[q] = a /\ s[r] = b
      BY <1>1, <2>5 DEF Follows
    <3>2. n = 1 => r > n
      BY <1>1, <3>1
    <3>3. n = 1 => Occurs(t, b)
      <4>1. r > n => r - n \in 1 .. Len(t) /\ t[r - n] = b
        BY <1>1, <2>3, <3>1
      <4> QED
        BY <2>2, <3>2, <4>1 DEF Occurs
    <3>4. Occurs(prefix, a) \/ Occurs(prefix, b) \/ Follows(t, a, b)
      <4> SUFFICES ASSUME ~ Occurs(prefix, a), ~ Occurs(prefix, b) PROVE Follows(t, a, b)
        OBVIOUS
      <4>1. /\ q - n \in 1 .. Len(t) /\ t[q - n] = a
            /\ r - n \in 1 .. Len(t) /\ t[r - n] = b
        BY <2>3, <3>1
      <4>2. q - n < r - n
        BY <1>1, <3>1
      <4> QED
        BY <2>2, <4>1, <4>2 DEF Follows
    <3> QED
      BY <3>3, <3>4
  <2> QED
    BY <2>1, <2>4, <2>5 DEF t, n
<1> QED
  BY <1>2, <1>3

LEMMA PrefixOccurs ==
  ASSUME NEW s \in Seq(STRING), NEW B, NEW prefix \in Seq(B), IsPrefix(prefix, s),
         NEW k \in 1 .. Len(prefix)
  PROVE  Occurs(s, prefix[k])
<1>1. s[k] = prefix[k]
  BY PrefixTrimmed
<1>2. k \in DOMAIN s
  BY DEF IsPrefix
<1> QED
  BY <1>1, <1>2 DEF Occurs

=============================================================================
