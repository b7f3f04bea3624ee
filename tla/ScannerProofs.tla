--------------------------- MODULE ScannerProofs ---------------------------
(***************************************************************************)
(* Proofs about module Scanner, for every text, and about what it and      *)
(* module Wire are built from: loops, sequences and concatenation.         *)
(***************************************************************************)
EXTENDS Scanner, SequenceTheorems, FiniteSetTheorems, WellFoundedInduction, TLAPS

-----------------------------------------------------------------------------
(* Recursive functions: the loops and sums of the models. *)

LEMMA Least ==
    ASSUME NEW T, T \subseteq Nat, T # {}
    PROVE  \E x \in T : \A y \in T : x <= y
<1> DEFINE Lt == {p \in Nat \X Nat : p[1] < p[2]}
<1>1. Lt = OpToRel(<,Nat)
  BY Zenon DEF OpToRel
<1>2. IsWellFoundedOn(Lt, Nat)
  BY <1>1, NatLessThanWellFounded
<1> HIDE DEF Lt
<1>3. PICK x \in T : \A y \in T : ~(<<y, x>> \in Lt)
  BY <1>2, WFMin
<1>4. ASSUME NEW y \in T PROVE x <= y
  <2>1. x \in Nat /\ y \in Nat
    OBVIOUS
  <2>2. ~(y < x)
    BY <1>3, <2>1 DEF Lt
  <2> QED BY <2>1, <2>2
<1> QED BY <1>4

\* Induction: a set of numbers that has 0, and with each number the next one.
LEMMA Induction ==
    ASSUME NEW T, 0 \in T, \A n \in Nat : n \in T => n + 1 \in T
    PROVE  Nat \subseteq T
<1> DEFINE U == Nat \ T
<1> SUFFICES ASSUME U # {} PROVE FALSE
  OBVIOUS
<1>1. PICK x \in U : \A y \in U : x <= y
  BY Least
<1>2. x - 1 \in Nat /\ x = (x - 1) + 1
  BY <1>1
<1>3. x - 1 \in T
  BY <1>1, <1>2
<1> QED BY <1>1, <1>2, <1>3

\* Primitive recursion: a function with a given start, and a step to each next value.
Steps(S) == [(Nat \ {0}) \X S -> S]

Follows(f, n, S, x, step) ==
    f \in [0..n -> S] /\ f[0] = x /\ \A k \in 1..n : f[k] = step[<<k, f[k - 1]>>]

LEMMA Recursion ==
    ASSUME NEW S, NEW x \in S, NEW step \in Steps(S)
    PROVE  \A n \in Nat : \E f : Follows(f, n, S, x, step)
<1> USE DEF Steps, Follows
<1> DEFINE Solves(f, n) == f[0] = x /\ \A k \in 1..n : f[k] = step[<<k, f[k - 1]>>]
           T == {n \in Nat : \E f \in [0..n -> S] : Solves(f, n)}
<1>1. 0 \in T
  <2>1. [k \in 0..0 |-> x] \in [0..0 -> S] /\ Solves([k \in 0..0 |-> x], 0)
    OBVIOUS
  <2> QED BY <2>1
<1>2. ASSUME NEW n \in Nat, n \in T PROVE n + 1 \in T
  <2>1. PICK f \in [0..n -> S] : Solves(f, n)
    BY <1>2
  <2> DEFINE g == [k \in 0..(n + 1) |-> IF k = n + 1 THEN step[<<n + 1, f[n]>>] ELSE f[k]]
  <2>2. <<n + 1, f[n]>> \in (Nat \ {0}) \X S
    OBVIOUS
  <2>3. g \in [0..(n + 1) -> S]
    BY <2>2
  <2>4. Solves(g, n + 1)
    <3>1. g[0] = x
      BY <2>1
    <3>2. ASSUME NEW k \in 1..(n + 1) PROVE g[k] = step[<<k, g[k - 1]>>]
      <4>1. k - 1 \in 0..n /\ k - 1 # n + 1 /\ k \in 0..(n + 1)
        OBVIOUS
      <4>2. g[k - 1] = f[k - 1]
        BY <4>1
      <4>3. CASE k = n + 1
        <5>1. g[k] = step[<<n + 1, f[n]>>] /\ k - 1 = n
          BY <4>1, <4>3
        <5> HIDE DEF g
        <5> QED BY <4>2, <4>3, <5>1
      <4>4. CASE k # n + 1
        <5>1. k \in 1..n /\ k \in 0..n
          BY <4>4
        <5>2. g[k] = f[k]
          BY <4>1, <4>4
        <5>3. f[k] = step[<<k, f[k - 1]>>]
          BY <2>1, <5>1
        <5> QED BY <4>2, <5>2, <5>3
      <4> QED BY <4>3, <4>4
    <3> QED BY <3>1, <3>2
  <2> HIDE DEF g, Solves
  <2> QED BY <2>3, <2>4
<1> HIDE DEF T
<1>3. Nat \subseteq T
  BY <1>1, <1>2, Induction
<1>4. ASSUME NEW n \in Nat PROVE \E f : Follows(f, n, S, x, step)
  <2>1. n \in T
    BY <1>3
  <2>2. PICK f \in [0..n -> S] : Solves(f, n)
    BY <2>1 DEF T
  <2>3. Follows(f, n, S, x, step)
    BY <2>2
  <2> HIDE DEF Follows
  <2> QED BY <2>3
<1> QED BY <1>4

\* A loop: no round leaves the body's argument as it was, each other one takes a step.
LEMMA IteratedRounds ==
    ASSUME NEW S, NEW body \in [S -> S], NEW start \in S
    PROVE  /\ Iterated(body, start, 0) = start
           /\ \A n \in Nat : /\ Iterated(body, start, n) \in S
                             /\ Iterated(body, start, n + 1) = body[Iterated(body, start, n)]
<1> DEFINE Is(n, r) == r = [k \in 0..n |-> IF k = 0 THEN start ELSE body[r[k - 1]]]
           Round(n) == CHOOSE r : Is(n, r)
<1>1. ASSUME NEW n \in Nat
      PROVE  /\ Round(n) \in [0..n -> S] /\ Round(n)[0] = start
             /\ \A k \in 1..n : Round(n)[k] = body[Round(n)[k - 1]]
  <2>1. PICK step \in Steps(S) : \A p \in (Nat \ {0}) \X S : step[p] = body[p[2]]
    <3>1. [p \in (Nat \ {0}) \X S |-> body[p[2]]] \in Steps(S)
      BY DEF Steps
    <3> QED BY <3>1
  <2>2. PICK f : Follows(f, n, S, start, step)
    BY <2>1, Recursion
  <2> f \in [0..n -> S] /\ f[0] = start /\ \A k \in 1..n : f[k] = step[<<k, f[k - 1]>>]
    BY <2>2 DEF Follows
  <2>3. ASSUME NEW k \in 1..n PROVE f[k] = body[f[k - 1]]
    <3>1. <<k, f[k - 1]>> \in (Nat \ {0}) \X S
      OBVIOUS
    <3> QED BY <2>1, <2>2, <3>1
  <2>4. Is(n, f)
    <3>1. f = [k \in 0..n |-> f[k]]
      OBVIOUS
    <3>2. ASSUME NEW k \in 0..n PROVE f[k] = IF k = 0 THEN start ELSE body[f[k - 1]]
      BY <2>2, <2>3
    <3>3. [k \in 0..n |-> f[k]] = [k \in 0..n |-> IF k = 0 THEN start ELSE body[f[k - 1]]]
      BY <3>2
    <3> QED BY <3>1, <3>3
  <2> HIDE DEF Is
  <2>5. Is(n, Round(n))
    BY <2>4
  <2> DEFINE r == Round(n)
  <2>6. r = [k \in 0..n |-> IF k = 0 THEN start ELSE body[r[k - 1]]]
    BY <2>5 DEF Is
  <2> HIDE DEF r
  <2>7. r[0] = start /\ \A k \in 1..n : r[k] = body[r[k - 1]]
    BY <2>6
  <2> DEFINE T == {k \in Nat : k <= n => r[k] \in S}
  <2>8. 0 \in T
    BY <2>7
  <2>9. ASSUME NEW k \in Nat, k \in T PROVE k + 1 \in T
    BY <2>7, <2>9
  <2> HIDE DEF T
  <2>10. Nat \subseteq T
    BY <2>8, <2>9, Induction
  <2>11. ASSUME NEW k \in 0..n PROVE r[k] \in S
    <3>1. k \in T
      BY <2>10
    <3> QED BY <3>1 DEF T
  <2>12. r \in [0..n -> S]
    BY <2>6, <2>11
  <2> QED BY <2>7, <2>12 DEF r
<1> HIDE DEF Round
<1>2. ASSUME NEW n \in Nat PROVE Round(n + 1)[n] = Round(n)[n]
  <2> DEFINE T == {k \in Nat : k <= n => Round(n + 1)[k] = Round(n)[k]}
  <2>1. 0 \in T
    BY <1>1
  <2>2. ASSUME NEW k \in Nat, k \in T PROVE k + 1 \in T
    <3>1. CASE k + 1 <= n
      <4>1. k + 1 \in 1..n /\ k + 1 \in 1..(n + 1) /\ (k + 1) - 1 = k
        BY <3>1
      <4>2. Round(n)[k + 1] = body[Round(n)[k]] /\ Round(n + 1)[k + 1] = body[Round(n + 1)[k]]
        BY <1>1, <4>1
      <4> QED BY <2>2, <3>1, <4>2
    <3> QED BY <3>1
  <2> HIDE DEF T
  <2>3. n \in T
    BY <2>1, <2>2, Induction
  <2> QED BY <2>3 DEF T
<1>3. ASSUME NEW n \in Nat PROVE Iterated(body, start, n) = Round(n)[n]
  BY DEF Iterated, Round
<1>4. ASSUME NEW n \in Nat
      PROVE  /\ Iterated(body, start, n) \in S
             /\ Iterated(body, start, n + 1) = body[Iterated(body, start, n)]
  <2>1. Round(n + 1)[n + 1] = body[Round(n + 1)[n]]
    <3>1. n + 1 \in 1..(n + 1) /\ (n + 1) - 1 = n
      OBVIOUS
    <3> QED BY <1>1, <3>1
  <2>2. Round(n)[n] \in S
    BY <1>1
  <2> QED BY <1>2, <1>3, <2>1, <2>2
<1> QED BY <1>1, <1>3, <1>4

LEMMA Associative ==
    ASSUME NEW S, NEW s \in Seq(S), NEW t \in Seq(S), NEW u \in Seq(S)
    PROVE  s \o (t \o u) = (s \o t) \o u
OBVIOUS

\* f holds the concatenations of the first sequences of seqs.
Concatenates(f, seqs, S) ==
    /\ f \in [0..Len(seqs) -> Seq(S)]
    /\ f[0] = <<>>
    /\ \A k \in 1..Len(seqs) : f[k] = f[k - 1] \o seqs[k]

LEMMA ConcatenationExists ==
    ASSUME NEW S, NEW seqs \in Seq(Seq(S))
    PROVE  \E f : Concatenates(f, seqs, S)
<1>1. PICK step \in Steps(Seq(S)) :
         \A p \in (Nat \ {0}) \X Seq(S) :
            step[p] = IF p[1] <= Len(seqs) THEN p[2] \o seqs[p[1]] ELSE p[2]
  <2> DEFINE step == [p \in (Nat \ {0}) \X Seq(S) |->
                        IF p[1] <= Len(seqs) THEN p[2] \o seqs[p[1]] ELSE p[2]]
  <2>1. ASSUME NEW p \in (Nat \ {0}) \X Seq(S)
        PROVE  (IF p[1] <= Len(seqs) THEN p[2] \o seqs[p[1]] ELSE p[2]) \in Seq(S)
    OBVIOUS
  <2>2. step \in [(Nat \ {0}) \X Seq(S) -> Seq(S)]
    BY <2>1
  <2>3. step \in Steps(Seq(S))
    BY <2>2 DEF Steps
  <2> QED BY <2>3
<1>2. <<>> \in Seq(S) /\ Len(seqs) \in Nat
  OBVIOUS
<1>3. PICK f : Follows(f, Len(seqs), Seq(S), <<>>, step)
  BY <1>1, <1>2, Recursion
<1>4. f \in [0..Len(seqs) -> Seq(S)] /\ f[0] = <<>>
      /\ \A k \in 1..Len(seqs) : f[k] = step[<<k, f[k - 1]>>]
  BY <1>3 DEF Follows
<1>5. ASSUME NEW k \in 1..Len(seqs) PROVE f[k] = f[k - 1] \o seqs[k]
  <2>1. f[k - 1] \in Seq(S) /\ k \in Nat \ {0} /\ k <= Len(seqs)
    <3>1. k - 1 \in 0..Len(seqs) /\ k \in Nat \ {0} /\ k <= Len(seqs)
      BY <1>2
    <3> QED BY <1>4, <3>1
  <2>2. <<k, f[k - 1]>> \in (Nat \ {0}) \X Seq(S)
    BY <2>1
  <2> QED BY <1>1, <1>4, <2>1, <2>2
<1>6. Concatenates(f, seqs, S)
  BY <1>4, <1>5 DEF Concatenates
<1> QED BY <1>6

LEMMA FlattenIs ==
    ASSUME NEW S, NEW seqs \in Seq(Seq(S)), NEW f, Concatenates(f, seqs, S)
    PROVE  FlattenSeq(seqs) = f[Len(seqs)]
<1> DEFINE n == Len(seqs)
<1>1. /\ n \in Nat /\ f \in [0..n -> Seq(S)] /\ f[0] = <<>>
      /\ \A k \in 1..n : f[k] = f[k - 1] \o seqs[k] /\ seqs[k] \in Seq(S)
  <2>1. n \in Nat /\ \A k \in 1..n : seqs[k] \in Seq(S)
    OBVIOUS
  <2> QED BY <2>1 DEF Concatenates
<1> DEFINE Is(r) == r = [i \in 1..n |-> IF i = 1 THEN seqs[i] ELSE r[i - 1] \o seqs[i]]
           flatten == CHOOSE r : Is(r)
<1>2. CASE n = 0
  BY <1>1, <1>2 DEF FlattenSeq
<1>3. CASE n # 0
  <2>1. FlattenSeq(seqs) = flatten[n]
    BY <1>3 DEF FlattenSeq
  <2> DEFINE g == [i \in 1..n |-> f[i]]
  <2>2. g = [i \in 1..n |-> IF i = 1 THEN seqs[i] ELSE g[i - 1] \o seqs[i]]
    <3>1. ASSUME NEW i \in 1..n PROVE f[i] = IF i = 1 THEN seqs[i] ELSE g[i - 1] \o seqs[i]
      <4>1. CASE i = 1
        <5>1. 1 \in 1..n /\ 1 - 1 = 0
          BY <1>1, <1>3
        <5>2. f[1] = f[0] \o seqs[1] /\ seqs[1] \in Seq(S)
          BY <1>1, <5>1
        <5> QED BY <1>1, <4>1, <5>2, ConcatEmptySeq
      <4>2. CASE i # 1
        <5>1. i - 1 \in 1..n
          BY <4>2
        <5> QED BY <1>1, <4>2, <5>1
      <4> QED BY <4>1, <4>2
    <3> QED BY <3>1
  <2> HIDE DEF g
  <2>3. Is(g)
    BY <2>2
  <2> HIDE DEF Is
  <2>4. Is(flatten)
    BY <2>3
  <2> HIDE DEF flatten
  <2>5. flatten = [i \in 1..n |-> IF i = 1 THEN seqs[i] ELSE flatten[i - 1] \o seqs[i]]
    BY <2>4 DEF Is
  <2> DEFINE T == {k \in Nat : k + 1 <= n => flatten[k + 1] = f[k + 1]}
  <2>6. 0 \in T
    <3>1. 1 \in 1..n /\ 1 - 1 = 0
      BY <1>1, <1>3
    <3>2. f[1] = seqs[1]
      <4>1. f[1] = f[0] \o seqs[1] /\ seqs[1] \in Seq(S)
        BY <1>1, <3>1
      <4> QED BY <1>1, <4>1, ConcatEmptySeq
    <3>3. flatten[1] = seqs[1]
      BY <2>5, <3>1
    <3> QED BY <3>2, <3>3
  <2>7. ASSUME NEW k \in Nat, k \in T PROVE k + 1 \in T
    <3>1. CASE k + 2 <= n
      <4>1. k + 1 \in 1..n /\ k + 2 \in 1..n /\ k + 2 # 1 /\ (k + 2) - 1 = k + 1
        BY <1>1, <3>1
      <4>2. flatten[k + 2] = flatten[k + 1] \o seqs[k + 2]
        BY <2>5, <4>1
      <4>3. f[k + 2] = f[k + 1] \o seqs[k + 2]
        BY <1>1, <4>1
      <4>4. flatten[k + 1] = f[k + 1] /\ (k + 1) + 1 = k + 2 /\ k + 1 \in Nat
        BY <2>7, <4>1
      <4>5. flatten[k + 2] = f[k + 2]
        BY <4>2, <4>3, <4>4
      <4> QED BY <4>4, <4>5
    <3>2. CASE ~(k + 2 <= n)
      <4>1. ~((k + 1) + 1 <= n) /\ k + 1 \in Nat
        BY <1>1, <3>2
      <4> QED BY <4>1
    <3> QED BY <3>1, <3>2
  <2> HIDE DEF T
  <2>8. n - 1 \in T
    <3>1. n - 1 \in Nat
      BY <1>1, <1>3
    <3>2. Nat \subseteq T
      BY <2>6, <2>7, Induction
    <3> QED BY <3>1, <3>2
  <2>9. flatten[n] = f[n]
    BY <1>1, <1>3, <2>8 DEF T
  <2> QED BY <2>1, <2>9
<1> QED BY <1>1, <1>2, <1>3

\* FlattenSeq, from the left and from the right.
LEMMA FlattenSteps ==
    ASSUME NEW S, NEW seqs \in Seq(Seq(S)), NEW s \in Seq(S)
    PROVE  /\ FlattenSeq(seqs) \in Seq(S)
           /\ FlattenSeq(Append(seqs, s)) = FlattenSeq(seqs) \o s
           /\ FlattenSeq(<<s>> \o seqs) = s \o FlattenSeq(seqs)
<1> DEFINE n == Len(seqs)
<1>1. PICK f : Concatenates(f, seqs, S)
  BY ConcatenationExists
<1>2. /\ n \in Nat /\ f \in [0..n -> Seq(S)] /\ f[0] = <<>>
      /\ \A k \in 1..n : f[k] = f[k - 1] \o seqs[k] /\ seqs[k] \in Seq(S)
  BY <1>1 DEF Concatenates
<1>3. FlattenSeq(seqs) = f[n] /\ f[n] \in Seq(S)
  BY <1>1, <1>2, FlattenIs
<1>4. FlattenSeq(Append(seqs, s)) = f[n] \o s
  <2> DEFINE g == [k \in 0..(n + 1) |-> IF k = n + 1 THEN f[n] \o s ELSE f[k]]
             longer == Append(seqs, s)
  <2>1. longer \in Seq(Seq(S)) /\ Len(longer) = n + 1 /\ longer[n + 1] = s
        /\ \A k \in 1..n : longer[k] = seqs[k]
    OBVIOUS
  <2>2. g \in [0..(n + 1) -> Seq(S)]
    BY <1>2
  <2>3. ASSUME NEW k \in 1..(n + 1) PROVE g[k] = g[k - 1] \o longer[k]
    <3>1. k - 1 \in 0..n /\ g[k - 1] = f[k - 1]
      BY <1>2
    <3>2. CASE k = n + 1
      <4>1. g[k] = f[n] \o s /\ k - 1 = n /\ longer[k] = s
        BY <1>2, <2>1, <3>2
      <4> HIDE DEF g, longer
      <4> QED BY <3>1, <4>1
    <3>3. CASE k # n + 1
      <4>1. k \in 1..n /\ g[k] = f[k] /\ longer[k] = seqs[k]
        BY <1>2, <2>1, <3>3
      <4> HIDE DEF g, longer
      <4> QED BY <1>2, <3>1, <4>1
    <3> QED BY <3>2, <3>3
  <2>4. g[0] = <<>> /\ g[n + 1] = f[n] \o s
    BY <1>2
  <2> HIDE DEF g, longer
  <2>5. Concatenates(g, longer, S)
    BY <2>1, <2>2, <2>3, <2>4 DEF Concatenates
  <2>6. FlattenSeq(longer) = g[n + 1]
    BY <2>1, <2>5, FlattenIs
  <2> QED BY <2>4, <2>6 DEF longer
<1>5. FlattenSeq(<<s>> \o seqs) = s \o f[n]
  <2> DEFINE g == [k \in 0..(n + 1) |-> IF k = 0 THEN <<>> ELSE s \o f[k - 1]]
             longer == <<s>> \o seqs
  <2>1. longer \in Seq(Seq(S)) /\ Len(longer) = n + 1 /\ longer[1] = s
        /\ \A k \in 1..n : longer[k + 1] = seqs[k]
    OBVIOUS
  <2>2. ASSUME NEW k \in 1..(n + 1) PROVE f[k - 1] \in Seq(S) /\ s \o f[k - 1] \in Seq(S)
    <3>1. k - 1 \in 0..n
      BY <1>2
    <3> QED BY <1>2, <3>1
  <2>3. g \in [0..(n + 1) -> Seq(S)]
    BY <1>2, <2>2
  <2>4. ASSUME NEW k \in 1..(n + 1) PROVE g[k] = g[k - 1] \o longer[k]
    <3>1. g[k] = s \o f[k - 1]
      BY <1>2
    <3>2. CASE k = 1
      <4>1. g[k - 1] = <<>> /\ f[k - 1] = <<>> /\ longer[k] = s
        BY <1>2, <2>1, <3>2
      <4> HIDE DEF g, longer
      <4> QED BY <3>1, <4>1, ConcatEmptySeq
    <3>3. CASE k # 1
      <4>1. k - 1 \in 1..n /\ k - 2 \in 0..n /\ (k - 1) + 1 = k /\ (k - 1) - 1 = k - 2
        BY <1>2, <3>3
      <4>2. g[k - 1] = s \o f[k - 2] /\ k - 1 # 0
        BY <1>2, <3>3, <4>1
      <4>3. longer[k] = seqs[k - 1] /\ seqs[k - 1] \in Seq(S)
        BY <1>2, <2>1, <4>1
      <4> HIDE DEF g, longer
      <4>4. f[k - 1] = f[k - 2] \o seqs[k - 1] /\ f[k - 2] \in Seq(S)
        BY <1>2, <4>1
      <4>5. s \o (f[k - 2] \o seqs[k - 1]) = (s \o f[k - 2]) \o seqs[k - 1]
        <5>1. PICK a \in Seq(S), b \in Seq(S) : a = f[k - 2] /\ b = seqs[k - 1]
          BY <4>3, <4>4
        <5>2. s \o (a \o b) = (s \o a) \o b
          BY Associative
        <5> QED BY <5>1, <5>2
      <4> QED BY <3>1, <4>2, <4>3, <4>4, <4>5
    <3> QED BY <3>2, <3>3
  <2>5. g[0] = <<>> /\ g[n + 1] = s \o f[n]
    BY <1>2
  <2> HIDE DEF g, longer
  <2>6. Concatenates(g, longer, S)
    BY <2>1, <2>3, <2>4, <2>5 DEF Concatenates
  <2>7. FlattenSeq(longer) = g[n + 1]
    BY <2>1, <2>6, FlattenIs
  <2> QED BY <2>5, <2>7 DEF longer
<1> QED BY <1>3, <1>4, <1>5
-----------------------------------------------------------------------------
(* Sequences. *)

LEMMA Cut ==
    ASSUME NEW S, NEW s \in Seq(S), NEW t \in Seq(S)
    PROVE  /\ s \o t \in Seq(S) /\ Len(s \o t) = Len(s) + Len(t)
           /\ SubSeq(s \o t, 1, Len(s)) = s
           /\ From(s \o t, Len(s) + 1) = t
<1>1. s \o t \in Seq(S) /\ Len(s \o t) = Len(s) + Len(t)
  OBVIOUS
<1>2. SubSeq(s \o t, 1, Len(s)) = s
  OBVIOUS
<1>3. From(s \o t, Len(s) + 1) = t
  BY DEF From
<1> QED BY <1>1, <1>2, <1>3

\* Concatenation, of which the provers know no more than these facts.
Cat(s, t) == s \o t

LEMMA CatType ==
    ASSUME NEW S, NEW s \in Seq(S), NEW t \in Seq(S)
    PROVE  Cat(s, t) \in Seq(S)
BY ConcatProperties DEF Cat

LEMMA CatLen ==
    ASSUME NEW S, NEW s \in Seq(S), NEW t \in Seq(S)
    PROVE  Len(Cat(s, t)) = Len(s) + Len(t) /\ Len(s) \in Nat /\ Len(t) \in Nat
BY ConcatProperties, LenProperties DEF Cat

LEMMA CatCut ==
    ASSUME NEW S, NEW s \in Seq(S), NEW t \in Seq(S)
    PROVE  SubSeq(Cat(s, t), 1, Len(s)) = s /\ From(Cat(s, t), Len(s) + 1) = t
BY Cut DEF Cat

LEMMA CatAssoc ==
    ASSUME NEW S, NEW s \in Seq(S), NEW t \in Seq(S), NEW u \in Seq(S)
    PROVE  Cat(s, Cat(t, u)) = Cat(Cat(s, t), u)
BY Associative DEF Cat

LEMMA CatEmpty == ASSUME NEW S, NEW s \in Seq(S) PROVE Cat(s, <<>>) = s /\ Cat(<<>>, s) = s
BY ConcatEmptySeq DEF Cat

One(c) == <<c>>

LEMMA CatFirst ==
    ASSUME NEW S, NEW c \in S, NEW t \in Seq(S)
    PROVE  /\ One(c) \in Seq(S) /\ Len(One(c)) = 1
           /\ Cat(One(c), t)[1] = c /\ \A k \in 1..Len(t) : Cat(One(c), t)[k + 1] = t[k]
BY DEF Cat, One

LEMMA Chain ==
    ASSUME NEW S, NEW a \in Seq(S), NEW b \in Seq(S), NEW c \in Seq(S), NEW d \in Seq(S),
           NEW e \in Seq(S), NEW f \in Seq(S)
    PROVE  Cat(Cat(Cat(Cat(Cat(a, b), c), d), e), f) = Cat(a, Cat(b, Cat(c, Cat(d, Cat(e, f)))))
<1>1. Cat(Cat(Cat(Cat(Cat(a, b), c), d), e), f) = Cat(Cat(Cat(Cat(a, b), c), d), Cat(e, f))
  <2>1. Cat(a, b) \in Seq(S)
    BY CatType
  <2>2. Cat(Cat(a, b), c) \in Seq(S)
    BY <2>1, CatType
  <2>3. Cat(Cat(Cat(a, b), c), d) \in Seq(S)
    BY <2>2, CatType
  <2> QED BY <2>3, CatAssoc
<1>2. Cat(Cat(Cat(Cat(a, b), c), d), Cat(e, f)) = Cat(Cat(Cat(a, b), c), Cat(d, Cat(e, f)))
  <2>1. Cat(e, f) \in Seq(S) /\ Cat(a, b) \in Seq(S)
    BY CatType
  <2>2. Cat(Cat(a, b), c) \in Seq(S)
    BY <2>1, CatType
  <2> QED BY <2>1, <2>2, CatAssoc
<1>3. Cat(Cat(Cat(a, b), c), Cat(d, Cat(e, f))) = Cat(Cat(a, b), Cat(c, Cat(d, Cat(e, f))))
  <2>1. Cat(e, f) \in Seq(S) /\ Cat(a, b) \in Seq(S)
    BY CatType
  <2>2. Cat(d, Cat(e, f)) \in Seq(S)
    BY <2>1, CatType
  <2> QED BY <2>1, <2>2, CatAssoc
<1>4. Cat(Cat(a, b), Cat(c, Cat(d, Cat(e, f)))) = Cat(a, Cat(b, Cat(c, Cat(d, Cat(e, f)))))
  <2>1. Cat(e, f) \in Seq(S)
    BY CatType
  <2>2. Cat(d, Cat(e, f)) \in Seq(S)
    BY <2>1, CatType
  <2>3. Cat(c, Cat(d, Cat(e, f))) \in Seq(S)
    BY <2>2, CatType
  <2> QED BY <2>3, CatAssoc
<1> QED BY <1>1, <1>2, <1>3, <1>4

LEMMA FromType == ASSUME NEW s \in Seq(Byte), NEW k \in Nat \ {0} PROVE From(s, k) \in Seq(Byte)
BY DEF From

LEMMA IteratedFixed ==
    ASSUME NEW S, NEW body \in [S -> S], NEW start \in S, NEW m \in Nat,
           body[Iterated(body, start, m)] = Iterated(body, start, m), NEW n \in Nat, m <= n
    PROVE  Iterated(body, start, n) = Iterated(body, start, m)
<1> DEFINE T == {k \in Nat : Iterated(body, start, m + k) = Iterated(body, start, m)}
<1>1. 0 \in T
  OBVIOUS
<1>2. ASSUME NEW k \in Nat, k \in T PROVE k + 1 \in T
  <2>1. PICK j \in Nat : j = m + k /\ j + 1 = m + (k + 1)
    OBVIOUS
  <2>2. Iterated(body, start, j + 1) = body[Iterated(body, start, j)]
    BY IteratedRounds
  <2>3. Iterated(body, start, j) = Iterated(body, start, m)
    BY <1>2, <2>1
  <2>4. Iterated(body, start, m + (k + 1)) = Iterated(body, start, m)
    BY <2>1, <2>2, <2>3
  <2> QED BY <2>4
<1> HIDE DEF T
<1>3. n - m \in T
  BY <1>1, <1>2, Induction
<1>4. m + (n - m) = n
  OBVIOUS
<1> QED BY <1>3, <1>4 DEF T

LEMMA FlattenFirst ==
    ASSUME NEW S, NEW seqs \in Seq(Seq(S)), NEW s \in Seq(S), NEW whole, whole = <<s>> \o seqs
    PROVE  FlattenSeq(whole) = Cat(s, FlattenSeq(seqs))
BY FlattenSteps, Zenon DEF Cat

LEMMA FlattenLast ==
    ASSUME NEW S, NEW seqs \in Seq(Seq(S)), NEW s \in Seq(S), NEW whole, whole = Append(seqs, s)
    PROVE  FlattenSeq(whole) = Cat(FlattenSeq(seqs), s)
BY FlattenSteps, Zenon DEF Cat

LEMMA FlattenType ==
    ASSUME NEW S, NEW seqs \in Seq(Seq(S))
    PROVE  FlattenSeq(seqs) \in Seq(S) /\ FlattenSeq(<<>>) = <<>>
<1>1. <<>> \in Seq(S)
  OBVIOUS
<1> QED BY <1>1, FlattenSteps DEF FlattenSeq

LEMMA EmptyIsUnit == ASSUME NEW S, NEW s \in Seq(S) PROVE s \o <<>> = s /\ <<>> \o s = s
BY ConcatEmptySeq

LEMMA ByteTypes == \A c \in Byte : One(c) \in Seq(Byte)
<1>1. <<>> \in Seq(Byte)
  OBVIOUS
<1> QED BY <1>1, CatFirst
-----------------------------------------------------------------------------
(* The lexer: its states, and how it reads a text in two parts. *)

Modes == {"start", "slash", "dash", "line", "text", "block", "blockStar", "blockSlash"}

LexerState == [mode: Modes, depth: Int, rest: Seq(Byte)]

LEMMA AtFields ==
    /\ \A m, d, r : At(m, d, r).mode = m /\ At(m, d, r).depth = d /\ At(m, d, r).rest = r
    /\ \A m \in Modes, d \in Int, r \in Seq(Byte) : At(m, d, r) \in LexerState
    /\ \A st \in LexerState : /\ st = At(st.mode, st.depth, st.rest)
                              /\ st.mode \in Modes /\ st.depth \in Int /\ st.rest \in Seq(Byte)
BY DEF At, LexerState

\* A step of the lexer from a state in mode m.
Stepped(m, d, r, c) ==
    IF m = "start" THEN IF c \in Spaces THEN At("start", d, r) ELSE At(TextMode(c), d, <<c>>)
    ELSE IF m = "slash" THEN IF c = Star THEN At("block", 1, <<>>) ELSE At("text", d, Append(r, c))
    ELSE IF m = "dash" THEN IF c = Dash THEN At("line", d, <<>>) ELSE At("text", d, Append(r, c))
    ELSE IF m = "line" THEN At(IF c \in {LF, CR} THEN "start" ELSE "line", d, r)
    ELSE IF m = "text" THEN At("text", d, Append(r, c))
    ELSE IF m = "blockStar" /\ c = Slash THEN At(IF d = 1 THEN "start" ELSE "block", d - 1, r)
    ELSE IF m = "blockSlash" /\ c = Star THEN At("block", d + 1, r)
    ELSE At(BlockMode(c), d, r)

LEMMA LexerSteps ==
    ASSUME NEW m \in Modes, NEW d \in Int, NEW r \in Seq(Byte), NEW c \in Byte
    PROVE  LexerStep(At(m, d, r), c) = Stepped(m, d, r, c)
<1>1. At(m, d, r).mode = m /\ At(m, d, r).depth = d /\ At(m, d, r).rest = r
  BY AtFields
<1>2. CASE m = "start"
  BY <1>1, <1>2 DEF LexerStep, Stepped
<1>3. CASE m = "slash"
  BY <1>1, <1>3 DEF LexerStep, Stepped
<1>4. CASE m = "dash"
  BY <1>1, <1>4 DEF LexerStep, Stepped
<1>5. CASE m = "line"
  BY <1>1, <1>5 DEF LexerStep, Stepped
<1>6. CASE m = "text"
  BY <1>1, <1>6 DEF LexerStep, Stepped
<1>7. CASE m = "block"
  BY <1>1, <1>7 DEF LexerStep, Stepped
<1>8. CASE m = "blockStar"
  BY <1>1, <1>8 DEF LexerStep, Stepped
<1>9. CASE m = "blockSlash"
  BY <1>1, <1>9 DEF LexerStep, Stepped
<1> QED BY <1>2, <1>3, <1>4, <1>5, <1>6, <1>7, <1>8, <1>9 DEF Modes

LEMMA StartByte ==
    ASSUME NEW c \in Byte, c \notin Spaces
    PROVE  LexerStep(At("start", 0, <<>>), c) = At(TextMode(c), 0, <<c>>)
<1>1. "start" \in Modes /\ 0 \in Int /\ <<>> \in Seq(Byte)
  BY DEF Modes
<1> QED BY <1>1, LexerSteps DEF Stepped

LEMMA TextByte ==
    ASSUME NEW m \in {"slash", "dash", "text"}, NEW r \in Seq(Byte), NEW c \in Byte,
           m = "slash" => c # Star, m = "dash" => c # Dash
    PROVE  LexerStep(At(m, 0, r), c) = At("text", 0, Append(r, c))
<1>1. m \in Modes /\ 0 \in Int
  BY DEF Modes
<1>2. CASE m = "slash"
  BY <1>1, <1>2, LexerSteps DEF Stepped
<1>3. CASE m = "dash"
  BY <1>1, <1>3, LexerSteps DEF Stepped
<1>4. CASE m = "text"
  BY <1>1, <1>4, LexerSteps DEF Stepped
<1> QED BY <1>2, <1>3, <1>4

LEMMA ModeOfByte ==
    \A c : /\ TextMode(c) \in {"slash", "dash", "text"}
           /\ BlockMode(c) \in {"block", "blockStar", "blockSlash"}
BY DEF TextMode, BlockMode

LEMMA LexerStepType ==
    ASSUME NEW st \in LexerState, NEW c \in Byte
    PROVE  LexerStep(st, c) \in LexerState
<1>1. PICK m \in Modes, d \in Int, r \in Seq(Byte) : st = At(m, d, r)
  BY AtFields
<1>2. Append(r, c) \in Seq(Byte) /\ <<>> \in Seq(Byte) /\ <<c>> \in Seq(Byte) /\ 1 \in Int
      /\ d - 1 \in Int /\ d + 1 \in Int
  OBVIOUS
<1>3. \A q \in Modes, e \in Int, t \in Seq(Byte) : At(q, e, t) \in LexerState
  BY AtFields
<1>4. TextMode(c) \in Modes /\ BlockMode(c) \in Modes /\ \A b : (IF b THEN "start" ELSE "line") \in Modes
      /\ (IF b THEN "start" ELSE "block") \in Modes
  BY ModeOfByte DEF Modes
<1>5. {"start", "slash", "dash", "text", "block", "line"} \subseteq Modes
  BY DEF Modes
<1> DEFINE u == LexerStep(At(m, d, r), c)
<1>6. u = Stepped(m, d, r, c)
  BY LexerSteps
<1> HIDE DEF u
<1>7. u \in LexerState
  BY <1>2, <1>3, <1>4, <1>5, <1>6 DEF Stepped
<1> QED BY <1>1, <1>7 DEF u

\* f holds the states of a lexer that reads s.
Reads(f, st, s) ==
    /\ f \in [0..Len(s) -> LexerState] /\ f[0] = st
    /\ \A k \in 1..Len(s) : f[k] = LexerStep(f[k - 1], s[k])

LEMMA ReadsExists ==
    ASSUME NEW st \in LexerState, NEW s \in Seq(Byte)
    PROVE  \E f : Reads(f, st, s)
<1> DEFINE n == Len(s)
           step == [p \in (Nat \ {0}) \X LexerState |-> IF p[1] <= n THEN LexerStep(p[2], s[p[1]]) ELSE p[2]]
<1>0. n \in Nat /\ \A k \in 1..n : s[k] \in Byte
  OBVIOUS
<1>1. step \in Steps(LexerState)
  <2>1. ASSUME NEW p \in (Nat \ {0}) \X LexerState
        PROVE  (IF p[1] <= n THEN LexerStep(p[2], s[p[1]]) ELSE p[2]) \in LexerState
    <3>1. p[1] \in Nat \ {0} /\ p[2] \in LexerState
      OBVIOUS
    <3>2. CASE p[1] <= n
      <4>1. s[p[1]] \in Byte
        BY <1>0, <3>1, <3>2
      <4>2. LexerStep(p[2], s[p[1]]) \in LexerState
        BY <3>1, <4>1, LexerStepType
      <4> QED BY <3>2, <4>2
    <3> QED BY <3>1, <3>2
  <2> QED BY <2>1 DEF Steps
<1>2. ASSUME NEW k \in 1..n, NEW u \in LexerState PROVE step[<<k, u>>] = LexerStep(u, s[k])
  <2>1. <<k, u>> \in (Nat \ {0}) \X LexerState /\ k <= n
    BY <1>0
  <2> QED BY <2>1
<1> HIDE DEF step
<1>3. PICK f : Follows(f, n, LexerState, st, step)
  BY <1>0, <1>1, Recursion
<1>4. f \in [0..n -> LexerState] /\ f[0] = st /\ \A k \in 1..n : f[k] = step[<<k, f[k - 1]>>]
  BY <1>3 DEF Follows
<1>5. ASSUME NEW k \in 1..n PROVE f[k] = LexerStep(f[k - 1], s[k])
  <2>1. k - 1 \in 0..n
    BY <1>0
  <2>2. f[k - 1] \in LexerState
    BY <1>4, <2>1
  <2> QED BY <1>2, <1>4, <2>2
<1>6. Reads(f, st, s)
  BY <1>4, <1>5 DEF Reads
<1> QED BY <1>6

\* The recursion of Lexer is what it says: its last state.
LEMMA ReadsIs ==
    ASSUME NEW st \in LexerState, NEW s \in Seq(Byte), NEW f, Reads(f, st, s)
    PROVE  Lexer(st, s) = f[Len(s)]
<1> DEFINE n == Len(s)
           Is(g) == g = [i \in 0..n |-> IF i = 0 THEN st ELSE LexerStep(g[i - 1], s[i])]
           r == CHOOSE g : Is(g)
<1>1. n \in Nat /\ f \in [0..n -> LexerState] /\ f[0] = st
      /\ \A k \in 1..n : f[k] = LexerStep(f[k - 1], s[k])
  BY DEF Reads
<1>2. Is(f)
  <2>1. f = [k \in 0..n |-> f[k]]
    BY <1>1
  <2>2. ASSUME NEW k \in 0..n PROVE f[k] = IF k = 0 THEN st ELSE LexerStep(f[k - 1], s[k])
    <3>1. k = 0 \/ k \in 1..n
      BY <1>1
    <3> QED BY <1>1, <3>1
  <2>3. [k \in 0..n |-> f[k]] = [k \in 0..n |-> IF k = 0 THEN st ELSE LexerStep(f[k - 1], s[k])]
    BY <2>2
  <2> QED BY <2>1, <2>3
<1>3. Lexer(st, s) = r[n]
  BY Zenon DEF Lexer
<1> HIDE DEF Is
<1>4. Is(r)
  BY <1>2
<1> HIDE DEF r
<1>5. r[0] = st /\ \A k \in 1..n : r[k] = LexerStep(r[k - 1], s[k])
  <2>1. r = [i \in 0..n |-> IF i = 0 THEN st ELSE LexerStep(r[i - 1], s[i])]
    BY <1>4 DEF Is
  <2>2. \A k \in 0..n : r[k] = IF k = 0 THEN st ELSE LexerStep(r[k - 1], s[k])
    BY <2>1
  <2>3. 0 \in 0..n /\ \A k \in 1..n : k \in 0..n /\ k # 0
    BY <1>1
  <2> QED BY <2>2, <2>3
<1> DEFINE T == {k \in Nat : k <= n => r[k] = f[k]}
<1>6. 0 \in T
  BY <1>1, <1>5
<1>7. ASSUME NEW k \in Nat, k \in T PROVE k + 1 \in T
  <2> SUFFICES ASSUME k + 1 <= n PROVE r[k + 1] = f[k + 1]
    OBVIOUS
  <2>1. k + 1 \in 1..n /\ (k + 1) - 1 = k /\ k <= n
    BY <1>1
  <2>2. r[k] = f[k]
    BY <1>7, <2>1
  <2>3. r[k + 1] = LexerStep(r[k], s[k + 1]) /\ f[k + 1] = LexerStep(f[k], s[k + 1])
    BY <1>1, <1>5, <2>1
  <2> QED BY <2>2, <2>3, Zenon
<1> HIDE DEF T
<1>8. n \in T
  BY <1>1, <1>6, <1>7, Induction
<1> QED BY <1>1, <1>3, <1>8 DEF T

\* A text may be read in two parts.
LEMMA ReadsSplit ==
    ASSUME NEW st \in LexerState, NEW s \in Seq(Byte), NEW f, Reads(f, st, s), NEW k \in 0..Len(s)
    PROVE  /\ Lexer(st, SubSeq(s, 1, k)) = f[k]
           /\ f[k] \in LexerState
           /\ Lexer(f[k], From(s, k + 1)) = f[Len(s)]
<1> DEFINE n == Len(s)
           a == SubSeq(s, 1, k)
           b == From(s, k + 1)
           g == [i \in 0..k |-> f[i]]
           h == [i \in 0..(n - k) |-> f[k + i]]
<1>1. n \in Nat /\ k \in Nat /\ k <= n /\ n - k \in Nat
  OBVIOUS
<1>2. f \in [0..n -> LexerState] /\ f[0] = st /\ \A i \in 1..n : f[i] = LexerStep(f[i - 1], s[i])
  BY DEF Reads
<1>3. a \in Seq(Byte) /\ Len(a) = k /\ \A i \in 1..k : a[i] = s[i]
  BY <1>1
<1>4. b \in Seq(Byte) /\ Len(b) = n - k /\ \A i \in 1..(n - k) : b[i] = s[k + i]
  BY <1>1 DEF From
<1>5. f[k] \in LexerState
  BY <1>1, <1>2
<1> HIDE DEF a, b
<1>6. g \in [0..k -> LexerState] /\ g[0] = st /\ g[k] = f[k]
  BY <1>1, <1>2
<1>7. ASSUME NEW i \in 1..k PROVE g[i] = LexerStep(g[i - 1], a[i])
  <2>1. i \in 0..k /\ i - 1 \in 0..k /\ i \in 1..n
    BY <1>1
  <2>2. g[i] = f[i] /\ g[i - 1] = f[i - 1]
    BY <2>1
  <2>3. f[i] = LexerStep(f[i - 1], s[i]) /\ a[i] = s[i]
    BY <1>2, <1>3, <2>1
  <2> QED BY <2>2, <2>3, Zenon
<1>8. h \in [0..(n - k) -> LexerState] /\ h[0] = f[k] /\ h[n - k] = f[n]
  <2>1. \A i \in 0..(n - k) : k + i \in 0..n
    BY <1>1
  <2>2. k + 0 = k /\ k + (n - k) = n /\ 0 \in 0..(n - k) /\ n - k \in 0..(n - k)
    BY <1>1
  <2> QED BY <1>2, <2>1, <2>2
<1>9. ASSUME NEW i \in 1..(n - k) PROVE h[i] = LexerStep(h[i - 1], b[i])
  <2>1. i \in 0..(n - k) /\ i - 1 \in 0..(n - k) /\ k + i \in 1..n /\ (k + i) - 1 = k + (i - 1)
    BY <1>1
  <2>2. h[i] = f[k + i] /\ h[i - 1] = f[k + (i - 1)]
    BY <2>1
  <2>3. f[k + i] = LexerStep(f[(k + i) - 1], s[k + i]) /\ b[i] = s[k + i]
    BY <1>2, <1>4, <2>1
  <2> QED BY <2>1, <2>2, <2>3, Zenon
<1> HIDE DEF g, h
<1>10. Reads(g, st, a)
  BY <1>3, <1>6, <1>7 DEF Reads
<1>11. Reads(h, f[k], b)
  BY <1>4, <1>8, <1>9 DEF Reads
<1>12. Lexer(st, a) = g[k]
  BY <1>3, <1>10, ReadsIs
<1>13. Lexer(f[k], b) = h[n - k]
  BY <1>4, <1>5, <1>11, ReadsIs
<1> QED BY <1>5, <1>6, <1>8, <1>12, <1>13 DEF a, b

LEMMA LexerStarts ==
    /\ LexerStart \in LexerState /\ LexerStart = At("start", 0, <<>>)
    /\ \A st \in LexerState : Lexer(st, <<>>) = st
<1>1. <<>> \in Seq(Byte) /\ Len(<<>>) = 0 /\ 0 \in Int /\ "start" \in Modes
  BY DEF Modes
<1>2. LexerStart \in LexerState
  BY <1>1, AtFields DEF LexerStart
<1>3. ASSUME NEW st \in LexerState PROVE Lexer(st, <<>>) = st
  <2>1. PICK f : Reads(f, st, <<>>)
    BY <1>1, ReadsExists
  <2>2. f[0] = st
    BY <2>1 DEF Reads
  <2> QED BY <1>1, <2>1, <2>2, ReadsIs
<1> QED BY <1>2, <1>3 DEF LexerStart
-----------------------------------------------------------------------------
(* TrimSpace, and why the lexer does not tell a text from the trimmed one. *)

LEMMA MinIs == ASSUME NEW T, T \subseteq Nat, NEW m \in T, \A x \in T : m <= x PROVE Min(T) = m
<1>1. \A m1, m2 \in Nat : m1 <= m2 /\ m2 <= m1 => m1 = m2
  OBVIOUS
<1> QED BY <1>1 DEF Min

LEMMA MaxIs == ASSUME NEW T, T \subseteq Nat, NEW m \in T, \A x \in T : x <= m PROVE Max(T) = m
<1>1. \A m1, m2 \in Nat : m1 <= m2 /\ m2 <= m1 => m1 = m2
  OBVIOUS
<1> QED BY <1>1 DEF Max

LEMMA Greatest ==
    ASSUME NEW n \in Nat, NEW T, T \subseteq 0..n, T # {}
    PROVE  \E x \in T : \A y \in T : y <= x
<1> DEFINE U == {n - y : y \in T}
<1>1. U \subseteq Nat /\ U # {}
  <2>1. \A y \in T : y \in 0..n
    OBVIOUS
  <2>2. \A y \in 0..n : n - y \in Nat
    OBVIOUS
  <2>3. \A y \in T : n - y \in Nat /\ n - y \in U
    BY <2>1, <2>2
  <2> QED BY <2>3
<1>2. PICK u \in U : \A v \in U : u <= v
  BY <1>1, Least
<1>3. PICK x \in T : u = n - x
  OBVIOUS
<1>4. ASSUME NEW y \in T PROVE y <= x
  <2>1. n - x <= n - y
    BY <1>2, <1>3
  <2> QED BY <2>1
<1> QED BY <1>4

Blank(s, i) == s[i] \in Spaces

\* p and q are the first and the last place of s that is not blank.
Core(s, p, q) ==
    /\ p \in 1..Len(s) /\ q \in 1..Len(s) /\ p <= q
    /\ ~Blank(s, p) /\ ~Blank(s, q)
    /\ \A i \in 1..Len(s) : i < p \/ q < i => Blank(s, i)

\* TrimSpace takes the blanks around the core, and nothing else.
LEMMA TrimCore ==
    ASSUME NEW s \in Seq(Byte), NEW p, NEW q, Core(s, p, q)
    PROVE  TrimSpace(s) = SubSeq(s, p, q)
<1> DEFINE I == {i \in DOMAIN s : s[i] \notin Spaces}
<1>1. DOMAIN s = 1..Len(s) /\ Len(s) \in Nat
  OBVIOUS
<1>2. p \in I /\ q \in I /\ I \subseteq Nat
  BY <1>1 DEF Core, Blank
<1>3. \A i \in I : p <= i /\ i <= q
  BY <1>1 DEF Core, Blank
<1>4. TrimSpace(s) = IF I = {} THEN <<>> ELSE SubSeq(s, Min(I), Max(I))
  BY Zenon DEF TrimSpace
<1> HIDE DEF I
<1>5. Min(I) = p
  BY <1>2, <1>3, MinIs
<1>6. Max(I) = q
  BY <1>2, <1>3, MaxIs
<1>7. I # {}
  BY <1>2
<1> QED BY <1>4, <1>5, <1>6, <1>7, Zenon

LEMMA TrimBlank ==
    ASSUME NEW s \in Seq(Byte), \A i \in 1..Len(s) : Blank(s, i)
    PROVE  TrimSpace(s) = <<>>
<1>1. {i \in DOMAIN s : s[i] \notin Spaces} = {}
  BY DEF Blank
<1> QED BY <1>1, Zenon DEF TrimSpace

LEMMA TrimCases ==
    ASSUME NEW s \in Seq(Byte)
    PROVE  (\A i \in 1..Len(s) : Blank(s, i)) \/ \E p, q \in 1..Len(s) : Core(s, p, q)
<1> DEFINE I == {i \in 1..Len(s) : ~Blank(s, i)}
<1> SUFFICES ASSUME I # {} PROVE \E p, q \in 1..Len(s) : Core(s, p, q)
  OBVIOUS
<1>1. Len(s) \in Nat /\ I \subseteq Nat /\ I \subseteq 0..Len(s)
  OBVIOUS
<1>2. PICK p \in I : \A x \in I : p <= x
  BY <1>1, Least
<1>3. PICK q \in I : \A x \in I : x <= q
  BY <1>1, Greatest
<1>4. p \in 1..Len(s) /\ q \in 1..Len(s) /\ p <= q /\ ~Blank(s, p) /\ ~Blank(s, q)
  BY <1>2, <1>3
<1>5. ASSUME NEW i \in 1..Len(s), i < p \/ q < i PROVE Blank(s, i)
  <2>1. i \in I => p <= i /\ i <= q
    BY <1>2, <1>3
  <2>2. i \notin I
    BY <1>1, <1>4, <1>5, <2>1
  <2> QED BY <2>2
<1>6. Core(s, p, q)
  BY <1>4, <1>5 DEF Core
<1> QED BY <1>4, <1>6

LEMMA TrimTwice ==
    ASSUME NEW s \in Seq(Byte)
    PROVE  /\ TrimSpace(s) \in Seq(Byte) /\ Len(TrimSpace(s)) <= Len(s)
           /\ TrimSpace(TrimSpace(s)) = TrimSpace(s)
<1>0. <<>> \in Seq(Byte) /\ Len(<<>>) = 0 /\ Len(s) \in Nat
  OBVIOUS
<1>1. CASE \A i \in 1..Len(s) : Blank(s, i)
  <2>1. TrimSpace(s) = <<>> /\ TrimSpace(<<>>) = <<>>
    <3>1. \A i \in 1..Len(<<>>) : Blank(<<>>, i)
      OBVIOUS
    <3> QED BY <1>0, <1>1, <3>1, TrimBlank
  <2> QED BY <1>0, <2>1
<1>2. ASSUME NEW p \in 1..Len(s), NEW q \in 1..Len(s), Core(s, p, q)
      PROVE  /\ TrimSpace(s) \in Seq(Byte) /\ Len(TrimSpace(s)) <= Len(s)
             /\ TrimSpace(TrimSpace(s)) = TrimSpace(s)
  <2>1. PICK u : u = SubSeq(s, p, q)
    OBVIOUS
  <2>2. TrimSpace(s) = u
    BY <1>2, <2>1, TrimCore
  <2>3. p <= q /\ ~Blank(s, p) /\ ~Blank(s, q)
    BY <1>2 DEF Core
  <2>4. u \in Seq(Byte) /\ Len(u) = q - p + 1 /\ \A i \in 1..Len(u) : u[i] = s[p + i - 1]
    BY <2>1, <2>3
  <2>5. Len(u) \in 1..Len(s) /\ 1 \in 1..Len(u) /\ Len(u) \in 1..Len(u) /\ 1 <= Len(u)
    BY <1>0, <2>3, <2>4
  <2>6. u[1] = s[p] /\ u[Len(u)] = s[q]
    BY <1>0, <2>3, <2>4
  <2>7. \A i \in 1..Len(u) : ~(i < 1 \/ Len(u) < i)
    BY <2>5
  <2>8. Core(u, 1, Len(u))
    BY <2>3, <2>5, <2>6, <2>7, Zenon DEF Core, Blank
  <2>9. TrimSpace(u) = SubSeq(u, 1, Len(u))
    BY <2>4, <2>5, <2>8, TrimCore
  <2>10. SubSeq(u, 1, Len(u)) = u
    BY <2>4
  <2> QED BY <1>0, <2>2, <2>4, <2>5, <2>9, <2>10
<1> QED BY <1>1, <1>2, TrimCases

LEMMA TrimAppend ==
    ASSUME NEW s \in Seq(Byte), NEW c \in Byte, c \in Spaces
    PROVE  TrimSpace(Append(s, c)) = TrimSpace(s)
<1>1. PICK t : t = Append(s, c)
  OBVIOUS
<1>2. t \in Seq(Byte) /\ Len(t) = Len(s) + 1 /\ t[Len(s) + 1] = c /\ \A i \in 1..Len(s) : t[i] = s[i]
  BY <1>1
<1>3. Len(s) \in Nat /\ \A i \in 1..Len(t) : i \in 1..Len(s) \/ i = Len(s) + 1
  BY <1>2
<1>4. \A i \in 1..Len(s) : Blank(s, i) <=> Blank(t, i)
  BY <1>2 DEF Blank
<1>5. Blank(t, Len(s) + 1)
  BY <1>2 DEF Blank
<1>6. CASE \A i \in 1..Len(s) : Blank(s, i)
  <2>1. \A i \in 1..Len(t) : Blank(t, i)
    BY <1>3, <1>4, <1>5, <1>6
  <2> QED BY <1>1, <1>2, <1>6, <2>1, TrimBlank
<1>7. ASSUME NEW p \in 1..Len(s), NEW q \in 1..Len(s), Core(s, p, q)
      PROVE  TrimSpace(t) = TrimSpace(s)
  <2>1. p \in 1..Len(t) /\ q \in 1..Len(t) /\ p <= q /\ ~Blank(t, p) /\ ~Blank(t, q)
    BY <1>2, <1>3, <1>4, <1>7 DEF Core
  <2>2. ASSUME NEW i \in 1..Len(t), i < p \/ q < i PROVE Blank(t, i)
    BY <1>3, <1>4, <1>5, <1>7, <2>2 DEF Core
  <2>3. Core(t, p, q)
    BY <2>1, <2>2 DEF Core
  <2>4. SubSeq(t, p, q) = SubSeq(s, p, q)
    <3>1. p <= q /\ q <= Len(s) /\ 1 <= p
      BY <1>3, <2>1
    <3> QED BY <1>2, <1>3, <3>1
  <2> QED BY <1>2, <1>7, <2>3, <2>4, TrimCore
<1> QED BY <1>1, <1>6, <1>7, TrimCases

\* What the theorems compare of two states.
SameEnd(st, other) == st.depth = other.depth /\ TrimSpace(st.rest) = TrimSpace(other.rest)

\* The states after each byte of a text, from the start.
LEMMA LexedReads ==
    ASSUME NEW s \in Seq(Byte)
    PROVE  \E f : /\ Reads(f, LexerStart, s) /\ f[0] = LexerStart /\ f[Len(s)] = Lexed(s)
                  /\ \A k \in 0..Len(s) : f[k] \in LexerState /\ Lexed(SubSeq(s, 1, k)) = f[k]
                  /\ \A k \in 0..Len(s) : Lexer(f[k], From(s, k + 1)) = Lexed(s)
                  /\ \A k \in 1..Len(s) : f[k] = LexerStep(f[k - 1], s[k])
<1>1. LexerStart \in LexerState
  BY LexerStarts
<1>2. PICK f : Reads(f, LexerStart, s)
  BY <1>1, ReadsExists
<1>3. Lexed(s) = f[Len(s)]
  BY <1>1, <1>2, ReadsIs DEF Lexed
<1>4. f[0] = LexerStart /\ \A k \in 1..Len(s) : f[k] = LexerStep(f[k - 1], s[k])
  BY <1>2 DEF Reads
<1>5. ASSUME NEW k \in 0..Len(s)
      PROVE  f[k] \in LexerState /\ Lexed(SubSeq(s, 1, k)) = f[k] /\ Lexer(f[k], From(s, k + 1)) = Lexed(s)
  BY <1>1, <1>2, <1>3, ReadsSplit DEF Lexed
<1> QED BY <1>2, <1>3, <1>4, <1>5

\* A blank at the end of a text does not change its end,
LEMMA BlankStep ==
    ASSUME NEW st \in LexerState, NEW c \in Byte, c \in Spaces
    PROVE  SameEnd(LexerStep(st, c), st)
<1>1. PICK m \in Modes, d \in Int, r \in Seq(Byte) : st = At(m, d, r)
  BY AtFields
<1>2. c # Star /\ c # Slash /\ c # Dash
  BY DEF Spaces, Star, Slash, Dash
<1>3. TrimSpace(Append(r, c)) = TrimSpace(r)
  BY TrimAppend
<1>4. \A q, e, t : At(q, e, t).depth = e /\ At(q, e, t).rest = t
  BY AtFields
<1> DEFINE u == LexerStep(At(m, d, r), c)
<1>5. u = Stepped(m, d, r, c)
  BY LexerSteps
<1> HIDE DEF u
<1>6. \E q, t : u = At(q, d, t) /\ (t = r \/ t = Append(r, c))
  BY <1>2, <1>5 DEF Stepped
<1>7. u.depth = d /\ TrimSpace(u.rest) = TrimSpace(r)
  <2>1. PICK q, t : u = At(q, d, t) /\ (t = r \/ t = Append(r, c))
    BY <1>6
  <2>2. u.depth = d /\ u.rest = t
    BY <1>4, <2>1, Zenon
  <2> QED BY <1>3, <2>1, <2>2, Zenon
<1>8. At(m, d, r).depth = d /\ At(m, d, r).rest = r
  BY <1>4
<1> QED BY <1>1, <1>7, <1>8 DEF SameEnd, u

\* nor do many,
LEMMA BlankEnd ==
    ASSUME NEW s \in Seq(Byte), NEW q \in 0..Len(s), \A i \in 1..Len(s) : q < i => Blank(s, i)
    PROVE  SameEnd(Lexed(s), Lexed(SubSeq(s, 1, q)))
<1> DEFINE n == Len(s)
<1>0. n \in Nat /\ q \in Nat /\ q <= n /\ \A i \in 1..n : s[i] \in Byte
  OBVIOUS
<1>1. PICK f : /\ f[n] = Lexed(s)
               /\ \A k \in 0..n : f[k] \in LexerState /\ Lexed(SubSeq(s, 1, k)) = f[k]
               /\ \A k \in 1..n : f[k] = LexerStep(f[k - 1], s[k])
  BY LexedReads
<1> DEFINE T == {k \in Nat : q + k <= n => SameEnd(f[q + k], f[q])}
<1>2. 0 \in T
  <2>1. q + 0 = q
    BY <1>0
  <2> QED BY <2>1 DEF SameEnd
<1>3. ASSUME NEW k \in Nat, k \in T PROVE k + 1 \in T
  <2> SUFFICES ASSUME q + (k + 1) <= n PROVE SameEnd(f[q + (k + 1)], f[q])
    OBVIOUS
  <2>1. q + k \in 0..n /\ q + (k + 1) \in 1..n /\ q < q + (k + 1) /\ (q + (k + 1)) - 1 = q + k /\ q + k <= n
    BY <1>0
  <2>2. PICK a, b : a = q + k /\ b = q + (k + 1)
    OBVIOUS
  <2>3. f[b] = LexerStep(f[a], s[b]) /\ f[a] \in LexerState /\ s[b] \in Byte /\ s[b] \in Spaces
    BY <1>0, <1>1, <2>1, <2>2 DEF Blank
  <2>4. SameEnd(f[b], f[a])
    BY <2>3, BlankStep
  <2>5. SameEnd(f[a], f[q])
    BY <1>3, <2>1, <2>2
  <2>6. SameEnd(f[b], f[q])
    BY <2>4, <2>5, Zenon DEF SameEnd
  <2> QED BY <2>2, <2>6
<1> HIDE DEF T
<1>4. n - q \in T
  BY <1>0, <1>2, <1>3, Induction
<1>5. q + (n - q) = n
  BY <1>0
<1>6. SameEnd(f[n], f[q])
  BY <1>0, <1>4, <1>5 DEF T
<1> QED BY <1>1, <1>6

\* and blanks before a text are skipped.
LEMMA BlankStart ==
    ASSUME NEW s \in Seq(Byte), NEW k \in 0..Len(s), \A i \in 1..Len(s) : i <= k => Blank(s, i)
    PROVE  Lexed(s) = Lexed(From(s, k + 1))
<1> DEFINE n == Len(s)
<1>0. n \in Nat /\ k \in Nat /\ k <= n /\ \A i \in 1..n : s[i] \in Byte
  OBVIOUS
<1>1. PICK f : /\ f[0] = LexerStart
               /\ \A j \in 0..n : Lexer(f[j], From(s, j + 1)) = Lexed(s)
               /\ \A j \in 1..n : f[j] = LexerStep(f[j - 1], s[j])
  BY LexedReads
<1>2. <<>> \in Seq(Byte) /\ 0 \in Int /\ "start" \in Modes
  BY DEF Modes
<1>3. ASSUME NEW c \in Byte, c \in Spaces PROVE LexerStep(LexerStart, c) = LexerStart
  BY <1>2, <1>3, LexerSteps DEF LexerStart, Stepped
<1> DEFINE T == {j \in Nat : j <= k => f[j] = LexerStart}
<1>4. 0 \in T
  BY <1>1
<1>5. ASSUME NEW j \in Nat, j \in T PROVE j + 1 \in T
  <2> SUFFICES ASSUME j + 1 <= k PROVE f[j + 1] = LexerStart
    OBVIOUS
  <2>1. j + 1 \in 1..n /\ (j + 1) - 1 = j /\ j <= k
    BY <1>0
  <2>2. f[j + 1] = LexerStep(f[j], s[j + 1]) /\ s[j + 1] \in Byte /\ s[j + 1] \in Spaces
    BY <1>0, <1>1, <2>1 DEF Blank
  <2>3. f[j] = LexerStart
    BY <1>5, <2>1
  <2> QED BY <1>3, <2>2, <2>3, Zenon
<1> HIDE DEF T
<1>6. k \in T
  BY <1>0, <1>4, <1>5, Induction
<1>7. f[k] = LexerStart
  BY <1>0, <1>6 DEF T
<1> QED BY <1>0, <1>1, <1>7 DEF Lexed

\* TrimSpace changes nothing that the server tells apart.
LEMMA TrimEnd ==
    ASSUME NEW s \in Seq(Byte)
    PROVE  SameEnd(Lexed(TrimSpace(s)), Lexed(s))
<1>0. Len(s) \in Nat /\ <<>> \in Seq(Byte)
  OBVIOUS
<1>1. CASE \A i \in 1..Len(s) : Blank(s, i)
  <2>1. TrimSpace(s) = <<>>
    BY <1>1, TrimBlank
  <2>2. Len(s) \in 0..Len(s)
    BY <1>0
  <2>3. Lexed(s) = Lexed(From(s, Len(s) + 1))
    BY <1>1, <2>2, BlankStart
  <2>4. From(s, Len(s) + 1) = <<>>
    BY DEF From
  <2> QED BY <2>1, <2>3, <2>4, Zenon DEF SameEnd
<1>2. ASSUME NEW p \in 1..Len(s), NEW q \in 1..Len(s), Core(s, p, q)
      PROVE  SameEnd(Lexed(TrimSpace(s)), Lexed(s))
  <2>1. p <= q /\ \A i \in 1..Len(s) : i < p \/ q < i => Blank(s, i)
    BY <1>2 DEF Core
  <2>2. PICK a : a = SubSeq(s, 1, q)
    OBVIOUS
  <2>3. a \in Seq(Byte) /\ Len(a) = q /\ \A i \in 1..q : a[i] = s[i]
    BY <1>0, <2>2
  <2>4. q \in 0..Len(s) /\ p - 1 \in 0..Len(a) /\ (p - 1) + 1 = p
    BY <1>0, <2>1, <2>3
  <2>5. SameEnd(Lexed(s), Lexed(a))
    BY <2>1, <2>2, <2>4, BlankEnd
  <2>6. ASSUME NEW i \in 1..Len(a), i <= p - 1 PROVE Blank(a, i)
    <3>1. i \in 1..Len(s) /\ i < p /\ i \in 1..q
      BY <1>0, <2>3, <2>6
    <3> QED BY <2>1, <2>3, <3>1 DEF Blank
  <2>7. Lexed(a) = Lexed(From(a, (p - 1) + 1))
    BY <2>3, <2>4, <2>6, BlankStart
  <2>8. From(a, p) = SubSeq(s, p, q)
    BY <1>0, <2>1, <2>2, <2>3 DEF From
  <2>9. TrimSpace(s) = SubSeq(s, p, q)
    BY <1>2, TrimCore
  <2>10. Lexed(a) = Lexed(TrimSpace(s))
    BY <2>4, <2>7, <2>8, <2>9
  <2> QED BY <2>5, <2>10, Zenon DEF SameEnd
<1> QED BY <1>1, <1>2, TrimCases

LEMMA FromLines ==
    ASSUME NEW s \in Seq(Byte), LinesEndWithLF(s), NEW k \in 1..(Len(s) + 1)
    PROVE  LinesEndWithLF(From(s, k))
<1>1. PICK b : b = From(s, k)
  OBVIOUS
<1>2. Len(s) \in Nat /\ Len(b) = Len(s) - k + 1 /\ b \in Seq(Byte)
  BY <1>1 DEF From
<1>3. \A i \in 1..Len(b) : b[i] = s[k + i - 1] /\ k + i - 1 \in 1..Len(s)
  BY <1>1, <1>2 DEF From
<1>4. ASSUME NEW i \in 1..Len(b), b[i] = CR PROVE i < Len(b) /\ b[i + 1] = LF
  <2>1. PICK j \in 1..Len(s) : j = k + i - 1 /\ s[j] = CR
    BY <1>3, <1>4
  <2>2. j < Len(s) /\ s[j + 1] = LF
    BY <2>1 DEF LinesEndWithLF
  <2>3. i < Len(b) /\ i + 1 \in 1..Len(b) /\ k + (i + 1) - 1 = j + 1
    BY <1>2, <2>1, <2>2
  <2> QED BY <1>3, <2>2, <2>3
<1> QED BY <1>1, <1>2, <1>4 DEF LinesEndWithLF

LEMMA TrimLines ==
    ASSUME NEW s \in Seq(Byte), LinesEndWithLF(s)
    PROVE  LinesEndWithLF(TrimSpace(s))
<1>0. Len(s) \in Nat /\ <<>> \in Seq(Byte)
  OBVIOUS
<1>1. CASE \A i \in 1..Len(s) : Blank(s, i)
  <2>1. TrimSpace(s) = <<>>
    BY <1>1, TrimBlank
  <2>2. \A i \in DOMAIN (<<>>) : FALSE
    OBVIOUS
  <2> QED BY <2>1, <2>2 DEF LinesEndWithLF
<1>2. ASSUME NEW p \in 1..Len(s), NEW q \in 1..Len(s), Core(s, p, q)
      PROVE  LinesEndWithLF(TrimSpace(s))
  <2>1. PICK b : b = SubSeq(s, p, q)
    OBVIOUS
  <2>2. TrimSpace(s) = b
    BY <1>2, <2>1, TrimCore
  <2>3. p <= q /\ s[q] \notin Spaces
    BY <1>2 DEF Core, Blank
  <2>4. Len(b) = q - p + 1 /\ b \in Seq(Byte)
    BY <1>0, <2>1, <2>3
  <2>5. \A i \in 1..Len(b) : b[i] = s[p + i - 1] /\ p + i - 1 \in 1..q /\ p + i - 1 \in 1..Len(s)
    BY <1>0, <2>1, <2>3, <2>4
  <2>6. ASSUME NEW i \in 1..Len(b), b[i] = CR PROVE i < Len(b) /\ b[i + 1] = LF
    <3>1. PICK j \in 1..Len(s) : j = p + i - 1 /\ s[j] = CR /\ j \in 1..q
      BY <2>5, <2>6
    <3>2. s[j + 1] = LF
      <4>1. j \in DOMAIN s
        BY <3>1
      <4> QED BY <3>1, <4>1 DEF LinesEndWithLF
    <3>3. j # q
      BY <2>3, <3>1 DEF CR, Spaces
    <3>4. i < Len(b) /\ i + 1 \in 1..Len(b) /\ p + (i + 1) - 1 = j + 1
      BY <1>0, <2>4, <3>1, <3>3
    <3> QED BY <2>5, <3>2, <3>4
  <2> QED BY <2>2, <2>4, <2>6 DEF LinesEndWithLF
<1> QED BY <1>1, <1>2, TrimCases

\* What is left is in the text modes only, and begins with no blank.
LEMMA RestHead ==
    ASSUME NEW s \in Seq(Byte)
    PROVE  Lexed(s).rest \in Seq(Byte) /\ (Lexed(s).rest = <<>> \/ Lexed(s).rest[1] \notin Spaces)
<1> DEFINE Fine(r) == r = <<>> \/ r[1] \notin Spaces
           Right(m, r) == Fine(r) /\ (m \in {"slash", "dash", "text"} => r # <<>>)
           n == Len(s)
<1>0. n \in Nat /\ \A i \in 1..n : s[i] \in Byte
  OBVIOUS
<1>1. PICK f : /\ f[0] = LexerStart /\ f[n] = Lexed(s)
               /\ \A k \in 0..n : f[k] \in LexerState
               /\ \A k \in 1..n : f[k] = LexerStep(f[k - 1], s[k])
  BY LexedReads
<1>2. \A q, e, t : At(q, e, t).mode = q /\ At(q, e, t).depth = e /\ At(q, e, t).rest = t
  BY AtFields
<1>3. ASSUME NEW st \in LexerState, NEW c \in Byte, Right(st.mode, st.rest)
      PROVE  Right(LexerStep(st, c).mode, LexerStep(st, c).rest)
  <2>1. PICK m \in Modes, d \in Int, r \in Seq(Byte) : st = At(m, d, r)
    BY AtFields
  <2>2. Right(m, r)
    BY <1>2, <1>3, <2>1
  <2>3. ASSUME r # <<>> PROVE Append(r, c) # <<>> /\ Append(r, c)[1] = r[1]
    BY <2>3
  <2>4. <<c>> # <<>> /\ <<c>>[1] = c
    OBVIOUS
  <2> DEFINE u == LexerStep(At(m, d, r), c)
  <2>5. u = Stepped(m, d, r, c)
    BY LexerSteps
  <2> HIDE DEF u
  <2>6. \E q, e, t : u = At(q, e, t) /\ Right(q, t)
    <3> DEFINE Some(v) == \E q, e, t : v = At(q, e, t) /\ Right(q, t)
    <3>1. \A q, e, t : Right(q, t) => Some(At(q, e, t))
      OBVIOUS
    <3>2. Right("block", <<>>) /\ Right("line", <<>>)
      OBVIOUS
    <3>3. c \notin Spaces => \A q : Right(q, <<c>>)
      BY <2>4
    <3>4. m \in {"slash", "dash", "text"} => Right("text", Append(r, c))
      BY <2>2, <2>3
    <3>5. Right("start", r) /\ Right("line", r) /\ Right("block", r) /\ Right("blockStar", r)
          /\ Right("blockSlash", r)
      BY <2>2
    <3>6. Right(BlockMode(c), r)
      BY <3>5, ModeOfByte
    <3> HIDE DEF Some, Right
    <3>7. Some(u)
      BY <2>5, <3>1, <3>2, <3>3, <3>4, <3>5, <3>6 DEF Stepped
    <3> QED BY <3>7 DEF Some
  <2>7. PICK q, e, t : u = At(q, e, t) /\ Right(q, t)
    BY <2>6
  <2>8. u.mode = q /\ u.rest = t
    BY <1>2, <2>7
  <2>9. Right(u.mode, u.rest)
    BY <2>7, <2>8, Zenon
  <2> HIDE DEF Right
  <2> QED BY <2>1, <2>9, Zenon DEF u
<1> DEFINE T == {k \in Nat : k <= n => Right(f[k].mode, f[k].rest)}
<1>4. 0 \in T
  <2>1. f[0] = At("start", 0, <<>>)
    BY <1>1, LexerStarts
  <2>2. f[0].mode = "start" /\ f[0].rest = <<>>
    BY <1>2, <2>1
  <2> QED BY <2>2
<1>5. ASSUME NEW k \in Nat, k \in T PROVE k + 1 \in T
  <2> SUFFICES ASSUME k + 1 <= n PROVE Right(f[k + 1].mode, f[k + 1].rest)
    OBVIOUS
  <2>1. k + 1 \in 1..n /\ (k + 1) - 1 = k /\ k <= n /\ k \in 0..n
    BY <1>0
  <2>2. f[k + 1] = LexerStep(f[k], s[k + 1]) /\ s[k + 1] \in Byte /\ f[k] \in LexerState
    BY <1>0, <1>1, <2>1
  <2>3. Right(f[k].mode, f[k].rest)
    BY <1>5, <2>1
  <2> HIDE DEF Right
  <2> QED BY <1>3, <2>2, <2>3
<1> HIDE DEF T
<1>6. n \in T
  BY <1>0, <1>4, <1>5, Induction
<1>7. Fine(f[n].rest)
  BY <1>0, <1>6 DEF T
<1>8. f[n].rest \in Seq(Byte)
  BY <1>0, <1>1, AtFields
<1> QED BY <1>1, <1>7, <1>8
-----------------------------------------------------------------------------
(* Comments: a text that begins with none, line comments, and block comments. *)

LEMMA Whole == ASSUME NEW S, NEW s \in Seq(S) PROVE SubSeq(s, 1, Len(s)) = s
OBVIOUS

LEMMA TwoBytes == ASSUME NEW S, NEW s \in Seq(S), Len(s) = 2 PROVE s = <<s[1], s[2]>>
<1>1. PICK t : t = <<s[1], s[2]>>
  OBVIOUS
<1>2. s[1] \in S /\ s[2] \in S
  <2>1. \A k \in 1..Len(s) : s[k] \in S
    OBVIOUS
  <2>2. 1 \in 1..Len(s) /\ 2 \in 1..Len(s)
    OBVIOUS
  <2> QED BY <2>1, <2>2, Zenon
<1>3. t \in Seq(S) /\ Len(t) = 2 /\ t[1] = s[1] /\ t[2] = s[2]
  BY <1>1, <1>2
<1>4. \A i \in 1..2 : i = 1 \/ i = 2
  OBVIOUS
<1>5. \A i \in 1..Len(s) : s[i] = t[i]
  BY <1>3, <1>4
<1> QED BY <1>1, <1>3, <1>5, SeqEqual

LEMMA FirstByte == ASSUME NEW S, NEW s \in Seq(S), Len(s) >= 1 PROVE SubSeq(s, 1, 1) = <<s[1]>>
<1>1. PICK t, u : t = <<s[1]>> /\ u = SubSeq(s, 1, 1)
  OBVIOUS
<1>2. s[1] \in S
  OBVIOUS
<1>3. t \in Seq(S) /\ Len(t) = 1 /\ t[1] = s[1]
  BY <1>1, <1>2
<1>4. u \in Seq(S) /\ Len(u) = 1 /\ u[1] = s[1]
  BY <1>1
<1>5. \A i \in 1..Len(t) : t[i] = u[i]
  BY <1>3, <1>4
<1> QED BY <1>1, <1>3, <1>4, <1>5, SeqEqual

LEMMA PrefixTwo ==
    ASSUME NEW s \in Seq(Byte), NEW a, NEW b
    PROVE  IsPrefix(<<a, b>>, s) <=> Len(s) >= 2 /\ s[1] = a /\ s[2] = b
<1>1. SubSeq(<<a, b>>, 1, 2) = <<a, b>> /\ Len(<<a, b>>) = 2
  <2>1. <<a, b>> \in Seq({a, b}) /\ Len(<<a, b>>) = 2
    OBVIOUS
  <2> QED BY <2>1, Whole
<1>2. ASSUME Len(s) >= 2 PROVE SubSeq(s, 1, 2) = <<s[1], s[2]>>
  <2>1. SubSeq(s, 1, 2) \in Seq(Byte) /\ Len(SubSeq(s, 1, 2)) = 2
    BY <1>2
  <2>2. SubSeq(s, 1, 2)[1] = s[1] /\ SubSeq(s, 1, 2)[2] = s[2]
    BY <1>2
  <2>3. s[1] \in Byte /\ s[2] \in Byte
    BY <1>2
  <2>4. SubSeq(s, 1, 2) = <<SubSeq(s, 1, 2)[1], SubSeq(s, 1, 2)[2]>>
    BY <2>1, TwoBytes
  <2> QED BY <2>2, <2>4
<1>3. Len(s) \in Nat
  OBVIOUS
<1>4. IsPrefix(<<a, b>>, s) <=> Len(s) >= 2 /\ <<a, b>> = SubSeq(s, 1, 2)
  BY <1>1, <1>3 DEF IsPrefix
<1>5. \A x, y : <<a, b>> = <<x, y>> <=> a = x /\ b = y
  OBVIOUS
<1> QED BY <1>2, <1>4, <1>5

LEMMA IndexIs ==
    ASSUME NEW s \in Seq(Byte), NEW B
    PROVE  \/ IndexOf(s, B) = 0 /\ \A i \in 1..Len(s) : s[i] \notin B
           \/ /\ IndexOf(s, B) \in 1..Len(s) /\ s[IndexOf(s, B)] \in B
              /\ \A i \in 1..Len(s) : i < IndexOf(s, B) => s[i] \notin B
<1> DEFINE I == {i \in DOMAIN s : s[i] \in B}
<1>1. DOMAIN s = 1..Len(s) /\ Len(s) \in Nat /\ I \subseteq Nat
  OBVIOUS
<1>2. IndexOf(s, B) = IF I = {} THEN 0 ELSE Min(I)
  BY Zenon DEF IndexOf
<1>3. CASE I = {}
  BY <1>1, <1>2, <1>3
<1>4. CASE I # {}
  <2>1. PICK m \in I : \A x \in I : m <= x
    BY <1>1, <1>4, Least
  <2>2. Min(I) = m
    BY <1>1, <2>1, MinIs
  <2>3. IndexOf(s, B) = m
    BY <1>2, <1>4, <2>2, Zenon
  <2>4. m \in 1..Len(s) /\ s[m] \in B
    BY <1>1, <2>1
  <2>5. ASSUME NEW i \in 1..Len(s), i < m PROVE s[i] \notin B
    <3>1. i \in I => m <= i
      BY <2>1
    <3>2. ~(m <= i)
      BY <1>1, <2>4, <2>5
    <3> QED BY <1>1, <3>1, <3>2
  <2> QED BY <2>3, <2>4, <2>5
<1> QED BY <1>3, <1>4

\* A text that is trimmed and begins with no comment is what is left of it.
LEMMA PlainText ==
    ASSUME NEW t \in Seq(Byte), t = <<>> \/ t[1] \notin Spaces,
           ~IsPrefix(<<Dash, Dash>>, t), ~IsPrefix(<<Slash, Star>>, t)
    PROVE  Lexed(t).rest = t /\ Lexed(t).depth = 0
<1> DEFINE n == Len(t)
<1>0. n \in Nat /\ \A i \in 1..n : t[i] \in Byte
  OBVIOUS
<1>1. PICK f : /\ f[0] = LexerStart /\ f[n] = Lexed(t)
               /\ \A k \in 1..n : f[k] = LexerStep(f[k - 1], t[k])
  BY LexedReads
<1>2. \A q, e, r : At(q, e, r).depth = e /\ At(q, e, r).rest = r
  BY AtFields
<1>3. CASE t = <<>>
  <2>1. n = 0 /\ f[n] = At("start", 0, <<>>)
    BY <1>1, <1>3, LexerStarts
  <2> QED BY <1>1, <1>2, <1>3, <2>1
<1>4. CASE t # <<>>
  <2>1. n >= 1 /\ t[1] \notin Spaces /\ 1 \in 1..n /\ t[1] \in Byte
    BY <1>0, <1>4
  <2>2. n >= 2 => ~(t[1] = Dash /\ t[2] = Dash) /\ ~(t[1] = Slash /\ t[2] = Star)
    BY PrefixTwo
  <2> DEFINE M(k) == IF k = 1 THEN TextMode(t[1]) ELSE "text"
             Is(k) == f[k] = At(M(k), 0, SubSeq(t, 1, k))
             T == {k \in Nat : k + 1 <= n => Is(k + 1)}
  <2>3. Is(1)
    <3>1. f[1] = LexerStep(f[0], t[1])
      BY <1>1, <2>1
    <3>2. LexerStep(At("start", 0, <<>>), t[1]) = At(TextMode(t[1]), 0, <<t[1]>>)
      BY <2>1, StartByte
    <3>3. SubSeq(t, 1, 1) = <<t[1]>>
      BY <2>1, FirstByte
    <3> QED BY <1>1, <3>1, <3>2, <3>3, LexerStarts
  <2>4. 0 \in T
    BY <2>3
  <2>5. ASSUME NEW k \in Nat, k \in T PROVE k + 1 \in T
    <3> SUFFICES ASSUME (k + 1) + 1 <= n PROVE Is((k + 1) + 1)
      OBVIOUS
    <3>1. PICK j \in Nat : j = k + 1
      OBVIOUS
    <3>2. j \in 1..n /\ j + 1 \in 1..n /\ (j + 1) - 1 = j /\ j + 1 # 1
      BY <1>0, <3>1
    <3>3. f[j] = At(M(j), 0, SubSeq(t, 1, j))
      BY <2>5, <3>1, <3>2
    <3>4. f[j + 1] = LexerStep(f[j], t[j + 1])
      BY <1>1, <3>2
    <3>5. PICK r, c, m : /\ r = SubSeq(t, 1, j) /\ c = t[j + 1] /\ m = M(j)
                         /\ r \in Seq(Byte) /\ c \in Byte
      <4>1. SubSeq(t, 1, j) \in Seq(Byte)
        BY <3>2
      <4> QED BY <1>0, <3>2, <4>1
    <3>6. Append(r, c) = SubSeq(t, 1, j + 1)
      BY <3>2, <3>5
    <3>7. /\ m \in {"slash", "dash", "text"} /\ m \in Modes /\ 0 \in Int
          /\ (m = "slash" => c # Star) /\ (m = "dash" => c # Dash)
      <4>1. j = 1 => m = TextMode(t[1]) /\ c = t[2] /\ n >= 2
        BY <3>2, <3>5
      <4>2. j # 1 => m = "text"
        BY <3>5
      <4> QED BY <2>2, <4>1, <4>2 DEF TextMode, Modes
    <3>8. LexerStep(At(m, 0, r), c) = At("text", 0, Append(r, c))
      BY <3>5, <3>7, TextByte
    <3>9. M(j + 1) = "text"
      BY <3>2
    <3>10. f[j + 1] = At(M(j + 1), 0, SubSeq(t, 1, j + 1))
      <4> HIDE DEF M
      <4> QED BY <3>3, <3>4, <3>5, <3>6, <3>8, <3>9, Zenon
    <3> QED BY <3>1, <3>10
  <2> HIDE DEF T
  <2>6. n - 1 \in T /\ (n - 1) + 1 = n
    BY <1>0, <2>1, <2>4, <2>5, Induction
  <2>7. Is(n)
    BY <1>0, <2>6 DEF T
  <2>8. SubSeq(t, 1, n) = t
    OBVIOUS
  <2>9. Lexed(t) = At(M(n), 0, t)
    BY <1>1, <2>7, <2>8
  <2> HIDE DEF M
  <2> QED BY <1>2, <2>9
<1> QED BY <1>3, <1>4

\* How the lexer reads a line comment: up to a line feed, or to the carriage return
\* before it.
LEMMA LineRead ==
    ASSUME NEW t \in Seq(Byte), Len(t) >= 2, t[1] = Dash, t[2] = Dash, LinesEndWithLF(t),
           NEW e \in 2..Len(t), \A i \in 1..Len(t) : i < e => t[i] # LF
    PROVE  Lexed(SubSeq(t, 1, e)) = IF t[e] \in {LF, CR} THEN LexerStart ELSE At("line", 0, <<>>)
<1> DEFINE n == Len(t)
           Line == At("line", 0, <<>>)
           Is(k, st) == st = IF t[k] \in {LF, CR} THEN LexerStart ELSE Line
<1>0. n \in Nat /\ e \in Nat /\ e <= n /\ \A i \in 1..n : t[i] \in Byte
  OBVIOUS
<1>1. PICK f : /\ f[0] = LexerStart
               /\ \A k \in 0..n : Lexed(SubSeq(t, 1, k)) = f[k]
               /\ \A k \in 1..n : f[k] = LexerStep(f[k - 1], t[k])
  BY LexedReads
<1>2. <<>> \in Seq(Byte) /\ 0 \in Int /\ {"start", "dash", "line"} \subseteq Modes
  BY DEF Modes
<1>3. LexerStart = At("start", 0, <<>>)
  BY LexerStarts
<1>4. ASSUME NEW c \in Byte PROVE LexerStep(Line, c) = IF c \in {LF, CR} THEN LexerStart ELSE Line
  <2>1. LexerStep(Line, c) = At(IF c \in {LF, CR} THEN "start" ELSE "line", 0, <<>>)
    BY <1>2, LexerSteps DEF Stepped
  <2> HIDE DEF Line
  <2>2. CASE c \in {LF, CR}
    BY <1>3, <2>1, <2>2
  <2>3. CASE c \notin {LF, CR}
    BY <2>1, <2>3 DEF Line
  <2> QED BY <2>2, <2>3
<1>5. LF \in Byte /\ LexerStep(LexerStart, LF) = LexerStart
  <2>1. LF \in Byte /\ LF \in Spaces
    BY DEF LF, Byte, Spaces
  <2>2. LexerStep(At("start", 0, <<>>), LF) = At("start", 0, <<>>)
    BY <1>2, <2>1, LexerSteps DEF Stepped
  <2> QED BY <1>3, <2>1, <2>2
<1>6. Is(2, f[2])
  <2>1. Dash \in Byte /\ Dash \notin Spaces /\ TextMode(Dash) = "dash" /\ Dash \notin {LF, CR}
    BY DEF Dash, Byte, Spaces, TextMode, Slash, LF, CR
  <2>2. 1 \in 1..n /\ 2 \in 1..n /\ 2 - 1 = 1 /\ 1 - 1 = 0
    BY <1>0
  <2>3. f[1] = LexerStep(f[0], Dash) /\ f[2] = LexerStep(f[1], Dash)
    BY <1>1, <2>2
  <2>4. LexerStep(At("start", 0, <<>>), Dash) = At("dash", 0, << Dash >>)
    <3>1. Dash \in Byte /\ Dash \notin Spaces
      BY <2>1
    <3>2. LexerStep(At("start", 0, <<>>), Dash) = At(TextMode(Dash), 0, << Dash >>)
      BY <3>1, StartByte
    <3> QED BY <2>1, <3>2, Zenon
  <2>5. << Dash >> \in Seq(Byte)
    BY <2>1
  <2>6. LexerStep(At("dash", 0, << Dash >>), Dash) = Line
    BY <1>2, <2>1, <2>5, LexerSteps DEF Stepped
  <2>7. f[2] = Line
    BY <1>1, <1>3, <2>3, <2>4, <2>6, Zenon
  <2> HIDE DEF Line
  <2> QED BY <2>1, <2>7
<1> DEFINE T == {k \in Nat : 2 + k <= e => Is(2 + k, f[2 + k])}
<1>7. 0 \in T
  BY <1>6
<1>8. ASSUME NEW k \in Nat, k \in T PROVE k + 1 \in T
  <2> SUFFICES ASSUME 2 + (k + 1) <= e PROVE Is(2 + (k + 1), f[2 + (k + 1)])
    OBVIOUS
  <2>1. PICK j \in Nat : j = 2 + k /\ j + 1 = 2 + (k + 1)
    OBVIOUS
  <2>2. j \in 1..n /\ j + 1 \in 1..n /\ (j + 1) - 1 = j /\ j < e /\ j <= e /\ 2 + k <= e
    BY <1>0, <2>1
  <2>3. Is(j, f[j])
    BY <1>8, <2>1, <2>2
  <2>4. f[j + 1] = LexerStep(f[j], t[j + 1]) /\ t[j + 1] \in Byte
    BY <1>0, <1>1, <2>2
  <2>5. t[j] # LF
    BY <2>2
  <2>6. t[j] = CR => t[j + 1] = LF
    <3>1. j \in DOMAIN t
      BY <2>2
    <3> QED BY <3>1 DEF LinesEndWithLF
  <2> HIDE DEF Line
  <2>7. Is(j + 1, f[j + 1])
    <3>1. CASE t[j] = CR
      BY <1>5, <2>3, <2>4, <2>6, <3>1
    <3>2. CASE t[j] # CR
      <4>1. f[j] = Line
        BY <2>3, <2>5, <3>2
      <4> QED BY <1>4, <2>4, <4>1
    <3> QED BY <3>1, <3>2
  <2> QED BY <2>1, <2>7
<1> HIDE DEF T
<1>9. e - 2 \in Nat /\ 2 + (e - 2) = e /\ e \in 0..n
  BY <1>0
<1>10. e - 2 \in T
  BY <1>7, <1>8, <1>9, Induction
<1>11. Is(e, f[e])
  BY <1>0, <1>9, <1>10 DEF T
<1> QED BY <1>1, <1>9, <1>11

\* What a line comment means to the server, and what the proxy leaves of it.
LEMMA LineStripped ==
    ASSUME NEW t \in Seq(Byte), IsPrefix(<<Dash, Dash>>, t), LinesEndWithLF(t)
    PROVE  IF LineEnd(t) = 0 THEN SameEnd(Lexed(<<>>), Lexed(t))
           ELSE LineEnd(t) \in 3..Len(t) /\ Lexed(From(t, LineEnd(t) + 1)) = Lexed(t)
<1>0. Len(t) \in Nat /\ Len(t) >= 2 /\ t[1] = Dash /\ t[2] = Dash /\ Dash # LF
  BY PrefixTwo DEF Dash, LF
<1>1. CASE LineEnd(t) = 0
  <2>1. \A i \in 1..Len(t) : t[i] # LF
    BY <1>0, <1>1, IndexIs DEF LineEnd
  <2>2. Len(t) \in 2..Len(t) /\ Len(t) \in DOMAIN t
    BY <1>0
  <2>3. t[Len(t)] # CR
    BY <1>0, <2>2 DEF LinesEndWithLF
  <2>4. Lexed(SubSeq(t, 1, Len(t))) = At("line", 0, <<>>)
    <3>1. t[Len(t)] # LF
      BY <2>1, <2>2
    <3> QED BY <1>0, <2>1, <2>2, <2>3, <3>1, LineRead
  <2>5. Lexed(t) = At("line", 0, <<>>)
    BY <2>4, Whole
  <2>6. Lexed(<<>>) = At("start", 0, <<>>)
    BY LexerStarts DEF Lexed
  <2>7. \A q : At(q, 0, <<>>).depth = 0 /\ At(q, 0, <<>>).rest = <<>>
    BY AtFields
  <2> QED BY <1>1, <2>5, <2>6, <2>7 DEF SameEnd
<1>2. CASE LineEnd(t) # 0
  <2>1. PICK e : e = LineEnd(t)
    OBVIOUS
  <2>2. e \in 1..Len(t) /\ t[e] = LF /\ \A i \in 1..Len(t) : i < e => t[i] # LF
    BY <1>2, <2>1, IndexIs DEF LineEnd
  <2>3. e \in 3..Len(t)
    <3>1. e # 1 /\ e # 2
      BY <1>0, <2>2
    <3> QED BY <1>0, <2>2, <3>1
  <2>4. e \in 2..Len(t) /\ e \in 0..Len(t) /\ t[e] \in {LF, CR}
    BY <1>0, <2>2, <2>3
  <2>5. Lexed(SubSeq(t, 1, e)) = LexerStart
    BY <1>0, <2>2, <2>4, LineRead
  <2>6. Lexed(t) = Lexer(Lexed(SubSeq(t, 1, e)), From(t, e + 1))
    BY <2>4, LexedReads
  <2> QED BY <1>2, <2>1, <2>3, <2>5, <2>6 DEF Lexed
<1> QED BY <1>1, <1>2

BlockModes == {"block", "blockStar", "blockSlash"}

Skip == [i: Nat, depth: Int, closed: BOOLEAN]

LEMMA SkipRound ==
    ASSUME NEW s \in Seq(Byte), NEW st \in Skip
    PROVE  /\ SkipComment(s) \in [Skip -> Skip]
           /\ LET skipped == SkipComment(s)[st]
                  c == s[st.i + 1]
                  d == s[st.i + 2]
              IN  IF st.closed \/ st.i >= Len(s) - 1 THEN skipped = st
                  ELSE IF c = Slash /\ d = Star
                       THEN skipped.i = st.i + 2 /\ skipped.depth = st.depth + 1 /\ skipped.closed = st.closed
                  ELSE IF c = Star /\ d = Slash
                       THEN skipped.i = st.i + 2 /\ skipped.depth = st.depth - 1 /\ skipped.closed = (st.depth = 1)
                  ELSE skipped.i = st.i + 1 /\ skipped.depth = st.depth /\ skipped.closed = st.closed
<1> DEFINE Next(x) == SubSeq(s, x.i + 1, x.i + 2)
           Body(x) == IF x.closed \/ x.i >= Len(s) - 1 THEN x
                      ELSE CASE Next(x) = <<Slash, Star>> -> [x EXCEPT !.i = @ + 2, !.depth = Deeper(@)]
                             [] Next(x) = <<Star, Slash>> ->
                                   [i |-> x.i + 2, depth |-> x.depth - 1, closed |-> x.depth = 1]
                             [] OTHER -> [x EXCEPT !.i = @ + 1]
<1>1. SkipComment(s) = [x \in Skip |-> Body(x)]
  BY Zenon DEF SkipComment, Skip
<1>2. ASSUME NEW x \in Skip PROVE Body(x) \in Skip
  <2>0. <<Slash, Star>> # <<Star, Slash>>
    BY DEF Slash, Star
  <2>1. x.i \in Nat /\ x.depth \in Int /\ x.closed \in BOOLEAN
    BY DEF Skip
  <2> HIDE DEF Next
  <2>2. CASE x.closed \/ x.i >= Len(s) - 1
    BY <2>2
  <2>3. CASE ~(x.closed \/ x.i >= Len(s) - 1) /\ Next(x) = <<Slash, Star>>
    <3>1. Body(x) = [x EXCEPT !.i = @ + 2, !.depth = Deeper(@)]
      BY <2>0, <2>3
    <3> HIDE DEF Body
    <3>2. Body(x) = [i |-> x.i + 2, depth |-> x.depth + 1, closed |-> x.closed]
      BY <2>1, <3>1 DEF Skip, Deeper
    <3> QED BY <2>1, <3>2 DEF Skip
  <2>4. CASE ~(x.closed \/ x.i >= Len(s) - 1) /\ Next(x) = <<Star, Slash>>
    <3>1. Body(x) = [i |-> x.i + 2, depth |-> x.depth - 1, closed |-> x.depth = 1]
      BY <2>0, <2>4
    <3> HIDE DEF Body
    <3> QED BY <2>1, <3>1 DEF Skip
  <2>5. CASE ~(x.closed \/ x.i >= Len(s) - 1) /\ Next(x) # <<Slash, Star>> /\ Next(x) # <<Star, Slash>>
    <3>1. Body(x) = [x EXCEPT !.i = @ + 1]
      BY <2>5
    <3> HIDE DEF Body
    <3> QED BY <2>1, <3>1 DEF Skip
  <2> QED BY <2>2, <2>3, <2>4, <2>5
<1>3. SkipComment(s) \in [Skip -> Skip] /\ SkipComment(s)[st] = Body(st)
  <2> HIDE DEF Body
  <2> QED BY <1>1, <1>2
<1>4. st.i \in Nat /\ st.depth \in Int /\ st.closed \in BOOLEAN /\ Len(s) \in Nat
  BY DEF Skip
<1>5. ASSUME ~(st.closed \/ st.i >= Len(s) - 1), NEW a, NEW b
      PROVE  Next(st) = <<a, b>> <=> s[st.i + 1] = a /\ s[st.i + 2] = b
  <2>1. st.i + 1 \in 1..Len(s) /\ st.i + 2 \in 1..Len(s)
    BY <1>4, <1>5
  <2>2. Next(st) \in Seq(Byte) /\ Len(Next(st)) = 2
        /\ Next(st)[1] = s[st.i + 1] /\ Next(st)[2] = s[st.i + 2]
    <3>1. PICK i \in Nat : i = st.i
      BY <1>4
    <3>2. i + 2 <= Len(s)
      BY <2>1, <3>1
    <3>3. SubSeq(s, i + 1, i + 2) \in Seq(Byte) /\ Len(SubSeq(s, i + 1, i + 2)) = 2
          /\ SubSeq(s, i + 1, i + 2)[1] = s[i + 1] /\ SubSeq(s, i + 1, i + 2)[2] = s[i + 2]
      BY <3>2
    <3> QED BY <3>1, <3>3
  <2>3. Next(st) = <<Next(st)[1], Next(st)[2]>>
    BY <2>2, TwoBytes
  <2>4. \A x, y : <<x, y>> = <<a, b>> <=> x = a /\ y = b
    OBVIOUS
  <2> HIDE DEF Next
  <2> QED BY <2>2, <2>3, <2>4
<1>6. CASE st.closed \/ st.i >= Len(s) - 1
  <2>1. Body(st) = st
    BY <1>6
  <2> HIDE DEF Body
  <2> QED BY <1>3, <1>6, <2>1
<1>7. CASE ~(st.closed \/ st.i >= Len(s) - 1)
  <2>1. Slash # Star
    BY DEF Slash, Star
  <2>2. /\ Next(st) = <<Slash, Star>> <=> s[st.i + 1] = Slash /\ s[st.i + 2] = Star
        /\ Next(st) = <<Star, Slash>> <=> s[st.i + 1] = Star /\ s[st.i + 2] = Slash
    BY <1>5, <1>7
  <2> HIDE DEF Next
  <2>3. CASE s[st.i + 1] = Slash /\ s[st.i + 2] = Star
    <3>0. Next(st) # <<Star, Slash>>
      BY <2>1, <2>2, <2>3
    <3>1. Body(st) = [st EXCEPT !.i = @ + 2, !.depth = Deeper(@)]
      BY <1>7, <2>2, <2>3, <3>0
    <3>2. Body(st).i = st.i + 2 /\ Body(st).depth = st.depth + 1 /\ Body(st).closed = st.closed
      <4> HIDE DEF Body
      <4> QED BY <3>1 DEF Deeper, Skip
    <3> HIDE DEF Body
    <3> QED BY <1>3, <1>7, <2>3, <3>2
  <2>4. CASE s[st.i + 1] = Star /\ s[st.i + 2] = Slash
    <3>1. Next(st) # <<Slash, Star>>
      BY <2>1, <2>2, <2>4
    <3>2. Body(st) = [i |-> st.i + 2, depth |-> st.depth - 1, closed |-> st.depth = 1]
      BY <1>7, <2>2, <2>4, <3>1
    <3>3. Body(st).i = st.i + 2 /\ Body(st).depth = st.depth - 1 /\ Body(st).closed = (st.depth = 1)
      <4> HIDE DEF Body
      <4> QED BY <3>2
    <3> HIDE DEF Body
    <3> QED BY <1>3, <1>7, <2>1, <2>4, <3>3
  <2>5. CASE ~(s[st.i + 1] = Slash /\ s[st.i + 2] = Star) /\ ~(s[st.i + 1] = Star /\ s[st.i + 2] = Slash)
    <3>1. Body(st) = [st EXCEPT !.i = @ + 1]
      BY <1>7, <2>2, <2>5
    <3>2. Body(st).i = st.i + 1 /\ Body(st).depth = st.depth /\ Body(st).closed = st.closed
      <4> HIDE DEF Body
      <4> QED BY <3>1 DEF Skip
    <3> HIDE DEF Body
    <3> QED BY <1>3, <1>7, <2>5, <3>2
  <2> QED BY <2>3, <2>4, <2>5
<1> QED BY <1>3, <1>6, <1>7

\* A byte of a block comment that ends neither a "*/" nor a "/*".
Inside(m, c) == ~(m = "blockStar" /\ c = Slash) /\ ~(m = "blockSlash" /\ c = Star)

LEMMA BlockByte ==
    ASSUME NEW m \in BlockModes, NEW d \in Int, NEW c \in Byte
    PROVE  /\ Inside(m, c) => LexerStep(At(m, d, <<>>), c) = At(BlockMode(c), d, <<>>)
           /\ c = Star => BlockMode(c) = "blockStar"
           /\ c = Slash => BlockMode(c) = "blockSlash"
           /\ c # Star /\ c # Slash => BlockMode(c) = "block"
<1>1. m \in Modes /\ <<>> \in Seq(Byte)
  BY DEF BlockModes, Modes
<1>2. c = Star => c # Slash
  BY DEF Star, Slash
<1>3. ASSUME Inside(m, c) PROVE LexerStep(At(m, d, <<>>), c) = At(BlockMode(c), d, <<>>)
  BY <1>1, <1>3, LexerSteps DEF Inside, BlockModes, Stepped
<1> QED BY <1>2, <1>3 DEF BlockMode

LEMMA BlockEnds ==
    ASSUME NEW d \in Int
    PROVE  /\ LexerStep(At("blockSlash", d, <<>>), Star) = At("block", d + 1, <<>>)
           /\ LexerStep(At("blockStar", d, <<>>), Slash) = IF d = 1 THEN LexerStart ELSE At("block", d - 1, <<>>)
<1>1. {"blockStar", "blockSlash"} \subseteq Modes /\ "blockStar" \in Modes /\ "blockSlash" \in Modes
      /\ <<>> \in Seq(Byte)
  BY DEF Modes
<1>2. Star \in Byte /\ Slash \in Byte
  BY DEF Star, Slash, Byte
<1>3. \A c \in Byte : c = Star => LexerStep(At("blockSlash", d, <<>>), c) = At("block", d + 1, <<>>)
  BY <1>1, LexerSteps DEF Stepped
<1>4. \A c \in Byte : c = Slash => LexerStep(At("blockStar", d, <<>>), c)
                                   = At(IF d = 1 THEN "start" ELSE "block", d - 1, <<>>)
  BY <1>1, LexerSteps DEF Stepped
<1>5. LexerStart = At("start", 0, <<>>)
  BY LexerStarts
<1>6. d = 1 => d - 1 = 0
  OBVIOUS
<1>7. LexerStep(At("blockStar", d, <<>>), Slash) = IF d = 1 THEN LexerStart ELSE At("block", d - 1, <<>>)
  <2>1. CASE d = 1
    BY <1>2, <1>4, <1>5, <1>6, <2>1
  <2>2. CASE d # 1
    BY <1>2, <1>4, <2>2
  <2> QED BY <2>1, <2>2
<1> QED BY <1>2, <1>3, <1>7

LEMMA BlockOpens ==
    ASSUME NEW t \in Seq(Byte), Len(t) >= 2, t[1] = Slash, t[2] = Star
    PROVE  Lexed(SubSeq(t, 1, 2)) = At("block", 1, <<>>)
<1>1. PICK f : /\ f[0] = LexerStart
               /\ \A k \in 0..Len(t) : Lexed(SubSeq(t, 1, k)) = f[k]
               /\ \A k \in 1..Len(t) : f[k] = LexerStep(f[k - 1], t[k])
  BY LexedReads
<1>2. "start" \in Modes /\ "slash" \in Modes /\ <<>> \in Seq(Byte) /\ 0 \in Int
  BY DEF Modes
<1>3. Slash \in Byte /\ Star \in Byte /\ Slash \notin Spaces /\ TextMode(Slash) = "slash"
  BY DEF Slash, Star, Byte, Spaces, TextMode
<1>4. << Slash >> \in Seq(Byte)
  BY <1>3
<1>5. 1 \in 1..Len(t) /\ 2 \in 1..Len(t) /\ 2 \in 0..Len(t) /\ 1 - 1 = 0 /\ 2 - 1 = 1
  OBVIOUS
<1>6. f[1] = LexerStep(f[0], t[1]) /\ f[2] = LexerStep(f[1], t[2]) /\ Lexed(SubSeq(t, 1, 2)) = f[2]
  BY <1>1, <1>5
<1>7. LexerStep(At("start", 0, <<>>), Slash) = At(TextMode(Slash), 0, << Slash >>)
  BY <1>3, StartByte
<1>8. ASSUME NEW c \in Byte, c = Star, NEW r \in Seq(Byte)
      PROVE  LexerStep(At("slash", 0, r), c) = At("block", 1, <<>>)
  BY <1>2, <1>8, LexerSteps DEF Stepped
<1>9. LexerStep(At("start", 0, <<>>), Slash) = At("slash", 0, << Slash >>)
  BY <1>3, <1>7, Zenon
<1>10. LexerStep(At("slash", 0, << Slash >>), Star) = At("block", 1, <<>>)
  BY <1>3, <1>4, <1>8
<1> QED BY <1>1, <1>6, <1>9, <1>10, LexerStarts, Zenon

\* What SkipComment has counted and what the lexer has: either the comment is closed
\* for both, or it is as deep for both and the lexer is not between two bytes that the
\* loop takes together.
Opened(t, st, m) ==
    /\ ~st.closed /\ st.i \in 2..Len(t) /\ st.depth >= 1 /\ m \in BlockModes
    /\ Lexed(SubSeq(t, 1, st.i)) = At(m, st.depth, <<>>)
    /\ st.i < Len(t) => Inside(m, t[st.i + 1])

Passed(t, st) == st.closed /\ st.i \in 2..Len(t) /\ Lexed(SubSeq(t, 1, st.i)) = LexerStart

\* A round of the loop over a block comment.
LEMMA BlockRound ==
    ASSUME NEW t \in Seq(Byte), NEW st \in Skip, NEW m, Opened(t, st, m), st.i < Len(t) - 1,
           NEW u, u = SkipComment(t)[st]
    PROVE  /\ u.i > st.i
           /\ Passed(t, u) \/ \E q \in BlockModes : Opened(t, u, q)
<1>1. PICK i \in Nat, d \in Int : i = st.i /\ d = st.depth
  BY DEF Skip
<1>2. PICK a, b : a = t[i + 1] /\ b = t[i + 2]
  OBVIOUS
<1>3. /\ ~st.closed /\ i \in 2..Len(t) /\ d >= 1 /\ m \in BlockModes
      /\ Lexed(SubSeq(t, 1, i)) = At(m, d, <<>>) /\ Inside(m, a)
  <2>1. i < Len(t)
    BY <1>1
  <2> QED BY <1>1, <1>2, <2>1 DEF Opened
<1>4. Len(t) \in Nat /\ i + 1 \in 1..Len(t) /\ i + 2 \in 1..Len(t) /\ ~(i >= Len(t) - 1)
      /\ i + 1 \in 2..Len(t) /\ i + 2 \in 2..Len(t) /\ (i + 1) + 1 = i + 2
      /\ (i + 1) - 1 = i /\ (i + 2) - 1 = i + 1
  BY <1>1, <1>3
<1>5. a \in Byte /\ b \in Byte
  BY <1>2, <1>4
<1>6. IF a = Slash /\ b = Star THEN u.i = i + 2 /\ u.depth = d + 1 /\ u.closed = FALSE
      ELSE IF a = Star /\ b = Slash THEN u.i = i + 2 /\ u.depth = d - 1 /\ u.closed = (d = 1)
      ELSE u.i = i + 1 /\ u.depth = d /\ u.closed = FALSE
  <2>1. st.closed = FALSE
    BY <1>3 DEF Skip
  <2> QED BY <1>1, <1>2, <1>4, <2>1, SkipRound
<1>7. /\ Lexed(SubSeq(t, 1, i + 1)) = At(BlockMode(a), d, <<>>)
      /\ Lexed(SubSeq(t, 1, i + 2)) = LexerStep(At(BlockMode(a), d, <<>>), b)
  <2>1. PICK f : /\ \A k \in 0..Len(t) : Lexed(SubSeq(t, 1, k)) = f[k]
                 /\ \A k \in 1..Len(t) : f[k] = LexerStep(f[k - 1], t[k])
    BY LexedReads
  <2>2. i \in 0..Len(t) /\ i + 1 \in 0..Len(t) /\ i + 2 \in 0..Len(t)
    BY <1>4
  <2>3. f[i + 1] = LexerStep(f[i], a) /\ f[i + 2] = LexerStep(f[i + 1], b)
    BY <1>2, <1>4, <2>1
  <2>4. LexerStep(At(m, d, <<>>), a) = At(BlockMode(a), d, <<>>)
    BY <1>3, <1>5, BlockByte
  <2> QED BY <1>3, <2>1, <2>2, <2>3, <2>4, Zenon
<1>8. CASE a = Slash /\ b = Star
  <2>1. Lexed(SubSeq(t, 1, u.i)) = At("block", u.depth, <<>>)
    <3>1. BlockMode(a) = "blockSlash"
      BY <1>5, <1>8, <1>3, BlockByte
    <3> QED BY <1>6, <1>7, <1>8, <3>1, BlockEnds
  <2>2. \A c : Inside("block", c)
    BY DEF Inside
  <2>3. Opened(t, u, "block") /\ "block" \in BlockModes /\ u.i > i
    BY <1>3, <1>4, <1>6, <1>8, <2>1, <2>2 DEF Opened, BlockModes
  <2> QED BY <1>1, <2>3
<1>9. CASE a = Star /\ b = Slash
  <2>0. a # Slash
    BY <1>9 DEF Star, Slash
  <2>1. Lexed(SubSeq(t, 1, u.i)) = IF d = 1 THEN LexerStart ELSE At("block", d - 1, <<>>)
    <3>1. BlockMode(a) = "blockStar"
      BY <1>5, <1>9, <1>3, BlockByte
    <3> QED BY <1>6, <1>7, <1>9, <2>0, <3>1, BlockEnds
  <2>2. \A c : Inside("block", c)
    BY DEF Inside
  <2>3. u.i = i + 2 /\ u.depth = d - 1 /\ u.closed = (d = 1)
    BY <1>6, <1>9, <2>0
  <2>4. CASE d = 1
    <3>1. Lexed(SubSeq(t, 1, u.i)) = LexerStart
      BY <2>1, <2>4, Zenon
    <3>2. u.closed
      BY <2>3, <2>4, Zenon
    <3>3. u.i \in 2..Len(t) /\ u.i > st.i
      <4>1. u.i = i + 2
        BY <2>3
      <4> QED BY <1>1, <1>4, <4>1
    <3> QED BY <3>1, <3>2, <3>3 DEF Passed
  <2>5. CASE d # 1
    <3>1. Lexed(SubSeq(t, 1, u.i)) = At("block", u.depth, <<>>)
      BY <2>1, <2>3, <2>5, Zenon
    <3>2. ~u.closed
      BY <2>3, <2>5, Zenon
    <3>3. u.i \in 2..Len(t) /\ u.depth >= 1 /\ "block" \in BlockModes
      <4>1. u.i = i + 2 /\ u.depth = d - 1
        BY <2>3
      <4> QED BY <1>3, <1>4, <2>5, <4>1 DEF BlockModes
    <3>4. Opened(t, u, "block") /\ "block" \in BlockModes
      BY <2>2, <3>1, <3>2, <3>3 DEF Opened
    <3>5. u.i > st.i
      <4>1. u.i = i + 2
        BY <2>3
      <4> QED BY <1>1, <1>4, <4>1
    <3> QED BY <3>4, <3>5
  <2> QED BY <2>4, <2>5
<1>10. CASE ~(a = Slash /\ b = Star) /\ ~(a = Star /\ b = Slash)
  <2>1. u.i = i + 1 /\ u.depth = d /\ u.closed = FALSE
    BY <1>6, <1>10
  <2>2. BlockMode(a) \in BlockModes /\ Inside(BlockMode(a), b)
    <3>1. Inside(BlockMode(a), b)
      BY <1>3, <1>5, <1>10, BlockByte DEF Inside
    <3> QED BY <3>1, ModeOfByte DEF BlockModes
  <2>3. Opened(t, u, BlockMode(a))
    BY <1>2, <1>3, <1>4, <1>7, <2>1, <2>2 DEF Opened
  <2> QED BY <1>1, <2>1, <2>2, <2>3
<1> QED BY <1>8, <1>9, <1>10

\* The comment that CommentLen measures is over for the lexer too.
LEMMA BlockStripped ==
    ASSUME NEW t \in Seq(Byte), IsPrefix(<<Slash, Star>>, t), Closed(t)
    PROVE  CommentLen(t) \in 2..Len(t) /\ Lexed(From(t, CommentLen(t) + 1)) = Lexed(t)
<1> DEFINE n == Len(t)
           body == SkipComment(t)
           init == [i |-> 0, depth |-> 0, closed |-> FALSE]
           Round(k) == Iterated(body, init, k)
           Step(k, u) == Passed(t, u) \/ \E q \in BlockModes : Opened(t, u, q) /\ (u.i > k \/ u.i >= n - 1)
<1>0. n \in Nat /\ n >= 2 /\ t[1] = Slash /\ t[2] = Star
  BY PrefixTwo
<1>1. init \in Skip /\ init.i = 0 /\ init.depth = 0 /\ init.closed = FALSE
  BY DEF Skip
<1>2. body \in [Skip -> Skip]
  BY <1>1, SkipRound
<1> HIDE DEF body, init
<1>3. Round(0) = init /\ \A k \in Nat : Round(k) \in Skip /\ Round(k + 1) = body[Round(k)]
  BY <1>1, <1>2, IteratedRounds
<1> HIDE DEF Round
<1>4. Step(1, Round(1))
  <2>1. PICK u \in Skip : u = body[init]
    BY <1>1, <1>2
  <2>2. Round(1) = u
    BY <1>3, <2>1
  <2>3. CASE n - 1 <= 0
    BY <1>0, <2>3
  <2>4. CASE ~(n - 1 <= 0)
    <3>1. init.i + 1 = 1 /\ init.i + 2 = 2 /\ init.depth + 1 = 1 /\ ~(init.closed \/ init.i >= n - 1)
      BY <1>0, <1>1, <2>4
    <3>2. u.i = 2 /\ u.depth = 1 /\ u.closed = FALSE
      BY <1>0, <1>1, <2>1, <3>1, SkipRound DEF body
    <3>3. Lexed(SubSeq(t, 1, 2)) = At("block", 1, <<>>)
      BY <1>0, BlockOpens
    <3>4. \A c : Inside("block", c)
      BY DEF Inside
    <3>5. Opened(t, u, "block") /\ "block" \in BlockModes
      BY <1>0, <3>2, <3>3, <3>4 DEF Opened, BlockModes
    <3> QED BY <2>2, <3>2, <3>5
  <2> QED BY <2>3, <2>4
<1>5. ASSUME NEW k \in Nat, k >= 1, Step(k, Round(k)) PROVE Step(k + 1, Round(k + 1))
  <2>1. PICK st \in Skip, u \in Skip : st = Round(k) /\ u = Round(k + 1) /\ u = body[st]
    <3>1. k + 1 \in Nat
      OBVIOUS
    <3>2. Round(k) \in Skip /\ Round(k + 1) \in Skip /\ Round(k + 1) = body[Round(k)]
      BY <1>3, <3>1
    <3> QED BY <3>2
  <2>2. st.i \in Nat
    BY DEF Skip
  <2>3. CASE Passed(t, st)
    <3>1. u = st
      BY <2>1, <2>3, SkipRound DEF Passed, body
    <3> QED BY <2>1, <2>3, <3>1
  <2>4. ASSUME NEW m \in BlockModes, Opened(t, st, m), st.i > k \/ st.i >= n - 1
        PROVE  Step(k + 1, u)
    <3>1. CASE st.i >= n - 1
      <4>1. u = st
        BY <2>1, <3>1, SkipRound DEF body
      <4> QED BY <2>4, <3>1, <4>1
    <3>2. CASE ~(st.i >= n - 1)
      <4>1. st.i < n - 1
        BY <1>0, <2>2, <3>2
      <4>2. u.i > st.i /\ (Passed(t, u) \/ \E q \in BlockModes : Opened(t, u, q))
        BY <2>1, <2>4, <4>1, BlockRound DEF body
      <4>3. u.i \in Nat
        BY DEF Skip
      <4>4. u.i > k + 1
        BY <2>2, <2>4, <3>2, <4>2, <4>3
      <4> QED BY <4>2, <4>4
    <3> QED BY <3>1, <3>2
  <2>5. Step(k, st)
    BY <1>5, <2>1
  <2> QED BY <2>1, <2>3, <2>4, <2>5
<1> DEFINE T == {k \in Nat : Step(k + 1, Round(k + 1))}
<1>6. 0 \in T
  BY <1>4
<1>7. ASSUME NEW k \in Nat, k \in T PROVE k + 1 \in T
  <2> HIDE DEF Step
  <2> QED BY <1>5, <1>7
<1> HIDE DEF T, Step
<1>8. n - 1 \in Nat /\ (n - 1) + 1 = n
  BY <1>0
<1>9. n - 1 \in T
  BY <1>6, <1>7, <1>8, Induction
<1>10. Step(n, Round(n))
  BY <1>8, <1>9 DEF T
<1>11. PICK u \in Skip : u = Round(n)
  BY <1>0, <1>3
<1>12. CommentLen(t) = u.i
  BY <1>11, Zenon DEF CommentLen, Round, body, init
<1>13. PICK f : /\ f[n] = Lexed(t)
                /\ \A k \in 0..n : Lexed(SubSeq(t, 1, k)) = f[k] /\ Lexer(f[k], From(t, k + 1)) = Lexed(t)
                /\ \A k \in 1..n : f[k] = LexerStep(f[k - 1], t[k])
  BY LexedReads
<1>14. ASSUME NEW m \in BlockModes, Opened(t, u, m), u.i >= n - 1 PROVE FALSE
  <2>1. PICK d \in Int, i \in Nat : d = u.depth /\ i = u.i
    BY DEF Skip
  <2>2. i \in 0..n /\ d >= 1 /\ f[i] = At(m, d, <<>>) /\ (i = n \/ i = n - 1)
    BY <1>0, <1>13, <1>14, <2>1 DEF Opened
  <2>3. Lexed(t).depth = 0
    BY DEF Closed
  <2>4. \A q : At(q, d, <<>>).depth = d
    BY AtFields
  <2>5. CASE i = n
    BY <1>13, <2>2, <2>3, <2>4, <2>5
  <2>6. CASE i = n - 1
    <3>1. n \in 1..n /\ n - 1 = i /\ i < n /\ i + 1 = n /\ t[n] \in Byte
      BY <1>0, <2>2, <2>6
    <3>2. Inside(m, t[n])
      BY <1>14, <2>1, <3>1 DEF Opened
    <3>3. f[n] = LexerStep(At(m, d, <<>>), t[n])
      BY <1>13, <2>2, <3>1
    <3>4. f[n] = At(BlockMode(t[n]), d, <<>>)
      BY <3>1, <3>2, <3>3, BlockByte
    <3> QED BY <1>13, <2>2, <2>3, <2>4, <3>4
  <2> QED BY <2>2, <2>5, <2>6
<1>15. Passed(t, u)
  <2>1. u.i \in Nat
    BY DEF Skip
  <2>2. \A m \in BlockModes : Opened(t, u, m) => u.i <= n
    BY <1>0 DEF Opened
  <2> QED BY <1>0, <1>10, <1>11, <1>14, <2>1, <2>2 DEF Step
<1>16. u.i \in 2..n /\ u.i \in 0..n /\ Lexed(SubSeq(t, 1, u.i)) = LexerStart
  BY <1>0, <1>15 DEF Passed
<1>17. Lexer(LexerStart, From(t, u.i + 1)) = Lexed(t)
  BY <1>13, <1>16
<1> QED BY <1>12, <1>16, <1>17 DEF Lexed
-----------------------------------------------------------------------------
(* stripLeadingComments, and the words that a text begins with. *)

LEMMA TrimHead ==
    ASSUME NEW s \in Seq(Byte)
    PROVE  TrimSpace(s) = <<>> \/ TrimSpace(s)[1] \notin Spaces
<1>1. CASE \A i \in 1..Len(s) : Blank(s, i)
  BY <1>1, TrimBlank
<1>2. ASSUME NEW p \in 1..Len(s), NEW q \in 1..Len(s), Core(s, p, q)
      PROVE  TrimSpace(s)[1] \notin Spaces
  <2>1. p <= q /\ s[p] \notin Spaces
    BY <1>2 DEF Core, Blank
  <2>2. SubSeq(s, p, q)[1] = s[p]
    BY <2>1
  <2>3. TrimSpace(s) = SubSeq(s, p, q)
    BY <1>2, TrimCore
  <2> QED BY <2>1, <2>2, <2>3
<1> QED BY <1>1, <1>2, TrimCases

\* What no round of stripLeadingComments takes anything from.
Plain(s) == TrimSpace(s) = s /\ ~IsPrefix(<<Dash, Dash>>, s) /\ ~IsPrefix(<<Slash, Star>>, s)

LEMMA PlainIs ==
    /\ \A s \in Seq(Byte) : Plain(s) => StripComment[s] = s /\ Lexed(s).rest = s
    /\ Plain(<<>>) /\ <<>> \in Seq(Byte) /\ LinesEndWithLF(<<>>)
<1>1. ASSUME NEW s \in Seq(Byte), Plain(s) PROVE StripComment[s] = s /\ Lexed(s).rest = s
  <2>1. TrimSpace(s) = s /\ ~IsPrefix(<<Dash, Dash>>, s) /\ ~IsPrefix(<<Slash, Star>>, s)
    BY <1>1 DEF Plain
  <2>2. StripComment[s] = s
    BY <2>1 DEF StripComment
  <2>3. s = <<>> \/ s[1] \notin Spaces
    BY <2>1, TrimHead
  <2> QED BY <2>1, <2>2, <2>3, PlainText
<1>2. <<>> \in Seq(Byte) /\ Len(<<>>) = 0 /\ \A i \in 1..Len(<<>>) : Blank(<<>>, i)
  OBVIOUS
<1>3. TrimSpace(<<>>) = <<>>
  BY <1>2, TrimBlank
<1>4. ASSUME NEW a, NEW b PROVE ~IsPrefix(<<a, b>>, <<>>)
  <2>1. IsPrefix(<<a, b>>, <<>>) => Len(<<>>) >= 2
    BY <1>2, PrefixTwo
  <2> QED BY <1>2, <2>1
<1>5. LinesEndWithLF(<<>>)
  BY DEF LinesEndWithLF
<1> QED BY <1>1, <1>2, <1>3, <1>4, <1>5 DEF Plain

LEMMA CommentLenType == ASSUME NEW s \in Seq(Byte) PROVE CommentLen(s) \in Nat
<1> DEFINE init == [i |-> 0, depth |-> 0, closed |-> FALSE]
<1>1. init \in Skip
  BY DEF Skip
<1>2. SkipComment(s) \in [Skip -> Skip]
  BY <1>1, SkipRound
<1>3. Len(s) \in Nat
  OBVIOUS
<1>4. Iterated(SkipComment(s), init, Len(s)) \in Skip
  BY <1>1, <1>2, <1>3, IteratedRounds
<1> QED BY <1>4 DEF CommentLen, Skip

\* A round of stripLeadingComments keeps the end of the text, and makes it shorter by two
\* bytes at least unless it is the last.
LEMMA StripRound ==
    ASSUME NEW r \in Seq(Byte)
    PROVE  /\ StripComment[r] \in Seq(Byte)
           /\ Closed(r) /\ LinesEndWithLF(r) =>
                 /\ SameEnd(Lexed(StripComment[r]), Lexed(r)) /\ LinesEndWithLF(StripComment[r])
                 /\ Plain(StripComment[r]) \/ Len(StripComment[r]) + 2 <= Len(r)
<1>1. PICK t : t = TrimSpace(r)
  OBVIOUS
<1>2. t \in Seq(Byte) /\ Len(t) <= Len(r) /\ TrimSpace(t) = t /\ Len(t) \in Nat /\ Len(r) \in Nat
  BY <1>1, TrimTwice
<1>3. SameEnd(Lexed(t), Lexed(r))
  BY <1>1, TrimEnd
<1>4. PICK u, e, l : u = StripComment[r] /\ e = LineEnd(t) /\ l = CommentLen(t)
  OBVIOUS
<1>5. u = CASE IsPrefix(<<Dash, Dash>>, t) -> IF e = 0 THEN <<>> ELSE From(t, e + 1)
            [] IsPrefix(<<Slash, Star>>, t) -> From(t, l + 1)
            [] OTHER -> t
  BY <1>1, <1>4, Zenon DEF StripComment
<1>6. Dash # Slash
  BY DEF Dash, Slash
<1>7. ~(IsPrefix(<<Dash, Dash>>, t) /\ IsPrefix(<<Slash, Star>>, t))
  BY <1>2, <1>6, PrefixTwo
<1> DEFINE Goal == /\ SameEnd(Lexed(u), Lexed(r)) /\ LinesEndWithLF(u)
                   /\ Plain(u) \/ Len(u) + 2 <= Len(r)
<1>8. CASE IsPrefix(<<Dash, Dash>>, t)
  <2>1. u = IF e = 0 THEN <<>> ELSE From(t, e + 1)
    BY <1>5, <1>7, <1>8
  <2>2. u \in Seq(Byte)
    <3>1. e # 0 => e \in 1..Len(t)
      BY <1>2, <1>4, IndexIs DEF LineEnd
    <3>2. e # 0 => e + 1 \in Nat \ {0}
      BY <1>2, <3>1
    <3> QED BY <1>2, <2>1, <3>2, FromType
  <2>3. ASSUME Closed(r), LinesEndWithLF(r) PROVE Goal
    <3>1. LinesEndWithLF(t)
      BY <1>1, <2>3, TrimLines
    <3>2. IF e = 0 THEN SameEnd(Lexed(<<>>), Lexed(t))
          ELSE e \in 3..Len(t) /\ Lexed(From(t, e + 1)) = Lexed(t)
      BY <1>2, <1>4, <1>8, <3>1, LineStripped
    <3>3. CASE e = 0
      <4>1. u = <<>> /\ SameEnd(Lexed(u), Lexed(t))
        BY <2>1, <3>2, <3>3
      <4>2. SameEnd(Lexed(u), Lexed(r))
        BY <1>3, <4>1, Zenon DEF SameEnd
      <4> QED BY <4>1, <4>2, PlainIs
    <3>4. CASE e # 0
      <4>1. u = From(t, e + 1) /\ Lexed(u) = Lexed(t) /\ e \in 3..Len(t)
        BY <2>1, <3>2, <3>4
      <4>2. e + 1 \in 1..(Len(t) + 1)
        BY <1>2, <4>1
      <4>3. LinesEndWithLF(u)
        BY <1>2, <3>1, <4>1, <4>2, FromLines
      <4>4. Len(u) + 2 <= Len(r)
        BY <1>2, <4>1 DEF From
      <4>5. SameEnd(Lexed(u), Lexed(r))
        BY <1>3, <4>1, Zenon
      <4> QED BY <4>3, <4>4, <4>5
    <3> QED BY <3>3, <3>4
  <2> QED BY <1>4, <2>2, <2>3
<1>9. CASE IsPrefix(<<Slash, Star>>, t)
  <2>1. u = From(t, l + 1)
    BY <1>5, <1>7, <1>9
  <2>2. u \in Seq(Byte)
    <3>1. l + 1 \in Nat \ {0}
      <4>1. l \in Nat
        BY <1>2, <1>4, CommentLenType
      <4> QED BY <4>1
    <3> QED BY <1>2, <2>1, <3>1, FromType
  <2>3. ASSUME Closed(r), LinesEndWithLF(r) PROVE Goal
    <3>1. LinesEndWithLF(t)
      BY <1>1, <2>3, TrimLines
    <3>2. Closed(t)
      BY <1>3, <2>3 DEF SameEnd, Closed
    <3>3. l \in 2..Len(t) /\ Lexed(u) = Lexed(t)
      BY <1>2, <1>4, <1>9, <2>1, <3>2, BlockStripped
    <3>4. l + 1 \in 1..(Len(t) + 1)
      BY <1>2, <3>3
    <3>5. LinesEndWithLF(u)
      BY <1>2, <2>1, <3>1, <3>4, FromLines
    <3>6. Len(u) + 2 <= Len(r)
      BY <1>2, <2>1, <3>3 DEF From
    <3>7. SameEnd(Lexed(u), Lexed(r))
      BY <1>3, <3>3, Zenon
    <3> QED BY <3>5, <3>6, <3>7
  <2> QED BY <1>4, <2>2, <2>3
<1>10. CASE ~IsPrefix(<<Dash, Dash>>, t) /\ ~IsPrefix(<<Slash, Star>>, t)
  <2>1. u = t
    BY <1>5, <1>10
  <2>2. Plain(u)
    BY <1>2, <1>10, <2>1 DEF Plain
  <2>3. LinesEndWithLF(r) => LinesEndWithLF(u)
    BY <1>1, <2>1, TrimLines
  <2> QED BY <1>2, <1>3, <1>4, <2>1, <2>2, <2>3
<1> QED BY <1>8, <1>9, <1>10

LEMMA StripType == StripComment \in [Seq(Byte) -> Seq(Byte)]
<1>1. \A s \in Seq(Byte) : StripComment[s] \in Seq(Byte)
  BY StripRound
<1>2. StripComment = [s \in Seq(Byte) |-> StripComment[s]]
  BY DEF StripComment
<1> QED BY <1>1, <1>2

\* "Strip leading whitespace and comments", for every text: what the proxy leaves is
\* what the server reads on from.
LEMMA AllStripped ==
    ASSUME NEW sql \in Seq(Byte), Closed(sql), LinesEndWithLF(sql)
    PROVE  /\ stripLeadingComments(sql) \in Seq(Byte)
           /\ stripLeadingComments(sql) = TrimSpace(Lexed(sql).rest)
           /\ TrimSpace(stripLeadingComments(sql)) = TrimSpace(Lexed(sql).rest)
<1> DEFINE n == Len(sql)
           Round(k) == Iterated(StripComment, sql, k)
           Is(k, r) == /\ r \in Seq(Byte) /\ SameEnd(Lexed(r), Lexed(sql)) /\ LinesEndWithLF(r)
                       /\ Plain(r) \/ Len(r) + 2 * k <= n
<1>1. StripComment \in [Seq(Byte) -> Seq(Byte)]
  BY StripType
<1>2. Round(0) = sql /\ \A k \in Nat : Round(k) \in Seq(Byte) /\ Round(k + 1) = StripComment[Round(k)]
  <2>1. Iterated(StripComment, sql, 0) = sql
    BY <1>1, IteratedRounds
  <2>2. ASSUME NEW k \in Nat
        PROVE  Round(k) \in Seq(Byte) /\ Round(k + 1) = StripComment[Round(k)]
    BY <1>1, IteratedRounds
  <2> QED BY <2>1, <2>2
<1> HIDE DEF Round
<1> DEFINE T == {k \in Nat : Is(k, Round(k))}
<1>3. 0 \in T
  <2>1. Len(sql) + 2 * 0 <= n
    OBVIOUS
  <2> QED BY <1>2, <2>1 DEF SameEnd
<1>4. ASSUME NEW k \in Nat, k \in T PROVE k + 1 \in T
  <2>1. PICK r, u : r = Round(k) /\ u = Round(k + 1)
    OBVIOUS
  <2>2. u = StripComment[r] /\ r \in Seq(Byte) /\ u \in Seq(Byte)
    <3>1. k + 1 \in Nat
      OBVIOUS
    <3> QED BY <1>2, <2>1, <3>1
  <2>3. Is(k, r)
    BY <1>4, <2>1
  <2>4. Closed(r) /\ LinesEndWithLF(r)
    BY <2>3 DEF SameEnd, Closed
  <2>5. /\ SameEnd(Lexed(u), Lexed(r)) /\ LinesEndWithLF(u)
        /\ Plain(u) \/ Len(u) + 2 <= Len(r)
    BY <2>2, <2>4, StripRound
  <2>6. SameEnd(Lexed(u), Lexed(sql))
    BY <2>3, <2>5, Zenon DEF SameEnd
  <2>7. Plain(u) \/ Len(u) + 2 * (k + 1) <= n
    <3>1. CASE Plain(r)
      BY <2>2, <3>1, PlainIs
    <3>2. CASE ~Plain(r) /\ ~Plain(u)
      <4>1. Len(r) \in Nat /\ Len(u) \in Nat /\ n \in Nat
        BY <2>2
      <4>2. Len(r) + 2 * k <= n /\ Len(u) + 2 <= Len(r)
        BY <2>3, <2>5, <3>2
      <4>3. \A x, y, z \in Nat : x + 2 * k <= z /\ y + 2 <= x => y + 2 * (k + 1) <= z
        OBVIOUS
      <4> QED BY <4>1, <4>2, <4>3
    <3> QED BY <3>1, <3>2
  <2> QED BY <2>1, <2>2, <2>5, <2>6, <2>7
<1> HIDE DEF T
<1>5. n \in T
  BY <1>3, <1>4, Induction
<1>6. PICK x \in Seq(Byte) : x = Round(n)
  BY <1>2
<1>7. Is(n, x)
  BY <1>5, <1>6 DEF T
<1>8. Plain(x)
  <2>1. CASE Len(x) + 2 * n <= n
    <3>1. Len(x) \in Nat /\ n \in Nat
      OBVIOUS
    <3>2. Len(x) = 0
      BY <2>1, <3>1
    <3>3. x = <<>>
      BY <3>2
    <3> QED BY <3>3, PlainIs
  <2> QED BY <1>7, <2>1
<1>9. stripLeadingComments(sql) = x
  BY <1>6 DEF stripLeadingComments, Round
<1>10. Lexed(x).rest = x /\ TrimSpace(x) = x
  BY <1>8, PlainIs DEF Plain
<1>11. TrimSpace(Lexed(x).rest) = TrimSpace(Lexed(sql).rest)
  BY <1>7 DEF SameEnd
<1> QED BY <1>9, <1>10, <1>11, Zenon

\* s begins with the word t, and a delimiter follows it if anything does.
Begins(s, t) ==
    /\ Len(t) <= Len(s) /\ \A i \in 1..Len(t) : s[i] = t[i]
    /\ Len(t) < Len(s) => s[Len(t) + 1] \in Delimiters

LEMMA FirstTokenIs ==
    ASSUME NEW s \in Seq(Byte), NEW t \in Seq(Letters)
    PROVE  firstToken(s) = t <=> Begins(s, t)
<1>0. Len(s) \in Nat /\ Len(t) \in Nat /\ \A i \in 1..Len(t) : t[i] \in Letters
  OBVIOUS
<1>1. PICK i : i = IndexOf(s, Delimiters)
  OBVIOUS
<1>2. firstToken(s) = IF i = 0 THEN s ELSE SubSeq(s, 1, i - 1)
  BY <1>1 DEF firstToken
<1>3. \/ i = 0 /\ \A j \in 1..Len(s) : s[j] \notin Delimiters
      \/ i \in 1..Len(s) /\ s[i] \in Delimiters /\ \A j \in 1..Len(s) : j < i => s[j] \notin Delimiters
  BY <1>1, IndexIs
<1>4. \A c : c \in Letters => c \notin Delimiters
  BY DEF Letters, Delimiters
<1>5. ASSUME firstToken(s) = t PROVE Begins(s, t)
  <2>1. CASE i = 0
    BY <1>0, <1>2, <1>5, <2>1 DEF Begins
  <2>2. CASE i # 0
    <3>1. i \in 1..Len(s) /\ s[i] \in Delimiters /\ t = SubSeq(s, 1, i - 1)
      BY <1>2, <1>3, <1>5, <2>2
    <3>2. Len(t) = i - 1 /\ \A j \in 1..Len(t) : t[j] = s[j]
      BY <1>0, <3>1
    <3>3. Len(t) <= Len(s) /\ Len(t) + 1 = i
      BY <1>0, <3>1, <3>2
    <3> QED BY <3>1, <3>2, <3>3 DEF Begins
  <2> QED BY <2>1, <2>2
<1>6. ASSUME Begins(s, t) PROVE firstToken(s) = t
  <2>1. \A j \in 1..Len(t) : s[j] \notin Delimiters /\ s[j] = t[j]
    BY <1>0, <1>4, <1>6 DEF Begins
  <2>2. Len(t) <= Len(s) /\ (Len(t) < Len(s) => s[Len(t) + 1] \in Delimiters)
    BY <1>6 DEF Begins
  <2>3. CASE i = 0
    <3>1. ~(Len(t) < Len(s))
      <4>1. Len(t) < Len(s) => Len(t) + 1 \in 1..Len(s)
        BY <1>0
      <4> QED BY <1>3, <2>2, <2>3, <4>1
    <3>2. Len(s) = Len(t)
      BY <1>0, <2>2, <3>1
    <3>3. s \in Seq(Byte) /\ t \in Seq(Byte)
      <4>1. Letters \subseteq Byte
        BY DEF Letters, Byte
      <4> QED BY <4>1
    <3>4. s = t
      BY <2>1, <3>2, <3>3, SeqEqual
    <3> QED BY <1>2, <2>3, <3>4
  <2>4. CASE i # 0
    <3>1. i \in 1..Len(s) /\ s[i] \in Delimiters /\ \A j \in 1..Len(s) : j < i => s[j] \notin Delimiters
      BY <1>3, <2>4
    <3>2. ~(i \in 1..Len(t))
      BY <2>1, <3>1
    <3>3. Len(t) + 1 \in 1..Len(s)
      BY <1>0, <2>2, <3>1, <3>2
    <3>4. ~(Len(t) + 1 < i)
      BY <1>0, <2>2, <3>1, <3>3
    <3>5. i - 1 = Len(t)
      BY <1>0, <3>1, <3>2, <3>4
    <3>6. PICK u : u = SubSeq(s, 1, i - 1)
      OBVIOUS
    <3>7. u \in Seq(Byte) /\ Len(u) = Len(t) /\ \A j \in 1..Len(u) : u[j] = s[j]
      BY <1>0, <3>1, <3>5, <3>6
    <3>8. t \in Seq(Byte)
      <4>1. Letters \subseteq Byte
        BY DEF Letters, Byte
      <4> QED BY <4>1
    <3>9. \A j \in 1..Len(u) : u[j] = t[j]
      BY <2>1, <3>7
    <3>10. u = t
      BY <3>7, <3>8, <3>9, SeqEqual
    <3> QED BY <1>2, <2>4, <3>6, <3>10
  <2> QED BY <2>3, <2>4
<1> QED BY <1>5, <1>6

LEMMA TrimBegins ==
    ASSUME NEW s \in Seq(Byte), NEW t \in Seq(Letters), t # <<>>, Begins(s, t)
    PROVE  Begins(TrimSpace(s), t)
<1>0. Len(s) \in Nat /\ Len(t) \in Nat /\ Len(t) >= 1 /\ \A i \in 1..Len(t) : t[i] \in Letters
  OBVIOUS
<1>1. \A c : c \in Letters => c \notin Spaces
  BY DEF Letters, Spaces
<1>2. Len(t) <= Len(s) /\ \A i \in 1..Len(t) : i \in 1..Len(s) /\ s[i] = t[i] /\ ~Blank(s, i)
  BY <1>0, <1>1 DEF Begins, Blank
<1>3. CASE \A i \in 1..Len(s) : Blank(s, i)
  <2>1. 1 \in 1..Len(t)
    BY <1>0
  <2> QED BY <1>2, <1>3, <2>1
<1>4. ASSUME NEW p \in 1..Len(s), NEW q \in 1..Len(s), Core(s, p, q)
      PROVE  Begins(TrimSpace(s), t)
  <2>1. \A i \in 1..Len(s) : ~Blank(s, i) => p <= i /\ i <= q
    BY <1>0, <1>4 DEF Core
  <2>2. p = 1 /\ Len(t) <= q
    <3>1. 1 \in 1..Len(t) /\ Len(t) \in 1..Len(t)
      BY <1>0
    <3>2. p <= 1 /\ Len(t) <= q
      BY <1>2, <2>1, <3>1
    <3> QED BY <3>2
  <2>3. PICK u : u = SubSeq(s, 1, q)
    OBVIOUS
  <2>4. u \in Seq(Byte) /\ Len(u) = q /\ \A i \in 1..q : u[i] = s[i]
    BY <2>3
  <2>5. TrimSpace(s) = u
    BY <1>4, <2>2, <2>3, TrimCore
  <2>6. \A i \in 1..Len(t) : u[i] = t[i]
    BY <1>0, <1>2, <2>2, <2>4
  <2>7. Len(t) < Len(u) => u[Len(t) + 1] \in Delimiters
    <3> SUFFICES ASSUME Len(t) < q PROVE s[Len(t) + 1] \in Delimiters /\ Len(t) + 1 \in 1..q
      BY <2>4
    <3>1. Len(t) < Len(s) /\ Len(t) + 1 \in 1..q
      BY <1>0
    <3> QED BY <1>4, <3>1 DEF Begins
  <2> QED BY <2>2, <2>4, <2>5, <2>6, <2>7 DEF Begins
<1> QED BY <1>3, <1>4, TrimCases

\* A text that begins with a word is only trimmed.
LEMMA WordStripped ==
    ASSUME NEW s \in Seq(Byte), NEW t \in Seq(Letters), t # <<>>, Begins(s, t)
    PROVE  TrimSpace(stripLeadingComments(TrimSpace(s))) = TrimSpace(s)
<1>1. PICK x : x = TrimSpace(s)
  OBVIOUS
<1>2. x \in Seq(Byte) /\ TrimSpace(x) = x /\ Len(x) \in Nat
  BY <1>1, TrimTwice
<1>3. Begins(x, t)
  BY <1>1, TrimBegins
<1>4. x[1] # Dash /\ x[1] # Slash
  <2>1. 1 \in 1..Len(t)
    OBVIOUS
  <2>2. x[1] \in Letters
    BY <1>3, <2>1 DEF Begins
  <2>3. \A c : c \in Letters => c # Dash /\ c # Slash
    BY DEF Letters, Dash, Slash
  <2> QED BY <2>2, <2>3
<1>5. Plain(x)
  <2>1. ~IsPrefix(<<Dash, Dash>>, x) /\ ~IsPrefix(<<Slash, Star>>, x)
    BY <1>2, <1>4, PrefixTwo
  <2> QED BY <1>2, <2>1 DEF Plain
<1>6. StripComment[x] = x
  BY <1>2, <1>5, PlainIs
<1>7. StripComment \in [Seq(Byte) -> Seq(Byte)]
  BY StripType
<1>8. Iterated(StripComment, x, 0) = x
  BY <1>2, <1>7, IteratedRounds
<1>9. Iterated(StripComment, x, Len(x)) = Iterated(StripComment, x, 0)
  <2>1. StripComment[Iterated(StripComment, x, 0)] = Iterated(StripComment, x, 0)
    BY <1>6, <1>8
  <2>2. 0 \in Nat /\ 0 <= Len(x)
    BY <1>2
  <2> QED BY <1>2, <1>7, <2>1, <2>2, IteratedFixed
<1> QED BY <1>1, <1>2, <1>8, <1>9 DEF stripLeadingComments

Stripped(sql) == TrimSpace(stripLeadingComments(TrimSpace(sql)))

\* WordOf finds the words of Spelling, by their spelling.
LEMMA WordOfIs ==
    /\ \A w \in DOMAIN Spelling : w \in Words /\ w # "" /\ w # Other /\ w # "--" /\ Upper[w] # ""
                                  /\ Spelling[w] \in Seq(Letters) /\ Spelling[w] # <<>>
    /\ \A w \in DOMAIN Spelling : \A s : WordOf(s) = w <=> Spelling[w] = s
    /\ \A s : WordOf(s) = Other \/ WordOf(s) \in DOMAIN Spelling
<1>1. ASSUME NEW w \in DOMAIN Spelling
      PROVE  /\ w \in Words /\ w # "" /\ w # Other /\ w # "--" /\ Upper[w] # ""
             /\ Spelling[w] \in Seq(Letters) /\ Spelling[w] # <<>>
  BY ScannerAssumption
<1>2. ASSUME NEW s PROVE WordOf(s) = Other \/ (WordOf(s) \in DOMAIN Spelling /\ Spelling[WordOf(s)] = s)
  <2> DEFINE W == {w \in DOMAIN Spelling : Spelling[w] = s}
  <2>1. WordOf(s) = IF W = {} THEN Other ELSE CHOOSE w \in W : TRUE
    BY Zenon DEF WordOf
  <2>2. CASE W = {}
    BY <2>1, <2>2
  <2>3. CASE W # {}
    <3>1. WordOf(s) \in W
      BY <2>1, <2>3
    <3> QED BY <3>1
  <2> QED BY <2>2, <2>3
<1>3. ASSUME NEW w \in DOMAIN Spelling PROVE WordOf(Spelling[w]) = w
  <2> DEFINE W == {v \in DOMAIN Spelling : Spelling[v] = Spelling[w]}
  <2>1. \A v \in W : v = w
    BY ScannerAssumption
  <2>2. w \in W
    OBVIOUS
  <2>3. WordOf(Spelling[w]) = IF W = {} THEN Other ELSE CHOOSE v \in W : TRUE
    BY Zenon DEF WordOf
  <2> HIDE DEF W
  <2> QED BY <2>1, <2>2, <2>3
<1>4. ASSUME NEW w \in DOMAIN Spelling, NEW s PROVE WordOf(s) = w <=> Spelling[w] = s
  BY <1>1, <1>2, <1>3, <1>4
<1>5. \A s : WordOf(s) = Other \/ WordOf(s) \in DOMAIN Spelling
  BY <1>2
<1> QED BY <1>1, <1>4, <1>5

LEMMA ReducedIs ==
    ASSUME NEW sql
    PROVE  /\ Reduced(sql).lead = IF sql = <<>> \/ firstToken(sql) = firstToken(Stripped(sql)) THEN "none"
                                  ELSE IF Head(sql) \in Spaces THEN "space" ELSE "comment"
           /\ Reduced(sql).to = HasTo(Stripped(sql))
           /\ Reduced(sql).word = IF Stripped(sql) = <<>> THEN "" ELSE WordOf(firstToken(Stripped(sql)))
<1> DEFINE lead == CASE sql = <<>> \/ firstToken(sql) = firstToken(Stripped(sql)) -> "none"
                     [] sql # <<>> /\ firstToken(sql) # firstToken(Stripped(sql)) ->
                           IF Head(sql) \in Spaces THEN "space" ELSE "comment"
           to == HasTo(Stripped(sql))
           word == IF Stripped(sql) = <<>> THEN "" ELSE WordOf(firstToken(Stripped(sql)))
<1>1. Reduced(sql) = [lead |-> lead, to |-> to, word |-> word, effect |-> "read", cols |-> FALSE]
  BY Zenon DEF Reduced, Stripped
<1>2. lead = IF sql = <<>> \/ firstToken(sql) = firstToken(Stripped(sql)) THEN "none"
             ELSE IF Head(sql) \in Spaces THEN "space" ELSE "comment"
  OBVIOUS
<1> HIDE DEF lead, to, word
<1>3. Reduced(sql).lead = lead /\ Reduced(sql).to = to /\ Reduced(sql).word = word
  BY <1>1
<1> QED BY <1>2, <1>3 DEF to, word

LEMMA EmptyStripped == TrimSpace(<<>>) = <<>> /\ stripLeadingComments(<<>>) = <<>>
<1>1. <<>> \in Seq(Byte) /\ Len(<<>>) = 0
  OBVIOUS
<1>2. ASSUME NEW s \in Seq(Byte) PROVE Iterated(StripComment, s, 0) = s
  BY StripType, IteratedRounds
<1>3. Iterated(StripComment, <<>>, 0) = <<>>
  BY <1>1, <1>2
<1> QED BY <1>1, <1>3, PlainIs DEF stripLeadingComments, Plain

\* A word that firstToken finds behind a lead is found in the text as it was sent, and
\* the other way round.
LEMMA FirstTokenSeen ==
    ASSUME NEW sql \in Seq(Byte), NEW w \in DOMAIN Spelling
    PROVE  FirstToken(Reduced(sql)) = w <=> firstToken(sql) = Spelling[w]
<1>1. PICK t \in Seq(Letters) : t = Spelling[w] /\ t # <<>>
  BY WordOfIs
<1>2. PICK x : x = Stripped(sql)
  OBVIOUS
<1>3. /\ Reduced(sql).lead = IF sql = <<>> \/ firstToken(sql) = firstToken(x) THEN "none"
                             ELSE IF Head(sql) \in Spaces THEN "space" ELSE "comment"
      /\ Reduced(sql).word = IF x = <<>> THEN "" ELSE WordOf(firstToken(x))
  BY <1>2, ReducedIs
<1>4. w # "" /\ w # "--" /\ \A s : WordOf(s) = w <=> Spelling[w] = s
  BY WordOfIs
<1>5. ASSUME FirstToken(Reduced(sql)) = w PROVE firstToken(sql) = t
  <2>1. Reduced(sql).lead = "none" /\ Reduced(sql).word = w
    BY <1>3, <1>4, <1>5 DEF FirstToken
  <2>2. x # <<>> /\ firstToken(x) = t
    BY <1>1, <1>3, <1>4, <2>1
  <2>3. sql # <<>>
    <3> SUFFICES ASSUME sql = <<>> PROVE x = <<>>
      BY <2>2
    <3>1. TrimSpace(<<>>) = <<>> /\ stripLeadingComments(<<>>) = <<>>
      BY EmptyStripped
    <3> QED BY <1>2, <3>1 DEF Stripped
  <2> QED BY <1>3, <2>1, <2>2, <2>3
<1>6. ASSUME firstToken(sql) = t PROVE FirstToken(Reduced(sql)) = w
  <2>1. Begins(sql, t)
    BY <1>1, <1>6, FirstTokenIs
  <2>2. x = TrimSpace(sql) /\ x \in Seq(Byte)
    BY <1>1, <1>2, <2>1, WordStripped, TrimTwice DEF Stripped
  <2>3. Begins(x, t)
    BY <1>1, <2>1, <2>2, TrimBegins
  <2>4. firstToken(x) = t
    BY <1>1, <2>2, <2>3, FirstTokenIs
  <2>5. x # <<>>
    <3>1. Len(t) <= Len(x) /\ Len(t) >= 1
      BY <1>1, <2>3 DEF Begins
    <3>2. Len(x) >= 1
      BY <2>2, <3>1
    <3> QED BY <3>2
  <2>6. Reduced(sql).lead = "none" /\ Reduced(sql).word = w
    BY <1>1, <1>3, <1>4, <1>6, <2>4, <2>5
  <2> QED BY <2>6 DEF FirstToken
<1> QED BY <1>1, <1>5, <1>6

\* The token that firstToken finds ends where the letters do.
LEMMA LexedWordIs ==
    ASSUME NEW sql, NEW r \in Seq(Byte), r = Lexed(sql).rest, NEW q \in 1..Len(r), NEW x, x = SubSeq(r, 1, q),
           \A i \in 1..Len(r) : q < i => r[i] \in Spaces,
           NEW t \in Seq(Letters), t # <<>>, firstToken(x) = t
    PROVE  LexedWord(sql) = t
<1>0. Len(r) \in Nat /\ Len(t) \in Nat /\ q \in Nat /\ \A i \in 1..Len(t) : t[i] \in Letters
  OBVIOUS
<1>1. x \in Seq(Byte) /\ Len(x) = q /\ \A i \in 1..q : x[i] = r[i]
  OBVIOUS
<1>2. Begins(x, t)
  BY <1>1, FirstTokenIs
<1>3. Len(t) <= q /\ \A i \in 1..Len(t) : r[i] = t[i]
  BY <1>0, <1>1, <1>2 DEF Begins
<1>4. \A c : c \in Letters => c \notin 0..64
  BY DEF Letters
<1>5. \A c : c \in Spaces \/ c \in Delimiters => c \in 0..64
  BY DEF Spaces, Delimiters
<1>6. Len(t) < Len(r) => r[Len(t) + 1] \in 0..64
  <2>1. CASE Len(t) < q
    <3>1. Len(t) + 1 \in 1..q
      BY <1>0, <2>1
    <3> QED BY <1>1, <1>2, <1>5, <2>1, <3>1 DEF Begins
  <2>2. CASE Len(t) = q
    <3> SUFFICES ASSUME Len(t) < Len(r) PROVE r[Len(t) + 1] \in 0..64
      OBVIOUS
    <3>1. Len(t) + 1 \in 1..Len(r) /\ q < Len(t) + 1
      BY <1>0, <2>2
    <3>2. r[Len(t) + 1] \in Spaces
      BY <3>1
    <3> QED BY <1>5, <3>2
  <2> QED BY <1>0, <1>3, <2>1, <2>2
<1>7. PICK i : i = IndexOf(r, 0..64)
  OBVIOUS
<1>8. LexedWord(sql) = IF i = 0 THEN r ELSE SubSeq(r, 1, i - 1)
  BY <1>7 DEF LexedWord
<1>9. \/ i = 0 /\ \A j \in 1..Len(r) : r[j] \notin 0..64
      \/ i \in 1..Len(r) /\ r[i] \in 0..64 /\ \A j \in 1..Len(r) : j < i => r[j] \notin 0..64
  <2>1. PICK B : B = 0..64
    OBVIOUS
  <2>2. i = IndexOf(r, B)
    BY <1>7, <2>1
  <2>3. \/ i = 0 /\ \A j \in 1..Len(r) : r[j] \notin B
        \/ i \in 1..Len(r) /\ r[i] \in B /\ \A j \in 1..Len(r) : j < i => r[j] \notin B
    BY <2>2, IndexIs
  <2> QED BY <2>1, <2>3, Zenon
<1>10. t \in Seq(Byte)
  <2>1. Letters \subseteq Byte
    BY DEF Letters, Byte
  <2> QED BY <2>1
<1>11. CASE i = 0
  <2>1. Len(t) < Len(r) => Len(t) + 1 \in 1..Len(r)
    BY <1>0
  <2>2. Len(r) = Len(t)
    BY <1>0, <1>3, <1>6, <1>9, <1>11, <2>1
  <2>3. r = t
    BY <1>3, <1>10, <2>2, SeqEqual
  <2> QED BY <1>8, <1>11, <2>3
<1>12. CASE i # 0
  <2>1. i \in 1..Len(r) /\ r[i] \in 0..64 /\ \A j \in 1..Len(r) : j < i => r[j] \notin 0..64
    BY <1>9, <1>12
  <2>2. ~(i \in 1..Len(t))
    BY <1>0, <1>3, <1>4, <2>1
  <2>3. Len(t) < Len(r) /\ Len(t) + 1 \in 1..Len(r)
    BY <1>0, <2>1, <2>2
  <2>4. ~(Len(t) + 1 < i)
    BY <1>6, <2>1, <2>3
  <2>5. i - 1 = Len(t)
    BY <1>0, <2>1, <2>2, <2>4
  <2>6. PICK u : u = SubSeq(r, 1, i - 1)
    OBVIOUS
  <2>7. u \in Seq(Byte) /\ Len(u) = Len(t) /\ \A j \in 1..Len(u) : u[j] = r[j]
    BY <1>0, <2>1, <2>5, <2>6
  <2>8. \A j \in 1..Len(u) : u[j] = t[j]
    BY <1>3, <2>7
  <2>9. u = t
    BY <1>10, <2>7, <2>8, SeqEqual
  <2> QED BY <1>8, <1>12, <2>6, <2>9
<1> QED BY <1>11, <1>12

\* A text that is sent to the replica begins, for the server too, with a word of a read.
LEMMA ReadSeen ==
    ASSUME NEW sql \in Seq(Byte), Closed(sql), LinesEndWithLF(sql),
           ClassifyQuery(Reduced(sql)) = "READ", Lexed(sql).rest # <<>>
    PROVE  \E w \in DOMAIN Spelling :
              /\ Spelling[w] = LexedWord(sql)
              /\ \/ Upper[w] \in {"SELECT", "SHOW", "EXPLAIN", "SET", "RESET", "DISCARD"}
                 \/ Upper[w] = "COPY" /\ HasTo(Lexed(sql).rest)
<1>1. PICK x, r : x = Stripped(sql) /\ r = Lexed(sql).rest
  OBVIOUS
<1>2. r \in Seq(Byte) /\ r # <<>> /\ r[1] \notin Spaces
  BY <1>1, RestHead
<1>3. x = TrimSpace(r)
  <2>1. PICK u : u = TrimSpace(sql)
    OBVIOUS
  <2>2. u \in Seq(Byte) /\ LinesEndWithLF(u) /\ SameEnd(Lexed(u), Lexed(sql))
    BY <2>1, TrimTwice, TrimLines, TrimEnd
  <2>3. Closed(u)
    BY <2>2 DEF Closed, SameEnd
  <2>4. TrimSpace(stripLeadingComments(u)) = TrimSpace(Lexed(u).rest)
    BY <2>2, <2>3, AllStripped
  <2> QED BY <1>1, <2>1, <2>2, <2>4 DEF Stripped, SameEnd
<1>4. Len(r) \in Nat /\ 1 \in 1..Len(r)
  BY <1>2
<1>5. PICK q \in 1..Len(r) : x = SubSeq(r, 1, q) /\ \A i \in 1..Len(r) : q < i => r[i] \in Spaces
  <2>1. ~(\A i \in 1..Len(r) : Blank(r, i))
    BY <1>2, <1>4 DEF Blank
  <2>2. PICK p, q \in 1..Len(r) : Core(r, p, q)
    BY <1>2, <2>1, TrimCases
  <2>3. p = 1
    BY <1>2, <1>4, <2>2 DEF Core, Blank
  <2>4. x = SubSeq(r, 1, q)
    BY <1>2, <1>3, <2>2, <2>3, TrimCore
  <2> QED BY <2>2, <2>4 DEF Core, Blank
<1>6. x \in Seq(Byte) /\ Len(x) = q /\ x # <<>> /\ \A i \in 1..q : x[i] = r[i]
  BY <1>2, <1>4, <1>5
<1>7. PICK w : w = WordOf(firstToken(x))
  OBVIOUS
<1>8. Reduced(sql).word = w /\ Reduced(sql).to = HasTo(x)
  BY <1>1, <1>6, <1>7, ReducedIs
<1>9. w \in DOMAIN Spelling
  <2> SUFFICES ASSUME w = Other PROVE FALSE
    BY <1>7, WordOfIs
  <2>1. HasTo(x) \in BOOLEAN
    BY DEF HasTo
  <2>2. ClassifyQuery([word |-> Other, to |-> HasTo(x)]) = "WRITE"
    BY <2>1, ScannerAssumption
  <2>3. ClassifyQuery(Reduced(sql)) = ClassifyQuery([word |-> Other, to |-> HasTo(x)])
    BY <1>8 DEF ClassifyQuery
  <2> QED BY <2>2, <2>3
<1>10. PICK t \in Seq(Letters) : t = Spelling[w] /\ t # <<>> /\ firstToken(x) = t
  BY <1>7, <1>9, WordOfIs
<1>11. \/ Upper[w] \in {"SELECT", "SHOW", "EXPLAIN", "SET", "RESET", "DISCARD"}
       \/ Upper[w] = "COPY" /\ HasTo(x)
  <2>1. Upper[w] # ""
    BY <1>9, WordOfIs
  <2> QED BY <1>8, <2>1 DEF ClassifyQuery
<1>12. LexedWord(sql) = t
  <2>1. r = Lexed(sql).rest /\ r \in Seq(Byte) /\ x = SubSeq(r, 1, q) /\ t # <<>> /\ firstToken(x) = t
    BY <1>1, <1>2, <1>5, <1>10
  <2> QED BY <1>5, <2>1, LexedWordIs, Zenon
<1>13. HasTo(x) => HasTo(r)
  <2> SUFFICES ASSUME HasTo(x) PROVE HasTo(r)
    OBVIOUS
  <2>1. PICK i \in 1..(q - 3) : x[i] = 32 /\ x[i+1] \in {84, 116} /\ x[i+2] \in {79, 111} /\ x[i+3] = 32
    BY <1>6 DEF HasTo
  <2>2. i \in 1..q /\ i + 1 \in 1..q /\ i + 2 \in 1..q /\ i + 3 \in 1..q /\ i \in 1..(Len(r) - 3)
    BY <1>4
  <2>3. x[i] = r[i] /\ x[i+1] = r[i+1] /\ x[i+2] = r[i+2] /\ x[i+3] = r[i+3]
    BY <1>6, <2>2
  <2>4. r[i] = 32 /\ r[i+1] \in {84, 116} /\ r[i+2] \in {79, 111} /\ r[i+3] = 32
    BY <2>1, <2>3
  <2> QED BY <2>2, <2>4 DEF HasTo
<1> QED BY <1>1, <1>9, <1>10, <1>11, <1>12, <1>13
=============================================================================
