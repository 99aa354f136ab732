--------------------------- MODULE SequenceLemmas ---------------------------
(***************************************************************************)
(* Induction over the natural numbers, for sets instead of predicates, and *)
(* what the recursion in FlattenSeq computes: it is typed, it distributes  *)
(* over concatenation, and it undoes a split into pieces.  A proof that    *)
(* P(n) holds for every n cites SetInduction for {n \in Nat : P(n)}.       *)
(***************************************************************************)
EXTENDS Integers, Sequences, SequencesExt, SequenceTheorems, FunctionTheorems, FiniteSetTheorems,
        WellFoundedInduction, TLAPS

\* A set of natural numbers has a least element.
LEMMA LeastNatural ==
  ASSUME NEW T \in SUBSET Nat, T # {}
  PROVE  \E x \in T : \A y \in T : x <= y
  <1> DEFINE R == OpToRel(<, Nat)
  <1>1. IsWellFoundedOn(R, Nat)
    BY NatLessThanWellFounded
  <1>2. \A x, y \in Nat : x < y => <<x, y>> \in R
    BY DEF OpToRel
  <1> HIDE DEF R
  <1>3. PICK x \in T : \A y \in T : ~ (<<y, x>> \in R)
    BY <1>1, WFMin
  <1>4. ASSUME NEW y \in T PROVE x <= y
    <2>1. x \in Nat /\ y \in Nat
      OBVIOUS
    <2>2. ~ (y < x)
      BY <1>2, <1>3, <2>1
    <2> QED
      BY <2>1, <2>2
  <1> QED
    BY <1>4

\* A set that holds 0, and n + 1 for every n it holds, holds every natural number.
LEMMA SetInduction ==
  ASSUME NEW S, 0 \in S, \A n \in Nat : n \in S => n + 1 \in S
  PROVE  Nat \subseteq S
  <1> DEFINE T == Nat \ S
  <1> SUFFICES ASSUME T # {} PROVE FALSE
    OBVIOUS
  <1> HIDE DEF T
  <1>1. T \in SUBSET Nat
    BY DEF T
  <1>2. PICK x \in T : \A y \in T : x <= y
    BY <1>1, LeastNatural
  <1>3. x # 0 /\ x \in Nat
    BY DEF T
  <1>4. x - 1 \in S
    BY <1>2, <1>3 DEF T
  <1>5. (x - 1) + 1 \in S
    BY <1>3, <1>4
  <1> QED
    BY <1>3, <1>5 DEF T

\* A function on 1 .. n is a sequence of length n, and the other way round.
LEMMA FunctionIsSeq ==
  ASSUME NEW S, NEW n \in Nat, NEW f \in [1 .. n -> S]
  PROVE  f \in Seq(S) /\ Len(f) = n
  <1>1. f \in Seq(S)
    BY SeqDef
  <1> QED
    BY <1>1, LenProperties, SMT

\* A sequence of length n is a function on 1 .. n.
LEMMA SeqIsFunction ==
  ASSUME NEW S, NEW n \in Nat, NEW s \in Seq(S), Len(s) = n
  PROVE  s \in [1 .. n -> S]
  BY LenProperties

\* A sequence is its prefix with its last element appended.
LEMMA PrefixAndLast ==
  ASSUME NEW S, NEW n \in Nat, NEW g \in [1 .. n + 1 -> S],
         NEW f, f = [i \in 1 .. n |-> g[i]]
  PROVE  Append(f, g[n+1]) = g
  <1>1. f \in [1 .. n -> S] /\ n + 1 \in 1 .. n + 1
    OBVIOUS
  <1>2. f \in Seq(S) /\ Len(f) = n /\ g \in Seq(S) /\ Len(g) = n + 1 /\ g[n+1] \in S
    BY <1>1, FunctionIsSeq
  <1>3. /\ Append(f, g[n+1]) \in Seq(S)
        /\ Len(Append(f, g[n+1])) = n + 1
        /\ \A i \in 1 .. n : Append(f, g[n+1])[i] = f[i]
        /\ Append(f, g[n+1])[n+1] = g[n+1]
    BY <1>2, AppendProperties
  <1>4. \A i \in 1 .. n + 1 : Append(f, g[n+1])[i] = g[i]
    BY <1>3
  <1> QED
    BY <1>2, <1>3, <1>4, SeqEqual

\* A pair is one element after the other.
LEMMA PairIsConcat ==
  ASSUME NEW x, NEW y
  PROVE  <<x>> \o <<y>> = <<x, y>>
  <1> DEFINE S == {x, y}
  <1>1. /\ <<x>> \in Seq(S) /\ <<y>> \in Seq(S) /\ <<x, y>> \in Seq(S)
        /\ Len(<<x>>) = 1 /\ Len(<<y>>) = 1 /\ Len(<<x, y>>) = 2
    OBVIOUS
  <1> HIDE DEF S
  <1>2. /\ <<x>> \o <<y>> \in Seq(S)
        /\ Len(<<x>> \o <<y>>) = 2
        /\ (<<x>> \o <<y>>)[1] = x
        /\ (<<x>> \o <<y>>)[2] = y
    BY <1>1, ConcatProperties
  <1>3. ASSUME NEW i \in 1 .. 2 PROVE (<<x>> \o <<y>>)[i] = <<x, y>>[i]
    <2>1. CASE i = 1
      BY <1>2, <2>1
    <2>2. CASE i = 2
      BY <1>2, <2>2
    <2> QED
      BY <2>1, <2>2
  <1> QED
    BY <1>1, <1>2, <1>3, SeqEqual

\* A sequence between a first and a last element.
LEMMA Between ==
  ASSUME NEW S, NEW x \in S, NEW b \in Seq(S), NEW y \in S
  PROVE  /\ <<x>> \o b \o <<y>> \in Seq(S)
         /\ Len(<<x>> \o b \o <<y>>) = Len(b) + 2
         /\ (<<x>> \o b \o <<y>>)[1] = x
         /\ \A i \in 1 .. Len(b) : (<<x>> \o b \o <<y>>)[i+1] = b[i]
         /\ (<<x>> \o b \o <<y>>)[Len(b)+2] = y
  <1> DEFINE f == <<x>>
             e == <<y>>
  <1>1. f \in Seq(S) /\ Len(f) = 1 /\ f[1] = x /\ e \in Seq(S) /\ Len(e) = 1 /\ e[1] = y
    OBVIOUS
  <1>2. Len(b) \in Nat
    BY LenProperties
  <1> HIDE DEF f, e
  <1>3. /\ f \o b \in Seq(S) /\ Len(f \o b) = 1 + Len(b)
        /\ \A i \in 1 .. 1 + Len(b) : (f \o b)[i] = IF i <= 1 THEN f[i] ELSE b[i - 1]
    BY <1>1, ConcatProperties
  <1>4. /\ (f \o b) \o e \in Seq(S) /\ Len((f \o b) \o e) = (1 + Len(b)) + 1
        /\ \A i \in 1 .. (1 + Len(b)) + 1 :
             ((f \o b) \o e)[i] = IF i <= 1 + Len(b) THEN (f \o b)[i] ELSE e[i - (1 + Len(b))]
    BY <1>1, <1>3, ConcatProperties
  <1>5. /\ ((f \o b) \o e)[1] = x
        /\ \A i \in 1 .. Len(b) : ((f \o b) \o e)[i+1] = b[i]
        /\ ((f \o b) \o e)[Len(b)+2] = y
    BY <1>1, <1>2, <1>3, <1>4
  <1>6. Len((f \o b) \o e) = Len(b) + 2
    BY <1>2, <1>4
  <1> QED
    BY <1>4, <1>5, <1>6 DEF f, e

\* FlattenSeq is determined by its recursion: whatever function g goes from one
\* prefix to the next by appending the next sequence ends in the flattened whole.
LEMMA FlattenByPrefixes ==
  \A n \in Nat \ {0} : \A seqs, g :
     /\ Len(seqs) = n
     /\ g = [i \in 1 .. n |-> g[i]]
     /\ g[1] = seqs[1]
     /\ \A i \in 2 .. n : g[i] = g[i-1] \o seqs[i]
     => FlattenSeq(seqs) = g[n]
  <1> SUFFICES ASSUME NEW n \in Nat \ {0}, NEW seqs, NEW g,
                      Len(seqs) = n,
                      g = [i \in 1 .. n |-> g[i]],
                      g[1] = seqs[1],
                      \A i \in 2 .. n : g[i] = g[i-1] \o seqs[i]
               PROVE  FlattenSeq(seqs) = g[n]
    OBVIOUS
  <1> DEFINE Step(f) == [i \in 1 .. n |-> IF i = 1 THEN seqs[i] ELSE f[i-1] \o seqs[i]]
             flatten == CHOOSE f : f = Step(f)
  <1>1. FlattenSeq(seqs) = flatten[n]
    BY DEF FlattenSeq
  <1>2. g = Step(g)
    <2>1. \A i \in 1 .. n : g[i] = IF i = 1 THEN seqs[i] ELSE g[i-1] \o seqs[i]
      <3> TAKE i \in 1 .. n
      <3>1. CASE i = 1
        BY <3>1
      <3>2. CASE i # 1
        <4>1. i \in 2 .. n
          BY <3>2
        <4> QED
          BY <3>2, <4>1
      <3> QED
        BY <3>1, <3>2
    <2> QED
      BY <2>1
  <1>3. flatten = Step(flatten)
    BY <1>2
  <1> HIDE DEF flatten
  <1>a. flatten[1] = seqs[1]
    BY <1>3
  <1>b. ASSUME NEW i \in 2 .. n PROVE flatten[i] = flatten[i-1] \o seqs[i]
    <2>1. i \in 1 .. n /\ i # 1
      OBVIOUS
    <2> QED
      BY <1>3, <2>1, Zenon
  <1> DEFINE S == {k \in Nat : k + 1 <= n => flatten[k+1] = g[k+1]}
  <1>4. 0 \in S
    BY <1>a
  <1>5. ASSUME NEW k \in Nat, k \in S PROVE k + 1 \in S
    <2> SUFFICES ASSUME (k + 1) + 1 <= n PROVE flatten[(k+1)+1] = g[(k+1)+1]
      OBVIOUS
    <2>1. (k + 1) + 1 \in 2 .. n /\ ((k + 1) + 1) - 1 = k + 1 /\ flatten[k+1] = g[k+1]
      BY <1>5
    <2>2. flatten[(k+1)+1] = flatten[k+1] \o seqs[(k+1)+1]
      BY <1>b, <2>1, Zenon
    <2>3. g[(k+1)+1] = g[k+1] \o seqs[(k+1)+1]
      BY <2>1
    <2> QED
      BY <2>1, <2>2, <2>3
  <1> HIDE DEF S
  <1>6. n - 1 \in S
    BY <1>4, <1>5, SetInduction
  <1>7. flatten[(n-1)+1] = g[(n-1)+1]
    BY <1>6 DEF S
  <1> QED
    BY <1>1, <1>7

\* g[i] is the concatenation of the first i of the sequences, for i in 1 .. k.
InitialParts(S, seqs, k, g) ==
  /\ g \in [1 .. k -> Seq(S)]
  /\ g[1] = seqs[1]
  /\ \A i \in 2 .. k : g[i] = g[i-1] \o seqs[i]

\* They can be extended as far as there are sequences.
LEMMA PrefixesExtend ==
  ASSUME NEW S, NEW n \in Nat \ {0}, NEW seqs \in [1 .. n -> Seq(S)],
         NEW k \in Nat \ {0}, k + 1 <= n, NEW f, InitialParts(S, seqs, k, f)
  PROVE  \E g : InitialParts(S, seqs, k + 1, g)
  <1> DEFINE top == f[k] \o seqs[k+1]
             g == [i \in 1 .. k + 1 |-> IF i = k + 1 THEN top ELSE f[i]]
  <1>1. f \in [1 .. k -> Seq(S)] /\ f[1] = seqs[1] /\ \A i \in 2 .. k : f[i] = f[i-1] \o seqs[i]
    BY DEF InitialParts
  <1>2. k \in 1 .. k /\ k + 1 \in 1 .. n
    OBVIOUS
  <1>3. f[k] \in Seq(S) /\ seqs[k+1] \in Seq(S)
    BY <1>1, <1>2
  <1>4. top \in Seq(S)
    BY <1>3, ConcatProperties
  <1> HIDE DEF top
  <1>5. g \in [1 .. k + 1 -> Seq(S)]
    <2>1. ASSUME NEW i \in 1 .. k + 1 PROVE (IF i = k + 1 THEN top ELSE f[i]) \in Seq(S)
      <3>1. i = k + 1 \/ i \in 1 .. k
        OBVIOUS
      <3> QED
        BY <1>1, <1>4, <3>1
    <2> QED
      BY <2>1
  <1>6. g[1] = seqs[1]
    <2>1. 1 \in 1 .. k + 1 /\ 1 # k + 1
      OBVIOUS
    <2> QED
      BY <1>1, <2>1
  <1>7. ASSUME NEW i \in 2 .. k + 1 PROVE g[i] = g[i-1] \o seqs[i]
    <2>1. i \in 1 .. k + 1 /\ i - 1 \in 1 .. k + 1 /\ i - 1 # k + 1
      OBVIOUS
    <2>2. g[i-1] = f[i-1]
      BY <2>1
    <2>3. CASE i = k + 1
      <3>1. i - 1 = k /\ g[i] = top
        BY <2>1, <2>3
      <3> QED
        BY <2>2, <2>3, <3>1, Zenon DEF top
    <2>4. CASE i # k + 1
      <3>1. i \in 2 .. k /\ g[i] = f[i]
        BY <2>1, <2>4
      <3> QED
        BY <1>1, <2>2, <3>1, Zenon
    <2> QED
      BY <2>3, <2>4
  <1> HIDE DEF g
  <1>8. InitialParts(S, seqs, k + 1, g)
    BY <1>5, <1>6, <1>7 DEF InitialParts
  <1> QED
    BY <1>8

\* The prefixes of a flattened sequence exist, and the last one is the whole.
LEMMA FlattenHasPrefixes ==
  \A S : \A n \in Nat \ {0} : \A seqs \in [1 .. n -> Seq(S)] :
     \E g : InitialParts(S, seqs, n, g) /\ FlattenSeq(seqs) = g[n]
  <1> SUFFICES ASSUME NEW S, NEW n \in Nat \ {0}, NEW seqs \in [1 .. n -> Seq(S)]
               PROVE  \E g : InitialParts(S, seqs, n, g) /\ FlattenSeq(seqs) = g[n]
    OBVIOUS
  <1> DEFINE K == {k \in Nat : k # 0 /\ k <= n => \E g : InitialParts(S, seqs, k, g)}
  <1>1. 0 \in K
    OBVIOUS
  <1>2. ASSUME NEW k \in Nat, k \in K PROVE k + 1 \in K
    <2> SUFFICES ASSUME k + 1 <= n PROVE \E g : InitialParts(S, seqs, k + 1, g)
      OBVIOUS
    <2>1. CASE k = 0
      <3> DEFINE f == [i \in 1 .. 1 |-> seqs[1]]
      <3>1. f \in [1 .. 1 -> Seq(S)] /\ f[1] = seqs[1] /\ \A i \in 2 .. 1 : f[i] = f[i-1] \o seqs[i]
        <4>1. seqs[1] \in Seq(S)
          OBVIOUS
        <4> QED
          BY <4>1
      <3> HIDE DEF f
      <3>2. InitialParts(S, seqs, 1, f)
        BY <3>1 DEF InitialParts
      <3> QED
        BY <2>1, <3>2
    <2>2. CASE k # 0
      <3>1. PICK f : InitialParts(S, seqs, k, f)
        BY <1>2, <2>2
      <3>2. k \in Nat \ {0}
        BY <2>2
      <3> HIDE DEF K
      <3> QED
        BY <3>1, <3>2, PrefixesExtend
    <2> QED
      BY <2>1, <2>2
  <1> HIDE DEF K
  <1>3. n \in K
    BY <1>1, <1>2, SetInduction
  <1>4. PICK g : InitialParts(S, seqs, n, g)
    BY <1>3 DEF K
  <1>5. /\ g \in [1 .. n -> Seq(S)]
        /\ g[1] = seqs[1]
        /\ \A i \in 2 .. n : g[i] = g[i-1] \o seqs[i]
    BY <1>4 DEF InitialParts
  <1>6. g = [i \in 1 .. n |-> g[i]]
    BY <1>5
  <1>7. Len(seqs) = n
    BY FunctionIsSeq
  <1>8. FlattenSeq(seqs) = g[n]
    BY <1>5, <1>6, <1>7, FlattenByPrefixes
  <1> QED
    BY <1>4, <1>8

\* Flattened sequences are a sequence of their elements.
LEMMA FlattenTyped ==
  ASSUME NEW S, NEW seqs \in Seq(Seq(S))
  PROVE  FlattenSeq(seqs) \in Seq(S)
  <1> DEFINE n == Len(seqs)
  <1>1. n \in Nat /\ seqs \in [1 .. n -> Seq(S)]
    BY LenProperties
  <1>2. CASE n = 0
    <2>1. seqs = <<>>
      BY <1>2, EmptySeq
    <2> QED
      BY <2>1, EmptySeq DEF FlattenSeq
  <1>3. CASE n # 0
    <2>1. n \in Nat \ {0}
      BY <1>1, <1>3
    <2> HIDE DEF n
    <2>2. PICK g : InitialParts(S, seqs, n, g) /\ FlattenSeq(seqs) = g[n]
      BY <1>1, <2>1, FlattenHasPrefixes
    <2>3. n \in 1 .. n /\ g \in [1 .. n -> Seq(S)]
      BY <2>1, <2>2 DEF InitialParts
    <2> QED
      BY <2>2, <2>3
  <1> QED
    BY <1>2, <1>3

\* Nothing flattened is nothing.
LEMMA FlattenEmpty == FlattenSeq(<<>>) = <<>>
  BY DEF FlattenSeq

\* One sequence flattened is that sequence.
LEMMA FlattenOne ==
  ASSUME NEW S, NEW s \in Seq(S)
  PROVE  FlattenSeq(<<s>>) = s
  <1> DEFINE seqs == <<s>>
  <1>1. seqs \in [1 .. 1 -> Seq(S)] /\ seqs[1] = s
    OBVIOUS
  <1> HIDE DEF seqs
  <1>2. 1 \in Nat \ {0}
    OBVIOUS
  <1>3. PICK g : InitialParts(S, seqs, 1, g) /\ FlattenSeq(seqs) = g[1]
    BY <1>1, <1>2, FlattenHasPrefixes
  <1>4. FlattenSeq(seqs) = s
    BY <1>1, <1>3 DEF InitialParts
  <1> QED
    BY <1>4 DEF seqs

\* Flattening distributes over concatenation.
LEMMA FlattenConcat ==
  ASSUME NEW S, NEW s \in Seq(Seq(S)), NEW t \in Seq(Seq(S))
  PROVE  FlattenSeq(s \o t) = FlattenSeq(s) \o FlattenSeq(t)
  <1> DEFINE n == Len(s)
             m == Len(t)
  <1>1. /\ n \in Nat /\ s \in [1 .. n -> Seq(S)]
        /\ m \in Nat /\ t \in [1 .. m -> Seq(S)]
    BY LenProperties
  <1>2. CASE n = 0
    <2>1. s = <<>>
      BY <1>2, EmptySeq
    <2>2. FlattenSeq(t) \in Seq(S)
      BY FlattenTyped
    <2>3. <<>> \o t = t /\ <<>> \o FlattenSeq(t) = FlattenSeq(t)
      BY <2>2, ConcatEmptySeq
    <2> QED
      BY <2>1, <2>3, FlattenEmpty
  <1>3. CASE m = 0
    <2>1. t = <<>>
      BY <1>3, EmptySeq
    <2>2. FlattenSeq(s) \in Seq(S)
      BY FlattenTyped
    <2>3. s \o <<>> = s /\ FlattenSeq(s) \o <<>> = FlattenSeq(s)
      BY <2>2, ConcatEmptySeq
    <2> QED
      BY <2>1, <2>3, FlattenEmpty
  <1>4. CASE n # 0 /\ m # 0
    <2>1. n \in Nat \ {0} /\ m \in Nat \ {0} /\ n + m \in Nat \ {0}
      BY <1>1, <1>4
    <2>2. /\ s \o t \in Seq(Seq(S)) /\ Len(s \o t) = n + m
          /\ \A i \in 1 .. n + m : (s \o t)[i] = IF i <= n THEN s[i] ELSE t[i - n]
      BY ConcatProperties
    <2> HIDE DEF n, m
    <2>3. PICK f : InitialParts(S, s, n, f) /\ FlattenSeq(s) = f[n]
      BY <1>1, <2>1, FlattenHasPrefixes
    <2>4. PICK g : InitialParts(S, t, m, g) /\ FlattenSeq(t) = g[m]
      BY <1>1, <2>1, FlattenHasPrefixes
    <2>a. /\ f \in [1 .. n -> Seq(S)] /\ f[1] = s[1]
          /\ \A i \in 2 .. n : f[i] = f[i-1] \o s[i]
      BY <2>3 DEF InitialParts
    <2>b. /\ g \in [1 .. m -> Seq(S)] /\ g[1] = t[1]
          /\ \A i \in 2 .. m : g[i] = g[i-1] \o t[i]
      BY <2>4 DEF InitialParts
    <2> DEFINE u == s \o t
               h == [i \in 1 .. n + m |-> IF i <= n THEN f[i] ELSE f[n] \o g[i - n]]
    <2>5. h = [i \in 1 .. n + m |-> h[i]]
      OBVIOUS
    <2>c. ASSUME NEW i \in 1 .. n + m PROVE h[i] = IF i <= n THEN f[i] ELSE f[n] \o g[i - n]
      OBVIOUS
    <2>d. ASSUME NEW i \in 1 .. n + m PROVE u[i] = IF i <= n THEN s[i] ELSE t[i - n]
      BY <2>2
    <2>9. Len(u) = n + m
      BY <2>2
    <2> HIDE DEF u, h
    <2>6. h[1] = u[1]
      <3>1. 1 \in 1 .. n + m /\ 1 <= n
        BY <2>1
      <3> QED
        BY <2>a, <2>c, <2>d, <3>1
    <2>7. ASSUME NEW i \in 2 .. n + m PROVE h[i] = h[i-1] \o u[i]
      <3>0. i \in 1 .. n + m /\ i - 1 \in 1 .. n + m
        BY <2>1
      <3>1. CASE i <= n
        <4>1. i \in 2 .. n /\ i - 1 <= n
          BY <2>1, <3>1
        <4>2. u[i] = s[i] /\ h[i] = f[i] /\ h[i-1] = f[i-1]
          BY <2>c, <2>d, <3>0, <3>1, <4>1, Zenon
        <4> QED
          BY <2>a, <4>1, <4>2, Zenon
      <3>2. CASE i = n + 1
        <4>1. i - 1 = n /\ i - n = 1 /\ ~ (i <= n) /\ n <= n
          BY <2>1, <3>2
        <4>2. u[i] = t[i - n] /\ h[i] = f[n] \o g[i - n] /\ h[i-1] = f[i-1]
          BY <2>c, <2>d, <3>0, <4>1, Zenon
        <4> QED
          BY <2>b, <4>1, <4>2, Zenon
      <3>3. CASE i > n + 1
        <4>1. /\ ~ (i <= n) /\ ~ (i - 1 <= n)
              /\ i - n \in 2 .. m /\ (i - 1) - n = (i - n) - 1
              /\ i - n \in 1 .. m /\ (i - n) - 1 \in 1 .. m /\ n \in 1 .. n
          BY <2>1, <3>3
        <4>2. u[i] = t[i - n] /\ h[i] = f[n] \o g[i - n] /\ h[i-1] = f[n] \o g[(i - n) - 1]
          BY <2>c, <2>d, <3>0, <4>1, Zenon
        <4>3. g[i - n] = g[(i - n) - 1] \o t[i - n]
          BY <2>b, <4>1, Zenon
        <4>4. f[n] \in Seq(S) /\ g[(i - n) - 1] \in Seq(S) /\ t[i - n] \in Seq(S)
          BY <1>1, <2>a, <2>b, <4>1
        <4> DEFINE x == f[n]
                   y == g[(i - n) - 1]
                   z == t[i - n]
        <4>5. (x \o y) \o z = x \o (y \o z)
          <5>1. x \in Seq(S) /\ y \in Seq(S) /\ z \in Seq(S)
            BY <4>4
          <5> HIDE DEF x, y, z
          <5> QED
            BY ONLY <5>1, ConcatAssociative, SMTT(30)
        <4> QED
          BY <4>2, <4>3, <4>5, Zenon
      <3>4. i <= n \/ i = n + 1 \/ i > n + 1
        BY <2>1
      <3> QED
        BY <3>1, <3>2, <3>3, <3>4
    <2>8. h[n + m] = f[n] \o g[m]
      <3>1. n + m \in 1 .. n + m /\ ~ (n + m <= n) /\ (n + m) - n = m
        BY <2>1
      <3> QED
        BY <2>c, <3>1, Zenon
    <2>10. FlattenSeq(u) = h[n + m]
      BY <2>1, <2>5, <2>6, <2>7, <2>9, FlattenByPrefixes, Zenon
    <2> QED
      BY <2>3, <2>4, <2>8, <2>10, Zenon DEF u
  <1> QED
    BY <1>2, <1>3, <1>4

\* A part of a sequence, element by element.
LEMMA PartOfSeq ==
  \A S : \A s \in Seq(S) : \A m, n \in Nat :
     m + n <= Len(s) =>
       /\ SubSeq(s, m + 1, m + n) \in Seq(S)
       /\ Len(SubSeq(s, m + 1, m + n)) = n
       /\ \A i \in 1 .. n : SubSeq(s, m + 1, m + n)[i] = s[m + i]
  <1> SUFFICES ASSUME NEW S, NEW s \in Seq(S), NEW m \in Nat, NEW n \in Nat, m + n <= Len(s)
               PROVE  /\ SubSeq(s, m + 1, m + n) \in Seq(S)
                      /\ Len(SubSeq(s, m + 1, m + n)) = n
                      /\ \A i \in 1 .. n : SubSeq(s, m + 1, m + n)[i] = s[m + i]
    OBVIOUS
  <1> DEFINE a == m + 1
             b == m + n
  <1>1. a \in Int /\ b \in Int /\ b - a + 1 = n /\ (a <= b => n > 0) /\ (~ (a <= b) => n = 0)
    OBVIOUS
  <1>2. \A i \in a .. b : s[i] \in S
    <2> TAKE i \in a .. b
    <2>1. i \in 1 .. Len(s)
      BY LenProperties
    <2> QED
      BY <2>1, ElementOfSeq
  <1>3. \A i \in 1 .. n : a + i - 1 = m + i
    OBVIOUS
  <1> HIDE DEF a, b
  <1>4. /\ SubSeq(s, a, b) \in Seq(S)
        /\ Len(SubSeq(s, a, b)) = IF a <= b THEN b - a + 1 ELSE 0
        /\ \A i \in 1 .. b - a + 1 : SubSeq(s, a, b)[i] = s[a + i - 1]
    BY <1>1, <1>2, SubSeqProperties
  <1>5. Len(SubSeq(s, a, b)) = n /\ \A i \in 1 .. n : SubSeq(s, a, b)[i] = s[m + i]
    BY <1>1, <1>3, <1>4
  <1> QED
    BY <1>4, <1>5 DEF a, b

\* Adjacent parts of a sequence make the longer part.
LEMMA PartsJoin ==
  \A S : \A s \in Seq(S) : \A m, n, p \in Nat :
     m + n + p <= Len(s) =>
       SubSeq(s, m + 1, m + n) \o SubSeq(s, (m + n) + 1, (m + n) + p) = SubSeq(s, m + 1, m + (n + p))
  <1> SUFFICES ASSUME NEW S, NEW s \in Seq(S), NEW m \in Nat, NEW n \in Nat, NEW p \in Nat,
                      m + n + p <= Len(s)
               PROVE  SubSeq(s, m + 1, m + n) \o SubSeq(s, (m + n) + 1, (m + n) + p)
                        = SubSeq(s, m + 1, m + (n + p))
    OBVIOUS
  <1> DEFINE x == SubSeq(s, m + 1, m + n)
             y == SubSeq(s, (m + n) + 1, (m + n) + p)
             z == SubSeq(s, m + 1, m + (n + p))
             q == m + n
             r == n + p
  <1>1. /\ q \in Nat /\ r \in Nat /\ m + n <= Len(s) /\ q + p <= Len(s) /\ m + r <= Len(s)
        /\ q = m + n /\ r = n + p
    BY LenProperties
  <1>2. x \in Seq(S) /\ Len(x) = n /\ \A i \in 1 .. n : x[i] = s[m + i]
    BY <1>1, PartOfSeq
  <1>3. y \in Seq(S) /\ Len(y) = p /\ \A i \in 1 .. p : y[i] = s[q + i]
    <2> HIDE DEF q
    <2>1. /\ SubSeq(s, q + 1, q + p) \in Seq(S)
          /\ Len(SubSeq(s, q + 1, q + p)) = p
          /\ \A i \in 1 .. p : SubSeq(s, q + 1, q + p)[i] = s[q + i]
      BY <1>1, PartOfSeq
    <2> QED
      BY <2>1 DEF q
  <1>4. z \in Seq(S) /\ Len(z) = r /\ \A i \in 1 .. r : z[i] = s[m + i]
    <2> HIDE DEF r
    <2>1. /\ SubSeq(s, m + 1, m + r) \in Seq(S)
          /\ Len(SubSeq(s, m + 1, m + r)) = r
          /\ \A i \in 1 .. r : SubSeq(s, m + 1, m + r)[i] = s[m + i]
      BY <1>1, PartOfSeq
    <2> QED
      BY <2>1 DEF r
  <1> HIDE DEF x, y, z, q, r
  <1>5. /\ x \o y \in Seq(S) /\ Len(x \o y) = n + p
        /\ \A i \in 1 .. n + p : (x \o y)[i] = IF i <= n THEN x[i] ELSE y[i - n]
    BY <1>2, <1>3, ConcatProperties
  <1>6. ASSUME NEW i \in 1 .. n + p PROVE (x \o y)[i] = z[i]
    <2>1. CASE i <= n
      <3>1. i \in 1 .. n /\ i \in 1 .. r
        BY <1>1, <2>1
      <3> QED
        BY <1>2, <1>4, <1>5, <2>1, <3>1, Zenon
    <2>2. CASE ~ (i <= n)
      <3>1. i - n \in 1 .. p /\ q + (i - n) = m + i /\ i \in 1 .. r
        BY <1>1, <2>2
      <3>2. (x \o y)[i] = y[i - n] /\ y[i - n] = s[q + (i - n)]
        BY <1>3, <1>5, <2>2, <3>1
      <3> QED
        BY <1>4, <3>1, <3>2
    <2> QED
      BY <2>1, <2>2
  <1>7. Len(x \o y) = Len(z) /\ Len(x \o y) = n + p
    BY <1>1, <1>4, <1>5
  <1>8. x \o y = z
    BY <1>4, <1>5, <1>6, <1>7, SeqEqual
  <1> QED
    BY <1>8 DEF x, y, z

\* Flattening the sequence of its one-element pieces gives a sequence back.
LEMMA FlattenSingletons ==
  \A S : \A n \in Nat : \A f \in [1 .. n -> S] :
     FlattenSeq([i \in 1 .. n |-> <<f[i]>>]) = f
  <1> SUFFICES ASSUME NEW S, NEW n \in Nat, NEW f \in [1 .. n -> S]
               PROVE  FlattenSeq([i \in 1 .. n |-> <<f[i]>>]) = f
    OBVIOUS
  <1> DEFINE seqs == [i \in 1 .. n |-> <<f[i]>>]
             g == [k \in 1 .. n |-> [i \in 1 .. k |-> f[i]]]
  <1>1. CASE n = 0
    <2>1. seqs \in [1 .. 0 -> Seq(S)] /\ f \in [1 .. 0 -> S]
      BY <1>1
    <2>2. seqs \in Seq(Seq(S)) /\ Len(seqs) = 0 /\ f \in Seq(S) /\ Len(f) = 0
      <3> HIDE DEF seqs
      <3>1. 0 \in Nat
        OBVIOUS
      <3> QED
        BY <2>1, <3>1, FunctionIsSeq
    <2> HIDE DEF seqs
    <2>3. seqs = <<>> /\ f = <<>>
      BY <2>2, EmptySeq
    <2> QED
      BY <2>3, FlattenEmpty DEF seqs
  <1>2. CASE n # 0
    <2>1. n \in Nat \ {0} /\ n \in 1 .. n
      BY <1>2
    <2>2. seqs \in [1 .. n -> Seq(S)]
      OBVIOUS
    <2>3. Len(seqs) = n
      <3> HIDE DEF seqs
      <3> QED
        BY <2>2, FunctionIsSeq
    <2>4. g = [i \in 1 .. n |-> g[i]]
      OBVIOUS
    <2>5. g[1] = seqs[1]
      <3>1. 1 \in 1 .. n /\ f[1] \in S
        BY <2>1
      <3>2. g[1] = [i \in 1 .. 1 |-> f[i]] /\ seqs[1] = <<f[1]>>
        BY <3>1
      <3>3. [i \in 1 .. 1 |-> f[i]] = <<f[1]>>
        OBVIOUS
      <3> QED
        BY <3>2, <3>3
    <2>6. ASSUME NEW k \in 2 .. n PROVE g[k] = g[k-1] \o seqs[k]
      <3> DEFINE j == k - 1
                 u == [i \in 1 .. j |-> f[i]]
                 w == [i \in 1 .. k |-> f[i]]
      <3>1. j \in Nat /\ j \in 1 .. n /\ k \in 1 .. n /\ j + 1 = k
        OBVIOUS
      <3>2. g[k] = w /\ g[j] = u /\ seqs[k] = <<f[k]>>
        BY <3>1
      <3>3. w \in [1 .. k -> S] /\ u \in [1 .. j -> S] /\ w[k] = f[k] /\ f[k] \in S
        OBVIOUS
      <3>4. u = [i \in 1 .. j |-> w[i]]
        OBVIOUS
      <3> HIDE DEF j, u, w, g, seqs
      <3>5. w \in [1 .. j + 1 -> S]
        BY <3>1, <3>3
      <3>6. Append(u, w[j+1]) = w
        BY <3>1, <3>4, <3>5, PrefixAndLast
      <3>7. u \in Seq(S) /\ Len(u) = j
        BY <3>1, <3>3, FunctionIsSeq
      <3>8. Append(u, w[j+1]) = u \o <<w[j+1]>>
        BY <3>1, <3>3, <3>7, AppendIsConcat
      <3> QED
        BY <3>1, <3>2, <3>3, <3>6, <3>8 DEF j
    <2> HIDE DEF g, seqs
    <2>7. FlattenSeq(seqs) = g[n]
      BY <2>1, <2>3, <2>4, <2>5, <2>6, FlattenByPrefixes, Zenon
    <2>8. g[n] = f
      BY <2>1 DEF g
    <2> QED
      BY <2>7, <2>8 DEF seqs
  <1> QED
    BY <1>1, <1>2

\* Every second number of an interval: as many as there are.
LEMMA EverySecond ==
  ASSUME NEW k \in Nat, NEW c \in Nat, NEW T, T = {2 * m + c : m \in 1 .. k}
  PROVE  Cardinality(T) = k
  <1> DEFINE f == [m \in 1 .. k |-> 2 * m + c]
  <1>1. f \in [1 .. k -> T]
    OBVIOUS
  <1>2. \A a, b \in 1 .. k : f[a] = f[b] => a = b
    OBVIOUS
  <1>3. \A t \in T : \E m \in 1 .. k : f[m] = t
    OBVIOUS
  <1> HIDE DEF f
  <1>4. ExistsBijection(1 .. k, T)
    BY <1>1, <1>2, <1>3, Fun_IsBij, Zenon DEF ExistsBijection
  <1>5. IsFiniteSet(1 .. k) /\ Cardinality(1 .. k) = k
    <2>1. 1 \in Int /\ k \in Int
      OBVIOUS
    <2> QED
      BY <2>1, FS_Interval
  <1> QED
    BY <1>4, <1>5, FS_Bijection
=============================================================================
