------------------------------ MODULE Flatten -------------------------------
(***************************************************************************)
(* What FlattenSeq of the community modules returns.  It is defined by a    *)
(* recursive function; what is proved of it here is proved by induction on  *)
(* the length, with a set of naturals in the place of a predicate.         *)
(***************************************************************************)
EXTENDS Integers, Sequences, SequencesExt, SequenceTheorems, WellFoundedInduction, TLAPS

----------------------------------------------------------------------------
(* Induction over the naturals, for a set of them.                         *)

\* The order of the naturals is well-founded.
LEMMA Less == IsWellFoundedOn({s \in Nat \X Nat : s[1] < s[2]}, Nat)
BY NatLessThanWellFounded DEF OpToRel

\* A set of naturals that is not empty has a least member.
LEMMA Least ==
  ASSUME NEW T \in SUBSET Nat, T # {}
  PROVE  \E x \in T : \A y \in T : x <= y
<1> DEFINE R == {s \in Nat \X Nat : s[1] < s[2]}
<1>1. IsWellFoundedOn(R, Nat)
  BY Less
<1> HIDE DEF R
<1>2. PICK x \in T : \A y \in T : ~(<<y, x>> \in R)
  BY <1>1, WFMin
<1>3. \A y \in T : <<y, x>> \in R <=> y < x
  BY DEF R
<1>4. \A y \in T : ~(y < x)
  BY <1>2, <1>3
<1>5. T \subseteq Nat
  OBVIOUS
<1> QED
  BY <1>4, <1>5, SMT

\* Induction, stated on a set.
LEMMA Induction ==
  ASSUME NEW T \in SUBSET Nat, 0 \in T, \A n \in T : n + 1 \in T
  PROVE  T = Nat
<1> SUFFICES ASSUME T # Nat PROVE FALSE
  OBVIOUS
<1>1. PICK n \in Nat \ T : \A y \in Nat \ T : n <= y
  <2>1. Nat \ T # {}
    OBVIOUS
  <2> QED
    BY <2>1, Least
<1>2. n # 0 /\ n - 1 \in Nat
  BY <1>1
<1>3. n - 1 \in T
  BY <1>1, <1>2
<1> QED
  BY <1>1, <1>2, <1>3

\* Concatenation of sequences of numbers is associative.
LEMMA Associative ==
  ASSUME NEW s \in Seq(Nat), NEW t \in Seq(Nat), NEW v \in Seq(Nat)
  PROVE  (s \o t) \o v = s \o (t \o v)
<1>1. PICK X : X = Nat
  OBVIOUS
<1>2. s \in Seq(X) /\ t \in Seq(X) /\ v \in Seq(X)
  BY <1>1
<1> QED
  BY <1>2, ConcatAssociative, SMTT(30)

\* f is the function FlattenSeq defines by recursion, up to n.
Flattens(f, s, n) == f = [i \in 1 .. n |-> IF i = 1 THEN s[i] ELSE f[i - 1] \o s[i]]

Agree(s, t, n) == \A i \in 1 .. n : s[i] = t[i]

\* That function exists,
LEMMA FlattenExists ==
  ASSUME NEW s
  PROVE  \A n \in Nat : \E f : Flattens(f, s, n)
<1> DEFINE T == {n \in Nat : \E f : Flattens(f, s, n)}
<1>1. 0 \in T
  <2> DEFINE f == [i \in 1 .. 0 |-> 0]
  <2>1. Flattens(f, s, 0)
    BY DEF Flattens
  <2> QED
    BY <2>1
<1>2. ASSUME NEW n \in T PROVE n + 1 \in T
  <2>1. PICK f : Flattens(f, s, n)
    OBVIOUS
  <2> DEFINE v == IF n + 1 = 1 THEN s[n + 1] ELSE f[n] \o s[n + 1]
  <2>2. PICK g : g = [i \in 1 .. n + 1 |-> IF i = n + 1 THEN v ELSE f[i]]
    OBVIOUS
  <2>3. n \in Nat
    OBVIOUS
  <2> HIDE DEF T
  <2>4. ASSUME NEW i \in 1 .. n + 1
        PROVE  g[i] = IF i = 1 THEN s[i] ELSE g[i - 1] \o s[i]
    <3>1. CASE i = n + 1
      <4>1. i # 1 => i - 1 \in 1 .. n + 1 /\ i - 1 # n + 1 /\ i - 1 = n
        BY <2>3, <3>1
      <4>2. g[i] = v /\ (i # 1 => g[i - 1] = f[n])
        BY <2>2, <3>1, <4>1
      <4> QED
        BY <3>1, <4>2
    <3>2. CASE i # n + 1
      <4>1. i \in 1 .. n /\ (i # 1 => i - 1 \in 1 .. n /\ i - 1 # n + 1 /\ i - 1 \in 1 .. n + 1)
        BY <2>3, <3>2
      <4>2. g[i] = f[i] /\ (i # 1 => g[i - 1] = f[i - 1])
        BY <2>2, <3>2, <4>1
      <4>3. f[i] = IF i = 1 THEN s[i] ELSE f[i - 1] \o s[i]
        BY <2>1, <4>1 DEF Flattens
      <4> QED
        BY <4>2, <4>3
    <3> QED
      BY <3>1, <3>2
  <2>5. Flattens(g, s, n + 1)
    BY <2>2, <2>4 DEF Flattens
  <2> QED
    BY <2>3, <2>5 DEF T
<1> HIDE DEF T
<1>3. T = Nat
  <2>1. T \in SUBSET Nat
    BY DEF T
  <2> QED
    BY <1>1, <1>2, <2>1, Induction
<1> QED
  BY <1>3 DEF T

\* and two of them agree as far as their sequences do.
LEMMA FlattenUnique ==
  ASSUME NEW s, NEW t, NEW m \in Nat, NEW k \in Nat, NEW f, NEW g,
         Flattens(f, s, m), Flattens(g, t, k), m <= k, Agree(s, t, m)
  PROVE  Agree(f, g, m)
<1> DEFINE T == {n \in Nat : n \in 1 .. m => f[n] = g[n]}
<1>1. 0 \in T
  OBVIOUS
<1>2. ASSUME NEW n \in T PROVE n + 1 \in T
  <2> SUFFICES ASSUME n + 1 \in 1 .. m PROVE f[n + 1] = g[n + 1]
    OBVIOUS
  <2>1. n \in Nat /\ (n \in 1 .. m => f[n] = g[n])
    OBVIOUS
  <2> HIDE DEF T
  <2>2. n + 1 \in 1 .. k /\ (n + 1) - 1 = n
    BY <2>1
  <2>3. f[n + 1] = IF n + 1 = 1 THEN s[n + 1] ELSE f[(n + 1) - 1] \o s[n + 1]
    BY DEF Flattens
  <2>4. g[n + 1] = IF n + 1 = 1 THEN t[n + 1] ELSE g[(n + 1) - 1] \o t[n + 1]
    BY <2>2 DEF Flattens
  <2>5. s[n + 1] = t[n + 1]
    BY DEF Agree
  <2>6. CASE n = 0
    BY <2>3, <2>4, <2>5, <2>6
  <2>7. CASE n # 0
    <3>1. n \in 1 .. m
      BY <2>1, <2>7
    <3> QED
      BY <2>1, <2>2, <2>3, <2>4, <2>5, <3>1
  <2> QED
    BY <2>6, <2>7
<1> HIDE DEF T
<1>3. T = Nat
  <2>1. T \in SUBSET Nat
    BY DEF T
  <2> QED
    BY <1>1, <1>2, <2>1, Induction
<1> QED
  BY <1>3 DEF T, Agree

\* FlattenSeq takes the last value of that function.
LEMMA FlattenLast ==
  ASSUME NEW s, Len(s) \in Nat, Len(s) # 0
  PROVE  \E f : Flattens(f, s, Len(s)) /\ FlattenSeq(s) = f[Len(s)]
<1> DEFINE F == CHOOSE f : f = [i \in 1 .. Len(s) |-> IF i = 1 THEN s[i] ELSE f[i - 1] \o s[i]]
<1>1. FlattenSeq(s) = F[Len(s)]
  BY DEF FlattenSeq
<1>2. \E f : f = [i \in 1 .. Len(s) |-> IF i = 1 THEN s[i] ELSE f[i - 1] \o s[i]]
  BY FlattenExists, Zenon DEF Flattens
<1>3. F = [i \in 1 .. Len(s) |-> IF i = 1 THEN s[i] ELSE F[i - 1] \o s[i]]
  BY <1>2, Zenon
<1> HIDE DEF F
<1>4. Flattens(F, s, Len(s))
  BY <1>3 DEF Flattens
<1> QED
  BY <1>1, <1>4

\* Nothing is flattened to nothing,
LEMMA FlattenEmpty == FlattenSeq(<< >>) = << >>
<1>1. Len(<< >>) = 0
  OBVIOUS
<1> QED
  BY <1>1 DEF FlattenSeq

\* and a sequence that ends in x to what comes before, then x.
LEMMA FlattenAppend ==
  ASSUME NEW X, NEW s \in Seq(Seq(X)), NEW x \in Seq(X)
  PROVE  FlattenSeq(Append(s, x)) = FlattenSeq(s) \o x
<1>1. PICK t : t = Append(s, x)
  OBVIOUS
<1>2. /\ Len(t) = Len(s) + 1 /\ Len(s) \in Nat /\ t[Len(s) + 1] = x
      /\ \A i \in 1 .. Len(s) : t[i] = s[i]
  BY <1>1, AppendProperties, LenProperties
<1>3. PICK g : Flattens(g, t, Len(t)) /\ FlattenSeq(t) = g[Len(t)]
  BY <1>2, FlattenLast
<1>4. g[Len(s) + 1] = IF Len(s) + 1 = 1 THEN t[Len(s) + 1]
                      ELSE g[(Len(s) + 1) - 1] \o t[Len(s) + 1]
  <2>1. Len(s) + 1 \in 1 .. Len(t)
    BY <1>2
  <2>2. g = [i \in 1 .. Len(t) |-> IF i = 1 THEN t[i] ELSE g[i - 1] \o t[i]]
    BY <1>3 DEF Flattens
  <2> QED
    BY <2>1, <2>2
<1>5. CASE Len(s) = 0
  <2>1. s = << >>
    BY <1>5
  <2>2. << >> \o x = x
    BY ConcatEmptySeq
  <2>3. FlattenSeq(t) = x
    BY <1>2, <1>3, <1>4, <1>5
  <2> QED
    BY <1>1, <2>1, <2>2, <2>3, FlattenEmpty
<1>6. CASE Len(s) # 0
  <2>1. PICK f : Flattens(f, s, Len(s)) /\ FlattenSeq(s) = f[Len(s)]
    BY <1>2, <1>6, FlattenLast
  <2>2. Len(s) <= Len(t) /\ Len(t) \in Nat /\ Agree(s, t, Len(s))
    BY <1>2 DEF Agree
  <2>3. \A i \in 1 .. Len(s) : f[i] = g[i]
    <3>1. Agree(f, g, Len(s))
      BY <1>2, <1>3, <2>1, <2>2, FlattenUnique
    <3> QED
      BY <3>1 DEF Agree
  <2>4. g[Len(s)] = FlattenSeq(s) /\ (Len(s) + 1) - 1 = Len(s) /\ Len(s) + 1 # 1
    BY <1>2, <1>6, <2>1, <2>3
  <2>5. g[Len(s) + 1] = FlattenSeq(s) \o x
    BY <1>2, <1>4, <2>4
  <2> QED
    BY <1>1, <1>3, <2>5
<1> QED
  BY <1>2, <1>5, <1>6

\* A sequence of writes is flattened to a sequence of words,
LEMMA FlattenType ==
  ASSUME NEW X
  PROVE  \A s \in Seq(Seq(X)) : FlattenSeq(s) \in Seq(X)
<1> DEFINE T == {n \in Nat : \A s \in Seq(Seq(X)) : Len(s) = n => FlattenSeq(s) \in Seq(X)}
<1>1. 0 \in T
  <2>1. \A s \in Seq(Seq(X)) : Len(s) = 0 => s = << >>
    OBVIOUS
  <2> QED
    BY <2>1, FlattenEmpty
<1>2. ASSUME NEW n \in T PROVE n + 1 \in T
  <2>1. n \in Nat /\ \A s \in Seq(Seq(X)) : Len(s) = n => FlattenSeq(s) \in Seq(X)
    OBVIOUS
  <2>2. ASSUME NEW t \in Seq(Seq(X)), Len(t) = n + 1 PROVE FlattenSeq(t) \in Seq(X)
    <3>1. t # << >>
      BY <2>1, <2>2
    <3>2. PICK s \in Seq(Seq(X)), x \in Seq(X) : t = Append(s, x)
      BY <3>1, SequenceEmptyOrAppend
    <3>3. Len(s) = n
      BY <2>1, <2>2, <3>2, AppendProperties
    <3> QED
      BY <2>1, <3>2, <3>3, FlattenAppend, ConcatProperties
  <2> QED
    BY <2>1, <2>2
<1> HIDE DEF T
<1>3. T = Nat
  <2>1. T \in SUBSET Nat
    BY DEF T
  <2> QED
    BY <1>1, <1>2, <2>1, Induction
<1> QED
  BY <1>3, LenProperties DEF T

\* Nothing but empty sequences flattens to nothing.
LEMMA FlattenNothing ==
  ASSUME NEW X
  PROVE  \A s \in Seq(Seq(X)) : (\A i \in 1 .. Len(s) : s[i] = << >>) => FlattenSeq(s) = << >>
<1> DEFINE E(s) == \A i \in 1 .. Len(s) : s[i] = << >>
           T == {n \in Nat : \A s \in Seq(Seq(X)) : Len(s) = n /\ E(s) => FlattenSeq(s) = << >>}
<1>1. 0 \in T
  <2>1. ASSUME NEW s \in Seq(Seq(X)), Len(s) = 0 PROVE FlattenSeq(s) = << >>
    <3>1. s = << >>
      BY <2>1, EmptySeq
    <3> QED
      BY <3>1, FlattenEmpty
  <2> QED
    BY <2>1
<1>2. ASSUME NEW n \in T PROVE n + 1 \in T
  <2>1. ASSUME NEW s \in Seq(Seq(X)), Len(s) = n + 1, E(s) PROVE FlattenSeq(s) = << >>
    <3>1. s # << >>
      BY <2>1, EmptySeq
    <3>2. PICK r \in Seq(Seq(X)), x \in Seq(X) : s = Append(r, x)
      BY <3>1, SequenceEmptyOrAppend
    <3>3. /\ Len(s) = Len(r) + 1 /\ Len(r) \in Nat /\ s[Len(r) + 1] = x
          /\ \A i \in 1 .. Len(r) : s[i] = r[i]
      BY <3>2, AppendProperties, LenProperties
    <3>4. Len(r) = n
      BY <2>1, <3>3
    <3>5. x = << >> /\ E(r)
      <4>1. \A i \in 1 .. Len(r) : i \in 1 .. Len(s)
        BY <3>3
      <4>2. Len(r) + 1 \in 1 .. Len(s)
        BY <3>3
      <4> QED
        BY <2>1, <3>3, <4>1, <4>2
    <3>6. FlattenSeq(r) = << >>
      BY <3>4, <3>5
    <3>7. FlattenSeq(s) = << >> \o x
      BY <3>2, <3>6, FlattenAppend
    <3> QED
      BY <3>5, <3>7
  <2> QED
    BY <2>1
<1> HIDE DEF T
<1>3. T \subseteq Nat
  BY DEF T
<1>4. T = Nat
  BY <1>1, <1>2, <1>3, Induction
<1> QED
  BY <1>4, LenProperties DEF T

\* A sequence is flattened to its first member, then what the others are.
LEMMA FlattenHead ==
  ASSUME NEW X
  PROVE  \A s \in Seq(Seq(X)) :
           s # << >> => FlattenSeq(s) = Head(s) \o FlattenSeq(Tail(s))
<1> DEFINE P(s) == FlattenSeq(s) = Head(s) \o FlattenSeq(Tail(s))
           T == {n \in Nat : \A s \in Seq(Seq(X)) : Len(s) = n /\ s # << >> => P(s)}
<1>1. 0 \in T
  <2>1. \A s \in Seq(Seq(X)) : Len(s) = 0 => s = << >>
    OBVIOUS
  <2> QED
    BY <2>1
<1>2. ASSUME NEW n \in T PROVE n + 1 \in T
  <2>1. n \in Nat /\ \A s \in Seq(Seq(X)) : Len(s) = n /\ s # << >> => P(s)
    OBVIOUS
  <2>2. ASSUME NEW t \in Seq(Seq(X)), Len(t) = n + 1 PROVE P(t)
    <3>1. t # << >>
      BY <2>1, <2>2
    <3>2. PICK s \in Seq(Seq(X)), x \in Seq(X) : t = Append(s, x)
      BY <3>1, SequenceEmptyOrAppend
    <3>3. Len(s) = n
      BY <2>1, <2>2, <3>2, AppendProperties
    <3>4. s # << >> => P(s)
      BY <2>1, <3>2, <3>3
    <3>5. FlattenSeq(t) = FlattenSeq(s) \o x
      BY <3>2, FlattenAppend
    <3> HIDE DEF P, T
    <3>6. CASE s = << >>
      <4>1. Head(t) = x /\ Tail(t) = << >>
        BY <3>2, <3>6, HeadTailAppend
      <4>2. << >> \o x = x /\ x \o << >> = x
        BY ConcatEmptySeq
      <4> QED
        BY <3>5, <3>6, <4>1, <4>2, FlattenEmpty DEF P
    <3>7. CASE s # << >>
      <4>1. Head(t) = Head(s) /\ Tail(t) = Append(Tail(s), x)
        BY <3>2, <3>7, HeadTailAppend
      <4>2. Head(s) \in Seq(X) /\ Tail(s) \in Seq(Seq(X))
        BY <3>7, HeadTailProperties
      <4>3. FlattenSeq(Tail(t)) = FlattenSeq(Tail(s)) \o x
        BY <4>1, <4>2, FlattenAppend
      <4>4. (Head(s) \o FlattenSeq(Tail(s))) \o x = Head(s) \o (FlattenSeq(Tail(s)) \o x)
        <5>1. PICK u \in Seq(X) : u = FlattenSeq(Tail(s))
          BY <4>2, FlattenType
        <5>2. PICK h \in Seq(X) : h = Head(s)
          BY <4>2
        <5>3. (h \o u) \o x = h \o (u \o x)
          BY ConcatAssociative
        <5> QED
          BY <5>1, <5>2, <5>3
      <4> QED
        BY <3>4, <3>5, <3>7, <4>1, <4>3, <4>4 DEF P
    <3> QED
      BY <3>6, <3>7
  <2> HIDE DEF P
  <2> QED
    BY <2>1, <2>2
<1> HIDE DEF T
<1>3. T = Nat
  <2>1. T \in SUBSET Nat
    BY DEF T
  <2> QED
    BY <1>1, <1>2, <2>1, Induction
<1> QED
  BY <1>3, LenProperties DEF T

\* Writes of one word each are flattened to those words.
LEMMA FlattenWords ==
  ASSUME NEW X
  PROVE  \A l \in Seq(X) : /\ [i \in 1 .. Len(l) |-> <<l[i]>>] \in Seq(Seq(X))
                           /\ FlattenSeq([i \in 1 .. Len(l) |-> <<l[i]>>]) = l
<1> DEFINE B(l) == [i \in 1 .. Len(l) |-> <<l[i]>>]
           T == {n \in Nat : \A l \in Seq(X) : Len(l) = n => FlattenSeq(B(l)) = l}
<1>1. \A l \in Seq(X) : B(l) \in Seq(Seq(X)) /\ Len(B(l)) = Len(l)
  OBVIOUS
<1>2. 0 \in T
  <2>1. \A l \in Seq(X) : Len(l) = 0 => l = << >>
    OBVIOUS
  <2>2. B(<< >>) = << >>
    OBVIOUS
  <2> HIDE DEF B
  <2> QED
    BY <2>1, <2>2, FlattenEmpty
<1>3. ASSUME NEW n \in T PROVE n + 1 \in T
  <2>1. n \in Nat /\ \A l \in Seq(X) : Len(l) = n => FlattenSeq(B(l)) = l
    OBVIOUS
  <2>2. ASSUME NEW t \in Seq(X), Len(t) = n + 1 PROVE FlattenSeq(B(t)) = t
    <3>1. PICK l \in Seq(X), x \in X : t = Append(l, x)
      BY <2>1, <2>2, SequenceEmptyOrAppend
    <3>2. Len(l) = n /\ t = l \o <<x>>
      BY <2>1, <2>2, <3>1, AppendProperties, AppendIsConcat
    <3>3. B(t) = Append(B(l), <<x>>)
      <4>1. <<x>> \in Seq(X) /\ B(l) \in Seq(Seq(X)) /\ B(t) \in Seq(Seq(X))
        BY <1>1
      <4>2. Len(Append(B(l), <<x>>)) = Len(B(t)) /\ Len(B(t)) = n + 1
        BY <1>1, <2>2, <3>2, <4>1, AppendProperties
      <4>3. ASSUME NEW i \in 1 .. n + 1 PROVE B(t)[i] = Append(B(l), <<x>>)[i]
        <5>1. B(t)[i] = <<t[i]>>
          BY <2>2
        <5>2. CASE i = n + 1
          <6>1. t[i] = x /\ Append(B(l), <<x>>)[i] = <<x>>
            BY <1>1, <2>1, <3>1, <3>2, <4>1, <5>2, AppendProperties
          <6> QED
            BY <5>1, <6>1
        <5>3. CASE i # n + 1
          <6>1. i \in 1 .. n
            BY <2>1, <5>3
          <6>2. t[i] = l[i] /\ Append(B(l), <<x>>)[i] = B(l)[i] /\ B(l)[i] = <<l[i]>>
            BY <1>1, <2>1, <3>1, <3>2, <4>1, <6>1, AppendProperties
          <6> QED
            BY <5>1, <6>2
        <5> QED
          BY <5>2, <5>3
      <4> HIDE DEF B, T
      <4>4. Append(B(l), <<x>>) \in Seq(Seq(X))
        BY <4>1, AppendProperties
      <4> QED
        BY <4>1, <4>2, <4>3, <4>4, SeqEqual
    <3>4. FlattenSeq(B(l)) = l
      BY <2>1, <3>2
    <3> HIDE DEF B, T
    <3>5. FlattenSeq(B(t)) = FlattenSeq(B(l)) \o <<x>>
      <4>1. PICK b \in Seq(Seq(X)), e \in Seq(X) : b = B(l) /\ e = <<x>>
        <5>1. B(l) \in Seq(Seq(X))
          BY <1>1
        <5>2. <<x>> \in Seq(X)
          OBVIOUS
        <5> QED
          BY <5>1, <5>2, Zenon
      <4>2. FlattenSeq(Append(b, e)) = FlattenSeq(b) \o e
        BY FlattenAppend
      <4> QED
        BY <3>3, <4>1, <4>2
    <3> QED
      BY <3>2, <3>4, <3>5
  <2> HIDE DEF B
  <2> QED
    BY <2>1, <2>2
<1> HIDE DEF T
<1>4. T = Nat
  <2>1. T \in SUBSET Nat
    BY DEF T
  <2> QED
    BY <1>2, <1>3, <2>1, Induction
<1> QED
  BY <1>1, <1>4, LenProperties DEF T

\* An answer of two writes or more is flattened to its first write, what lies
\* between and its last.
LEMMA FlattenEnds ==
  ASSUME NEW X, NEW s \in Seq(Seq(X)), Len(s) >= 2
  PROVE  /\ SubSeq(s, 2, Len(s) - 1) \in Seq(Seq(X))
         /\ FlattenSeq(s) = s[1] \o (FlattenSeq(SubSeq(s, 2, Len(s) - 1)) \o s[Len(s)])
<1>1. s # << >> /\ Len(s) \in Nat
  BY LenProperties
<1>2. PICK m : m = SubSeq(s, 2, Len(s) - 1)
  OBVIOUS
<1>3. m \in Seq(Seq(X))
  <2>1. 2 \in Int /\ Len(s) - 1 \in Int /\ \A i \in 2 .. Len(s) - 1 : s[i] \in Seq(X)
    BY <1>1, ElementOfSeq
  <2> QED
    BY <1>2, <2>1, SubSeqProperties
<1>4. Tail(s) = SubSeq(s, 2, Len(s)) /\ Head(s) = s[1]
  BY <1>1, TailIsSubSeq
<1>5. s[Len(s)] \in Seq(X)
  BY <1>1, ElementOfSeq
<1>6. Tail(s) = m \o <<s[Len(s)]>>
  <2>1. PICK n : n = Len(s)
    OBVIOUS
  <2>2. 2 \in 1 .. Len(s) /\ n \in 2 .. Len(s)
    BY <1>1, <2>1
  <2>3. SubSeq(s, 2, n) = SubSeq(s, 2, n - 1) \o <<s[n]>>
    BY <2>2, SubSeqRecursiveSecond
  <2> QED
    BY <1>2, <1>4, <2>1, <2>3
<1>7. Tail(s) = Append(m, s[Len(s)])
  BY <1>3, <1>5, <1>6, AppendIsConcat
<1>8. FlattenSeq(Tail(s)) = FlattenSeq(m) \o s[Len(s)]
  BY <1>3, <1>5, <1>7, FlattenAppend
<1> QED
  BY <1>1, <1>2, <1>3, <1>4, <1>8, FlattenHead

=============================================================================
