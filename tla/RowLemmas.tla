------------------------------ MODULE RowLemmas ------------------------------
(***************************************************************************)
(* Sequences of ids, for any ids: what TabRows' operators on rows return   *)
(* and keep.  TabRows goes through rows with recursive functions; what     *)
(* they return is shown by induction on the rows, here and once, and what  *)
(* TabRowsProofs needs of a view rests on it.                              *)
(***************************************************************************)
EXTENDS TabRows, FiniteSetTheorems, SequenceTheorems, WellFoundedInduction, TLAPS

-----------------------------------------------------------------------------
(* Induction, and functions defined by it                                  *)

\* Induction, as a fact about sets of numbers.
LEMMA Induction ==
  ASSUME NEW S, 0 \in S, \A n \in Nat : n \in S => n + 1 \in S
  PROVE  Nat \subseteq S
<1>1. SUFFICES ASSUME NEW m \in Nat, m \notin S PROVE FALSE
  OBVIOUS
<1> DEFINE T == {0 .. k : k \in {i \in 0 .. m : i \notin S}}
           R == StrictSubsetOrdering(0 .. m)
<1>2. IsWellFoundedOn(R, SUBSET (0 .. m))
  <2>1. IsFiniteSet(0 .. m)
    BY FS_Interval
  <2> QED BY <2>1, FS_FiniteSubsetsOfFinite, FS_StrictSubsetOrderingWellFounded
<1>3. T \subseteq SUBSET (0 .. m)
  <2>1. ASSUME NEW k \in 0 .. m PROVE 0 .. k \in SUBSET (0 .. m)
    OBVIOUS
  <2> QED BY <2>1
<1>4. T # {}
  <2>1. m \in {i \in 0 .. m : i \notin S}
    BY <1>1
  <2> QED BY <2>1
<1>5. PICK x \in T : \A y \in T : <<y, x>> \notin R
  <2> HIDE DEF T, R
  <2> QED BY <1>2, <1>3, <1>4, WFMin
<1>6. PICK k \in 0 .. m : k \notin S /\ x = 0 .. k
  BY <1>5
<1>7. k # 0 /\ k - 1 \in Nat /\ k - 1 \in 0 .. m
  BY <1>6
<1>8. k - 1 \notin S
  <2>1. (k - 1) + 1 = k
    BY <1>7
  <2> QED BY <1>6, <1>7, <2>1
<1>9. 0 .. (k - 1) \in T
  BY <1>7, <1>8
<1>10. <<0 .. (k - 1), x>> \in R
  <2>1. k \in 0 .. k /\ k \notin 0 .. (k - 1)
    BY <1>6, <1>7
  <2>2. 0 .. (k - 1) \subseteq 0 .. k /\ 0 .. k \subseteq 0 .. m
    BY <1>6, <1>7
  <2> QED BY <1>6, <2>1, <2>2 DEF StrictSubsetOrdering
<1> QED BY <1>5, <1>9, <1>10

\* Induction up to a bound.
LEMMA UpTo ==
  ASSUME NEW n \in Nat, NEW S, 0 \in S, \A i \in 0 .. n - 1 : i \in S => i + 1 \in S
  PROVE  \A i \in 0 .. n : i \in S
<1> DEFINE Q == {i \in Nat : i <= n => i \in S}
<1>1. 0 \in Q
  OBVIOUS
<1>2. \A i \in Nat : i \in Q => i + 1 \in Q
  OBVIOUS
<1>3. Nat \subseteq Q
  <2> HIDE DEF Q
  <2> QED BY <1>1, <1>2, Induction
<1> QED BY <1>3

\* Induction over sequences, as a fact about sets of them.
LEMMA SeqInduction ==
  ASSUME NEW S, NEW G, <<>> \in G,
         \A s \in Seq(S), x \in S : s \in G => Append(s, x) \in G
  PROVE  Seq(S) \subseteq G
<1> DEFINE Q == {n \in Nat : \A s \in Seq(S) : Len(s) = n => s \in G}
<1>1. 0 \in Q
  <2>1. \A s \in Seq(S) : Len(s) = 0 => s = <<>>
    BY EmptySeq
  <2> QED BY <2>1
<1>2. ASSUME NEW n \in Nat, n \in Q
      PROVE  n + 1 \in Q
  <2> SUFFICES ASSUME NEW s \in Seq(S), Len(s) = n + 1
               PROVE  s \in G
    OBVIOUS
  <2>1. PICK u \in Seq(S), x \in S : s = Append(u, x)
    <3>1. s # <<>>
      OBVIOUS
    <3> QED BY <3>1, SequenceEmptyOrAppend
  <2>2. Len(u) = n
    BY <2>1, AppendProperties
  <2> QED BY <1>2, <2>1, <2>2
<1>3. Nat \subseteq Q
  <2> HIDE DEF Q
  <2> QED BY <1>1, <1>2, Induction
<1>4. \A s \in Seq(S) : Len(s) \in Nat
  OBVIOUS
<1> QED BY <1>3, <1>4

\* f starts with b and goes on as g says, up to n.
Unfolds(f, D, n, b, g) ==
  f \in [0 .. n -> D] /\ f[0] = b /\ \A i \in 1 .. n : f[i] = g[<<f[i - 1], i>>]

\* Whatever each step makes of the one before, there is a function of all of them.
LEMMA Unfolding ==
  ASSUME NEW D, NEW n \in Nat, NEW b \in D, NEW g \in [D \X (1 .. n) -> D]
  PROVE  \E f : Unfolds(f, D, n, b, g)
<1> DEFINE Fits(f, k) == f[0] = b /\ \A i \in 1 .. k : f[i] = g[<<f[i - 1], i>>]
           Q == {k \in 0 .. n : \E f \in [0 .. k -> D] : Fits(f, k)}
<1>1. 0 \in Q
  <2> DEFINE f == [i \in 0 .. 0 |-> b]
  <2>1. f \in [0 .. 0 -> D] /\ Fits(f, 0)
    OBVIOUS
  <2>2. 0 \in 0 .. n
    OBVIOUS
  <2> HIDE DEF f, Fits
  <2> QED BY <2>1, <2>2
<1>2. ASSUME NEW k \in 0 .. n - 1, k \in Q
      PROVE  k + 1 \in Q
  <2>1. PICK f \in [0 .. k -> D] : Fits(f, k)
    BY <1>2
  <2> DEFINE h == [i \in 0 .. k + 1 |-> IF i <= k THEN f[i] ELSE g[<<f[k], k + 1>>]]
  <2>2. k \in 0 .. k /\ f[k] \in D /\ k + 1 \in 1 .. n
    OBVIOUS
  <2>3. g[<<f[k], k + 1>>] \in D
    BY <2>2
  <2>4. h \in [0 .. k + 1 -> D]
    BY <2>3
  <2>5. h[0] = b
    BY <2>1
  <2>6. ASSUME NEW i \in 1 .. k + 1
        PROVE  h[i] = g[<<h[i - 1], i>>]
    <3>1. CASE i \in 1 .. k
      BY <2>1, <3>1
    <3>2. CASE i = k + 1
      <4>1. h[i] = g[<<f[k], k + 1>>] /\ h[k] = f[k] /\ i - 1 = k
        BY <3>2
      <4> QED BY <3>2, <4>1
    <3> QED BY <3>1, <3>2
  <2> HIDE DEF h
  <2>7. Fits(h, k + 1) /\ k + 1 \in 0 .. n
    BY <2>2, <2>5, <2>6
  <2> HIDE DEF Fits
  <2> QED BY <2>4, <2>7
<1>3. n \in Q
  <2> HIDE DEF Q
  <2> QED BY <1>1, <1>2, UpTo
<1> QED BY <1>3 DEF Unfolds

-----------------------------------------------------------------------------
(* Sequences                                                               *)

\* No member twice.
Once(s) == \A i, j \in 1 .. Len(s) : s[i] = s[j] => i = j

\* s lists the members of S, each once.
Lists(s, S) == s \in Seq(S) /\ ToSet(s) = S /\ Once(s)

\* Members, by their places.
LEMMA Members ==
  ASSUME NEW S, NEW s \in Seq(S)
  PROVE  /\ ToSet(s) \subseteq S /\ s \in Seq(ToSet(s))
         /\ \A x : x \in ToSet(s) <=> \E i \in 1 .. Len(s) : s[i] = x
         /\ \A i \in 1 .. Len(s) : s[i] \in ToSet(s)
         /\ ToSet(s) = {} <=> s = <<>>
<1>1. s \in [1 .. Len(s) -> S] /\ Len(s) \in Nat /\ DOMAIN s = 1 .. Len(s)
  OBVIOUS
<1>2. \A i \in 1 .. Len(s) : s[i] \in ToSet(s)
  BY <1>1 DEF ToSet
<1>3. s \in Seq(ToSet(s))
  BY <1>1, <1>2
<1>4. \A x : x \in ToSet(s) <=> \E i \in 1 .. Len(s) : s[i] = x
  BY <1>1 DEF ToSet
<1>5. ToSet(s) \subseteq S
  BY <1>1, <1>4
<1>6. ASSUME s # <<>>
      PROVE  ToSet(s) # {}
  <2>1. 1 \in 1 .. Len(s)
    BY <1>6
  <2> QED BY <2>1, <1>2
<1>7. ToSet(<<>>) = {}
  BY DEF ToSet
<1> QED BY <1>2, <1>3, <1>4, <1>5, <1>6, <1>7

\* The members of an extended sequence.
LEMMA AppendMembers ==
  ASSUME NEW S, NEW s \in Seq(S), NEW x \in S
  PROVE  ToSet(Append(s, x)) = ToSet(s) \cup {x}
<1>1. Append(s, x) \in Seq(S) /\ Len(Append(s, x)) = Len(s) + 1 /\ Len(s) \in Nat
  OBVIOUS
<1>2. \A y : y \in ToSet(Append(s, x)) <=> \E i \in 1 .. Len(s) + 1 : Append(s, x)[i] = y
  BY <1>1, Members
<1>3. \A i \in 1 .. Len(s) : Append(s, x)[i] = s[i]
  OBVIOUS
<1>4. Append(s, x)[Len(s) + 1] = x
  OBVIOUS
<1>5. \A y : y \in ToSet(s) <=> \E i \in 1 .. Len(s) : s[i] = y
  BY Members
<1>6. \A y : y \in ToSet(Append(s, x)) <=> y \in ToSet(s) \/ y = x
  <2> TAKE y
  <2>1. ASSUME y \in ToSet(Append(s, x)), y # x
        PROVE  y \in ToSet(s)
    <3>1. PICK i \in 1 .. Len(s) + 1 : Append(s, x)[i] = y
      BY <1>2, <2>1
    <3>2. i \in 1 .. Len(s)
      BY <1>1, <1>4, <2>1, <3>1
    <3> QED BY <1>3, <1>5, <3>1, <3>2
  <2>2. ASSUME y \in ToSet(s)
        PROVE  y \in ToSet(Append(s, x))
    <3>1. PICK i \in 1 .. Len(s) : s[i] = y
      BY <1>5, <2>2
    <3>2. i \in 1 .. Len(s) + 1
      BY <1>1
    <3> QED BY <1>2, <1>3, <3>1, <3>2
  <2>3. Len(s) + 1 \in 1 .. Len(s) + 1
    BY <1>1
  <2>4. x \in ToSet(Append(s, x))
    BY <1>2, <1>4, <2>3
  <2> QED BY <2>1, <2>2, <2>4
<1> QED BY <1>6

\* The members of two sequences one after the other.
LEMMA ConcatMembers ==
  ASSUME NEW S, NEW s \in Seq(S), NEW u \in Seq(S)
  PROVE  s \o u \in Seq(S) /\ ToSet(s \o u) = ToSet(s) \cup ToSet(u)
<1>1. /\ s \o u \in Seq(S) /\ Len(s) \in Nat /\ Len(u) \in Nat
      /\ Len(s \o u) = Len(s) + Len(u)
      /\ \A i \in 1 .. Len(s) + Len(u) :
           (s \o u)[i] = IF i <= Len(s) THEN s[i] ELSE u[i - Len(s)]
  BY ConcatProperties
<1>2. \A y : y \in ToSet(s) <=> \E i \in 1 .. Len(s) : s[i] = y
  BY Members
<1>3. \A y : y \in ToSet(u) <=> \E i \in 1 .. Len(u) : u[i] = y
  BY Members
<1>4. \A y : y \in ToSet(s \o u) <=> \E i \in 1 .. Len(s) + Len(u) : (s \o u)[i] = y
  BY <1>1, Members
<1>5. ASSUME NEW y, y \in ToSet(s \o u)
      PROVE  y \in ToSet(s) \cup ToSet(u)
  <2>1. PICK i \in 1 .. Len(s) + Len(u) : (s \o u)[i] = y
    BY <1>4, <1>5
  <2>2. CASE i <= Len(s)
    BY <1>1, <1>2, <2>1, <2>2
  <2>3. CASE ~(i <= Len(s))
    <3>1. i - Len(s) \in 1 .. Len(u) /\ u[i - Len(s)] = y
      BY <1>1, <2>1, <2>3
    <3> QED BY <1>3, <3>1
  <2> QED BY <2>2, <2>3
<1>6. ASSUME NEW y, y \in ToSet(s)
      PROVE  y \in ToSet(s \o u)
  <2>1. PICK i \in 1 .. Len(s) : s[i] = y
    BY <1>2, <1>6
  <2>2. i \in 1 .. Len(s) + Len(u) /\ (s \o u)[i] = y
    BY <1>1, <2>1
  <2> QED BY <1>4, <2>2
<1>7. ASSUME NEW y, y \in ToSet(u)
      PROVE  y \in ToSet(s \o u)
  <2>1. PICK i \in 1 .. Len(u) : u[i] = y
    BY <1>3, <1>7
  <2>2. Len(s) + i \in 1 .. Len(s) + Len(u) /\ (s \o u)[Len(s) + i] = y
    BY <1>1, <2>1
  <2> QED BY <1>4, <2>2
<1> QED BY <1>1, <1>5, <1>6, <1>7

\* One after the other, two listings of different things list both.
LEMMA ConcatLists ==
  ASSUME NEW S, NEW s, Lists(s, S), NEW U, NEW u, Lists(u, U), S \cap U = {}
  PROVE  Lists(s \o u, S \cup U)
<1> DEFINE V == S \cup U
<1>1. s \in Seq(V) /\ u \in Seq(V) /\ ToSet(s) = S /\ ToSet(u) = U
  BY SeqMonotonic DEF Lists
<1>2. s \o u \in Seq(V) /\ ToSet(s \o u) = V
  BY <1>1, ConcatMembers
<1>3. /\ Len(s \o u) = Len(s) + Len(u) /\ Len(s) \in Nat /\ Len(u) \in Nat
      /\ \A i \in 1 .. Len(s) + Len(u) :
           (s \o u)[i] = IF i <= Len(s) THEN s[i] ELSE u[i - Len(s)]
  BY <1>1, ConcatProperties
<1>4. /\ \A i \in 1 .. Len(s) : s[i] \in S
      /\ \A i \in 1 .. Len(u) : u[i] \in U
  BY DEF Lists
<1>5. Once(s) /\ Once(u)
  BY DEF Lists
<1>6. ASSUME NEW i \in 1 .. Len(s) + Len(u), NEW j \in 1 .. Len(s) + Len(u),
             (s \o u)[i] = (s \o u)[j]
      PROVE  i = j
  <2>1. CASE i <= Len(s) /\ j <= Len(s)
    <3>1. i \in 1 .. Len(s) /\ j \in 1 .. Len(s) /\ s[i] = s[j]
      BY <1>3, <1>6, <2>1
    <3> QED BY <1>5, <3>1 DEF Once
  <2>2. CASE ~(i <= Len(s)) /\ ~(j <= Len(s))
    <3>1. i - Len(s) \in 1 .. Len(u) /\ j - Len(s) \in 1 .. Len(u)
          /\ u[i - Len(s)] = u[j - Len(s)]
      BY <1>3, <1>6, <2>2
    <3>2. i - Len(s) = j - Len(s)
      BY <1>5, <3>1 DEF Once
    <3> QED BY <1>3, <3>2
  <2>3. CASE i <= Len(s) /\ ~(j <= Len(s))
    <3>1. i \in 1 .. Len(s) /\ j - Len(s) \in 1 .. Len(u) /\ s[i] = u[j - Len(s)]
      BY <1>3, <1>6, <2>3
    <3> QED BY <1>4, <3>1
  <2>4. CASE ~(i <= Len(s)) /\ j <= Len(s)
    <3>1. j \in 1 .. Len(s) /\ i - Len(s) \in 1 .. Len(u) /\ u[i - Len(s)] = s[j]
      BY <1>3, <1>6, <2>4
    <3> QED BY <1>4, <3>1
  <2> QED BY <2>1, <2>2, <2>3, <2>4
<1>7. Once(s \o u)
  BY <1>3, <1>6 DEF Once
<1> QED BY <1>2, <1>7 DEF Lists

\* The empty sequence, and one of one member.
LEMMA SmallLists ==
  /\ Lists(<<>>, {})
  /\ \A x : Lists(<<x>>, {x}) /\ ToSet(<<x>>) = {x}
<1>1. Lists(<<>>, {})
  BY DEF Lists, Once, ToSet
<1>2. ASSUME NEW x PROVE Lists(<<x>>, {x}) /\ ToSet(<<x>>) = {x}
  <2>1. <<x>> \in Seq({x}) /\ Len(<<x>>) = 1 /\ <<x>>[1] = x
    OBVIOUS
  <2>2. \A y : y \in ToSet(<<x>>) <=> \E i \in 1 .. 1 : <<x>>[i] = y
    BY <2>1, Members
  <2>3. ToSet(<<x>>) = {x}
    BY <2>1, <2>2
  <2> QED BY <2>1, <2>3 DEF Lists, Once
<1> QED BY <1>1, <1>2

\* What lists S is a sequence over whatever S is part of.
LEMMA ListsIn ==
  ASSUME NEW S, NEW s, Lists(s, S), NEW V, S \subseteq V
  PROVE  s \in Seq(V) /\ \A i \in 1 .. Len(s) : s[i] \in S
<1>1. s \in Seq(S)
  BY DEF Lists
<1> QED BY <1>1, SeqMonotonic

-----------------------------------------------------------------------------
(* Those of a sequence that are in a set                                   *)

\* What of s is in T, after each member.
KeepsStep(f, s, T, i) == f[i] = IF s[i] \in T THEN Append(f[i - 1], s[i]) ELSE f[i - 1]
KeepsFrom(f, S, s, T) ==
  f \in [0 .. Len(s) -> Seq(S)] /\ f[0] = <<>> /\ \A i \in 1 .. Len(s) : KeepsStep(f, s, T, i)

\* Among goes through its sequence from the front.
LEMMA AmongUnfolds ==
  ASSUME NEW S, NEW s \in Seq(S), NEW T
  PROVE  \E f : KeepsFrom(f, S, s, T) /\ Among(s, T) = f[Len(s)]
<1> DEFINE n == Len(s)
           D == Seq(S)
           g == [p \in D \X (1 .. n) |-> IF s[p[2]] \in T THEN Append(p[1], s[p[2]]) ELSE p[1]]
           first == CHOOSE f : f = [i \in 0 .. n |->
                      IF i = 0 THEN <<>>
                      ELSE IF s[i] \in T THEN Append(f[i - 1], s[i]) ELSE f[i - 1]]
<1>1. n \in Nat /\ <<>> \in D /\ \A i \in 1 .. n : s[i] \in S
  OBVIOUS
<1>2. g \in [D \X (1 .. n) -> D]
  BY <1>1
<1>2a. PICK f : Unfolds(f, D, n, <<>>, g)
  <2> HIDE DEF n, D, g, first
  <2> QED BY <1>1, <1>2, Unfolding
<1>3. f \in [0 .. n -> D] /\ f[0] = <<>> /\ \A i \in 1 .. n : f[i] = g[<<f[i - 1], i>>]
  BY <1>2a DEF Unfolds
<1>4. ASSUME NEW i \in 1 .. n
      PROVE  f[i] = IF s[i] \in T THEN Append(f[i - 1], s[i]) ELSE f[i - 1]
  <2>1. f[i - 1] \in D
    BY <1>1, <1>3
  <2>2. <<f[i - 1], i>> \in D \X (1 .. n)
    BY <2>1
  <2> QED BY <1>3, <2>2
<1>5. f = [i \in 0 .. n |->
             IF i = 0 THEN <<>> ELSE IF s[i] \in T THEN Append(f[i - 1], s[i]) ELSE f[i - 1]]
  <2> DEFINE h == [i \in 0 .. n |->
             IF i = 0 THEN <<>> ELSE IF s[i] \in T THEN Append(f[i - 1], s[i]) ELSE f[i - 1]]
  <2>1. ASSUME NEW i \in 0 .. n PROVE f[i] = h[i]
    <3>1. i = 0 \/ i \in 1 .. n
      BY <1>1
    <3> QED BY <1>3, <1>4, <3>1
  <2> QED BY <1>3, <2>1
<1>6. first = [i \in 0 .. n |->
             IF i = 0 THEN <<>>
             ELSE IF s[i] \in T THEN Append(first[i - 1], s[i]) ELSE first[i - 1]]
  BY <1>5
<1>7. Among(s, T) = first[n]
  BY DEF Among
<1>7a. \A i \in 0 .. n :
           first[i] = IF i = 0 THEN <<>>
                      ELSE IF s[i] \in T THEN Append(first[i - 1], s[i]) ELSE first[i - 1]
  <2> HIDE DEF first
  <2> QED BY <1>6
<1> HIDE DEF first
<1>8. \A i \in 0 .. n : first[i] = f[i]
  <2> DEFINE Q == {i \in 0 .. n : first[i] = f[i]}
  <2>1. 0 \in Q
    BY <1>1, <1>3, <1>7a
  <2>2. ASSUME NEW i \in 0 .. n - 1, i \in Q
        PROVE  i + 1 \in Q
    <3>1. i + 1 \in 1 .. n /\ (i + 1) - 1 = i /\ i + 1 # 0
      BY <1>1
    <3>2. first[i + 1] = IF s[i + 1] \in T THEN Append(first[i], s[i + 1]) ELSE first[i]
      BY <1>1, <1>7a, <3>1
    <3>3. f[i + 1] = IF s[i + 1] \in T THEN Append(f[i], s[i + 1]) ELSE f[i]
      BY <1>4, <3>1
    <3> QED BY <2>2, <3>1, <3>2, <3>3
  <2> HIDE DEF Q
  <2>3. \A i \in 0 .. n : i \in Q
    BY <1>1, <2>1, <2>2, UpTo
  <2> QED BY <2>3 DEF Q
<1>9. n \in 0 .. n
  BY <1>1
<1>10. KeepsFrom(f, S, s, T)
  BY <1>3, <1>4 DEF KeepsFrom, KeepsStep
<1> QED BY <1>7, <1>8, <1>9, <1>10

\* Nothing is among nothing.
LEMMA AmongNothing == \A T : Among(<<>>, T) = <<>>
<1> SUFFICES ASSUME NEW T PROVE Among(<<>>, T) = <<>>
  OBVIOUS
<1>1. <<>> \in Seq({}) /\ Len(<<>>) = 0
  OBVIOUS
<1>2. \E f : KeepsFrom(f, {}, <<>>, T) /\ Among(<<>>, T) = f[Len(<<>>)]
  BY <1>1, AmongUnfolds
<1> QED BY <1>1, <1>2 DEF KeepsFrom

\* One more member is kept or not.
LEMMA AmongAppend ==
  ASSUME NEW S, NEW s \in Seq(S), NEW x \in S, NEW T
  PROVE  /\ Among(s, T) \in Seq(S)
         /\ Among(Append(s, x), T) = IF x \in T THEN Append(Among(s, T), x) ELSE Among(s, T)
<1> DEFINE n == Len(s)
           u == Append(s, x)
<1>1. /\ n \in Nat /\ u \in Seq(S) /\ Len(u) = n + 1 /\ u[n + 1] = x
      /\ \A i \in 1 .. n : u[i] = s[i]
  OBVIOUS
<1>2a. PICK f : KeepsFrom(f, S, s, T) /\ Among(s, T) = f[n]
  BY AmongUnfolds
<1> HIDE DEF u
<1>3a. PICK h : KeepsFrom(h, S, u, T) /\ Among(u, T) = h[Len(u)]
  BY <1>1, AmongUnfolds
<1>2. /\ f \in [0 .. n -> Seq(S)] /\ f[0] = <<>>
      /\ \A i \in 1 .. n :
              f[i] = IF s[i] \in T THEN Append(f[i - 1], s[i]) ELSE f[i - 1]
  BY <1>2a DEF KeepsFrom, KeepsStep
<1> HIDE DEF n
<1>3. /\ h \in [0 .. n + 1 -> Seq(S)] /\ h[0] = <<>>
      /\ \A i \in 1 .. n + 1 :
              h[i] = IF u[i] \in T THEN Append(h[i - 1], u[i]) ELSE h[i - 1]
  BY <1>1, <1>3a DEF KeepsFrom, KeepsStep
<1> DEFINE Q == {i \in 0 .. n : h[i] = f[i]}
<1>4. 0 \in Q
  BY <1>1, <1>2, <1>3
<1>5. ASSUME NEW i \in 0 .. n - 1, i \in Q
      PROVE  i + 1 \in Q
  <2>1. i + 1 \in 1 .. n /\ i + 1 \in 1 .. n + 1 /\ (i + 1) - 1 = i /\ i + 1 \in 0 .. n
    BY <1>1
  <2>2. h[i + 1] = IF s[i + 1] \in T THEN Append(h[i], s[i + 1]) ELSE h[i]
    BY <1>1, <1>3, <2>1
  <2>3. f[i + 1] = IF s[i + 1] \in T THEN Append(f[i], s[i + 1]) ELSE f[i]
    BY <1>2, <2>1
  <2> QED BY <1>5, <2>1, <2>2, <2>3
<1> HIDE DEF Q
<1>6. \A i \in 0 .. n : i \in Q
  BY <1>1, <1>4, <1>5, UpTo
<1>7. h[n] = f[n]
  <2>1. n \in 0 .. n
    BY <1>1
  <2> QED BY <1>6, <2>1 DEF Q
<1>8. n + 1 \in 1 .. n + 1 /\ (n + 1) - 1 = n /\ n \in 0 .. n
  BY <1>1
<1>9. h[n + 1] = IF x \in T THEN Append(f[n], x) ELSE f[n]
  BY <1>1, <1>3, <1>7, <1>8
<1>10. f[n] \in Seq(S)
  BY <1>2, <1>8
<1> QED BY <1>1, <1>2a, <1>3a, <1>9, <1>10 DEF u

\* They are those of the members that are in the set, in a sequence, each once
\* if each was there once.
LEMMA AmongMembers ==
  ASSUME NEW S, NEW s \in Seq(S), NEW T
  PROVE  /\ Among(s, T) \in Seq(S) /\ ToSet(Among(s, T)) = ToSet(s) \cap T
         /\ Once(s) => Once(Among(s, T))
<1> DEFINE G == {u \in Seq(S) : /\ Among(u, T) \in Seq(S) /\ ToSet(Among(u, T)) = ToSet(u) \cap T
                                /\ Once(u) => Once(Among(u, T))}
<1>1. <<>> \in G
  <2>1. <<>> \in Seq(S) /\ Among(<<>>, T) = <<>>
    BY AmongNothing
  <2>2. ToSet(<<>>) = {}
    BY SmallLists DEF Lists
  <2> QED BY <2>1, <2>2
<1>2. ASSUME NEW u \in Seq(S), NEW x \in S, u \in G
      PROVE  Append(u, x) \in G
  <2> DEFINE a == Among(u, T)
             w == Append(u, x)
  <2>1. a \in Seq(S) /\ ToSet(a) = ToSet(u) \cap T /\ (Once(u) => Once(a))
    BY <1>2
  <2>2. /\ w \in Seq(S) /\ Len(w) = Len(u) + 1 /\ Len(u) \in Nat
        /\ w[Len(u) + 1] = x /\ \A i \in 1 .. Len(u) : w[i] = u[i]
    OBVIOUS
  <2>3. ToSet(w) = ToSet(u) \cup {x}
    BY AppendMembers
  <2>4. Once(w) => Once(u) /\ x \notin ToSet(u)
    <3> SUFFICES ASSUME Once(w)
                 PROVE  Once(u) /\ x \notin ToSet(u)
      OBVIOUS
    <3>1. \A i, j \in 1 .. Len(u) + 1 : w[i] = w[j] => i = j
      BY <2>2 DEF Once
    <3>2. Once(u)
      BY <2>2, <3>1 DEF Once
    <3>3. ASSUME x \in ToSet(u) PROVE FALSE
      <4>1. PICK i \in 1 .. Len(u) : u[i] = x
        BY <3>3, Members
      <4> QED BY <2>2, <3>1, <4>1
    <3> QED BY <3>2, <3>3
  <2>5. Among(w, T) = IF x \in T THEN Append(a, x) ELSE a
    BY AmongAppend
  <2> HIDE DEF a, w
  <2>6. CASE x \in T
    <3>1. Append(a, x) \in Seq(S) /\ ToSet(Append(a, x)) = (ToSet(u) \cup {x}) \cap T
      BY <2>1, <2>6, AppendMembers
    <3>2. ASSUME Once(a), x \notin ToSet(a)
          PROVE  Once(Append(a, x))
      <4>1. /\ Len(Append(a, x)) = Len(a) + 1 /\ Len(a) \in Nat /\ Append(a, x)[Len(a) + 1] = x
            /\ \A i \in 1 .. Len(a) : Append(a, x)[i] = a[i]
        BY <2>1, AppendProperties
      <4>2. \A i \in 1 .. Len(a) : a[i] # x
        BY <2>1, <3>2, Members
      <4> QED BY <4>1, <4>2, <3>2 DEF Once
    <3>3. Once(w) => Once(Append(a, x))
      BY <2>1, <2>4, <3>2
    <3> QED BY <2>2, <2>3, <2>5, <2>6, <3>1, <3>3 DEF w
  <2>7. CASE x \notin T
    <3>1. ToSet(a) = ToSet(w) \cap T
      BY <2>1, <2>3, <2>7
    <3>2. Among(w, T) = a
      BY <2>5, <2>7
    <3> QED BY <2>1, <2>2, <2>4, <3>1, <3>2 DEF w
  <2> QED BY <2>6, <2>7
<1>3. Seq(S) \subseteq G
  <2> HIDE DEF G
  <2> QED BY <1>1, <1>2, SeqInduction
<1> QED BY <1>3

\* Only what is in the sequence counts.
LEMMA AmongSame ==
  ASSUME NEW S, NEW s \in Seq(S), NEW T, NEW U, \A x \in ToSet(s) : x \in T <=> x \in U
  PROVE  Among(s, T) = Among(s, U)
<1> DEFINE G == {u \in Seq(S) : (\A x \in ToSet(u) : x \in T <=> x \in U) => Among(u, T) = Among(u, U)}
<1>1. <<>> \in G
  BY AmongNothing
<1>2. ASSUME NEW u \in Seq(S), NEW x \in S, u \in G
      PROVE  Append(u, x) \in G
  <2> SUFFICES ASSUME \A y \in ToSet(Append(u, x)) : y \in T <=> y \in U
               PROVE  Among(Append(u, x), T) = Among(Append(u, x), U)
    OBVIOUS
  <2>1. ToSet(Append(u, x)) = ToSet(u) \cup {x}
    BY AppendMembers
  <2>2. Among(u, T) = Among(u, U)
    BY <1>2, <2>1
  <2>3. x \in T <=> x \in U
    BY <2>1
  <2>4. Among(Append(u, x), T) = IF x \in T THEN Append(Among(u, T), x) ELSE Among(u, T)
    BY AmongAppend
  <2>5. Among(Append(u, x), U) = IF x \in U THEN Append(Among(u, U), x) ELSE Among(u, U)
    BY AmongAppend
  <2> QED BY <2>2, <2>3, <2>4, <2>5
<1>3. Seq(S) \subseteq G
  <2> HIDE DEF G
  <2> QED BY <1>1, <1>2, SeqInduction
<1> QED BY <1>3

\* Those of two sequences one after the other.
LEMMA AmongConcat ==
  ASSUME NEW S, NEW s \in Seq(S), NEW t \in Seq(S), NEW T
  PROVE  Among(s \o t, T) = Among(s, T) \o Among(t, T)
<1>a. \A w \in Seq(S), x \in S :
        Among(Append(w, x), T) = IF x \in T THEN Append(Among(w, T), x) ELSE Among(w, T)
  BY SMTT(30), AmongAppend
<1> DEFINE G == {u \in Seq(S) : Among(s \o u, T) = Among(s, T) \o Among(u, T)}
<1>0. Among(s, T) \in Seq(S)
  BY AmongMembers
<1>1. <<>> \in G
  <2>1. s \o <<>> = s /\ Among(s, T) \o <<>> = Among(s, T)
    BY <1>0, ConcatEmptySeq
  <2>2. Among(<<>>, T) = <<>> /\ <<>> \in Seq(S)
    BY AmongNothing
  <2> QED BY <2>1, <2>2
<1>2. ASSUME NEW u \in Seq(S), NEW x \in S, u \in G
      PROVE  Append(u, x) \in G
  <2>1. Among(s \o u, T) = Among(s, T) \o Among(u, T)
    BY <1>2
  <2>2. <<x>> \in Seq(S) /\ s \o u \in Seq(S) /\ Among(u, T) \in Seq(S)
    BY AmongMembers, ConcatProperties
  <2>3. ASSUME NEW a \in Seq(S), NEW c \in Seq(S)
        PROVE  Append(a \o c, x) = a \o Append(c, x)
    <3>1. a \o c \in Seq(S)
      BY ConcatProperties
    <3>2. Append(a \o c, x) = (a \o c) \o <<x>>
      BY <3>1, AppendIsConcat
    <3>3. Append(c, x) = c \o <<x>>
      BY AppendIsConcat
    <3>4. (a \o c) \o <<x>> = a \o (c \o <<x>>)
      <4> DEFINE y == <<x>>
      <4>1. y \in Seq(S)
        BY <2>2
      <4> HIDE DEF y
      <4>2. (a \o c) \o y = a \o (c \o y)
        BY SMTT(30), <4>1, ConcatAssociative
      <4> QED BY <4>2 DEF y
    <3> QED BY <3>2, <3>3, <3>4
  <2>4. s \o Append(u, x) = Append(s \o u, x)
    BY <2>3
  <2>5. Among(Append(s \o u, x), T) = IF x \in T THEN Append(Among(s \o u, T), x) ELSE Among(s \o u, T)
    BY <2>2, <1>a
  <2>6. Among(Append(u, x), T) = IF x \in T THEN Append(Among(u, T), x) ELSE Among(u, T)
    BY SMTT(30), AmongAppend
  <2>7. Append(Among(s, T) \o Among(u, T), x) = Among(s, T) \o Append(Among(u, T), x)
    BY <1>0, <2>2, <2>3
  <2>8. Among(s \o Append(u, x), T) = Among(s, T) \o Among(Append(u, x), T)
    <3>1. CASE x \in T
      BY <2>1, <2>4, <2>5, <2>6, <2>7, <3>1
    <3>2. CASE x \notin T
      BY <2>1, <2>4, <2>5, <2>6, <3>2
    <3> QED BY <3>1, <3>2
  <2>9. Append(u, x) \in Seq(S)
    OBVIOUS
  <2> QED BY <2>8, <2>9
<1>3. Seq(S) \subseteq G
  <2> HIDE DEF G
  <2> QED BY <1>1, <1>2, SeqInduction
<1> QED BY <1>3

\* All of a sequence, and nothing of it.
LEMMA AmongAll ==
  ASSUME NEW S, NEW s \in Seq(S), NEW T
  PROVE  /\ ToSet(s) \subseteq T => Among(s, T) = s
         /\ ToSet(s) \cap T = {} => Among(s, T) = <<>>
<1> DEFINE G == {u \in Seq(S) : ToSet(u) \subseteq T => Among(u, T) = u}
<1>1. <<>> \in G
  BY AmongNothing
<1>2. ASSUME NEW u \in Seq(S), NEW x \in S, u \in G
      PROVE  Append(u, x) \in G
  <2>1. ToSet(Append(u, x)) = ToSet(u) \cup {x}
    BY AppendMembers
  <2>2. Among(Append(u, x), T) = IF x \in T THEN Append(Among(u, T), x) ELSE Among(u, T)
    BY AmongAppend
  <2> QED BY <1>2, <2>1, <2>2
<1>3. Seq(S) \subseteq G
  <2> HIDE DEF G
  <2> QED BY <1>1, <1>2, SeqInduction
<1>4. ASSUME ToSet(s) \cap T = {}
      PROVE  Among(s, T) = <<>>
  <2>1. Among(s, T) \in Seq(S) /\ ToSet(Among(s, T)) = {}
    BY <1>4, AmongMembers
  <2> QED BY <2>1, Members
<1> QED BY <1>3, <1>4

\* One choice after another.
LEMMA AmongTwice ==
  ASSUME NEW S, NEW s \in Seq(S), NEW T, NEW U
  PROVE  Among(Among(s, T), U) = Among(s, T \cap U)
<1> DEFINE G == {u \in Seq(S) : Among(Among(u, T), U) = Among(u, T \cap U)}
<1>1. <<>> \in G
  BY AmongNothing
<1>2. ASSUME NEW u \in Seq(S), NEW x \in S, u \in G
      PROVE  Append(u, x) \in G
  <2>1. Among(u, T) \in Seq(S)
    BY AmongMembers
  <2>2. Among(Append(u, x), T) = IF x \in T THEN Append(Among(u, T), x) ELSE Among(u, T)
    BY AmongAppend
  <2>3. Among(Append(u, x), T \cap U)
          = IF x \in T \cap U THEN Append(Among(u, T \cap U), x) ELSE Among(u, T \cap U)
    <3> DEFINE B == T \cap U
    <3> HIDE DEF B, G
    <3>1. Among(Append(u, x), B) = IF x \in B THEN Append(Among(u, B), x) ELSE Among(u, B)
      BY AmongAppend
    <3> QED BY <3>1 DEF B
  <2>4. Among(Append(Among(u, T), x), U)
          = IF x \in U THEN Append(Among(Among(u, T), U), x) ELSE Among(Among(u, T), U)
    BY SMTT(30), <2>1, AmongAppend
  <2>5. Among(Among(u, T), U) = Among(u, T \cap U)
    BY <1>2
  <2>6. Among(Among(Append(u, x), T), U) = Among(Append(u, x), T \cap U)
    <3> DEFINE B == T \cap U
               a == Among(u, T)
    <3>3. x \in B <=> x \in T /\ x \in U
      OBVIOUS
    <3>4. /\ Among(Append(u, x), B) = IF x \in B THEN Append(Among(u, B), x) ELSE Among(u, B)
          /\ Among(a, U) = Among(u, B)
          /\ Among(Append(u, x), T) = IF x \in T THEN Append(a, x) ELSE a
          /\ Among(Append(a, x), U) = IF x \in U THEN Append(Among(a, U), x) ELSE Among(a, U)
      BY <2>2, <2>3, <2>4, <2>5
    <3> HIDE DEF B, a, G
    <3>1. CASE x \in T
      BY <3>3, <3>4, <3>1 DEF B
    <3>2. CASE x \notin T
      BY <3>3, <3>4, <3>2 DEF B
    <3> QED BY <3>1, <3>2
  <2>7. Append(u, x) \in Seq(S)
    OBVIOUS
  <2> QED BY <2>6, <2>7
<1>3. Seq(S) \subseteq G
  <2> HIDE DEF G
  <2> QED BY <1>1, <1>2, SeqInduction
<1> QED BY <1>3

\* What is left of a sequence.
LEMMA WithoutMembers ==
  ASSUME NEW S, NEW s \in Seq(S), NEW T
  PROVE  /\ Without(s, T) \in Seq(S) /\ ToSet(Without(s, T)) = ToSet(s) \ T
         /\ Once(s) => Once(Without(s, T))
         /\ ToSet(s) \cap T = {} => Without(s, T) = s
         /\ ToSet(s) \subseteq T => Without(s, T) = <<>>
<1>1. /\ Without(s, T) \in Seq(S) /\ ToSet(Without(s, T)) = ToSet(s) \cap (ToSet(s) \ T)
      /\ Once(s) => Once(Without(s, T))
  BY AmongMembers DEF Without
<1>2. ToSet(s) \cap T = {} => Without(s, T) = s
  <2> SUFFICES ASSUME ToSet(s) \cap T = {} PROVE Without(s, T) = s
    OBVIOUS
  <2>1. ToSet(s) \subseteq ToSet(s) \ T
    OBVIOUS
  <2> QED BY <2>1, AmongAll DEF Without
<1>3. ToSet(s) \subseteq T => Without(s, T) = <<>>
  <2> SUFFICES ASSUME ToSet(s) \subseteq T PROVE Without(s, T) = <<>>
    OBVIOUS
  <2>1. ToSet(s) \cap (ToSet(s) \ T) = {}
    OBVIOUS
  <2> QED BY <2>1, AmongAll DEF Without
<1> QED BY <1>1, <1>2, <1>3

\* Choices and what is left of them list what they should.
LEMMA PartLists ==
  ASSUME NEW S, NEW s, Lists(s, S), NEW T
  PROVE  Lists(Among(s, T), S \cap T) /\ Lists(Without(s, T), S \ T)
<1>1. s \in Seq(S) /\ ToSet(s) = S /\ Once(s)
  BY DEF Lists
<1>2. Among(s, T) \in Seq(S) /\ ToSet(Among(s, T)) = S \cap T /\ Once(Among(s, T))
  BY <1>1, AmongMembers
<1>3. Without(s, T) \in Seq(S) /\ ToSet(Without(s, T)) = S \ T /\ Once(Without(s, T))
  BY <1>1, WithoutMembers
<1>4. Among(s, T) \in Seq(S \cap T)
  BY <1>2, Members
<1>5. Without(s, T) \in Seq(S \ T)
  BY <1>3, Members
<1> QED BY <1>2, <1>3, <1>4, <1>5 DEF Lists

\* Without is Among of anything that has the same of the sequence.
LEMMA WithoutIsAmong ==
  ASSUME NEW S, NEW s \in Seq(S), NEW T, NEW U, \A x \in ToSet(s) : x \in T <=> x \notin U
  PROVE  Without(s, T) = Among(s, U)
<1>1. \A x \in ToSet(s) : x \in ToSet(s) \ T <=> x \in U
  OBVIOUS
<1> QED BY <1>1, AmongSame DEF Without

\* What is left of two sequences one after the other.
LEMMA WithoutConcat ==
  ASSUME NEW S, NEW s \in Seq(S), NEW u \in Seq(S), NEW T
  PROVE  Without(s \o u, T) = Without(s, T) \o Without(u, T)
<1> DEFINE A == (ToSet(s) \cup ToSet(u)) \ T
<1>1. s \o u \in Seq(S) /\ ToSet(s \o u) = ToSet(s) \cup ToSet(u)
  BY ConcatMembers
<1>2. Without(s \o u, T) = Among(s \o u, A)
  BY <1>1, WithoutIsAmong
<1>3. Without(s, T) = Among(s, A) /\ Without(u, T) = Among(u, A)
  BY WithoutIsAmong
<1> HIDE DEF A
<1> QED BY <1>2, <1>3, AmongConcat

\* Nothing before or after a sequence leaves it as it is.
LEMMA NothingAdded ==
  ASSUME NEW S
  PROVE  \A s \in Seq(S) : s \o <<>> = s /\ <<>> \o s = s
BY ConcatEmptySeq

\* w is y and then z.
Joined(w, y, z) == w = y \o z

\* rows are x, in P, then y, held and not in P, then z, in neither.
Parted(rows, S, x, y, z, P, H) ==
  /\ x \in Seq(S) /\ y \in Seq(S) /\ z \in Seq(S)
  /\ rows = (x \o y) \o z
  /\ ToSet(x) \subseteq P /\ ToSet(y) \cap P = {} /\ ToSet(z) \cap P = {}
  /\ ToSet(y) \subseteq H /\ ToSet(z) \cap H = {}

\* Rows that are pins, then what is held, then the rest, are read as such.
LEMMA Parts ==
  ASSUME NEW S, NEW rows, NEW x, NEW y, NEW z, NEW P, NEW H, Parted(rows, S, x, y, z, P, H)
  PROVE  Among(rows, P) = x /\ Joined(Without(rows, P), y, z) /\ Without(rows, P \cup H) = z
<1>1. x \in Seq(S) /\ y \in Seq(S) /\ z \in Seq(S)
  BY DEF Parted
<1>2. \A s \in Seq(S) : s \o <<>> = s /\ <<>> \o s = s
  BY NothingAdded
<1>3. PICK w : w = x \o y
  OBVIOUS
<1>4. PICK Q : Q = P \cup H
  OBVIOUS
<1>5. w \in Seq(S) /\ ToSet(w) = ToSet(x) \cup ToSet(y)
  BY <1>1, <1>3, ConcatMembers
<1>6. ToSet(w) \subseteq Q /\ ToSet(z) \cap Q = {}
  BY <1>4, <1>5 DEF Parted
<1>7. Among(w, P) = x
  <2>1. Among(x, P) = x /\ Among(y, P) = <<>>
    BY <1>1, AmongAll DEF Parted
  <2>2. Among(w, P) = Among(x, P) \o Among(y, P)
    BY <1>1, <1>3, AmongConcat
  <2> QED BY <1>1, <1>2, <2>1, <2>2
<1>8. Without(w, P) = y
  <2>1. Without(x, P) = <<>> /\ Without(y, P) = y
    BY <1>1, WithoutMembers DEF Parted
  <2>2. Without(w, P) = Without(x, P) \o Without(y, P)
    BY <1>1, <1>3, WithoutConcat
  <2> QED BY <1>1, <1>2, <2>1, <2>2
<1>9. Among(z, P) = <<>> /\ Without(z, P) = z
  BY <1>1, AmongAll, WithoutMembers DEF Parted
<1>10. Without(w, Q) = <<>> /\ Without(z, Q) = z
  BY <1>1, <1>5, <1>6, WithoutMembers
<1>12. Among(w \o z, P) = x
  <2>1. Among(w \o z, P) = Among(w, P) \o Among(z, P)
    BY SMTT(30), <1>1, <1>5, AmongConcat
  <2> QED BY <1>1, <1>2, <1>7, <1>9, <2>1
<1>13. Without(w \o z, P) = y \o z
  <2>1. Without(w \o z, P) = Without(w, P) \o Without(z, P)
    BY SMTT(30), <1>1, <1>5, WithoutConcat
  <2> QED BY <1>8, <1>9, <2>1
<1>14. Without(w \o z, Q) = z
  <2>1. Without(w \o z, Q) = Without(w, Q) \o Without(z, Q)
    BY SMTT(30), <1>1, <1>5, WithoutConcat
  <2> QED BY <1>1, <1>2, <1>10, <2>1
<1> QED BY <1>3, <1>4, <1>12, <1>13, <1>14 DEF Parted, Joined

\* A listing in two halves.
LEMMA Halves ==
  ASSUME NEW S, NEW s, Lists(s, S), NEW k \in 0 .. Len(s)
  PROVE  LET a == SubSeq(s, 1, k)
             b == SubSeq(s, k + 1, Len(s))
         IN  /\ Joined(s, a, b) /\ Len(a) = k /\ Len(b) = Len(s) - k
             /\ Lists(a, ToSet(a)) /\ Lists(b, ToSet(b))
             /\ ToSet(a) \cap ToSet(b) = {} /\ ToSet(a) \cup ToSet(b) = S
             /\ \A i \in 1 .. k : a[i] = s[i]
             /\ \A i \in 1 .. Len(s) - k : b[i] = s[k + i]
<1> DEFINE a == SubSeq(s, 1, k)
           b == SubSeq(s, k + 1, Len(s))
           n == Len(s)
<1>1. s \in Seq(S) /\ n \in Nat /\ k \in Nat /\ k <= n /\ \A i \in 1 .. n : s[i] \in S
  BY DEF Lists
<1>2. a \in Seq(S) /\ Len(a) = k /\ \A i \in 1 .. k : a[i] = s[i]
  <2>1. \A i \in 1 .. k : s[i] \in S
    BY <1>1
  <2>2. SubSeq(s, 1, k) \in Seq(S) /\ Len(SubSeq(s, 1, k)) = IF 1 <= k THEN k - 1 + 1 ELSE 0
    BY <1>1, <2>1, SubSeqProperties
  <2>3. \A i \in 1 .. k - 1 + 1 : SubSeq(s, 1, k)[i] = s[1 + i - 1]
    BY <1>1, <2>1, SubSeqProperties
  <2> QED BY <1>1, <2>2, <2>3
<1>3. b \in Seq(S) /\ Len(b) = n - k /\ \A i \in 1 .. n - k : b[i] = s[k + i]
  <2>1. \A i \in k + 1 .. n : s[i] \in S
    BY <1>1
  <2>2. /\ SubSeq(s, k + 1, n) \in Seq(S)
        /\ Len(SubSeq(s, k + 1, n)) = IF k + 1 <= n THEN n - (k + 1) + 1 ELSE 0
        /\ \A i \in 1 .. n - (k + 1) + 1 : SubSeq(s, k + 1, n)[i] = s[(k + 1) + i - 1]
    BY <1>1, <2>1, SubSeqProperties
  <2> QED BY <1>1, <2>2
<1>4. s = a \o b
  <2>1. /\ a \o b \in Seq(S) /\ Len(a \o b) = n
        /\ \A i \in 1 .. n : (a \o b)[i] = IF i <= k THEN a[i] ELSE b[i - k]
    <3> HIDE DEF a, b
    <3> QED BY <1>1, <1>2, <1>3, ConcatProperties
  <2>2. \A i \in 1 .. n : (a \o b)[i] = s[i]
    <3> HIDE DEF a, b
    <3> QED BY <1>1, <1>2, <1>3, <2>1
  <2> HIDE DEF a, b
  <2> QED BY <1>1, <2>1, <2>2, SeqEqual
<1> HIDE DEF a, b
<1>5. \A i, j \in 1 .. n : s[i] = s[j] => i = j
  BY DEF Lists, Once
<1>6. Once(a)
  BY <1>1, <1>2, <1>5 DEF Once
<1>7. Once(b)
  <2> SUFFICES ASSUME NEW i \in 1 .. n - k, NEW j \in 1 .. n - k, b[i] = b[j]
               PROVE  i = j
    BY <1>3 DEF Once
  <2>1. k + i \in 1 .. n /\ k + j \in 1 .. n /\ s[k + i] = s[k + j]
    BY <1>1, <1>3
  <2> QED BY <1>1, <1>5, <2>1
<1>8. a \in Seq(ToSet(a)) /\ b \in Seq(ToSet(b))
  BY <1>2, <1>3, Members
<1>9. ToSet(a) \cup ToSet(b) = S
  <2>1. ToSet(a \o b) = ToSet(a) \cup ToSet(b)
    BY <1>2, <1>3, ConcatMembers
  <2> QED BY <1>4, <2>1 DEF Lists
<1>10. ASSUME NEW x, x \in ToSet(a), x \in ToSet(b)
       PROVE  FALSE
  <2>1. PICK i \in 1 .. k : a[i] = x
    BY <1>2, <1>10, Members
  <2>2. PICK j \in 1 .. n - k : b[j] = x
    BY <1>3, <1>10, Members
  <2>3. i \in 1 .. n /\ k + j \in 1 .. n /\ s[i] = s[k + j]
    BY <1>1, <1>2, <1>3, <2>1, <2>2
  <2> QED BY <1>1, <1>5, <2>3
<1> QED BY <1>2, <1>3, <1>4, <1>6, <1>7, <1>8, <1>9, <1>10 DEF Lists, Joined, a, b

\* A new one put in at a place of a listing.
LEMMA InsertLists ==
  ASSUME NEW S, NEW s, Lists(s, S), NEW x, x \notin S, NEW k \in 1 .. Len(s) + 1
  PROVE  Lists(InsertAt(s, k, x), S \cup {x})
<1> DEFINE a == SubSeq(s, 1, k - 1)
           b == SubSeq(s, k, Len(s))
           A == ToSet(a)
           B == ToSet(b)
<1>1. Len(s) \in Nat /\ k - 1 \in 0 .. Len(s) /\ (k - 1) + 1 = k
  BY DEF Lists
<1>2. Lists(a, A) /\ Lists(b, B) /\ A \cap B = {} /\ A \cup B = S
  <2> DEFINE j == k - 1
  <2>1. j \in 0 .. Len(s) /\ j + 1 = k
    BY <1>1
  <2>2. LET c == SubSeq(s, 1, j)
            d == SubSeq(s, j + 1, Len(s))
        IN  /\ Lists(c, ToSet(c)) /\ Lists(d, ToSet(d))
            /\ ToSet(c) \cap ToSet(d) = {} /\ ToSet(c) \cup ToSet(d) = S
    <3> HIDE DEF j
    <3> QED BY <2>1, Halves
  <2> QED BY <2>1, <2>2
<1>3. InsertAt(s, k, x) = (a \o <<x>>) \o b
  BY DEF InsertAt
<1> HIDE DEF a, b, A, B
<1>4. Lists(a \o <<x>>, A \cup {x})
  <2> DEFINE one == <<x>>
             X == {x}
  <2>1. Lists(one, X) /\ A \cap X = {}
    BY <1>2, SmallLists
  <2> HIDE DEF one, X
  <2>2. Lists(a \o one, A \cup X)
    BY <1>2, <2>1, ConcatLists
  <2> QED BY <2>2 DEF one, X
<1>5. Lists((a \o <<x>>) \o b, (A \cup {x}) \cup B)
  BY <1>2, <1>4, ConcatLists
<1>6. (A \cup {x}) \cup B = S \cup {x}
  BY <1>2
<1> QED BY <1>3, <1>5, <1>6

-----------------------------------------------------------------------------
(* Sequences of sequences                                                  *)

\* f is the sequences of ss one after the other, up to each.
JoinsFrom(f, S, ss) ==
  /\ f \in [0 .. Len(ss) -> Seq(S)] /\ f[0] = <<>>
  /\ \A i \in 1 .. Len(ss) : f[i] = f[i - 1] \o ss[i]

\* FlattenSeq goes through them from the front.
LEMMA FlattenUnfolds ==
  ASSUME NEW S, NEW ss \in Seq(Seq(S))
  PROVE  \E f : JoinsFrom(f, S, ss) /\ FlattenSeq(ss) = f[Len(ss)]
<1> DEFINE n == Len(ss)
           D == Seq(S)
           g == [p \in D \X (1 .. n) |-> p[1] \o ss[p[2]]]
           flat == CHOOSE f : f = [i \in 1 .. n |-> IF i = 1 THEN ss[i] ELSE f[i - 1] \o ss[i]]
<1>1. n \in Nat /\ <<>> \in D /\ \A i \in 1 .. n : ss[i] \in D
  OBVIOUS
<1>2. g \in [D \X (1 .. n) -> D]
  <2>1. \A s, u \in D : s \o u \in D
    BY ConcatProperties
  <2> QED BY <1>1, <2>1
<1>3. PICK f : Unfolds(f, D, n, <<>>, g)
  <2> HIDE DEF n, D, g, flat
  <2> QED BY <1>1, <1>2, Unfolding
<1>4. f \in [0 .. n -> D] /\ f[0] = <<>> /\ \A i \in 1 .. n : f[i] = g[<<f[i - 1], i>>]
  BY <1>3 DEF Unfolds
<1>5. ASSUME NEW i \in 1 .. n
      PROVE  f[i] = f[i - 1] \o ss[i]
  <2>1. f[i - 1] \in D
    <3> HIDE DEF n, D, g
    <3> QED BY <1>1, <1>4
  <2>2. <<f[i - 1], i>> \in D \X (1 .. n)
    <3> HIDE DEF n, D, g
    <3> QED BY <2>1
  <2>3. f[i] = g[<<f[i - 1], i>>]
    BY <1>4
  <2> QED BY <2>2, <2>3
<1>6. JoinsFrom(f, S, ss)
  BY <1>4, <1>5 DEF JoinsFrom
<1>7. CASE n = 0
  <2>1. ss = <<>>
    BY <1>7
  <2>2. FlattenSeq(ss) = <<>>
    BY <1>7, <2>1 DEF FlattenSeq
  <2> HIDE DEF D, g, flat
  <2> QED BY <1>4, <1>6, <1>7, <2>2
<1>8. CASE n # 0
  <2>1. \A s \in D : <<>> \o s = s
    BY NothingAdded
  <2>2. FlattenSeq(ss) = flat[n]
    BY <1>8 DEF FlattenSeq
  <2>3. ASSUME NEW i \in 1 .. n
        PROVE  f[i] = IF i = 1 THEN ss[i] ELSE f[i - 1] \o ss[i]
    <3>1. f[i] = f[i - 1] \o ss[i]
      BY <1>5
    <3>2. CASE i = 1
      <4>1. ss[i] \in D /\ f[i - 1] = <<>>
        BY <1>1, <1>4, <3>2
      <4> HIDE DEF D
      <4> QED BY <2>1, <3>1, <3>2, <4>1
    <3> QED BY <3>1, <3>2
  <2> DEFINE h == [i \in 1 .. n |-> f[i]]
  <2>4. \A i \in 1 .. n : h[i] = IF i = 1 THEN ss[i] ELSE h[i - 1] \o ss[i]
    <3> SUFFICES ASSUME NEW i \in 1 .. n
                 PROVE  h[i] = IF i = 1 THEN ss[i] ELSE h[i - 1] \o ss[i]
      OBVIOUS
    <3>1. CASE i = 1
      BY <2>3, <3>1
    <3>2. CASE i # 1
      <4>1. i - 1 \in 1 .. n
        BY <1>1, <3>2
      <4>2. h[i - 1] = f[i - 1] /\ h[i] = f[i]
        BY <4>1
      <4> QED BY <2>3, <3>2, <4>2
    <3> QED BY <3>1, <3>2
  <2>5. h = [i \in 1 .. n |-> IF i = 1 THEN ss[i] ELSE h[i - 1] \o ss[i]]
    <3>1. DOMAIN h = 1 .. n /\ h = [i \in 1 .. n |-> h[i]]
      OBVIOUS
    <3> HIDE DEF h
    <3> QED BY <2>4, <3>1
  <2>6. flat = [i \in 1 .. n |-> IF i = 1 THEN ss[i] ELSE flat[i - 1] \o ss[i]]
    <3> HIDE DEF h
    <3> QED BY <2>5
  <2>7. \A i \in 1 .. n : flat[i] = IF i = 1 THEN ss[i] ELSE flat[i - 1] \o ss[i]
    <3> HIDE DEF flat
    <3> QED BY <2>6
  <2> HIDE DEF flat, D, g, h
  <2> DEFINE Q == {i \in 0 .. n : i # 0 => flat[i] = f[i]}
  <2>8. 0 \in Q
    BY <1>1
  <2>9. ASSUME NEW i \in 0 .. n - 1, i \in Q
        PROVE  i + 1 \in Q
    <3>1. i + 1 \in 1 .. n /\ (i + 1) - 1 = i /\ i + 1 \in 0 .. n
      BY <1>1
    <3>2. /\ flat[i + 1] = IF i + 1 = 1 THEN ss[i + 1] ELSE flat[i] \o ss[i + 1]
          /\ f[i + 1] = IF i + 1 = 1 THEN ss[i + 1] ELSE f[i] \o ss[i + 1]
      BY <2>3, <2>7, <3>1
    <3>3. CASE i = 0
      BY <3>1, <3>2, <3>3
    <3>4. CASE i # 0
      <4>1. flat[i] = f[i] /\ i + 1 # 1
        BY <1>1, <2>9, <3>4
      <4> QED BY <3>1, <3>2, <4>1
    <3> QED BY <3>3, <3>4
  <2> HIDE DEF Q
  <2>10. \A i \in 0 .. n : i \in Q
    BY <1>1, <2>8, <2>9, UpTo
  <2>11. flat[n] = f[n]
    BY <1>1, <1>8, <2>10 DEF Q
  <2> QED BY <1>6, <2>2, <2>11
<1> QED BY <1>7, <1>8

\* Nothing flattened is nothing.
LEMMA FlattenNothing == FlattenSeq(<<>>) = <<>>
BY DEF FlattenSeq

\* One more sequence comes at the end.
LEMMA FlattenAppend ==
  ASSUME NEW S, NEW ss \in Seq(Seq(S)), NEW s \in Seq(S)
  PROVE  /\ FlattenSeq(ss) \in Seq(S)
         /\ FlattenSeq(Append(ss, s)) = FlattenSeq(ss) \o s
<1> DEFINE n == Len(ss)
           u == Append(ss, s)
<1>1. /\ n \in Nat /\ u \in Seq(Seq(S)) /\ Len(u) = n + 1 /\ u[n + 1] = s
      /\ \A i \in 1 .. n : u[i] = ss[i]
  <2> DEFINE D == Seq(S)
  <2>1. ss \in Seq(D) /\ s \in D
    OBVIOUS
  <2> HIDE DEF D
  <2>2. Append(ss, s) \in Seq(D)
    BY <2>1
  <2> QED BY <2>1, <2>2 DEF D
<1>2. PICK f : JoinsFrom(f, S, ss) /\ FlattenSeq(ss) = f[n]
  BY FlattenUnfolds
<1> HIDE DEF u
<1>3. PICK h : JoinsFrom(h, S, u) /\ FlattenSeq(u) = h[Len(u)]
  BY <1>1, FlattenUnfolds
<1>4. /\ f \in [0 .. n -> Seq(S)] /\ f[0] = <<>>
      /\ \A i \in 1 .. n : f[i] = f[i - 1] \o ss[i]
  BY <1>2 DEF JoinsFrom
<1> HIDE DEF n
<1>5. /\ h \in [0 .. n + 1 -> Seq(S)] /\ h[0] = <<>>
      /\ \A i \in 1 .. n + 1 : h[i] = h[i - 1] \o u[i]
  BY <1>1, <1>3 DEF JoinsFrom
<1> DEFINE Q == {i \in 0 .. n : h[i] = f[i]}
<1>6. 0 \in Q
  BY <1>1, <1>4, <1>5
<1>7. ASSUME NEW i \in 0 .. n - 1, i \in Q
      PROVE  i + 1 \in Q
  <2>1. i + 1 \in 1 .. n /\ i + 1 \in 1 .. n + 1 /\ (i + 1) - 1 = i /\ i + 1 \in 0 .. n
    BY <1>1
  <2>2. h[i + 1] = h[i] \o ss[i + 1]
    BY <1>1, <1>5, <2>1
  <2>3. f[i + 1] = f[i] \o ss[i + 1]
    BY <1>4, <2>1
  <2> QED BY <1>7, <2>1, <2>2, <2>3
<1> HIDE DEF Q
<1>8. \A i \in 0 .. n : i \in Q
  BY <1>1, <1>6, <1>7, UpTo
<1>9. n \in 0 .. n /\ n + 1 \in 1 .. n + 1 /\ (n + 1) - 1 = n
  BY <1>1
<1>10. h[n] = f[n]
  BY <1>8, <1>9 DEF Q
<1>11. h[n + 1] = f[n] \o s
  BY <1>1, <1>5, <1>9, <1>10
<1>12. f[n] \in Seq(S)
  BY <1>4, <1>9
<1> QED BY <1>1, <1>2, <1>3, <1>11, <1>12 DEF u

\* Sequences that share no member, one after the other.
LEMMA FlattenLists ==
  ASSUME NEW S, NEW ss \in Seq(Seq(S)),
         \A i \in DOMAIN ss : Once(ss[i]),
         \A i, j \in DOMAIN ss : i # j => ToSet(ss[i]) \cap ToSet(ss[j]) = {}
  PROVE  Lists(FlattenSeq(ss), UNION {ToSet(ss[i]) : i \in DOMAIN ss})
<1> DEFINE n == Len(ss)
           U(k) == UNION {ToSet(ss[i]) : i \in 1 .. k}
<1>1. n \in Nat /\ DOMAIN ss = 1 .. n /\ \A i \in 1 .. n : ss[i] \in Seq(S)
  OBVIOUS
<1>2. PICK f : JoinsFrom(f, S, ss) /\ FlattenSeq(ss) = f[n]
  BY FlattenUnfolds
<1>3. /\ f \in [0 .. n -> Seq(S)] /\ f[0] = <<>>
      /\ \A i \in 1 .. n : f[i] = f[i - 1] \o ss[i]
  BY <1>2 DEF JoinsFrom
<1>4. \A i \in 1 .. n : Lists(ss[i], ToSet(ss[i]))
  <2> SUFFICES ASSUME NEW i \in 1 .. n PROVE Lists(ss[i], ToSet(ss[i]))
    OBVIOUS
  <2>1. ss[i] \in Seq(S) /\ Once(ss[i])
    BY <1>1
  <2>2. ss[i] \in Seq(ToSet(ss[i]))
    BY <2>1, Members
  <2> QED BY <2>1, <2>2 DEF Lists
<1> DEFINE Q == {i \in 0 .. n : Lists(f[i], U(i))}
<1>5. 0 \in Q
  <2>1. U(0) = {}
    OBVIOUS
  <2>2. Lists(<<>>, {})
    BY SmallLists
  <2> HIDE DEF U, n
  <2>3. Lists(f[0], U(0))
    BY <1>3, <2>1, <2>2
  <2> QED BY <1>1, <2>3
<1>6. ASSUME NEW i \in 0 .. n - 1, i \in Q
      PROVE  i + 1 \in Q
  <2>1. i + 1 \in 1 .. n /\ i + 1 \in 0 .. n /\ (i + 1) - 1 = i
    BY <1>1
  <2>2. f[i + 1] = f[i] \o ss[i + 1]
    BY <1>3, <2>1
  <2>3. U(i + 1) = U(i) \cup ToSet(ss[i + 1])
    <3>1. \A j : j \in 1 .. i + 1 <=> j \in 1 .. i \/ j = i + 1
      BY <1>1, <2>1
    <3> HIDE DEF n
    <3>2. \A x : x \in U(i + 1) <=> x \in U(i) \/ x \in ToSet(ss[i + 1])
      BY <3>1
    <3> HIDE DEF U
    <3> QED BY <3>2
  <2>4. U(i) \cap ToSet(ss[i + 1]) = {}
    <3>1. \A j \in 1 .. i : j # i + 1 /\ j \in DOMAIN ss /\ i + 1 \in DOMAIN ss
      BY <1>1, <2>1
    <3> QED BY <3>1
  <2> HIDE DEF U, n
  <2>5. Lists(f[i], U(i)) /\ Lists(ss[i + 1], ToSet(ss[i + 1]))
    BY <1>4, <1>6, <2>1
  <2>6. Lists(f[i] \o ss[i + 1], U(i) \cup ToSet(ss[i + 1]))
    BY <2>4, <2>5, ConcatLists
  <2> QED BY <2>1, <2>2, <2>3, <2>6
<1> HIDE DEF Q
<1>7. \A i \in 0 .. n : i \in Q
  BY <1>1, <1>5, <1>6, UpTo
<1>8. Lists(f[n], U(n))
  <2>1. n \in Q
    BY <1>1, <1>7
  <2> QED BY <2>1 DEF Q
<1> QED BY <1>1, <1>2, <1>8

\* Leaving members out of each is leaving them out of all.
LEMMA FlattenWithout ==
  ASSUME NEW S, NEW ss \in Seq(Seq(S)), NEW T
  PROVE  FlattenSeq([i \in DOMAIN ss |-> Without(ss[i], T)]) = Without(FlattenSeq(ss), T)
<1>0. \A w, y \in Seq(S) : Without(w \o y, T) = Without(w, T) \o Without(y, T)
  <2>1. ASSUME NEW w \in Seq(S), NEW y \in Seq(S)
        PROVE  Without(w \o y, T) = Without(w, T) \o Without(y, T)
    BY WithoutConcat
  <2> QED BY <2>1
<1> DEFINE n == Len(ss)
           ws == [i \in DOMAIN ss |-> Without(ss[i], T)]
<1>1. n \in Nat /\ DOMAIN ss = 1 .. n /\ \A i \in 1 .. n : ss[i] \in Seq(S)
  OBVIOUS
<1>2. \A i \in 1 .. n : Without(ss[i], T) \in Seq(S)
  BY <1>1, WithoutMembers
<1>3. ws \in Seq(Seq(S)) /\ Len(ws) = n /\ \A i \in 1 .. n : ws[i] = Without(ss[i], T)
  BY <1>1, <1>2
<1>4. PICK f : JoinsFrom(f, S, ss) /\ FlattenSeq(ss) = f[n]
  BY FlattenUnfolds
<1> HIDE DEF ws
<1>5. PICK h : JoinsFrom(h, S, ws) /\ FlattenSeq(ws) = h[n]
  BY <1>3, FlattenUnfolds
<1> HIDE DEF n
<1>6. /\ f \in [0 .. n -> Seq(S)] /\ f[0] = <<>>
      /\ \A i \in 1 .. n : f[i] = f[i - 1] \o ss[i]
  BY <1>4 DEF JoinsFrom, n
<1>7. /\ h \in [0 .. n -> Seq(S)] /\ h[0] = <<>>
      /\ \A i \in 1 .. n : h[i] = h[i - 1] \o ws[i]
  BY <1>3, <1>5 DEF JoinsFrom
<1> DEFINE Q == {i \in 0 .. n : h[i] = Without(f[i], T)}
<1>8. 0 \in Q
  <2>1. Without(<<>>, T) = <<>>
    BY AmongNothing DEF Without
  <2> QED BY <1>1, <1>6, <1>7, <2>1
<1>9. ASSUME NEW i \in 0 .. n - 1, i \in Q
      PROVE  i + 1 \in Q
  <2>1. i + 1 \in 1 .. n /\ i + 1 \in 0 .. n /\ (i + 1) - 1 = i /\ i \in 0 .. n
    BY <1>1
  <2>2. h[i + 1] = Without(f[i], T) \o Without(ss[i + 1], T)
    BY <1>3, <1>7, <1>9, <2>1
  <2>3. f[i] \in Seq(S) /\ ss[i + 1] \in Seq(S)
    BY <1>1, <1>6, <2>1
  <2>4. Without(f[i] \o ss[i + 1], T) = Without(f[i], T) \o Without(ss[i + 1], T)
    BY <1>0, <2>3
  <2>5. f[i + 1] = f[i] \o ss[i + 1]
    BY <1>6, <2>1
  <2> QED BY <2>1, <2>2, <2>4, <2>5
<1> HIDE DEF Q
<1>10. \A i \in 0 .. n : i \in Q
  BY <1>1, <1>8, <1>9, UpTo
<1>11. n \in Q
  BY <1>1, <1>10
<1> QED BY <1>4, <1>5, <1>11 DEF Q, ws

-----------------------------------------------------------------------------
(* Places                                                                  *)

\* A part of a sequence.
LEMMA Cut ==
  ASSUME NEW S, NEW s \in Seq(S), NEW i \in 1 .. Len(s) + 1, NEW j \in 0 .. Len(s), i <= j + 1
  PROVE  /\ SubSeq(s, i, j) \in Seq(S) /\ Len(SubSeq(s, i, j)) = j - i + 1
         /\ \A k \in 1 .. j - i + 1 : SubSeq(s, i, j)[k] = s[i + k - 1]
<1>1. \A k \in i .. j : s[k] \in S
  BY ElementOfSeq
<1>2. i \in Int /\ j \in Int
  OBVIOUS
<1>3. /\ SubSeq(s, i, j) \in Seq(S)
      /\ Len(SubSeq(s, i, j)) = IF i <= j THEN j - i + 1 ELSE 0
      /\ \A k \in 1 .. j - i + 1 : SubSeq(s, i, j)[k] = s[i + k - 1]
  BY <1>1, <1>2, SubSeqProperties
<1> QED BY <1>3

\* A member put in at a place.
LEMMA Inserted ==
  ASSUME NEW S, NEW s \in Seq(S), NEW x \in S, NEW k \in 1 .. Len(s) + 1
  PROVE  /\ InsertAt(s, k, x) \in Seq(S) /\ Len(InsertAt(s, k, x)) = Len(s) + 1
         /\ \A i \in 1 .. Len(s) + 1 :
              InsertAt(s, k, x)[i] = IF i < k THEN s[i] ELSE IF i = k THEN x ELSE s[i - 1]
<1> DEFINE n == Len(s)
           a == SubSeq(s, 1, k - 1)
           b == SubSeq(s, k, n)
<1>1. n \in Nat /\ k \in Nat /\ k >= 1 /\ k <= n + 1
  OBVIOUS
<1>2. a \in Seq(S) /\ Len(a) = k - 1 /\ \A i \in 1 .. k - 1 : a[i] = s[i]
  <2> DEFINE j == k - 1
  <2>1. j \in 0 .. n /\ 1 \in 1 .. n + 1 /\ 1 <= j + 1
    BY <1>1
  <2>2. /\ SubSeq(s, 1, j) \in Seq(S) /\ Len(SubSeq(s, 1, j)) = j - 1 + 1
        /\ \A i \in 1 .. j - 1 + 1 : SubSeq(s, 1, j)[i] = s[1 + i - 1]
    <3> HIDE DEF j
    <3> QED BY <2>1, Cut
  <2> QED BY <1>1, <2>2
<1>3. b \in Seq(S) /\ Len(b) = n - k + 1 /\ \A i \in 1 .. n - k + 1 : b[i] = s[k + i - 1]
  <2>1. n \in 0 .. n /\ k <= n + 1
    BY <1>1
  <2> QED BY <2>1, Cut
<1>4. InsertAt(s, k, x) = (a \o <<x>>) \o b
  BY DEF InsertAt
<1> HIDE DEF a, b
<1>5. <<x>> \in Seq(S) /\ Len(<<x>>) = 1 /\ <<x>>[1] = x
  OBVIOUS
<1> DEFINE y == <<x>>
<1>5a. y \in Seq(S) /\ Len(y) = 1 /\ y[1] = x
  BY <1>5
<1> HIDE DEF y
<1>6. /\ a \o y \in Seq(S) /\ Len(a \o y) = Len(a) + Len(y)
      /\ \A i \in 1 .. Len(a) + Len(y) : (a \o y)[i] = IF i <= Len(a) THEN a[i] ELSE y[i - Len(a)]
  BY <1>2, <1>5a, ConcatProperties
<1> DEFINE c == a \o y
<1>7. /\ c \in Seq(S) /\ Len(c) = k
      /\ \A i \in 1 .. k : c[i] = IF i < k THEN s[i] ELSE x
  BY <1>1, <1>2, <1>5a, <1>6
<1> HIDE DEF c
<1>8. /\ c \o b \in Seq(S) /\ Len(c \o b) = Len(c) + Len(b)
      /\ \A i \in 1 .. Len(c) + Len(b) : (c \o b)[i] = IF i <= Len(c) THEN c[i] ELSE b[i - Len(c)]
  BY <1>3, <1>7, ConcatProperties
<1>9. ASSUME NEW i \in 1 .. n + 1
      PROVE  (c \o b)[i] = IF i < k THEN s[i] ELSE IF i = k THEN x ELSE s[i - 1]
  <2>1. (c \o b)[i] = IF i <= k THEN c[i] ELSE b[i - k]
    BY <1>1, <1>3, <1>7, <1>8
  <2>2. CASE i <= k
    <3>1. i \in 1 .. k /\ (c \o b)[i] = c[i]
      BY <1>1, <2>1, <2>2
    <3>2. c[i] = IF i < k THEN s[i] ELSE x
      BY <1>7, <3>1
    <3> QED BY <1>1, <2>2, <3>1, <3>2
  <2>3. CASE i > k
    <3>1. i - k \in 1 .. n - k + 1 /\ k + (i - k) - 1 = i - 1
      BY <1>1, <2>3
    <3>2. (c \o b)[i] = b[i - k] /\ b[i - k] = s[i - 1]
      BY <1>1, <1>3, <2>1, <2>3, <3>1
    <3> QED BY <1>1, <2>3, <3>2
  <2>4. i <= k \/ i > k
    BY <1>1
  <2> QED BY <2>2, <2>3, <2>4, Zenon
<1>10. Len(c \o b) = n + 1
  BY <1>1, <1>3, <1>7, <1>8
<1> QED BY <1>4, <1>8, <1>9, <1>10 DEF c, y

\* A member taken out of a place.
LEMMA Removed ==
  ASSUME NEW S, NEW s \in Seq(S), NEW k \in 1 .. Len(s)
  PROVE  /\ RemoveAt(s, k) \in Seq(S) /\ Len(RemoveAt(s, k)) = Len(s) - 1
         /\ \A i \in 1 .. Len(s) - 1 : RemoveAt(s, k)[i] = IF i < k THEN s[i] ELSE s[i + 1]
<1> DEFINE n == Len(s)
           a == SubSeq(s, 1, k - 1)
           b == SubSeq(s, k + 1, n)
<1>1. n \in Nat /\ k \in Nat /\ k >= 1 /\ k <= n
  OBVIOUS
<1>2. a \in Seq(S) /\ Len(a) = k - 1 /\ \A i \in 1 .. k - 1 : a[i] = s[i]
  <2> DEFINE j == k - 1
  <2>1. j \in 0 .. n /\ 1 \in 1 .. n + 1 /\ 1 <= j + 1
    BY <1>1
  <2>2. /\ SubSeq(s, 1, j) \in Seq(S) /\ Len(SubSeq(s, 1, j)) = j - 1 + 1
        /\ \A i \in 1 .. j - 1 + 1 : SubSeq(s, 1, j)[i] = s[1 + i - 1]
    <3> HIDE DEF j
    <3> QED BY <2>1, Cut
  <2> QED BY <1>1, <2>2
<1>3. b \in Seq(S) /\ Len(b) = n - k /\ \A i \in 1 .. n - k : b[i] = s[k + i]
  <2> DEFINE j == k + 1
  <2>1. n \in 0 .. n /\ j \in 1 .. n + 1 /\ j <= n + 1
    BY <1>1
  <2>2. /\ SubSeq(s, j, n) \in Seq(S) /\ Len(SubSeq(s, j, n)) = n - j + 1
        /\ \A i \in 1 .. n - j + 1 : SubSeq(s, j, n)[i] = s[j + i - 1]
    <3> HIDE DEF j
    <3> QED BY <2>1, Cut
  <2> QED BY <1>1, <2>2
<1>4. RemoveAt(s, k) = a \o b
  BY DEF RemoveAt
<1> HIDE DEF a, b
<1>5. /\ a \o b \in Seq(S) /\ Len(a \o b) = Len(a) + Len(b)
      /\ \A i \in 1 .. Len(a) + Len(b) : (a \o b)[i] = IF i <= Len(a) THEN a[i] ELSE b[i - Len(a)]
  BY <1>2, <1>3, ConcatProperties
<1>6. ASSUME NEW i \in 1 .. n - 1
      PROVE  (a \o b)[i] = IF i < k THEN s[i] ELSE s[i + 1]
  BY <1>1, <1>2, <1>3, <1>5
<1> QED BY <1>1, <1>2, <1>3, <1>4, <1>5, <1>6

\* The least and the greatest of a set of places.
LEMMA Least ==
  ASSUME NEW I, I \subseteq Nat, I # {}
  PROVE  Min(I) \in I /\ \A i \in I : Min(I) <= i
<1> DEFINE S == {n \in Nat : \A k \in I : n < k}
<1>1. \E m \in I : \A i \in I : m <= i
  <2> SUFFICES ASSUME ~\E m \in I : \A i \in I : m <= i PROVE FALSE
    OBVIOUS
  <2> DEFINE G == {n \in Nat : \A k \in I : n <= k}
  <2>1. 0 \in G
    OBVIOUS
  <2>2. ASSUME NEW n \in Nat, n \in G PROVE n + 1 \in G
    <3>1. n \notin I
      BY <2>2
    <3> QED BY <2>2, <3>1
  <2> HIDE DEF G
  <2>3. Nat \subseteq G
    BY <2>1, <2>2, Induction
  <2>4. PICK k \in I : TRUE
    OBVIOUS
  <2>5. k + 1 \in G
    BY <2>3
  <2> QED BY <2>5 DEF G
<1> QED BY <1>1 DEF Min

\* As above, of a bounded set.
LEMMA Greatest ==
  ASSUME NEW n \in Nat, NEW I, I \subseteq 1 .. n, I # {}
  PROVE  Max(I) \in I /\ \A i \in I : i <= Max(I)
<1>1. \E m \in I : \A i \in I : m >= i
  <2> DEFINE J == {n - i : i \in I}
  <2>1. J \subseteq Nat
    <3>1. \A i \in I : n - i \in Nat
      OBVIOUS
    <3> QED BY <3>1
  <2>1a. J # {}
    OBVIOUS
  <2> HIDE DEF J
  <2>2. Min(J) \in J /\ \A j \in J : Min(J) <= j
    BY <2>1, <2>1a, Least
  <2>3. PICK m \in I : Min(J) = n - m
    BY <2>2 DEF J
  <2>4. ASSUME NEW i \in I PROVE m >= i
    <3>1. n - i \in J
      BY DEF J
    <3>2. n - m <= n - i
      BY <2>2, <2>3, <3>1
    <3> QED BY <3>2
  <2> QED BY <2>4
<1> QED BY <1>1 DEF Max

\* As many places as members.
LEMMA ListsLen ==
  ASSUME NEW S, NEW s, Lists(s, S)
  PROVE  IsFiniteSet(S) /\ Cardinality(S) = Len(s) /\ Len(s) \in Nat
<1> DEFINE n == Len(s)
           D == 1 .. n
<1>1. n \in Nat /\ s \in Seq(S) /\ ToSet(s) = S /\ Once(s)
  BY DEF Lists
<1>2. s \in [D -> S]
  BY <1>1
<1>3. \A x \in S : \E i \in D : s[i] = x
  BY <1>1, Members
<1>4. \A i, j \in D : s[i] = s[j] => i = j
  BY <1>1 DEF Once
<1>5. IsFiniteSet(D) /\ Cardinality(D) = n
  <2>1. IsFiniteSet(1 .. n) /\ Cardinality(1 .. n) = IF 1 > n THEN 0 ELSE n - 1 + 1
    BY <1>1, FS_Interval
  <2> QED BY <1>1, <2>1
<1> HIDE DEF D
<1>6. s \in Surjection(D, S)
  BY <1>2, <1>3 DEF Surjection
<1>7. s \in Injection(D, S)
  BY <1>2, <1>4 DEF Injection, IsInjective
<1> QED BY <1>1, <1>5, <1>6, <1>7, FS_Surjection

\* A member left out leaves one place less.
LEMMA WithoutLen ==
  ASSUME NEW S, NEW s, Lists(s, S), NEW x \in S
  PROVE  Lists(Without(s, {x}), S \ {x}) /\ Len(Without(s, {x})) = Len(s) - 1
<1>1. Lists(Without(s, {x}), S \ {x})
  BY PartLists
<1>2. IsFiniteSet(S) /\ Cardinality(S) = Len(s) /\ Len(s) \in Nat
  BY ListsLen
<1>3. Cardinality(S \ {x}) = Len(Without(s, {x}))
  BY <1>1, ListsLen
<1>4. Cardinality(S \ {x}) = Cardinality(S) - 1
  BY <1>2, FS_RemoveElement
<1> QED BY <1>1, <1>2, <1>3, <1>4

-----------------------------------------------------------------------------
(* The members of a set before the others                                  *)

\* Those of s that are in P stand before those that are not.
FirstIn(s, P) == \A i, j \in 1 .. Len(s) : i < j /\ s[j] \in P => s[i] \in P

\* Then they are the first part of s, and the others the second.
LEMMA FirstParts ==
  ASSUME NEW S, NEW s \in Seq(S), NEW P, FirstIn(s, P)
  PROVE  s = Among(s, P) \o Without(s, P)
<1> DEFINE n == Len(s)
           I == {i \in 1 .. n : s[i] \in P}
<1>1. n \in Nat
  OBVIOUS
<1>2. PICK k \in 0 .. n : \A i \in 1 .. n : s[i] \in P <=> i <= k
  <2>1. CASE I = {}
    <3>1. 0 \in 0 .. n /\ \A i \in 1 .. n : s[i] \in P <=> i <= 0
      BY <1>1, <2>1
    <3> QED BY <3>1
  <2>2. CASE I # {}
    <3>1. Max(I) \in I /\ \A i \in I : i <= Max(I)
      <4>1. I \subseteq 1 .. n
        OBVIOUS
      <4> HIDE DEF I
      <4> QED BY <1>1, <2>2, <4>1, Greatest
    <3>2. PICK k \in 1 .. n : s[k] \in P /\ \A i \in I : i <= k
      BY <3>1
    <3>3. ASSUME NEW i \in 1 .. n PROVE s[i] \in P <=> i <= k
      <4>1. s[i] \in P => i <= k
        BY <3>2
      <4>2. i < k => s[i] \in P
        BY <3>2 DEF FirstIn
      <4> QED BY <1>1, <3>2, <4>1, <4>2
    <3>4. k \in 0 .. n
      BY <1>1
    <3> QED BY <3>3, <3>4
  <2> QED BY <2>1, <2>2
<1> DEFINE a == SubSeq(s, 1, k)
           b == SubSeq(s, k + 1, n)
<1>3. a \in Seq(S) /\ Len(a) = k /\ \A i \in 1 .. k : a[i] = s[i]
  <2>1. k \in 0 .. n /\ 1 \in 1 .. n + 1 /\ 1 <= k + 1
    BY <1>1
  <2>2. /\ SubSeq(s, 1, k) \in Seq(S) /\ Len(SubSeq(s, 1, k)) = k - 1 + 1
        /\ \A i \in 1 .. k - 1 + 1 : SubSeq(s, 1, k)[i] = s[1 + i - 1]
    BY <2>1, Cut
  <2> QED BY <1>1, <2>2
<1>4. b \in Seq(S) /\ Len(b) = n - k /\ \A i \in 1 .. n - k : b[i] = s[k + i]
  <2> DEFINE j == k + 1
  <2>1. n \in 0 .. n /\ j \in 1 .. n + 1 /\ j <= n + 1
    BY <1>1
  <2>2. /\ SubSeq(s, j, n) \in Seq(S) /\ Len(SubSeq(s, j, n)) = n - j + 1
        /\ \A i \in 1 .. n - j + 1 : SubSeq(s, j, n)[i] = s[j + i - 1]
    <3> HIDE DEF j
    <3> QED BY <2>1, Cut
  <2> QED BY <1>1, <2>2
<1>5. s = a \o b
  <2>1. 1 \in 1 .. n + 1 /\ k \in 1 - 1 .. n /\ n \in k .. n
    BY <1>1
  <2>2. a \o b = SubSeq(s, 1, n)
    BY <2>1, ConcatAdjacentSubSeq
  <2> QED BY <2>2, SubSeqFull
<1> HIDE DEF a, b
<1>6. ToSet(a) \subseteq P
  <2>1. \A i \in 1 .. k : i \in 1 .. n /\ i <= k
    BY <1>1
  <2>2. \A y \in ToSet(a) : \E i \in 1 .. k : a[i] = y
    BY <1>3, Members
  <2> QED BY <1>2, <1>3, <2>1, <2>2
<1>7. ToSet(b) \cap P = {}
  <2>1. \A i \in 1 .. n - k : k + i \in 1 .. n /\ ~(k + i <= k)
    BY <1>1
  <2>2. \A i \in 1 .. n - k : b[i] \notin P
    BY <1>2, <1>4, <2>1
  <2>3. \A y \in ToSet(b) : \E i \in 1 .. n - k : b[i] = y
    BY <1>4, Members
  <2> QED BY <2>2, <2>3
<1>8. Among(a, P) = a /\ Among(b, P) = <<>>
  BY <1>3, <1>4, <1>6, <1>7, AmongAll
<1>9. Without(a, P) = <<>> /\ Without(b, P) = b
  BY <1>3, <1>4, <1>6, <1>7, WithoutMembers
<1>10. Among(s, P) = Among(a, P) \o Among(b, P)
  BY <1>3, <1>4, <1>5, AmongConcat
<1>11. Without(s, P) = Without(a, P) \o Without(b, P)
  BY <1>3, <1>4, <1>5, WithoutConcat
<1>12. a \o <<>> = a /\ <<>> \o b = b
  BY <1>3, <1>4, NothingAdded
<1> QED BY <1>5, <1>8, <1>9, <1>10, <1>11, <1>12

\* One more put into the part of w it belongs to leaves the parts in order.
LEMMA InsertFirst ==
  ASSUME NEW S, NEW w \in Seq(S), NEW P, NEW m \in 0 .. Len(w),
         \A i \in 1 .. Len(w) : w[i] \in P <=> i <= m,
         NEW t \in S, NEW k \in 1 .. Len(w) + 1, IF t \in P THEN k <= m + 1 ELSE k > m
  PROVE  FirstIn(InsertAt(w, k, t), P)
<1> DEFINE u == InsertAt(w, k, t)
           n == Len(w)
           c == IF t \in P THEN m + 1 ELSE m
<1>1. n \in Nat /\ m \in Nat /\ k \in Nat /\ m <= n /\ c \in Nat
  OBVIOUS
<1>2. /\ u \in Seq(S) /\ Len(u) = n + 1
      /\ \A i \in 1 .. n + 1 : u[i] = IF i < k THEN w[i] ELSE IF i = k THEN t ELSE w[i - 1]
  BY Inserted
<1> HIDE DEF u
<1>3. ASSUME NEW i \in 1 .. n + 1 PROVE u[i] \in P <=> i <= c
  <2>1. CASE i < k
    <3>1. i \in 1 .. n /\ u[i] = w[i]
      BY <1>1, <1>2, <2>1
    <3>2. w[i] \in P <=> i <= m
      BY <3>1
    <3> QED BY <1>1, <2>1, <3>1, <3>2
  <2>2. CASE i = k
    <3>1. u[i] = t
      BY <1>2, <2>2
    <3> QED BY <1>1, <2>2, <3>1
  <2>3. CASE i > k
    <3>1. i - 1 \in 1 .. n /\ u[i] = w[i - 1]
      BY <1>1, <1>2, <2>3
    <3>2. w[i - 1] \in P <=> i - 1 <= m
      BY <3>1
    <3> QED BY <1>1, <2>3, <3>1, <3>2
  <2>4. i < k \/ i = k \/ i > k
    BY <1>1
  <2> QED BY <2>1, <2>2, <2>3, <2>4, Zenon
<1> HIDE DEF c
<1> QED BY <1>1, <1>2, <1>3 DEF FirstIn, u

\* Two parts, the first in P and the second out of it, are in that order.
LEMMA PartsFirst ==
  ASSUME NEW S, NEW x \in Seq(S), NEW z \in Seq(S), NEW P,
         ToSet(x) \subseteq P, ToSet(z) \cap P = {}
  PROVE  /\ FirstIn(x \o z, P)
         /\ \A i \in 1 .. Len(x) + Len(z) : (x \o z)[i] \in P <=> i <= Len(x)
<1> DEFINE w == x \o z
           m == Len(x)
           n == Len(x) + Len(z)
<1>1. /\ w \in Seq(S) /\ Len(w) = n
      /\ \A i \in 1 .. n : w[i] = IF i <= m THEN x[i] ELSE z[i - m]
  BY ConcatProperties
<1>2. m \in Nat /\ n \in Nat /\ m <= n /\ n - m = Len(z)
  OBVIOUS
<1>3. (\A i \in 1 .. m : x[i] \in P) /\ (\A i \in 1 .. n - m : z[i] \notin P)
  <2>1. \A i \in 1 .. Len(x) : x[i] \in ToSet(x)
    BY Members
  <2>2. \A i \in 1 .. Len(z) : z[i] \in ToSet(z)
    BY Members
  <2> QED BY <1>2, <2>1, <2>2
<1> HIDE DEF w, m, n
<1>4. ASSUME NEW i \in 1 .. n PROVE w[i] \in P <=> i <= m
  <2>1. CASE i <= m
    BY <1>1, <1>2, <1>3, <2>1
  <2>2. CASE i > m
    <3>1. i - m \in 1 .. n - m /\ w[i] = z[i - m]
      BY <1>1, <1>2, <2>2
    <3> QED BY <1>2, <1>3, <2>2, <3>1
  <2> QED BY <1>2, <2>1, <2>2
<1>5. FirstIn(w, P)
  BY <1>1, <1>2, <1>4 DEF FirstIn
<1> QED BY <1>4, <1>5 DEF w, m, n

-----------------------------------------------------------------------------
(* Putting one listing into another                                        *)

\* rows go before a member of the list, or at its end.
LEMMA InsertRowsLists ==
  ASSUME NEW A, NEW list, Lists(list, A), NEW B, NEW rows, Lists(rows, B), A \cap B = {},
         NEW before
  PROVE  Lists(InsertRows(list, rows, before), A \cup B)
<1> DEFINE I == {i \in 1 .. Len(list) : list[i] = before}
           at == IF I # {} THEN Min(I) ELSE 0
<1>1. Len(list) \in Nat
  BY DEF Lists
<1>2. at # 0 => at \in 1 .. Len(list)
  <2>1. I \subseteq Nat /\ I \subseteq 1 .. Len(list)
    BY <1>1
  <2>2. CASE I # {}
    <3> HIDE DEF I
    <3>1. Min(I) \in I
      BY <2>1, <2>2, Least
    <3> QED BY <2>1, <2>2, <3>1
  <2> QED BY <2>2
<1>3. InsertRows(list, rows, before)
      = IF at = 0 THEN list \o rows
        ELSE SubSeq(list, 1, at - 1) \o rows \o SubSeq(list, at, Len(list))
  BY DEF InsertRows, SelectInSeq
<1> HIDE DEF I, at
<1>4. CASE at = 0
  BY <1>3, <1>4, ConcatLists
<1>5. CASE at # 0
  <2> DEFINE k == at - 1
             a == SubSeq(list, 1, k)
             b == SubSeq(list, k + 1, Len(list))
             X == ToSet(a)
             Y == ToSet(b)
  <2>1. k \in 0 .. Len(list) /\ k + 1 = at
    BY <1>1, <1>2, <1>5
  <2>2. LET c == SubSeq(list, 1, k)
            d == SubSeq(list, k + 1, Len(list))
        IN  /\ Lists(c, ToSet(c)) /\ Lists(d, ToSet(d))
            /\ ToSet(c) \cap ToSet(d) = {} /\ ToSet(c) \cup ToSet(d) = A
    <3> HIDE DEF k
    <3> QED BY <2>1, Halves
  <2>3. Lists(a, X) /\ Lists(b, Y) /\ X \cap Y = {} /\ X \cup Y = A
    BY <2>2
  <2>4. InsertRows(list, rows, before) = (a \o rows) \o b
    BY <1>3, <1>5, <2>1
  <2> HIDE DEF k, a, b, X, Y
  <2>5. Lists(a \o rows, X \cup B)
    BY <2>3, ConcatLists
  <2>6. Lists((a \o rows) \o b, (X \cup B) \cup Y)
    BY <2>3, <2>5, ConcatLists
  <2>7. (X \cup B) \cup Y = A \cup B
    BY <2>3
  <2> QED BY <2>4, <2>6, <2>7
<1> QED BY <1>4, <1>5

-----------------------------------------------------------------------------
(* Rows in their parts                                                     *)

\* What is left of the parts is what is left of the rows.
LEMMA PartedWithout ==
  ASSUME NEW S, NEW rows, NEW x, NEW y, NEW z, NEW P, NEW H, Parted(rows, S, x, y, z, P, H),
         NEW T
  PROVE  Parted(Without(rows, T), S, Without(x, T), Without(y, T), Without(z, T), P \ T, H \ T)
<1>1. /\ x \in Seq(S) /\ y \in Seq(S) /\ z \in Seq(S) /\ rows = (x \o y) \o z
      /\ ToSet(x) \subseteq P /\ ToSet(y) \cap P = {} /\ ToSet(z) \cap P = {}
      /\ ToSet(y) \subseteq H /\ ToSet(z) \cap H = {}
  BY DEF Parted
<1>2. \A s \in Seq(S) : Without(s, T) \in Seq(S) /\ ToSet(Without(s, T)) = ToSet(s) \ T
  <2>1. ASSUME NEW s \in Seq(S)
        PROVE  Without(s, T) \in Seq(S) /\ ToSet(Without(s, T)) = ToSet(s) \ T
    BY WithoutMembers
  <2> QED BY <2>1
<1>3. \A s, u \in Seq(S) : Without(s \o u, T) = Without(s, T) \o Without(u, T)
  <2>1. ASSUME NEW s \in Seq(S), NEW u \in Seq(S)
        PROVE  Without(s \o u, T) = Without(s, T) \o Without(u, T)
    BY WithoutConcat
  <2> QED BY <2>1
<1>4. PICK w : w = x \o y
  OBVIOUS
<1>5. w \in Seq(S)
  BY <1>1, <1>4, ConcatProperties
<1>6. Without(w, T) = Without(x, T) \o Without(y, T)
  BY <1>1, <1>3, <1>4
<1>7. Without(w \o z, T) = Without(w, T) \o Without(z, T)
  BY <1>1, <1>3, <1>5
<1>8. Without(rows, T) = (Without(x, T) \o Without(y, T)) \o Without(z, T)
  BY <1>1, <1>4, <1>6, <1>7
<1>9. /\ Without(x, T) \in Seq(S) /\ Without(y, T) \in Seq(S) /\ Without(z, T) \in Seq(S)
      /\ ToSet(Without(x, T)) = ToSet(x) \ T /\ ToSet(Without(y, T)) = ToSet(y) \ T
      /\ ToSet(Without(z, T)) = ToSet(z) \ T
  BY <1>1, <1>2
<1>10. /\ ToSet(Without(x, T)) \subseteq P \ T
       /\ ToSet(Without(y, T)) \cap (P \ T) = {} /\ ToSet(Without(z, T)) \cap (P \ T) = {}
       /\ ToSet(Without(y, T)) \subseteq H \ T /\ ToSet(Without(z, T)) \cap (H \ T) = {}
  BY <1>1, <1>9
<1> QED BY <1>8, <1>9, <1>10 DEF Parted

\* What is put in past the end is appended.
LEMMA InsertEnd ==
  ASSUME NEW S, NEW s \in Seq(S), NEW t \in S
  PROVE  InsertAt(s, Len(s) + 1, t) = Append(s, t)
<1> DEFINE n == Len(s)
           k == n + 1
           u == InsertAt(s, k, t)
           a == Append(s, t)
<1>1. n \in Nat /\ k \in 1 .. Len(s) + 1
  OBVIOUS
<1>2. /\ a \in Seq(S) /\ Len(a) = n + 1 /\ a[n + 1] = t
      /\ \A i \in 1 .. n : a[i] = s[i]
  BY AppendProperties
<1> HIDE DEF k
<1>3. /\ u \in Seq(S) /\ Len(u) = Len(s) + 1
      /\ \A i \in 1 .. Len(s) + 1 : u[i] = IF i < k THEN s[i] ELSE IF i = k THEN t ELSE s[i - 1]
  BY <1>1, Inserted
<1> HIDE DEF u, a
<1>4. \A i \in 1 .. n + 1 : u[i] = a[i]
  BY <1>1, <1>2, <1>3 DEF k
<1>5. u = a
  BY <1>1, <1>2, <1>3, <1>4, SeqEqual
<1> QED BY <1>5 DEF u, a, k

\* Appending to the second of two sequences.
LEMMA AppendSecond ==
  ASSUME NEW S, NEW w \in Seq(S), NEW z \in Seq(S), NEW t \in S
  PROVE  \A r : Joined(r, w, z) => Joined(Append(r, t), w, Append(z, t))
<1> DEFINE e == <<t>>
           c == w \o z
<1>1. e \in Seq(S) /\ c \in Seq(S)
  BY ConcatProperties
<1>2. Append(z, t) = z \o e
  BY AppendIsConcat
<1>3. Append(c, t) = c \o e
  <2> HIDE DEF c
  <2> QED BY <1>1, AppendIsConcat
<1> HIDE DEF e
<1>4. (w \o z) \o e = w \o (z \o e)
  BY <1>1, ConcatAssociative
<1>5. Append(c, t) = w \o Append(z, t)
  BY <1>2, <1>3, <1>4
<1> QED BY <1>5 DEF Joined

\* One that is in no part comes at the end.
LEMMA PartedAppend ==
  ASSUME NEW S, NEW rows, NEW x, NEW y, NEW z, NEW P, NEW H, Parted(rows, S, x, y, z, P, H),
         NEW t \in S, t \notin P, t \notin H
  PROVE  Parted(InsertAt(rows, Len(rows) + 1, t), S, x, y, Append(z, t), P, H)
<1>1. /\ x \in Seq(S) /\ y \in Seq(S) /\ z \in Seq(S) /\ rows = (x \o y) \o z
      /\ ToSet(x) \subseteq P /\ ToSet(y) \cap P = {} /\ ToSet(z) \cap P = {}
      /\ ToSet(y) \subseteq H /\ ToSet(z) \cap H = {}
  BY DEF Parted
<1>2. PICK w : w = x \o y
  OBVIOUS
<1>3. w \in Seq(S) /\ rows = w \o z /\ rows \in Seq(S)
  BY <1>1, <1>2, ConcatProperties
<1>4. InsertAt(rows, Len(rows) + 1, t) = Append(rows, t)
  BY <1>3, InsertEnd
<1>5. Append(w \o z, t) = w \o Append(z, t)
  <2>1. Joined(rows, w, z)
    BY <1>3 DEF Joined
  <2>2. Joined(Append(rows, t), w, Append(z, t))
    BY <1>1, <1>3, <2>1, AppendSecond
  <2> QED BY <1>3, <2>2 DEF Joined
<1>6. Append(z, t) \in Seq(S) /\ ToSet(Append(z, t)) = ToSet(z) \cup {t}
  BY <1>1, AppendMembers
<1> QED BY <1>1, <1>2, <1>3, <1>4, <1>5, <1>6 DEF Parted

=============================================================================
