----------------------------- MODULE ListLemmas -----------------------------
(***************************************************************************)
(* A list without duplicates, as the LRU list of the buffer pool is one;   *)
(* induction over the naturals, with a set in the place of a predicate,    *)
(* and the functions it defines; slices of sequences, joins, lists in      *)
(* parts and lists of the members of a set.                                *)
(***************************************************************************)
EXTENDS Joining, SequencesExt, FiniteSetTheorems, SequenceTheorems,
        WellFoundedInduction, TLAPS

\* s names exactly the members of S, each once.
Names(s, S) ==
  /\ \A i, j \in DOMAIN s : s[i] = s[j] => i = j
  /\ \A x \in S : \E i \in DOMAIN s : s[i] = x
  /\ \A i \in DOMAIN s : s[i] \in S

LEMMA ConsNames ==
  ASSUME NEW S, NEW s \in Seq(S), NEW T, T \subseteq S, Names(s, T),
         NEW e \in S, e \notin T
  PROVE  /\ Cons(e, s) \in Seq(S)
         /\ Names(Cons(e, s), T \cup {e})
<1>1. /\ <<e>> \in Seq(S) /\ Len(<<e>>) = 1 /\ <<e>>[1] = e
      /\ Len(s) \in Nat /\ DOMAIN s = 1 .. Len(s)
  BY LenProperties
<1>2. /\ Cons(e, s) \in Seq(S)
      /\ Len(Cons(e, s)) = 1 + Len(s)
      /\ \A i \in 1 .. 1 + Len(s) : Cons(e, s)[i] = IF i <= 1 THEN <<e>>[i] ELSE s[i - 1]
  BY <1>1, ConcatProperties DEF Cons
<1>3. DOMAIN Cons(e, s) = 1 .. 1 + Len(s)
  BY <1>2, LenProperties
<1>4. Cons(e, s)[1] = e
  BY <1>1, <1>2
<1>5. \A i \in 2 .. 1 + Len(s) : i - 1 \in DOMAIN s /\ Cons(e, s)[i] = s[i - 1]
  BY <1>1, <1>2
<1>6. \A i \in DOMAIN s : i + 1 \in 2 .. 1 + Len(s) /\ Cons(e, s)[i + 1] = s[i]
  BY <1>1, <1>2
<1>7. \A i, j \in DOMAIN Cons(e, s) : Cons(e, s)[i] = Cons(e, s)[j] => i = j
  <2> SUFFICES ASSUME NEW i \in 1 .. 1 + Len(s), NEW j \in 1 .. 1 + Len(s),
                      Cons(e, s)[i] = Cons(e, s)[j]
               PROVE  i = j
    BY <1>3
  <2>1. CASE i = 1 /\ j = 1
    BY <2>1
  <2>2. CASE i = 1 /\ j # 1
    BY <2>2, <1>1, <1>4, <1>5 DEF Names
  <2>3. CASE i # 1 /\ j = 1
    BY <2>3, <1>1, <1>4, <1>5 DEF Names
  <2>4. CASE i # 1 /\ j # 1
    <3>1. i \in 2 .. 1 + Len(s) /\ j \in 2 .. 1 + Len(s)
      BY <1>1, <2>4
    <3>2. i - 1 = j - 1
      BY <3>1, <1>5 DEF Names
    <3>3. QED
      BY <3>2
  <2>5. QED
    BY <2>1, <2>2, <2>3, <2>4
<1>8. \A x \in T \cup {e} : \E i \in DOMAIN Cons(e, s) : Cons(e, s)[i] = x
  <2>1. 1 \in DOMAIN Cons(e, s)
    BY <1>1, <1>3
  <2>2. ASSUME NEW x \in T PROVE \E i \in DOMAIN Cons(e, s) : Cons(e, s)[i] = x
    BY <1>1, <1>3, <1>6 DEF Names
  <2>3. QED
    BY <1>4, <2>1, <2>2
<1>9. \A i \in DOMAIN Cons(e, s) : Cons(e, s)[i] \in T \cup {e}
  BY <1>1, <1>3, <1>4, <1>5 DEF Names
<1>10. QED
  BY <1>2, <1>7, <1>8, <1>9 DEF Names

LEMMA RemoveAtNames ==
  ASSUME NEW S, NEW s \in Seq(S), NEW T, Names(s, T), NEW k \in DOMAIN s
  PROVE  /\ RemoveAt(s, k) \in Seq(S)
         /\ Names(RemoveAt(s, k), T \ {s[k]})
<1> DEFINE r == RemoveAt(s, k)
<1>1. Len(s) \in Nat /\ DOMAIN s = 1 .. Len(s) /\ k \in 1 .. Len(s)
      /\ \A i \in 1 .. Len(s) : s[i] \in S
  BY LenProperties, ElementOfSeq
<1>2. /\ SubSeq(s, 1, k - 1) \in Seq(S)
      /\ Len(SubSeq(s, 1, k - 1)) = k - 1
      /\ \A i \in 1 .. k - 1 : SubSeq(s, 1, k - 1)[i] = s[i]
  <2>1. \A i \in 1 .. k - 1 : s[i] \in S
    BY <1>1
  <2>2. k - 1 \in Int /\ 1 \in Int
    BY <1>1
  <2>3. /\ SubSeq(s, 1, k - 1) \in Seq(S)
        /\ Len(SubSeq(s, 1, k - 1)) = IF 1 <= k - 1 THEN (k - 1) - 1 + 1 ELSE 0
        /\ \A i \in 1 .. (k - 1) - 1 + 1 : SubSeq(s, 1, k - 1)[i] = s[1 + i - 1]
    BY <2>1, <2>2, SubSeqProperties
  <2>4. QED
    BY <1>1, <2>3
<1>3. /\ SubSeq(s, k + 1, Len(s)) \in Seq(S)
      /\ Len(SubSeq(s, k + 1, Len(s))) = Len(s) - k
      /\ \A i \in 1 .. Len(s) - k : SubSeq(s, k + 1, Len(s))[i] = s[k + i]
  <2>1. \A i \in k + 1 .. Len(s) : s[i] \in S
    BY <1>1
  <2>2. k + 1 \in Int /\ Len(s) \in Int
    BY <1>1
  <2>3. /\ SubSeq(s, k + 1, Len(s)) \in Seq(S)
        /\ Len(SubSeq(s, k + 1, Len(s))) = IF k + 1 <= Len(s) THEN Len(s) - (k + 1) + 1 ELSE 0
        /\ \A i \in 1 .. Len(s) - (k + 1) + 1 : SubSeq(s, k + 1, Len(s))[i] = s[(k + 1) + i - 1]
    BY <2>1, <2>2, SubSeqProperties
  <2>4. k \in Nat /\ Len(s) \in Nat /\ k <= Len(s)
    BY <1>1
  <2>5. Len(SubSeq(s, k + 1, Len(s))) = Len(s) - k
    BY <2>3, <2>4
  <2>6. ASSUME NEW i \in 1 .. Len(s) - k
        PROVE  SubSeq(s, k + 1, Len(s))[i] = s[k + i]
    <3>1. i \in 1 .. Len(s) - (k + 1) + 1 /\ (k + 1) + i - 1 = k + i
      BY <2>4
    <3>2. QED BY <2>3, <3>1
  <2>7. QED
    BY <2>3, <2>5, <2>6
<1>4. /\ r \in Seq(S)
      /\ Len(r) = Len(s) - 1
      /\ \A i \in 1 .. Len(s) - 1 : r[i] = IF i < k THEN s[i] ELSE s[i + 1]
  <2> DEFINE a == SubSeq(s, 1, k - 1)
             b == SubSeq(s, k + 1, Len(s))
  <2>1. r = a \o b
    BY DEF RemoveAt
  <2>2. a \in Seq(S) /\ b \in Seq(S) /\ Len(a) = k - 1 /\ Len(b) = Len(s) - k
    BY <1>2, <1>3
  <2> HIDE DEF a, b, r
  <2>3. /\ r \in Seq(S)
        /\ Len(r) = Len(a) + Len(b)
        /\ \A i \in 1 .. Len(a) + Len(b) :
             r[i] = IF i <= Len(a) THEN a[i] ELSE b[i - Len(a)]
    BY <2>1, <2>2, ConcatProperties
  <2>4. Len(a) + Len(b) = Len(s) - 1
    BY <1>1, <2>2
  <2>5. ASSUME NEW i \in 1 .. Len(s) - 1, i < k PROVE r[i] = s[i]
    <3>1. i \in 1 .. k - 1 /\ i <= Len(a)
      BY <1>1, <2>2, <2>5
    <3>2. a[i] = s[i]
      BY <1>2, <3>1 DEF a
    <3>3. QED
      BY <2>3, <2>4, <3>1, <3>2
  <2>6. ASSUME NEW i \in 1 .. Len(s) - 1, ~(i < k) PROVE r[i] = s[i + 1]
    <3>1. i - (k - 1) \in 1 .. Len(s) - k /\ ~(i <= Len(a)) /\ k + (i - (k - 1)) = i + 1
      BY <1>1, <2>2, <2>6
    <3>2. b[i - (k - 1)] = s[i + 1]
      BY <1>3, <3>1 DEF b
    <3>3. QED
      BY <2>2, <2>3, <2>4, <3>1, <3>2
  <2>7. QED
    BY <2>3, <2>4, <2>5, <2>6
<1>5. DOMAIN r = 1 .. Len(s) - 1
  BY <1>4, LenProperties
<1> HIDE DEF r
<1>6. \A i, j \in DOMAIN r : r[i] = r[j] => i = j
  <2> SUFFICES ASSUME NEW i \in 1 .. Len(s) - 1, NEW j \in 1 .. Len(s) - 1, r[i] = r[j]
               PROVE  i = j
    BY <1>5
  <2>1. /\ i \in 1 .. Len(s) /\ j \in 1 .. Len(s)
        /\ i + 1 \in 1 .. Len(s) /\ j + 1 \in 1 .. Len(s)
    BY <1>1
  <2>2. \A x, y \in 1 .. Len(s) : s[x] = s[y] => x = y
    BY <1>1 DEF Names
  <2>3. CASE i < k /\ j < k
    BY <1>4, <2>1, <2>2, <2>3
  <2>4. CASE i < k /\ ~(j < k)
    <3>1. s[i] = s[j + 1]
      BY <1>4, <2>4
    <3>2. i = j + 1
      BY <2>1, <2>2, <3>1
    <3>3. QED
      BY <1>1, <2>4, <3>2
  <2>5. CASE ~(i < k) /\ j < k
    <3>1. s[i + 1] = s[j]
      BY <1>4, <2>5
    <3>2. i + 1 = j
      BY <2>1, <2>2, <3>1
    <3>3. QED
      BY <1>1, <2>5, <3>2
  <2>6. CASE ~(i < k) /\ ~(j < k)
    <3>1. s[i + 1] = s[j + 1]
      BY <1>4, <2>6
    <3>2. i + 1 = j + 1
      BY <2>1, <2>2, <3>1
    <3>3. QED
      BY <3>2
  <2>7. QED
    BY <2>3, <2>4, <2>5, <2>6
<1>7. \A x \in T \ {s[k]} : \E i \in DOMAIN r : r[i] = x
  <2> SUFFICES ASSUME NEW x \in T, x # s[k]
               PROVE  \E i \in DOMAIN r : r[i] = x
    OBVIOUS
  <2>1. PICK i \in 1 .. Len(s) : s[i] = x /\ i # k
    BY <1>1 DEF Names
  <2>2. CASE i < k
    BY <1>1, <1>4, <1>5, <2>1, <2>2
  <2>3. CASE i > k
    <3>1. i - 1 \in DOMAIN r /\ r[i - 1] = s[i]
      BY <1>1, <1>4, <1>5, <2>1, <2>3
    <3>2. QED
      BY <3>1, <2>1
  <2>4. QED
    BY <1>1, <2>1, <2>2, <2>3
<1>8. \A i \in DOMAIN r : r[i] \in T \ {s[k]}
  <2> SUFFICES ASSUME NEW i \in 1 .. Len(s) - 1
               PROVE  r[i] \in T /\ r[i] # s[k]
    BY <1>5
  <2>1. i \in 1 .. Len(s) /\ i + 1 \in 1 .. Len(s)
    BY <1>1
  <2>2. CASE i < k
    BY <1>1, <1>4, <2>1, <2>2 DEF Names
  <2>3. CASE ~(i < k)
    BY <1>1, <1>4, <2>1, <2>3 DEF Names
  <2>4. QED
    BY <2>2, <2>3
<1>9. QED
  BY <1>4, <1>6, <1>7, <1>8 DEF Names, r

LEMMA FrontNames ==
  ASSUME NEW S, NEW s \in Seq(S), NEW T, Names(s, T), s # <<>>
  PROVE  /\ Last(s) \in T
         /\ Front(s) \in Seq(S)
         /\ Names(Front(s), T \ {Last(s)})
<1>1. /\ Len(s) \in Nat \ {0} /\ DOMAIN s = 1 .. Len(s)
      /\ \A i \in 1 .. Len(s) : s[i] \in S
  BY LenProperties, EmptySeq, ElementOfSeq
<1>2. /\ Front(s) \in Seq(S)
      /\ Len(Front(s)) = Len(s) - 1
      /\ \A i \in 1 .. Len(s) - 1 : Front(s)[i] = s[i]
  <2>1. \A i \in 1 .. Len(s) - 1 : s[i] \in S
    BY <1>1
  <2>2. Len(s) - 1 \in Int /\ 1 \in Int
    BY <1>1
  <2>3. /\ SubSeq(s, 1, Len(s) - 1) \in Seq(S)
        /\ Len(SubSeq(s, 1, Len(s) - 1)) = IF 1 <= Len(s) - 1 THEN (Len(s) - 1) - 1 + 1 ELSE 0
        /\ \A i \in 1 .. (Len(s) - 1) - 1 + 1 : SubSeq(s, 1, Len(s) - 1)[i] = s[1 + i - 1]
    BY <2>1, <2>2, SubSeqProperties
  <2>4. QED
    BY <1>1, <2>3 DEF Front
<1>3. DOMAIN Front(s) = 1 .. Len(s) - 1
  BY <1>2, LenProperties
<1>4. Last(s) = s[Len(s)]
  BY DEF Last
<1>5. QED
  BY <1>1, <1>2, <1>3, <1>4 DEF Names

-----------------------------------------------------------------------------
(* Induction, and functions defined by it. *)

\* Every set of naturals that is not empty has a least member.
LEMMA LeastNatural ==
  ASSUME NEW T, T \subseteq Nat, T # {}
  PROVE  \E m \in T : \A k \in T : m <= k
<1> DEFINE R == OpToRel(<, Nat)
<1>1. IsWellFoundedOn(R, Nat)
  BY NatLessThanWellFounded
<1>2. \A x, y \in Nat : x < y => <<x, y>> \in R
  BY DEF OpToRel
<1> HIDE DEF R
<1>3. PICK m \in T : \A k \in T : ~ (<<k, m>> \in R)
  BY <1>1, WFMin
<1>4. \A k \in T : ~ (k < m)
  BY <1>2, <1>3
<1> QED BY <1>3, <1>4

\* Induction on the naturals, for a set of them.
LEMMA SetInduction ==
  ASSUME NEW S, 0 \in S, \A n \in Nat : n \in S => n + 1 \in S
  PROVE  Nat \subseteq S
<1>1. SUFFICES ASSUME Nat \ S # {} PROVE FALSE
  OBVIOUS
<1>2. PICK m \in Nat \ S : \A k \in Nat \ S : m <= k
  BY <1>1, LeastNatural
<1>3. m - 1 \in Nat /\ m - 1 \in S
  BY <1>2
<1> QED BY <1>2, <1>3

\* F[n] takes a value of T to the next, and f iterates it from e.
Steps(F, T) == \A n \in Nat : \A t \in T : F[n][t] \in T

Iterates(f, F, e, T) ==
  /\ f \in [Nat -> T]
  /\ f[0] = e
  /\ \A n \in Nat : f[n + 1] = F[n][f[n]]

LEMMA Iterate ==
  ASSUME NEW T, NEW e \in T, NEW F, Steps(F, T)
  PROVE  \E f : Iterates(f, F, e, T)
<1> DEFINE Up(n, g) == /\ g \in [0 .. n -> T]
                       /\ g[0] = e
                       /\ \A i \in 0 .. (n - 1) : g[i + 1] = F[i][g[i]]
           S == {n \in Nat : \E g : Up(n, g)}
<1>1. Nat \subseteq S
  <2>1. 0 \in S
    <3>1. Up(0, [i \in 0 .. 0 |-> e])
      OBVIOUS
    <3> QED BY <3>1
  <2>2. ASSUME NEW n \in Nat, n \in S
        PROVE  n + 1 \in S
    <3>1. PICK g : Up(n, g)
      BY <2>2
    <3> DEFINE h == [i \in 0 .. (n + 1) |-> IF i = n + 1 THEN F[n][g[n]] ELSE g[i]]
    <3>2. Up(n + 1, h)
      BY <3>1 DEF Steps
    <3> HIDE DEF h, Up
    <3> QED BY <3>2
  <2> HIDE DEF S
  <2> QED BY <2>1, <2>2, SetInduction
<1>2. \A n \in Nat : \A g, h : Up(n, g) /\ Up(n + 1, h) => g[n] = h[n]
  <2> TAKE n \in Nat
  <2> TAKE g, h
  <2> HAVE Up(n, g) /\ Up(n + 1, h)
  <2> DEFINE E == {i \in Nat : i <= n => g[i] = h[i]}
  <2>1. 0 \in E
    OBVIOUS
  <2>2. ASSUME NEW i \in Nat, i \in E PROVE i + 1 \in E
    BY <2>2
  <2> HIDE DEF E
  <2>3. Nat \subseteq E
    BY <2>1, <2>2, SetInduction
  <2> QED BY <2>3 DEF E
<1> DEFINE G(n) == CHOOSE g : Up(n, g)
           f == [n \in Nat |-> G(n)[n]]
<1>3. \A n \in Nat : Up(n, G(n))
  BY <1>1
<1> HIDE DEF G
<1>4. f \in [Nat -> T] /\ f[0] = e
  BY <1>3
<1>5. ASSUME NEW n \in Nat PROVE f[n + 1] = F[n][f[n]]
  <2>1. G(n)[n] = G(n + 1)[n]
    <3> HIDE DEF Up
    <3> QED BY <1>2, <1>3
  <2>2. G(n + 1)[n + 1] = F[n][G(n + 1)[n]]
    BY <1>3
  <2> QED BY <2>1, <2>2
<1> QED BY <1>4, <1>5 DEF Iterates

-----------------------------------------------------------------------------
(* Sequences as functions, their slices and joins. *)

\* A sequence of n elements is a function of 1 .. n, and the other way round.
LEMMA SeqOfLen ==
  ASSUME NEW S, NEW n \in Nat, NEW f
  PROVE  f \in [1 .. n -> S] <=> f \in Seq(S) /\ Len(f) = n
<1>1. ASSUME f \in [1 .. n -> S]
      PROVE  f \in Seq(S) /\ Len(f) = n
  BY <1>1
<1>2. ASSUME f \in Seq(S), Len(f) = n
      PROVE  f \in [1 .. n -> S]
  BY <1>2, LenProperties
<1> QED BY <1>1, <1>2

\* Functions that agree everywhere are one.
LEMMA SameFunction ==
  ASSUME NEW S, NEW T, NEW f \in [S -> T], NEW g \in [S -> T],
         \A x \in S : f[x] = g[x]
  PROVE  f = g
  OBVIOUS

\* Where f lies in bytes, SubSeq finds it.
LEMMA Slice ==
  ASSUME NEW C, NEW bytes \in Seq(C), NEW i \in Nat \ {0}, NEW m \in Nat,
         i + m - 1 <= Len(bytes), NEW f \in [1 .. m -> C],
         \A k \in 1 .. m : bytes[i + k - 1] = f[k]
  PROVE  SubSeq(bytes, i, i + m - 1) = f
<1> DEFINE g == SubSeq(bytes, i, i + m - 1)
           e == i + m - 1
           S == 1 .. m
<1>1. e \in Int /\ i \in Int /\ e <= Len(bytes) /\ Len(bytes) \in Nat
  BY LenProperties
<1>2. \A n \in i .. e : bytes[n] \in C
  BY <1>1, ElementOfSeq
<1>3. e - i + 1 = m
  OBVIOUS
<1>4. (IF i <= e THEN e - i + 1 ELSE 0) = m
  OBVIOUS
<1> HIDE DEF e
<1>5. /\ SubSeq(bytes, i, e) \in Seq(C)
      /\ Len(SubSeq(bytes, i, e)) = IF i <= e THEN e - i + 1 ELSE 0
      /\ \A n \in 1 .. (e - i + 1) : SubSeq(bytes, i, e)[n] = bytes[i + n - 1]
  BY <1>1, <1>2, SubSeqProperties
<1>6. g \in Seq(C) /\ Len(g) = m /\ \A n \in 1 .. m : g[n] = bytes[i + n - 1]
  BY <1>3, <1>4, <1>5 DEF e
<1> HIDE DEF g
<1>7. g \in [1 .. m -> C]
  BY <1>6, SeqOfLen
<1>8. \A k \in S : g[k] = f[k]
  BY <1>6
<1>9. g \in [S -> C] /\ f \in [S -> C]
  BY <1>7
<1> HIDE DEF S
<1>10. g = f
  BY <1>8, <1>9, SameFunction
<1> QED BY <1>10 DEF g

LEMMA JoinedSteps ==
  ASSUME NEW S, NEW pieces \in Seq(Seq(S))
  PROVE  \E upTo \in [0 .. Len(pieces) -> Seq(S)] :
           /\ upTo[0] = <<>>
           /\ \A n \in 1 .. Len(pieces) : upTo[n] = upTo[n - 1] \o pieces[n]
           /\ Joined(pieces) = upTo[Len(pieces)]
<1> DEFINE N == Len(pieces)
           T == Seq(S)
           F == [n \in Nat |-> [t \in T |->
                   IF n + 1 \in 1 .. N THEN t \o pieces[n + 1] ELSE t]]
           Eq(u) == u = [n \in 0 .. N |-> IF n = 0 THEN <<>>
                                          ELSE u[n - 1] \o pieces[n]]
           upTo == CHOOSE u : Eq(u)
           R == {n \in Nat : n <= N => upTo[n] \in T}
<1>1. /\ N \in Nat /\ <<>> \in T
      /\ \A n \in 1 .. N : pieces[n] \in T
      /\ \A s, t \in T : s \o t \in T
  BY LenProperties, ElementOfSeq, ConcatProperties, EmptySeq
<1> HIDE DEF N, T
<1>2. PICK f : Iterates(f, F, <<>>, T)
  <2>1. Steps(F, T)
    BY <1>1 DEF Steps
  <2> HIDE DEF F
  <2> QED BY <1>1, <2>1, Iterate
<1>3. f[0] = <<>> /\ \A n \in 0 .. (N - 1) : f[n + 1] = f[n] \o pieces[n + 1]
  <2>1. f[0] = <<>> /\ \A n \in Nat : f[n] \in T /\ f[n + 1] = F[n][f[n]]
    BY <1>2 DEF Iterates
  <2>2. ASSUME NEW n \in 0 .. (N - 1)
        PROVE  f[n + 1] = f[n] \o pieces[n + 1]
    <3>1. n \in Nat /\ n + 1 \in 1 .. N
      BY <1>1
    <3> QED BY <2>1, <3>1
  <2> QED BY <2>1, <2>2
<1>4. Eq([n \in 0 .. N |-> f[n]])
  <2> DEFINE g == [n \in 0 .. N |-> f[n]]
  <2>1. ASSUME NEW n \in 0 .. N, n # 0
        PROVE  g[n] = g[n - 1] \o pieces[n]
    <3>1. n - 1 \in 0 .. (N - 1) /\ n - 1 \in 0 .. N /\ (n - 1) + 1 = n
      BY <1>1, <2>1
    <3>2. f[(n - 1) + 1] = f[n - 1] \o pieces[(n - 1) + 1]
      BY <1>3, <3>1
    <3> QED BY <3>1, <3>2
  <2>2. g[0] = <<>>
    BY <1>1, <1>3
  <2>3. \A n \in 0 .. N : g[n] = IF n = 0 THEN <<>> ELSE g[n - 1] \o pieces[n]
    BY <2>1, <2>2
  <2> QED BY <2>3
<1>5. Eq(upTo)
  <2> HIDE DEF Eq
  <2> QED BY <1>4
<1> HIDE DEF upTo
<1>6. /\ upTo[0] = <<>>
      /\ \A n \in 1 .. N : upTo[n] = upTo[n - 1] \o pieces[n]
  <2>1. \A n \in 0 .. N : upTo[n] = IF n = 0 THEN <<>> ELSE upTo[n - 1] \o pieces[n]
    BY <1>5
  <2>2. 0 \in 0 .. N /\ \A n \in 1 .. N : n \in 0 .. N /\ n # 0
    BY <1>1
  <2> QED BY <2>1, <2>2
<1>7. Nat \subseteq R
  <2>1. 0 \in R
    BY <1>1, <1>6
  <2>2. ASSUME NEW n \in Nat, n \in R PROVE n + 1 \in R
    <3>1. SUFFICES ASSUME n + 1 <= N PROVE upTo[n + 1] \in T
      OBVIOUS
    <3>2. n + 1 \in 1 .. N /\ (n + 1) - 1 = n /\ upTo[n] \in T
      BY <1>1, <2>2, <3>1
    <3> QED BY <1>1, <1>6, <3>2
  <2> HIDE DEF R
  <2> QED BY <2>1, <2>2, SetInduction
<1>8. upTo \in [0 .. N -> T]
  <2>1. \A n \in 0 .. N : upTo[n] \in T
    BY <1>1, <1>7
  <2> QED BY <1>5, <2>1
<1>9. Joined(pieces) = upTo[N]
  BY DEF Joined, upTo, N
<1> QED BY <1>6, <1>8, <1>9 DEF N, T

\* Each piece begins where those before it end.
LEMMA JoinedPieces ==
  ASSUME NEW S, NEW pieces \in Seq(Seq(S)), NEW at \in [Nat -> Nat], at[0] = 0,
         \A n \in 1 .. Len(pieces) : at[n] = at[n - 1] + Len(pieces[n])
  PROVE  /\ Joined(pieces) \in [1 .. at[Len(pieces)] -> S]
         /\ \A n \in 1 .. Len(pieces) : \A k \in 1 .. Len(pieces[n]) :
              /\ at[n - 1] + k \in 1 .. at[Len(pieces)]
              /\ Joined(pieces)[at[n - 1] + k] = pieces[n][k]
<1>1. PICK upTo \in [0 .. Len(pieces) -> Seq(S)] :
           /\ upTo[0] = <<>>
           /\ \A n \in 1 .. Len(pieces) : upTo[n] = upTo[n - 1] \o pieces[n]
           /\ Joined(pieces) = upTo[Len(pieces)]
  BY JoinedSteps
<1> DEFINE N == Len(pieces)
           There(m) == /\ Len(upTo[m]) = at[m]
                       /\ \A n \in 1 .. m : \A k \in 1 .. Len(pieces[n]) :
                            /\ at[n - 1] + k \in 1 .. at[m]
                            /\ upTo[m][at[n - 1] + k] = pieces[n][k]
           R == {m \in Nat : m <= N => There(m)}
<1>2. N \in Nat /\ \A n \in 1 .. N : pieces[n] \in Seq(S) /\ Len(pieces[n]) \in Nat
  BY LenProperties, ElementOfSeq
<1>3. There(0)
  <2>1. Len(<<>>) = 0
    BY EmptySeq
  <2> QED BY <1>1, <2>1
<1>4. ASSUME NEW m \in Nat, m + 1 <= N, There(m)
      PROVE  There(m + 1)
  <2> DEFINE s == upTo[m]
             t == pieces[m + 1]
  <2>1. /\ m + 1 \in 1 .. N /\ (m + 1) - 1 = m
        /\ s \in Seq(S) /\ t \in Seq(S) /\ Len(t) \in Nat
    <3>1. m + 1 \in 1 .. N /\ m \in 0 .. N /\ (m + 1) - 1 = m
      BY <1>2, <1>4
    <3> QED BY <1>1, <1>2, <3>1
  <2>2. upTo[m + 1] = s \o t /\ at[m + 1] = at[m] + Len(t) /\ at[m] \in Nat
    BY <1>1, <2>1
  <2> DEFINE a == at[m]
             l == Len(t)
  <2>3. Len(s) = a
    BY <1>4
  <2> HIDE DEF s, t
  <2>4. /\ Len(s \o t) = Len(s) + Len(t)
        /\ \A i \in 1 .. (Len(s) + Len(t)) :
             (s \o t)[i] = IF i <= Len(s) THEN s[i] ELSE t[i - Len(s)]
    BY <2>1, ConcatProperties
  <2>5. ASSUME NEW n \in 1 .. (m + 1), NEW k \in 1 .. Len(pieces[n])
        PROVE  /\ at[n - 1] + k \in 1 .. at[m + 1]
               /\ upTo[m + 1][at[n - 1] + k] = pieces[n][k]
    <3>1. CASE n = m + 1
      <4>1. pieces[n] = t /\ at[n - 1] = a /\ k \in 1 .. l
        BY <2>1, <2>5, <3>1 DEF t
      <4>2. a \in Nat /\ l \in Nat /\ at[m + 1] = a + l
        BY <2>1, <2>2
      <4> HIDE DEF a, l
      <4>3. a + k \in 1 .. (a + l) /\ ~(a + k <= a) /\ (a + k) - a = k
        BY <4>1, <4>2
      <4>4. \A i \in 1 .. (a + l) : (s \o t)[i] = IF i <= a THEN s[i] ELSE t[i - a]
        BY <2>3, <2>4 DEF l
      <4>5. (s \o t)[a + k] = t[k]
        BY <4>3, <4>4
      <4> QED BY <2>2, <4>1, <4>2, <4>3, <4>5
    <3>2. CASE n \in 1 .. m
      <4>1. /\ at[n - 1] + k \in 1 .. at[m]
            /\ s[at[n - 1] + k] = pieces[n][k]
        BY <1>4, <3>2 DEF s
      <4> DEFINE x == at[n - 1] + k
      <4>2. a \in Nat /\ l \in Nat /\ at[m + 1] = a + l /\ x \in 1 .. a
        BY <2>1, <2>2, <4>1
      <4>3. s[x] = pieces[n][k]
        BY <4>1
      <4>4. \A i \in 1 .. (a + l) : (s \o t)[i] = IF i <= a THEN s[i] ELSE t[i - a]
        BY <2>3, <2>4
      <4> HIDE DEF a, l, x
      <4>5. x \in 1 .. (a + l) /\ x <= a
        BY <4>2
      <4>6. (s \o t)[x] = pieces[n][k]
        BY <4>3, <4>4, <4>5
      <4> QED BY <2>2, <4>2, <4>5, <4>6 DEF x
    <3>3. n = m + 1 \/ n \in 1 .. m
      BY <1>4, <2>5
    <3> QED BY <3>1, <3>2, <3>3
  <2> QED BY <2>2, <2>3, <2>4, <2>5
<1>5. Nat \subseteq R
  <2> HIDE DEF There
  <2>1. 0 \in R
    BY <1>3
  <2>2. ASSUME NEW m \in Nat, m \in R PROVE m + 1 \in R
    BY <1>2, <1>4, <2>2
  <2> HIDE DEF R
  <2> QED BY <2>1, <2>2, SetInduction
<1>6. There(N)
  <2>1. N \in R
    BY <1>2, <1>5
  <2> HIDE DEF There
  <2> QED BY <1>2, <2>1
<1>7. Joined(pieces) \in Seq(S) /\ Joined(pieces) = upTo[N]
  <2>1. N \in 0 .. N
    BY <1>2
  <2> QED BY <1>1, <2>1
<1>8. Joined(pieces) \in [1 .. at[N] -> S]
  BY <1>2, <1>6, <1>7, SeqOfLen
<1> QED BY <1>6, <1>7, <1>8

\* The first n pieces make what all of them do up to there,
LEMMA JoinedLens ==
  ASSUME NEW S, NEW pieces \in Seq(Seq(S))
  PROVE  /\ JoinedLen(pieces, 0) = 0
         /\ \A n \in 1 .. Len(pieces) :
              /\ JoinedLen(pieces, n - 1) \in Nat
              /\ JoinedLen(pieces, n) = JoinedLen(pieces, n - 1) + Len(pieces[n])
<1> DEFINE N == Len(pieces)
<1>1. N \in Nat /\ \A n \in 1 .. N : pieces[n] \in Seq(S) /\ Len(pieces[n]) \in Nat
  BY LenProperties, ElementOfSeq
<1>2. PICK upTo \in [0 .. N -> Seq(S)] :
           /\ upTo[0] = <<>>
           /\ \A n \in 1 .. N : upTo[n] = upTo[n - 1] \o pieces[n]
  BY JoinedSteps
<1>3. ASSUME NEW n \in 0 .. N
      PROVE  Joined(SubSeq(pieces, 1, n)) = upTo[n]
  <2> DEFINE part == SubSeq(pieces, 1, n)
  <2>1. part \in Seq(Seq(S)) /\ Len(part) = n /\ \A i \in 1 .. n : part[i] = pieces[i]
    <3>1. 1 \in Int /\ n \in Int /\ \A i \in 1 .. n : pieces[i] \in Seq(S)
      BY <1>1
    <3> DEFINE T == Seq(S)
    <3> HIDE DEF T
    <3>2. /\ SubSeq(pieces, 1, n) \in Seq(T)
          /\ Len(SubSeq(pieces, 1, n)) = IF 1 <= n THEN n - 1 + 1 ELSE 0
          /\ \A i \in 1 .. (n - 1 + 1) : SubSeq(pieces, 1, n)[i] = pieces[1 + i - 1]
      BY <3>1, SubSeqProperties DEF T
    <3> QED BY <1>1, <3>2 DEF T
  <2> HIDE DEF part
  <2>2. PICK u \in [0 .. Len(part) -> Seq(S)] :
           /\ u[0] = <<>>
           /\ \A i \in 1 .. Len(part) : u[i] = u[i - 1] \o part[i]
           /\ Joined(part) = u[Len(part)]
    BY <2>1, JoinedSteps
  <2> DEFINE Q == {i \in Nat : i <= n => u[i] = upTo[i]}
  <2>3. 0 \in Q
    BY <1>2, <2>2
  <2>4. ASSUME NEW i \in Nat, i \in Q PROVE i + 1 \in Q
    <3>1. SUFFICES ASSUME i + 1 <= n PROVE u[i + 1] = upTo[i + 1]
      OBVIOUS
    <3>2. i + 1 \in 1 .. n /\ i + 1 \in 1 .. N /\ (i + 1) - 1 = i /\ i <= n
      BY <1>1, <3>1
    <3> QED BY <1>2, <2>1, <2>2, <2>4, <3>2
  <2> HIDE DEF Q
  <2>5. Nat \subseteq Q
    BY <2>3, <2>4, SetInduction
  <2>6. n \in Nat /\ n <= n
    BY <1>1
  <2>7. u[n] = upTo[n]
    BY <2>5, <2>6 DEF Q
  <2> QED BY <2>1, <2>2, <2>7 DEF part
<1>4. \A n \in 0 .. N : JoinedLen(pieces, n) = Len(upTo[n]) /\ Len(upTo[n]) \in Nat
  BY <1>2, <1>3, LenProperties DEF JoinedLen
<1>5. ASSUME NEW n \in 1 .. N
      PROVE  /\ JoinedLen(pieces, n - 1) \in Nat
             /\ JoinedLen(pieces, n) = JoinedLen(pieces, n - 1) + Len(pieces[n])
  <2>1. n \in 0 .. N /\ n - 1 \in 0 .. N
    BY <1>1
  <2>2. upTo[n] = upTo[n - 1] \o pieces[n] /\ upTo[n - 1] \in Seq(S) /\ pieces[n] \in Seq(S)
    BY <1>1, <1>2, <2>1
  <2>3. Len(upTo[n - 1] \o pieces[n]) = Len(upTo[n - 1]) + Len(pieces[n])
    BY <2>2, ConcatProperties
  <2> QED BY <1>4, <2>1, <2>2, <2>3
<1>6. JoinedLen(pieces, 0) = 0
  <2>1. 0 \in 0 .. N
    BY <1>1
  <2>2. Len(<<>>) = 0
    BY EmptySeq
  <2> QED BY <1>2, <1>4, <2>1, <2>2
<1> QED BY <1>5, <1>6

\* and the next begins there.
LEMMA JoinedAt ==
  ASSUME NEW S, NEW pieces \in Seq(Seq(S))
  PROVE  /\ Joined(pieces) \in Seq(S)
         /\ JoinedLen(pieces, Len(pieces)) = Len(Joined(pieces))
         /\ \A n \in 1 .. Len(pieces) : \A k \in 1 .. Len(pieces[n]) :
              /\ JoinedLen(pieces, n - 1) + k \in 1 .. Len(Joined(pieces))
              /\ Joined(pieces)[JoinedLen(pieces, n - 1) + k] = pieces[n][k]
<1> DEFINE N == Len(pieces)
           at == [n \in Nat |-> IF n <= N THEN JoinedLen(pieces, n) ELSE 0]
<1>1. N \in Nat
  BY LenProperties
<1>2. SubSeq(pieces, 1, N) = pieces
  BY SubSeqFull
<1>3. \A n \in 0 .. N : JoinedLen(pieces, n) \in Nat
  <2>1. \A n \in 1 .. N : JoinedLen(pieces, n) \in Nat
    <3>1. \A n \in 1 .. N : pieces[n] \in Seq(S)
      BY ElementOfSeq
    <3>2. \A n \in 1 .. N : Len(pieces[n]) \in Nat
      BY <3>1, LenProperties
    <3> QED BY <3>2, JoinedLens
  <2>2. JoinedLen(pieces, 0) = 0
    BY JoinedLens
  <2>3. \A n \in 0 .. N : n = 0 \/ n \in 1 .. N
    BY <1>1
  <2> QED BY <2>1, <2>2, <2>3
<1>4. /\ at \in [Nat -> Nat] /\ at[0] = 0
      /\ \A n \in 0 .. N : at[n] = JoinedLen(pieces, n)
      /\ \A n \in 1 .. N : at[n] = at[n - 1] + Len(pieces[n])
  <2>1. \A n \in Nat : n <= N => n \in 0 .. N
    BY <1>1
  <2>2. at \in [Nat -> Nat]
    BY <1>1, <1>3, <2>1
  <2>3. \A n \in 0 .. N : at[n] = JoinedLen(pieces, n)
    BY <1>1
  <2>4. \A n \in 1 .. N : n \in 0 .. N /\ n - 1 \in 0 .. N
    BY <1>1
  <2>5. 0 \in 0 .. N
    BY <1>1
  <2> HIDE DEF at
  <2> QED BY <2>2, <2>3, <2>4, <2>5, JoinedLens
<1> HIDE DEF at
<1>5. /\ Joined(pieces) \in [1 .. at[N] -> S]
      /\ \A n \in 1 .. N : \A k \in 1 .. Len(pieces[n]) :
           /\ at[n - 1] + k \in 1 .. at[N]
           /\ Joined(pieces)[at[n - 1] + k] = pieces[n][k]
  BY <1>4, JoinedPieces
<1>6. at[N] \in Nat
  BY <1>1, <1>4
<1>7. Joined(pieces) \in Seq(S) /\ Len(Joined(pieces)) = at[N]
  <2> DEFINE m == at[N]
             f == Joined(pieces)
  <2>1. m \in Nat /\ f \in [1 .. m -> S]
    BY <1>5, <1>6
  <2> HIDE DEF m, f
  <2>2. f \in Seq(S) /\ Len(f) = m
    BY <2>1, SeqOfLen
  <2> QED BY <2>2 DEF m, f
<1>8. \A n \in 1 .. N : n - 1 \in 0 .. N
  BY <1>1
<1>9. JoinedLen(pieces, N) = at[N]
  BY <1>1, <1>2, <1>4
<1> QED BY <1>4, <1>5, <1>7, <1>8, <1>9

\* Pieces of one length: where the i-th of them ends.
EndOf(i, v) == i * v

\* The pieces, one after the other, in what they were joined to.
LaidOut(joined, pieces, v) ==
  /\ Len(joined) = EndOf(Len(pieces), v)
  /\ EndOf(Len(pieces), v) \in Nat
  /\ \A i \in 1 .. Len(pieces) : \A k \in 1 .. v :
       /\ EndOf(i - 1, v) + k \in 1 .. EndOf(Len(pieces), v)
       /\ joined[EndOf(i - 1, v) + k] = pieces[i][k]

LEMMA EvenPieces ==
  ASSUME NEW S, NEW v \in Nat, NEW pieces \in Seq(Seq(S)),
         \A i \in 1 .. Len(pieces) : Len(pieces[i]) = v
  PROVE  Joined(pieces) \in Seq(S) /\ LaidOut(Joined(pieces), pieces, v)
<1> DEFINE at == [k \in Nat |-> k * v]
           n == Len(pieces)
<1>1. at \in [Nat -> Nat] /\ n \in Nat
  BY LenProperties
<1>2. at[0] = 0
  OBVIOUS
<1>3. \A i \in 1 .. n : at[i] = at[i - 1] + Len(pieces[i])
  <2>1. SUFFICES ASSUME NEW i \in 1 .. n PROVE at[i] = at[i - 1] + v
    OBVIOUS
  <2>2. i \in Nat /\ i - 1 \in Nat /\ i = (i - 1) + 1
    BY <1>1
  <2>3. i * v = (i - 1) * v + v
    BY <2>2
  <2> QED BY <2>2, <2>3
<1>4. /\ Joined(pieces) \in [1 .. at[n] -> S]
      /\ \A i \in 1 .. n : \A k \in 1 .. Len(pieces[i]) :
           /\ at[i - 1] + k \in 1 .. at[n]
           /\ Joined(pieces)[at[i - 1] + k] = pieces[i][k]
  <2> HIDE DEF at
  <2>1. pieces \in Seq(Seq(S))
    OBVIOUS
  <2>2. \A i \in 1 .. Len(pieces) : at[i] = at[i - 1] + Len(pieces[i])
    BY <1>3
  <2> QED BY ONLY <1>1, <1>2, <2>1, <2>2, JoinedPieces
<1>5. at[n] = n * v /\ n * v \in Nat
  BY <1>1
<1>6. \A i \in 1 .. n : i - 1 \in Nat /\ at[i - 1] = (i - 1) * v
  BY <1>1
<1> HIDE DEF at, n
<1> DEFINE q == n * v
<1>7. q \in Nat /\ Joined(pieces) \in [1 .. q -> S]
  BY <1>4, <1>5
<1> HIDE DEF q
<1>8. Joined(pieces) \in Seq(S) /\ Len(Joined(pieces)) = q
  BY <1>7, SeqOfLen
<1>9. \A i \in 1 .. n : \A k \in 1 .. v :
         /\ (i - 1) * v + k \in 1 .. q
         /\ Joined(pieces)[(i - 1) * v + k] = pieces[i][k]
  BY <1>4, <1>5, <1>6 DEF n, q
<1> QED BY <1>7, <1>8, <1>9 DEF n, q, EndOf, LaidOut

\* A list without repetitions has as many members as places.
Members(p, n) == {p[k] : k \in 1 .. n}

LEMMA MembersCount ==
  ASSUME NEW n \in Nat, NEW A, NEW p \in [1 .. n -> A],
         \A k, l \in 1 .. n : p[k] = p[l] => k = l
  PROVE  /\ IsFiniteSet(Members(p, n))
         /\ Cardinality(Members(p, n)) = n
<1> DEFINE R == Members(p, n)
<1>1. p \in Bijection(1 .. n, R)
  <2>1. p \in [1 .. n -> R]
    BY DEF Members
  <2> QED BY <2>1 DEF Members, Bijection, Injection, Surjection, IsInjective
<1>2. ExistsBijection(1 .. n, R)
  BY <1>1 DEF ExistsBijection
<1> HIDE DEF R
<1>3. Cardinality(R) = n /\ IsFiniteSet(R)
  <2>1. Cardinality(R) = n
    BY <1>2, FS_CountingElements
  <2>2. IsFiniteSet(R)
    BY <1>2, FS_NatBijection
  <2> QED BY <2>1, <2>2
<1> QED BY <1>3 DEF R

-----------------------------------------------------------------------------
(* Numbers, and lists in parts                                             *)

\* A product with more is more.
LEMMA Products ==
  ASSUME NEW a \in Int, NEW b \in Int, NEW c \in Nat, a <= b
  PROVE  a * c <= b * c
  OBVIOUS

\* The lesser of two numbers.
LEMMA MinOfTwo ==
  ASSUME NEW a \in Int, NEW b \in Int
  PROVE  Min({a, b}) = IF a <= b THEN a ELSE b
<1> DEFINE m == IF a <= b THEN a ELSE b
<1>1. m \in {a, b} /\ \A y \in {a, b} : m <= y
  OBVIOUS
<1>2. \A x \in {a, b} : (\A y \in {a, b} : x <= y) => x = m
  OBVIOUS
<1> QED BY <1>1, <1>2 DEF Min

\* The greatest of some numbers is the one above all the others.
LEMMA MaxIs ==
  ASSUME NEW S, S \subseteq Int, NEW m \in S, \A y \in S : m >= y
  PROVE  Max(S) = m
<1>1. \A x \in S : (\A y \in S : x >= y) => x = m
  OBVIOUS
<1> QED BY <1>1 DEF Max

\* The longest of some lists is one of them.
LEMMA Longest ==
  ASSUME NEW n \in Nat \ {0}, NEW f \in [1 .. n -> Nat]
  PROVE  /\ Max({f[i] : i \in 1 .. n}) \in {f[i] : i \in 1 .. n}
         /\ \A i \in 1 .. n : f[i] <= Max({f[i_1] : i_1 \in 1 .. n})
<1> DEFINE S == {f[i] : i \in 1 .. n}
           Bound(m, b) == \A i \in 1 .. m : f[i] <= b
           R == {m \in Nat : m <= n => \E b \in Nat : Bound(m, b)}
           U == {b \in Nat : Bound(n, b)}
<1>1. Nat \subseteq R
  <2>1. 0 \in R
    <3>1. Bound(0, 0)
      OBVIOUS
    <3> HIDE DEF Bound
    <3> QED BY <3>1
  <2>2. ASSUME NEW m \in Nat, m \in R PROVE m + 1 \in R
    <3>1. SUFFICES ASSUME m + 1 <= n PROVE \E b \in Nat : Bound(m + 1, b)
      OBVIOUS
    <3>2. PICK b \in Nat : Bound(m, b)
      <4> HIDE DEF Bound
      <4> QED BY <2>2, <3>1
    <3>3. f[m + 1] \in Nat
      BY <3>1
    <3> DEFINE c == b + f[m + 1]
    <3>4. c \in Nat /\ b <= c /\ f[m + 1] <= c
      BY <3>3
    <3> HIDE DEF c
    <3>5. ASSUME NEW i \in 1 .. (m + 1) PROVE f[i] <= c
      <4>1. CASE i \in 1 .. m
        <5>1. f[i] <= b /\ f[i] \in Nat
          BY <3>1, <3>2, <4>1
        <5> QED BY <3>4, <5>1
      <4>2. CASE i = m + 1
        BY <3>4, <4>2
      <4>3. i = m + 1 \/ i \in 1 .. m
        OBVIOUS
      <4> QED BY <4>1, <4>2, <4>3
    <3>6. Bound(m + 1, c)
      BY <3>5
    <3> QED BY <3>4, <3>6
  <2> HIDE DEF R
  <2> QED BY <2>1, <2>2, SetInduction
<1>2. U # {}
  <2>1. n \in R
    BY <1>1
  <2> HIDE DEF Bound
  <2>2. n <= n /\ n \in Nat
    OBVIOUS
  <2> QED BY <2>1, <2>2
<1>3. PICK m \in U : \A b \in U : m <= b
  <2>1. U \subseteq Nat
    OBVIOUS
  <2> HIDE DEF U
  <2> QED BY <1>2, <2>1, LeastNatural
<1>4. m \in Nat /\ \A i \in 1 .. n : f[i] <= m /\ f[i] \in Nat
  OBVIOUS
<1>5. m \in S
  <2>1. SUFFICES ASSUME m \notin S PROVE FALSE
    OBVIOUS
  <2>2. \A i \in 1 .. n : f[i] <= m - 1
    <3>1. \A i \in 1 .. n : f[i] # m
      BY <2>1
    <3> QED BY <1>4, <3>1
  <2>3. 1 \in 1 .. n
    OBVIOUS
  <2>4. f[1] \in Nat /\ f[1] <= m - 1
    BY <1>4, <2>2, <2>3
  <2>5. m - 1 \in Nat
    BY <1>4, <2>4
  <2>6. m - 1 \in U
    BY <2>2, <2>5
  <2> HIDE DEF U
  <2>7. m <= m - 1
    BY <1>3, <2>6
  <2> QED BY <1>4, <2>7
<1>6. \A y \in S : m >= y
  BY <1>4
<1>7. S \subseteq Int
  BY <1>4
<1>8. Max(S) = m
  <2> HIDE DEF S, U
  <2> QED BY <1>5, <1>6, <1>7, MaxIs
<1> QED BY <1>4, <1>5, <1>8

\* The widest of some texts, and no narrower than m.
Spans(x, l, t, m) ==
  /\ x \in Nat /\ m <= x
  /\ \A i \in 1 .. Len(t) : l[t[i]] <= x

Widest(l, t, m) == Max({l[t[i]] : i \in DOMAIN t} \cup {m})

\* Max finds it.
LEMMA WidestSpans ==
  ASSUME NEW S, NEW t \in Seq(S), NEW l \in [S -> Nat], NEW m \in Nat
  PROVE  Spans(Widest(l, t, m), l, t, m)
<1> DEFINE n == Len(t)
           f == [i \in 1 .. n + 1 |-> IF i <= n THEN l[t[i]] ELSE m]
           Q == {f[i] : i \in 1 .. n + 1}
<1>1. n \in Nat /\ DOMAIN t = 1 .. n /\ \A i \in 1 .. n : t[i] \in S
  BY LenProperties, ElementOfSeq
<1> HIDE DEF n
<1>2. f \in [1 .. n + 1 -> Nat]
  BY <1>1
<1>3. /\ \A i \in 1 .. n : i \in 1 .. n + 1 /\ f[i] = l[t[i]]
      /\ n + 1 \in 1 .. n + 1 /\ f[n + 1] = m
  BY <1>1
<1>4. \A i \in 1 .. n + 1 : i \in 1 .. n \/ i = n + 1
  BY <1>1
<1> HIDE DEF f
<1>5. {l[t[i]] : i \in DOMAIN t} \cup {m} = Q
  BY <1>1, <1>3, <1>4
<1>6. Max(Q) \in Q /\ \A i \in 1 .. n + 1 : f[i] <= Max(Q)
  <2> DEFINE k == n + 1
  <2>1. k \in Nat \ {0}
    BY <1>1
  <2> HIDE DEF k
  <2>2. f \in [1 .. k -> Nat]
    BY <1>2 DEF k
  <2>3. /\ Max({f[i] : i \in 1 .. k}) \in {f[i] : i \in 1 .. k}
        /\ \A i \in 1 .. k : f[i] <= Max({f[i_1] : i_1 \in 1 .. k})
    BY <2>1, <2>2, Longest
  <2> QED BY <2>3 DEF k
<1> DEFINE x == Max(Q)
<1>7. x \in Nat /\ m <= x /\ \A i \in 1 .. n : l[t[i]] <= x
  BY <1>2, <1>3, <1>6
<1> HIDE DEF x
<1> QED BY <1>5, <1>7 DEF n, x, Spans, Widest

\* and of itself.
LEMMA PrefixOfItself ==
  ASSUME NEW s
  PROVE  Len(s) \in Nat => IsPrefix(s, s)
  BY DEF IsPrefix

\* A list is the beginning of what comes of appending to it,
LEMMA PrefixOfConcat ==
  ASSUME NEW T, NEW s \in Seq(T), NEW t \in Seq(T)
  PROVE  IsPrefix(s, s \o t) /\ s \o t \in Seq(T)
<1> DEFINE n == Len(s)
           u == s \o t
<1>1. /\ n \in Nat /\ Len(t) \in Nat
      /\ u \in Seq(T) /\ Len(u) = n + Len(t)
      /\ \A i \in 1 .. n + Len(t) : u[i] = IF i <= n THEN s[i] ELSE t[i - n]
  BY ConcatProperties, LenProperties
<1>2. n <= Len(u)
  BY <1>1
<1>3. SubSeq(s, 1, n) = s
  BY SubSeqFull
<1> HIDE DEF u
<1>4. SubSeq(u, 1, n) = s
  <2>1. s \in [1 .. n -> T]
    BY <1>1, SeqOfLen
  <2> HIDE DEF n
  <2>2. \A i \in 1 .. n : i \in 1 .. n + Len(t) /\ i <= n /\ 1 + i - 1 = i
    BY <1>1
  <2>3. \A i \in 1 .. n : u[1 + i - 1] = s[i]
    BY <1>1, <2>2
  <2>4. 1 \in Nat \ {0} /\ 1 + n - 1 = n /\ 1 + n - 1 <= Len(u)
    BY <1>1, <1>2
  <2>5. SubSeq(u, 1, 1 + n - 1) = s
    BY <1>1, <2>1, <2>3, <2>4, Slice
  <2> QED BY <2>4, <2>5
<1> QED BY <1>1, <1>2, <1>3, <1>4 DEF IsPrefix, n, u

\* Where the parts of a sequence of three lie.
InThree(s, a, b, c) ==
  /\ Len(a) \in Nat /\ Len(b) \in Nat /\ Len(c) \in Nat
  /\ Len(s) = Len(a) + Len(b) + Len(c)
  /\ \A i \in 1 .. Len(a) : s[i] = a[i]
  /\ \A i \in 1 .. Len(b) : s[Len(a) + i] = b[i]
  /\ \A i \in 1 .. Len(c) : s[Len(a) + Len(b) + i] = c[i]
  /\ SubSeq(s, Len(a) + 1, Len(a) + Len(b)) = b

\* It lies as long as its parts are, one after the other.
LEMMA ThreeParts ==
  ASSUME NEW T, NEW a \in Seq(T), NEW b \in Seq(T), NEW c \in Seq(T)
  PROVE  a \o b \o c \in Seq(T) /\ InThree(a \o b \o c, a, b, c)
<1> DEFINE k == Len(a)
           l == Len(b)
           m == Len(c)
           u == a \o b
           s == u \o c
<1>1. k \in Nat /\ l \in Nat /\ m \in Nat
  BY LenProperties
<1>2. /\ u \in Seq(T) /\ Len(u) = k + l
      /\ \A i \in 1 .. k + l : u[i] = IF i <= k THEN a[i] ELSE b[i - k]
  BY ConcatProperties
<1> HIDE DEF u
<1>3. /\ s \in Seq(T) /\ Len(s) = Len(u) + m
      /\ \A i \in 1 .. Len(u) + m : s[i] = IF i <= Len(u) THEN u[i] ELSE c[i - Len(u)]
  <2>1. u \in Seq(T) /\ c \in Seq(T)
    BY <1>2
  <2> QED BY ONLY <2>1, ConcatProperties
<1> HIDE DEF k, l, m, s
<1>4. \A i \in 1 .. k : s[i] = a[i]
  <2>1. SUFFICES ASSUME NEW i \in 1 .. k PROVE s[i] = a[i]
    OBVIOUS
  <2>2. i \in 1 .. k + l /\ i <= k /\ i \in 1 .. (k + l) + m /\ i <= k + l
    BY <1>1
  <2> QED BY <1>2, <1>3, <2>2
<1>5. \A i \in 1 .. l : s[k + i] = b[i]
  <2>1. SUFFICES ASSUME NEW i \in 1 .. l PROVE s[k + i] = b[i]
    OBVIOUS
  <2> DEFINE j == k + i
  <2>2. /\ j \in 1 .. k + l /\ ~(j <= k) /\ j - k = i
        /\ j \in 1 .. (k + l) + m /\ j <= k + l
    BY <1>1
  <2> HIDE DEF j
  <2>3. s[j] = b[i]
    BY <1>2, <1>3, <2>2
  <2> QED BY <2>3 DEF j
<1>6. \A i \in 1 .. m : s[k + l + i] = c[i]
  <2>1. SUFFICES ASSUME NEW i \in 1 .. m PROVE s[k + l + i] = c[i]
    OBVIOUS
  <2> DEFINE j == k + l + i
  <2>2. j \in 1 .. (k + l) + m /\ ~(j <= k + l) /\ j - (k + l) = i
    BY <1>1
  <2> HIDE DEF j
  <2>3. s[j] = c[i]
    BY <1>2, <1>3, <2>2
  <2> QED BY <2>3 DEF j
<1>7. SubSeq(s, k + 1, k + l) = b
  <2> DEFINE x == k + 1
  <2>1. /\ x \in Nat \ {0} /\ x + l - 1 = k + l /\ x + l - 1 <= Len(s)
        /\ \A i \in 1 .. l : x + i - 1 = k + i
    <3>1. Len(s) = (k + l) + m
      BY <1>2, <1>3
    <3> QED BY ONLY <1>1, <3>1
  <2>2. b \in [1 .. l -> T]
    BY <1>1, SeqOfLen DEF l
  <2>3. \A i \in 1 .. l : s[x + i - 1] = b[i]
    BY <1>5, <2>1
  <2> HIDE DEF x
  <2>4. SubSeq(s, x, x + l - 1) = b
    BY <1>1, <1>3, <2>1, <2>2, <2>3, Slice
  <2> QED BY <2>1, <2>4 DEF x
<1>8. Len(s) = k + l + m
  BY <1>1, <1>2, <1>3
<1> QED BY <1>1, <1>3, <1>4, <1>5, <1>6, <1>7, <1>8 DEF InThree, k, l, m, s, u

\* Three lists of one.
LEMMA ThreeOfOne ==
  ASSUME NEW x, NEW y, NEW z
  PROVE  <<x>> \o <<y>> \o <<z>> = <<x, y, z>>
<1> DEFINE T == {x, y, z}
           a == <<x>>
           b == <<y>>
           c == <<z>>
           t == <<x, y, z>>
           s == a \o b \o c
<1>1. /\ a \in Seq(T) /\ Len(a) = 1 /\ a[1] = x
      /\ b \in Seq(T) /\ Len(b) = 1 /\ b[1] = y
      /\ c \in Seq(T) /\ Len(c) = 1 /\ c[1] = z
  OBVIOUS
<1>2. t \in [1 .. 3 -> T] /\ t[1] = x /\ t[2] = y /\ t[3] = z
  OBVIOUS
<1> HIDE DEF T, a, b, c, t
<1>3. s \in Seq(T) /\ InThree(s, a, b, c)
  BY <1>1, ThreeParts
<1> HIDE DEF s
<1>4. /\ Len(s) = 3 
      /\ \A i \in 1 .. 1 : s[i] = a[i]
      /\ \A i \in 1 .. 1 : s[1 + i] = b[i]
      /\ \A i \in 1 .. 1 : s[1 + 1 + i] = c[i]
  BY <1>1, <1>3 DEF InThree
<1>5. s[1] = x /\ s[2] = y /\ s[3] = z
  <2>1. 1 \in 1 .. 1 /\ 1 + 1 = 2 /\ 1 + 1 + 1 = 3
    OBVIOUS
  <2> QED BY <1>1, <1>4, <2>1
<1> DEFINE S == 1 .. 3
<1>6. s \in [S -> T]
  BY <1>3, <1>4, SeqOfLen
<1>7. \A i \in S : i = 1 \/ i = 2 \/ i = 3
  OBVIOUS
<1>8. \A i \in S : s[i] = t[i]
  BY <1>2, <1>5, <1>7
<1>9. s = t
  BY <1>2, <1>6, <1>8, SameFunction
<1> QED BY <1>9 DEF s, t, a, b, c

\* The members of a set, in a list of as many.
Lists(names, S) ==
  /\ names \in Seq(S)
  /\ Len(names) = Cardinality(S)
  /\ Members(names, Len(names)) = S

\* SetToSeq lists a set,
LEMMA SetToSeqLists ==
  ASSUME NEW S, IsFiniteSet(S)
  PROVE  Lists(SetToSeq(S), S)
<1> DEFINE n == Cardinality(S)
           f == SetToSeq(S)
<1>1. n \in Nat /\ ExistsBijection(1 .. n, S)
  BY FS_CardinalityType
<1>2. PICK g : g \in Bijection(1 .. n, S)
  BY <1>1 DEF ExistsBijection
<1>3. g \in [1 .. n -> S] /\ IsInjective(g)
  BY <1>2 DEF Bijection, Injection
<1> HIDE DEF n
<1>4. f \in [1 .. n -> S] /\ IsInjective(f)
  BY <1>3 DEF SetToSeq, n
<1> HIDE DEF f
<1>5. \A k, l \in 1 .. n : f[k] = f[l] => k = l
  BY <1>4 DEF IsInjective
<1>6. Cardinality(Members(f, n)) = n
  BY <1>1, <1>4, <1>5, MembersCount
<1>7. Members(f, n) \in SUBSET S
  BY <1>4 DEF Members
<1>8. Members(f, n) = S
  BY <1>6, <1>7, FS_Subset DEF n
<1>9. f \in Seq(S) /\ Len(f) = n
  BY <1>1, <1>4, SeqOfLen
<1> QED BY <1>8, <1>9 DEF Lists, f, n

\* and so does the reverse of its list.
LEMMA ReverseLists ==
  ASSUME NEW S, NEW names, Lists(names, S)
  PROVE  Lists(Reverse(names), S)
<1> DEFINE n == Len(names)
           r == Reverse(names)
<1>1. n \in Nat /\ \A i \in 1 .. n : names[i] \in S
  BY LenProperties, ElementOfSeq DEF Lists
<1> HIDE DEF n
<1>2. r = [i \in 1 .. n |-> names[(n - i) + 1]]
  BY DEF Reverse, n
<1>3. \A i \in 1 .. n : (n - i) + 1 \in 1 .. n /\ (n - ((n - i) + 1)) + 1 = i
  BY <1>1
<1>4. r \in [1 .. n -> S]
  BY <1>1, <1>2, <1>3
<1>5. \A i \in 1 .. n : r[(n - i) + 1] = names[i]
  BY <1>2, <1>3
<1>6. \A i \in 1 .. n : r[i] = names[(n - i) + 1]
  BY <1>2
<1> HIDE DEF r
<1>7. Members(r, n) = Members(names, n)
  BY <1>3, <1>5, <1>6 DEF Members
<1>8. r \in Seq(S) /\ Len(r) = n
  BY <1>1, <1>4, SeqOfLen
<1> QED BY <1>7, <1>8 DEF Lists, n, r

=============================================================================
