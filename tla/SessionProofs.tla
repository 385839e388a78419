--------------------------- MODULE SessionProofs ----------------------------
(***************************************************************************)
(* A session keeps its rows and shows the truth, for every database,       *)
(* terminal and script of statements, and for every parser and plan whose  *)
(* records are records of the columns it announces (PlansSound, which      *)
(* Session takes from the virtual functions of a plan).  First: who reads  *)
(* a screen finds what was drawn on it, for every width of the columns,    *)
(* every row and every text without a space: the pieces a text is wrapped  *)
(* into, padded and laid between the borders of their columns, are cut     *)
(* out of the lines again and joined to the text they were.                *)
(***************************************************************************)
EXTENDS Session, ListLemmas

(* Texts.                                                                  *)

Line == Seq(Char)

\* A text is a line without a space.
LEMMA TextIs ==
  ASSUME NEW t
  PROVE  t \in Text <=> t \in Line /\ \A i \in 1 .. Len(t) : t[i] # Space
<1>1. t \in Line => DOMAIN t = 1 .. Len(t)
  BY LenProperties DEF Line
<1> QED BY <1>1 DEF Text, Line

\* A list of characters other than the space is a text,
LEMMA TextOf ==
  ASSUME NEW n \in Nat, NEW t \in [1 .. n -> Char],
         \A i \in 1 .. n : t[i] # Space
  PROVE  t \in Text /\ Len(t) = n
<1>1. t \in Line /\ Len(t) = n
  BY SeqOfLen DEF Line
<1> QED BY <1>1, TextIs

\* and so are two of them, one after the other.
LEMMA TextJoin ==
  ASSUME NEW s \in Text, NEW t \in Text
  PROVE  s \o t \in Text /\ Len(s \o t) = Len(s) + Len(t)
<1>1. s \in Line /\ t \in Line /\ Len(s) \in Nat /\ Len(t) \in Nat
  BY TextIs, LenProperties DEF Line
<1>2. /\ s \o t \in Line /\ Len(s \o t) = Len(s) + Len(t)
      /\ \A i \in 1 .. Len(s) + Len(t) :
           (s \o t)[i] = IF i <= Len(s) THEN s[i] ELSE t[i - Len(s)]
  BY <1>1, ConcatProperties DEF Line
<1>3. ASSUME NEW i \in 1 .. Len(s) + Len(t)
      PROVE  (s \o t)[i] # Space
  <2>1. CASE i <= Len(s)
    <3>1. i \in 1 .. Len(s)
      BY <1>1, <2>1
    <3> QED BY <1>2, <2>1, <3>1, TextIs
  <2>2. CASE ~(i <= Len(s))
    <3>1. i - Len(s) \in 1 .. Len(t)
      BY <1>1, <2>2
    <3> QED BY <1>2, <2>2, <3>1, TextIs
  <2> QED BY <2>1, <2>2
<1> QED BY <1>2, <1>3, TextIs

\* The characters that are drawn, the space aside, and short texts of them.
LEMMA SymbolsPrint ==
  /\ \A c \in Symbols \ {Space} : c \in Char /\ c # Space
  /\ Space \in Char
  /\ {"+", "-", "|", "(", ")", ",", "_"} \subseteq Symbols \ {Space}
  /\ {"0", "1", "2", "3", "4", "5", "6", "7", "8", "9"}
       \subseteq Symbols \ {Space}
  /\ {"i", "n", "t", "s", "r", "T", "a", "b", "l", "e"}
       \subseteq Symbols \ {Space}
<1>1. Symbols \subseteq Char
  BY PrinterAssumption
<1>2. Space \in Symbols
  BY DEF Symbols
<1>3. {"+", "-", "|", "(", ")", ",", "_"} \subseteq Symbols \ {Space}
  BY DEF Symbols, Space
<1>4. {"0", "1", "2", "3", "4", "5", "6", "7", "8", "9"}
        \subseteq Symbols \ {Space}
  BY DEF Symbols, Space
<1>5. {"i", "n", "t", "s", "r", "T", "a", "b", "l", "e"}
        \subseteq Symbols \ {Space}
  BY DEF Symbols, Space
<1> QED BY <1>1, <1>2, <1>3, <1>4, <1>5

\* Texts of one, two or three of them.
LEMMA ShortTexts ==
  /\ \A c \in Symbols \ {Space} : <<c>> \in Text
  /\ \A c, d \in Symbols \ {Space} : <<c, d>> \in Text
  /\ \A c, d, e \in Symbols \ {Space} : <<c, d, e>> \in Text
<1> DEFINE S == Symbols \ {Space}
<1>1. \A c \in S : c \in Char /\ c # Space
  BY SymbolsPrint
<1> HIDE DEF S
<1> QED BY <1>1 DEF Text, S

\* The places of an int.
LEMMA PlacesType == Places \in [1 .. 10 -> Nat \ {0}]
  BY DEF Places

\* std::to_string writes a text.
LEMMA DigitsText ==
  ASSUME NEW n \in Nat
  PROVE  Digits(n) \in Text
<1> DEFINE P(k) == /\ k = 10 \/ n < Places[k + 1]
                   /\ k = 1 \/ n >= Places[k]
           count == CHOOSE k \in 1 .. 10 : P(k)
           D == <<"0", "1", "2", "3", "4", "5", "6", "7", "8", "9">>
           A == [i \in 1 .. count |->
                   D[((n \div Places[count - i + 1]) % 10) + 1]]
<1>1. \E k \in 1 .. 10 : P(k)
  <2> DEFINE B == {k \in Nat : k \in 1 .. 10 /\ (k = 10 \/ n < Places[k + 1])}
  <2>1. 10 \in B
    OBVIOUS
  <2>2. PICK k \in B : \A l \in B : k <= l
    <3>1. B \subseteq Nat /\ B # {}
      BY <2>1
    <3> HIDE DEF B
    <3> QED BY <3>1, LeastNatural
  <2>3. k \in 1 .. 10 /\ (k = 10 \/ n < Places[k + 1])
    OBVIOUS
  <2>4. k = 1 \/ n >= Places[k]
    <3>1. SUFFICES ASSUME k # 1, ~(n >= Places[k]) PROVE FALSE
      OBVIOUS
    <3>2. n < Places[k]
      BY <2>3, <3>1, PlacesType
    <3>3. k - 1 \in Nat /\ k - 1 \in 1 .. 10 /\ (k - 1) + 1 = k /\ ~(k <= k - 1)
      BY <2>3, <3>1
    <3>4. k - 1 \in B
      BY <3>2, <3>3
    <3> HIDE DEF B
    <3> QED BY <2>2, <3>3, <3>4
  <2> QED BY <2>3, <2>4
<1> HIDE DEF P
<1>2. count \in 1 .. 10
  BY <1>1
<1> HIDE DEF count
<1>3. \A k \in 1 .. 10 : D[k] \in Char /\ D[k] # Space
  <2> DEFINE Z == {"0", "1", "2", "3", "4", "5", "6", "7", "8", "9"}
  <2>1. \A k \in 1 .. 10 : D[k] \in Z
    OBVIOUS
  <2>2. Z \subseteq Symbols \ {Space}
    BY SymbolsPrint
  <2> HIDE DEF Z, D
  <2> QED BY <2>1, <2>2, SymbolsPrint
<1> HIDE DEF D
<1>4. ASSUME NEW i \in 1 .. count
      PROVE  /\ D[((n \div Places[count - i + 1]) % 10) + 1] \in Char
             /\ D[((n \div Places[count - i + 1]) % 10) + 1] # Space
  <2>1. count - i + 1 \in 1 .. 10
    BY <1>2
  <2>2. Places[count - i + 1] \in Nat \ {0}
    BY <2>1, PlacesType
  <2> DEFINE p == Places[count - i + 1]
             q == n \div p
  <2> HIDE DEF p
  <2>3. q \in Nat
    BY <2>2 DEF p
  <2> HIDE DEF q
  <2>4. (q % 10) + 1 \in 1 .. 10
    BY <2>3
  <2> QED BY <1>3, <2>4 DEF p, q
<1>5. A \in [1 .. count -> Char] /\ \A i \in 1 .. count : A[i] # Space
  BY <1>4
<1>6. Digits(n) = A
  BY DEF Digits, A, D, count, P
<1> HIDE DEF A
<1>7. A \in Text
  BY <1>2, <1>5, TextOf
<1> QED BY <1>6, <1>7

\* The title of SHOW TABLES.
LEMMA TablesText ==
  <<"T", "a", "b", "l", "e", "s">> \in Text \ {<<>>}
<1> DEFINE t == <<"T", "a", "b", "l", "e", "s">>
           Z == {"i", "n", "t", "s", "r", "T", "a", "b", "l", "e"}
<1>1. DOMAIN t = 1 .. 6 /\ t # <<>> /\ \A i \in 1 .. 6 : t[i] \in Z
  OBVIOUS
<1>2. t = [i \in 1 .. 6 |-> t[i]]
  OBVIOUS
<1>3. Z \subseteq Symbols \ {Space}
  BY SymbolsPrint
<1> HIDE DEF t, Z
<1>4. \A i \in 1 .. 6 : t[i] \in Char /\ t[i] # Space
  BY <1>1, <1>3, SymbolsPrint
<1>5. t \in [1 .. 6 -> Char]
  BY <1>2, <1>4
<1>6. t \in Text
  BY <1>4, <1>5, TextOf
<1> QED BY <1>1, <1>6 DEF t

\* A value is printed as a text, an empty one perhaps.
LEMMA FieldTextIsText ==
  ASSUME NEW v \in Value
  PROVE  FieldText(v) \in Text
<1>1. CASE v[1] = "str"
  <2>1. v[2] \in 0 .. Len(Word) /\ Word \in Line /\ Len(Word) \in Nat
    BY <1>1, PrinterAssumption, TextIs, LenProperties DEF Value, Line
  <2>2. FieldText(v) = SubSeq(Word, 1, v[2])
    BY <1>1 DEF FieldText, TypeOf
  <2>3. \A i \in 1 .. v[2] : i \in 1 .. Len(Word) /\ Word[i] \in Char
    BY <2>1, ElementOfSeq DEF Line
  <2> DEFINE n == v[2]
             s == SubSeq(Word, 1, n)
  <2>4. n \in Int /\ (IF 1 <= n THEN n - 1 + 1 ELSE 0) = n
    BY <2>1
  <2> HIDE DEF n
  <2>5. /\ SubSeq(Word, 1, n) \in Seq(Char)
        /\ Len(SubSeq(Word, 1, n)) = IF 1 <= n THEN n - 1 + 1 ELSE 0
        /\ \A i \in 1 .. n - 1 + 1 : SubSeq(Word, 1, n)[i] = Word[1 + i - 1]
    BY <2>3, <2>4, SubSeqProperties DEF n
  <2>6. \A i \in 1 .. Len(s) : s[i] = Word[i]
    BY <2>4, <2>5
  <2>7. \A i \in 1 .. Len(s) : s[i] # Space
    BY <2>3, <2>4, <2>5, <2>6, PrinterAssumption, TextIs DEF n
  <2> QED BY <2>2, <2>5, <2>7, TextIs DEF Line, n
<1>2. CASE v[1] # "str" /\ v[2] < 0
  <2>1. -v[2] \in Nat
    BY <1>2 DEF Value
  <2>2. FieldText(v) = <<"-">> \o Digits(-v[2])
    BY <1>2 DEF FieldText, TypeOf
  <2>3. <<"-">> \in Text
    <3>1. "-" \in Symbols \ {Space}
      BY SymbolsPrint
    <3> QED BY <3>1, ShortTexts
  <2>4. Digits(-v[2]) \in Text
    BY <2>1, DigitsText
  <2> QED BY <2>2, <2>3, <2>4, TextJoin
<1>3. CASE v[1] # "str" /\ ~(v[2] < 0)
  <2>1. v[2] \in Nat
    BY <1>3 DEF Value
  <2>2. FieldText(v) = Digits(v[2])
    BY <1>3 DEF FieldText, TypeOf
  <2> QED BY <2>1, <2>2, DigitsText
<1> QED BY <1>1, <1>2, <1>3

\* The name and type of a column are a text.
LEMMA ItemTextIsText ==
  ASSUME NEW col, IsColumn(col)
  PROVE  ItemText(col) \in Text
<1> DEFINE a == <<"(">>
           b == IF col.type = "int" THEN <<"i", "n", "t">> ELSE <<"s", "t", "r">>
           c == <<")">>
           u == <<"_", "_">>
           name == ColumnName(col)
<1>1. a \in Text /\ b \in Text /\ c \in Text /\ u \in Text
  <2>1. {"(", ")", "_", "i", "n", "t", "s", "r"} \subseteq Symbols \ {Space}
    BY SymbolsPrint
  <2> QED BY <2>1, ShortTexts
<1> HIDE DEF a, b, c
<1>2. name \in Text
  <2>1. CASE "table" \in DOMAIN col /\ col.table = "__aggregate__"
    <3> DEFINE x == Spelled[col.name[1]]
               y == Spelled[col.name[2]]
    <3>1. x \in Text /\ y \in Text
      BY <2>1, PrinterAssumption DEF IsColumn
    <3>2. name = x \o u \o y
      BY <2>1 DEF ColumnName
    <3> HIDE DEF x, y, u, name
    <3>3. x \o u \in Text
      BY <1>1, <3>1, TextJoin
    <3> QED BY <3>1, <3>2, <3>3, TextJoin
  <2>2. CASE ~("table" \in DOMAIN col /\ col.table = "__aggregate__")
    BY <2>2, PrinterAssumption DEF IsColumn, ColumnName
  <2> QED BY <2>1, <2>2
<1>3. ItemText(col) = name \o a \o b \o c
  BY DEF ItemText, a, b, c
<1> HIDE DEF name
<1>4. name \o a \in Text
  BY <1>1, <1>2, TextJoin
<1>5. name \o a \o b \in Text
  BY <1>1, <1>4, TextJoin
<1> QED BY <1>1, <1>3, <1>5, TextJoin

-----------------------------------------------------------------------------
(* Wrapping.                                                               *)

\* Where the p-th piece of c characters ends, in a word of n.
End(n, c, p) == IF p * c <= n THEN p * c ELSE n

\* The ends of the pieces follow each other, at most c apart.
LEMMA Ends ==
  ASSUME NEW n \in Nat, NEW c \in Nat \ {0}, NEW p \in Nat
  PROVE  /\ End(n, c, p) \in 0 .. n
         /\ End(n, c, 0) = 0
         /\ End(n, c, p) <= End(n, c, p + 1)
         /\ End(n, c, p + 1) <= End(n, c, p) + c
<1>1. p * c \in Nat /\ (p + 1) * c = p * c + c /\ 0 * c = 0
  OBVIOUS
<1> DEFINE x == p * c
<1> HIDE DEF x
<1>2. x \in Nat /\ (p + 1) * c = x + c /\ 0 * c = 0 /\ p * c = x
  BY <1>1 DEF x
<1> QED BY <1>2 DEF End

\* A word in pieces of c characters, the last of those that are left.
CutUp(P, word, n, c) ==
  /\ P \in Seq(Line) /\ Len(P) \in Nat \ {0} /\ n \in Nat \ {0}
  /\ n <= c => Len(P) = 1
  /\ End(n, c, Len(P)) = n
  /\ \A p \in 1 .. Len(P) :
       /\ P[p] = SubSeq(word, End(n, c, p - 1) + 1, End(n, c, p))
       /\ P[p] \in Line
       /\ End(n, c, p - 1) < End(n, c, p)
       /\ Len(P[p]) = End(n, c, p) - End(n, c, p - 1)
       /\ P[p][Len(P[p])] = word[End(n, c, p)]

\* WrapWord cuts up its word.
LEMMA Pieces ==
  ASSUME NEW word \in Line \ {<<>>}, NEW c \in Nat \ {0}
  PROVE  CutUp(WrapWord(word, c), word, Len(word), c)
<1> DEFINE P == WrapWord(word, c)
           n == Len(word)
           N == (n + c - 1) \div c
           E(p) == End(n, c, p)
<1>1. n \in Nat \ {0} /\ \A i \in 1 .. n : word[i] \in Char
  BY EmptySeq, ElementOfSeq DEF Line
<1> HIDE DEF n
<1>2. N \in Nat /\ N * c <= n + c - 1 /\ n + c - 1 < (N + 1) * c
  <2>1. n + c - 1 \in Nat
    BY <1>1
  <2> DEFINE a == n + c - 1
  <2> HIDE DEF a
  <2>2. a \div c \in Nat /\ (a \div c) * c <= a /\ a < (a \div c + 1) * c
    BY <2>1 DEF a
  <2> QED BY <2>2 DEF a
<1> HIDE DEF N
<1>3. N # 0 /\ n <= N * c /\ (N - 1) * c < n
  <2>1. (N + 1) * c = N * c + c /\ (N - 1) * c = N * c - c /\ N * c \in Nat
    BY <1>2
  <2>2. N # 0
    <3>1. SUFFICES ASSUME N = 0 PROVE FALSE
      OBVIOUS
    <3>2. (N + 1) * c = c
      BY <3>1
    <3> QED BY <1>1, <1>2, <3>2
  <2> DEFINE x == N * c
             y == (N + 1) * c
             z == (N - 1) * c
  <2> HIDE DEF x, y, z
  <2>3. x \in Nat /\ y = x + c /\ z = x - c /\ x <= n + c - 1 /\ n + c - 1 < y
    BY <1>2, <2>1 DEF x, y, z
  <2>4. n <= x /\ z < n
    BY <1>1, <2>3
  <2> QED BY <2>2, <2>4 DEF x, z
<1>4. ASSUME NEW p \in 1 .. N
      PROVE  /\ (p - 1) * c < n
             /\ E(p - 1) = (p - 1) * c
             /\ E(p) \in 1 .. n /\ E(p - 1) \in 0 .. n /\ E(p - 1) < E(p)
  <2>1. p - 1 \in Nat /\ p - 1 <= N - 1 /\ (p - 1) + 1 = p
    BY <1>2
  <2>2. (p - 1) * c <= (N - 1) * c
    BY <1>2, <2>1, Products
  <2>3. (p - 1) * c \in Nat /\ (N - 1) * c \in Int
    BY <1>2, <2>1
  <2>4. (p - 1) * c < n
    BY <1>1, <1>3, <2>2, <2>3
  <2>5. p * c = (p - 1) * c + c
    BY <2>1
  <2> DEFINE x == (p - 1) * c
  <2> HIDE DEF x
  <2>6. x \in Nat /\ x < n /\ p * c = x + c /\ (p - 1) * c = x
    BY <2>3, <2>4, <2>5 DEF x
  <2> QED BY <1>1, <2>6 DEF End
<1>5. E(N) = n
  BY <1>1, <1>2, <1>3 DEF End
<1>6. P = [p \in 1 .. N |-> SubSeq(word, (p - 1) * c + 1, Min({p * c, n}))]
  BY DEF WrapWord, N, n
<1> HIDE DEF P
<1>7. ASSUME NEW p \in 1 .. N
      PROVE  /\ P[p] = SubSeq(word, E(p - 1) + 1, E(p))
             /\ P[p] \in Line
             /\ Len(P[p]) = E(p) - E(p - 1)
             /\ P[p][Len(P[p])] = word[E(p)]
  <2>1. Min({p * c, n}) = E(p)
    <3>1. p * c \in Int /\ n \in Int
      BY <1>1, <1>2
    <3> QED BY <3>1, MinOfTwo DEF End
  <2> DEFINE a == E(p - 1)
             b == E(p)
             i == a + 1
  <2>2. P[p] = SubSeq(word, i, b)
    BY <1>4, <1>6, <2>1
  <2>3. a \in 0 .. n /\ b \in 1 .. n /\ a < b
    BY <1>4
  <2> HIDE DEF a, b
  <2>4. i \in Int /\ b \in Int /\ i <= b /\ b - i + 1 = b - a
    BY <1>1, <2>3
  <2>5. \A k \in i .. b : word[k] \in Char
    BY <1>1, <2>3
  <2> HIDE DEF i
  <2>6. /\ SubSeq(word, i, b) \in Line
        /\ Len(SubSeq(word, i, b)) = IF i <= b THEN b - i + 1 ELSE 0
        /\ \A k \in 1 .. b - i + 1 : SubSeq(word, i, b)[k] = word[i + k - 1]
    BY <2>4, <2>5, SubSeqProperties DEF Line
  <2>7. Len(P[p]) = b - a /\ b - a \in 1 .. b - i + 1 /\ i + (b - a) - 1 = b
    BY <1>1, <2>2, <2>3, <2>4, <2>6 DEF i
  <2>8. P[p][b - a] = word[b]
    BY <2>2, <2>6, <2>7
  <2> QED BY <2>2, <2>6, <2>7, <2>8 DEF a, b, i
<1>8. P \in [1 .. N -> Line]
  BY <1>6, <1>7
<1>9. P \in Seq(Line) /\ Len(P) = N
  BY <1>2, <1>8, SeqOfLen
<1>10. n <= c => N = 1
  <2>1. SUFFICES ASSUME n <= c, N # 1 PROVE FALSE
    OBVIOUS
  <2>2. 1 <= N - 1
    BY <1>2, <1>3, <2>1
  <2>3. 1 * c <= (N - 1) * c /\ (N - 1) * c \in Int
    BY <1>2, <2>2, Products
  <2> QED BY <1>1, <1>3, <2>1, <2>3
<1> QED BY <1>1, <1>2, <1>3, <1>4, <1>5, <1>7, <1>9, <1>10 DEF P, n, CutUp

-----------------------------------------------------------------------------
(* Texts laid in lines                                                     *)

\* What was cut in pieces, laid end to end.
LEMMA JoinedSlices ==
  ASSUME NEW word \in Line, NEW h \in Nat, NEW at \in [0 .. h -> 0 .. Len(word)],
         at[0] = 0, at[h] = Len(word),
         \A k \in 1 .. h : at[k - 1] <= at[k],
         NEW pieces \in Seq(Line), Len(pieces) = h,
         \A k \in 1 .. h : pieces[k] = SubSeq(word, at[k - 1] + 1, at[k])
  PROVE  Joined(pieces) = word
<1>1. PICK upTo \in [0 .. h -> Line] :
           /\ upTo[0] = <<>>
           /\ \A n \in 1 .. h : upTo[n] = upTo[n - 1] \o pieces[n]
           /\ Joined(pieces) = upTo[h]
  BY JoinedSteps DEF Line
<1> DEFINE R == {m \in Nat : m <= h => upTo[m] = SubSeq(word, 1, at[m])}
<1>2. Len(word) \in Nat
  BY LenProperties DEF Line
<1>3. Nat \subseteq R
  <2>1. 0 \in R
    <3>1. SubSeq(word, 1, 0) = <<>>
      BY SubSeqEmpty
    <3> QED BY <1>1, <3>1
  <2>2. ASSUME NEW m \in Nat, m \in R PROVE m + 1 \in R
    <3>1. SUFFICES ASSUME m + 1 <= h
                   PROVE  upTo[m + 1] = SubSeq(word, 1, at[m + 1])
      OBVIOUS
    <3>2. m + 1 \in 1 .. h /\ (m + 1) - 1 = m /\ m \in 0 .. h /\ m + 1 \in 0 .. h
      BY <3>1
    <3>3. upTo[m] = SubSeq(word, 1, at[m])
      BY <2>2, <3>1
    <3>4. upTo[m + 1] = SubSeq(word, 1, at[m]) \o SubSeq(word, at[m] + 1, at[m + 1])
      BY <1>1, <3>2, <3>3
    <3>5. at[m] \in 0 .. Len(word) /\ at[m + 1] \in 0 .. Len(word) /\ at[m] <= at[m + 1]
      BY <3>2
    <3> DEFINE a == at[m]
               b == at[m + 1]
    <3>6. a \in 0 .. Len(word) /\ b \in 0 .. Len(word) /\ a <= b
      BY <3>5
    <3> HIDE DEF a, b
    <3>7. /\ 1 \in 1 .. Len(word) + 1 /\ a \in 1 - 1 .. Len(word)
          /\ b \in a .. Len(word)
      BY <1>2, <3>6
    <3>8. SubSeq(word, 1, a) \o SubSeq(word, a + 1, b) = SubSeq(word, 1, b)
      BY <3>7, ConcatAdjacentSubSeq, SMTT(30) DEF Line
    <3> QED BY <3>4, <3>8 DEF a, b
  <2> HIDE DEF R
  <2> QED BY <2>1, <2>2, SetInduction
<1>4. upTo[h] = SubSeq(word, 1, at[h])
  <2>1. h \in R
    <3> HIDE DEF R
    <3> QED BY <1>3
  <2> QED BY <2>1
<1>5. SubSeq(word, 1, Len(word)) = word
  BY SubSeqFull DEF Line
<1> QED BY <1>1, <1>4, <1>5

\* Blanks are spaces.
LEMMA BlankIs ==
  ASSUME NEW n \in Nat
  PROVE  Blank(n) \in Line /\ Len(Blank(n)) = n /\ \A i \in 1 .. n : Blank(n)[i] = Space
<1>1. Blank(n) \in [1 .. n -> Char]
  BY SymbolsPrint DEF Blank
<1> QED BY <1>1, SeqOfLen DEF Blank, Line

\* The blanks after a text are cut off again.
LEMMA TrimmedPadded ==
  ASSUME NEW s \in Line, NEW k \in Nat, s = <<>> \/ s[Len(s)] # Space
  PROVE  Trimmed(s \o Blank(k)) = s
<1> DEFINE t == s \o Blank(k)
           n == Len(s)
           Q == {0} \cup {i \in DOMAIN t : t[i] # Space}
<1>1. n \in Nat /\ Blank(k) \in Line /\ Len(Blank(k)) = k
      /\ \A i \in 1 .. k : Blank(k)[i] = Space
  BY BlankIs, LenProperties DEF Line
<1>2. /\ t \in Line /\ Len(t) = n + k
      /\ \A i \in 1 .. n + k : t[i] = IF i <= n THEN s[i] ELSE Blank(k)[i - n]
  BY <1>1, ConcatProperties, ZenonT(30) DEF Line
<1>3. DOMAIN t = 1 .. n + k
  BY <1>2, LenProperties DEF Line
<1>4. n = 0 => s = <<>>
  BY EmptySeq DEF Line
<1>5. Len(<<>>) = 0
  BY EmptySeq
<1> HIDE DEF t
<1>6. n \in Q
  <2>1. CASE n = 0
    BY <2>1
  <2>2. CASE n # 0
    <3>1. s # <<>> /\ n \in 1 .. n + k /\ n <= n
      BY <1>1, <1>5, <2>2
    <3>2. t[n] = s[n]
      BY <1>2, <3>1
    <3> QED BY <1>3, <3>1, <3>2
  <2> QED BY <2>1, <2>2
<1>7. ASSUME NEW y \in Q PROVE n >= y /\ y \in Int
  <2>1. CASE y = 0
    BY <1>1, <2>1
  <2>2. CASE y # 0
    <3>1. y \in 1 .. n + k /\ t[y] # Space
      BY <1>3, <2>2
    <3>2. SUFFICES ASSUME ~(y <= n) PROVE FALSE
      BY <1>1, <3>1
    <3>3. y - n \in 1 .. k
      BY <1>1, <3>1, <3>2
    <3>4. t[y] = Blank(k)[y - n]
      BY <1>2, <3>1, <3>2
    <3> QED BY <1>1, <3>1, <3>3, <3>4
  <2> QED BY <2>1, <2>2
<1>8. Max(Q) = n
  <2> HIDE DEF Q, n
  <2>1. Q \subseteq Int /\ \A y \in Q : n >= y
    BY <1>7
  <2> QED BY <1>6, <2>1, MaxIs
<1>9. SubSeq(t, 1, n) = s
  <2> HIDE DEF n
  <2>1. s \in [1 .. n -> Char]
    BY <1>1, SeqOfLen DEF n, Line
  <2>2. \A i \in 1 .. n : t[1 + i - 1] = s[i]
    BY <1>1, <1>2
  <2>3. 1 + n - 1 <= Len(t) /\ 1 + n - 1 = n /\ 1 \in Nat \ {0}
    BY <1>1, <1>2
  <2>4. SubSeq(t, 1, 1 + n - 1) = s
    BY <1>1, <1>2, <2>1, <2>2, <2>3, Slice DEF Line
  <2> QED BY <2>3, <2>4
<1>10. Trimmed(t) = SubSeq(t, 1, Max(Q))
  BY DEF Trimmed
<1> QED BY <1>8, <1>9, <1>10 DEF t

\* A line of one character, or of two.
LEMMA ShortLines ==
  /\ \A c \in Char : <<c>> \in Line /\ Len(<<c>>) = 1 /\ <<c>>[1] = c
  /\ \A c, d \in Char : <<c, d>> \in Line /\ Len(<<c, d>>) = 2 /\ <<c, d>>[1] = c
  BY DEF Line

\* One line after another.
LEMMA LineConcat ==
  ASSUME NEW s \in Line, NEW t \in Line
  PROVE  /\ s \o t \in Line /\ Len(s \o t) = Len(s) + Len(t)
         /\ Len(s) \in Nat /\ Len(t) \in Nat
         /\ \A i \in 1 .. Len(s) + Len(t) :
              (s \o t)[i] = IF i <= Len(s) THEN s[i] ELSE t[i - Len(s)]
  BY ConcatProperties, LenProperties DEF Line

\* The length of a line of n columns, w wide.
LineLen(n, w) == n * (w + 1) + 1

\* A line of cells, all of one width, and what closes it.
LaidInLine(line, cells, n, w) ==
  /\ line \in Line
  /\ Len(line) = LineLen(n, w)
  /\ LineLen(n, w) \in Nat \ {0}
  /\ \A i \in 1 .. n :
       /\ (i - 1) * (w + 1) + (w + 1) < LineLen(n, w)
       /\ \A k \in 1 .. w + 1 : line[(i - 1) * (w + 1) + k] = cells[i][k]

\* A border before each cell and one after the last lay them in a line.
LEMMA CellsInLine ==
  ASSUME NEW n \in Nat \ {0}, NEW w \in Nat, NEW cells, cells \in Seq(Line),
         Len(cells) = n, \A i \in 1 .. n : Len(cells[i]) = w + 1, NEW c \in Char
  PROVE  LaidInLine(Joined(cells) \o <<c>>, cells, n, w)
<1> DEFINE v == w + 1
           J == Joined(cells)
<1>1. v \in Nat
  OBVIOUS
<1>2. /\ \A i \in 1 .. Len(cells) : Len(cells[i]) = v
      /\ cells \in Seq(Seq(Char)) /\ Len(cells) = n
  BY DEF Line
<1> HIDE DEF v
<1>5. Joined(cells) \in Seq(Char) /\ LaidOut(Joined(cells), cells, v)
  BY ONLY <1>1, <1>2, EvenPieces
<1>6. /\ n * v \in Nat
      /\ J \in Line /\ Len(J) = n * v
      /\ \A i \in 1 .. n : \A k \in 1 .. v :
           /\ (i - 1) * v + k \in 1 .. n * v
           /\ J[(i - 1) * v + k] = cells[i][k]
  BY ONLY <1>2, <1>5 DEF Line, J, EndOf, LaidOut
<1> HIDE DEF J
<1> DEFINE m == n * v
           L == J \o <<c>>
<1>7. <<c>> \in Line /\ Len(<<c>>) = 1
  BY ShortLines
<1>8. /\ L \in Line /\ Len(L) = Len(J) + 1
      /\ \A k \in 1 .. Len(J) + 1 : L[k] = IF k <= Len(J) THEN J[k] ELSE <<c>>[k - Len(J)]
  BY <1>6, <1>7, LineConcat DEF L
<1>9. m \in Nat /\ Len(J) = m /\ LineLen(n, w) = m + 1
  BY <1>6 DEF LineLen, v
<1> HIDE DEF L, m
<1>10. ASSUME NEW i \in 1 .. n
       PROVE  /\ (i - 1) * v + v < m + 1
              /\ \A k \in 1 .. v : L[(i - 1) * v + k] = cells[i][k]
  <2>1. ASSUME NEW k \in 1 .. v
        PROVE  L[(i - 1) * v + k] = cells[i][k]
    <3> DEFINE x == (i - 1) * v + k
    <3>1. x \in 1 .. m /\ J[x] = cells[i][k]
      BY <1>6 DEF m
    <3> HIDE DEF x
    <3>2. x \in 1 .. m + 1 /\ x <= m
      BY <1>9, <3>1
    <3> QED BY <1>8, <1>9, <3>1, <3>2 DEF x
  <2>2. (i - 1) * v + v < m + 1
    <3>1. v \in 1 .. v
      BY <1>1 DEF v
    <3> DEFINE x == (i - 1) * v + v
    <3>2. x \in 1 .. m
      BY <1>6, <3>1 DEF m
    <3> HIDE DEF x
    <3> QED BY <1>9, <3>2 DEF x
  <2> QED BY <2>1, <2>2
<1>11. LineLen(n, w) \in Nat \ {0} /\ L \in Line /\ Len(L) = LineLen(n, w)
  BY <1>8, <1>9
<1>12. \A i \in 1 .. n :
         /\ (i - 1) * v + v < LineLen(n, w)
         /\ \A k \in 1 .. v : L[(i - 1) * v + k] = cells[i][k]
  BY <1>9, <1>10
<1>13. v = w + 1 /\ L = Joined(cells) \o <<c>>
  BY DEF v, L, J
<1> QED BY ONLY <1>11, <1>12, <1>13 DEF LaidInLine

\* A cell, between its borders and the blanks around it.
LEMMA CellPadded ==
  ASSUME NEW w \in Nat, w > 2, NEW s \in Line, Len(s) <= w - 2
  PROVE  /\ ExtendToColumnWidth(s, w - 1) \in Line
         /\ Len(ExtendToColumnWidth(s, w - 1)) = w - 1
         /\ ExtendToColumnWidth(s, w - 1) = s \o Blank((w - 1) - Len(s))
         /\ (w - 1) - Len(s) \in Nat
<1> DEFINE k == (w - 1) - Len(s)
<1>1. k \in Nat /\ Len(s) \in Nat /\ Len(s) + k = w - 1
  BY LenProperties DEF Line
<1>2. ExtendToColumnWidth(s, w - 1) = s \o Blank(k)
  BY DEF ExtendToColumnWidth
<1> HIDE DEF k
<1>3. Blank(k) \in Line /\ Len(Blank(k)) = k
  BY <1>1, BlankIs
<1>4. s \o Blank(k) \in Line /\ Len(s \o Blank(k)) = Len(s) + k
  BY <1>1, <1>3, ConcatProperties DEF Line
<1> QED BY <1>1, <1>2, <1>4 DEF k

\* What CellText takes out of a bordered cell is its text.
LEMMA BorderedCell ==
  ASSUME NEW w \in Nat, w > 2, NEW p \in Line, Len(p) = w - 1
  PROVE  /\ <<"|", Space>> \o p \in Line
         /\ Len(<<"|", Space>> \o p) = w + 1
         /\ (<<"|", Space>> \o p)[1] = "|"
         /\ \A k \in 1 .. w - 1 : (<<"|", Space>> \o p)[k + 2] = p[k]
<1> DEFINE b == <<"|", Space>>
<1>1. b \in Line /\ Len(b) = 2 /\ b[1] = "|"
  <2>1. "|" \in Char /\ Space \in Char
    BY SymbolsPrint DEF Symbols
  <2> QED BY <2>1, ShortLines
<1> HIDE DEF b
<1>2. /\ b \o p \in Line /\ Len(b \o p) = 2 + (w - 1)
      /\ \A i \in 1 .. 2 + (w - 1) : (b \o p)[i] = IF i <= 2 THEN b[i] ELSE p[i - 2]
  <2>1. /\ b \o p \in Line /\ Len(b \o p) = Len(b) + Len(p)
        /\ \A i \in 1 .. Len(b) + Len(p) :
             (b \o p)[i] = IF i <= Len(b) THEN b[i] ELSE p[i - Len(b)]
    BY <1>1, LineConcat
  <2>2. Len(b) = 2 /\ Len(p) = w - 1
    BY <1>1
  <2> QED BY ONLY <2>1, <2>2
<1>3. \A k \in 1 .. w - 1 : (b \o p)[k + 2] = p[k]
  <2>1. SUFFICES ASSUME NEW k \in 1 .. w - 1 PROVE (b \o p)[k + 2] = p[k]
    OBVIOUS
  <2> DEFINE i == k + 2
  <2>2. i \in 1 .. 2 + (w - 1) /\ ~(i <= 2) /\ i - 2 = k
    OBVIOUS
  <2> HIDE DEF i
  <2>3. (b \o p)[i] = p[k]
    BY <1>2, <2>2
  <2> QED BY <2>3 DEF i
<1>4. 1 \in 1 .. 2 + (w - 1) /\ 1 <= 2 /\ 2 + (w - 1) = w + 1
  OBVIOUS
<1>5. (b \o p)[1] = "|"
  BY <1>1, <1>2, <1>4
<1> QED BY <1>2, <1>3, <1>4, <1>5 DEF b

\* The pieces of a word, and nothing in the lines below them, are the word.
LEMMA WrappedJoins ==
  ASSUME NEW word \in Line \ {<<>>}, NEW c \in Nat \ {0}, NEW h \in Nat,
         Len(WrapWord(word, c)) <= h,
         NEW q \in Seq(Line), Len(q) = h,
         \A k \in 1 .. h :
           q[k] = IF k <= Len(WrapWord(word, c)) THEN WrapWord(word, c)[k] ELSE <<>>
  PROVE  Joined(q) = word
<1> DEFINE P == WrapWord(word, c)
           n == Len(word)
           at == [k \in 0 .. h |-> End(n, c, k)]
<1>1. /\ Len(P) \in Nat \ {0} /\ n \in Nat \ {0}
      /\ End(n, c, Len(P)) = n
      /\ \A k \in 1 .. Len(P) : P[k] = SubSeq(word, End(n, c, k - 1) + 1, End(n, c, k))
  BY Pieces, ZenonT(30) DEF CutUp
<1> HIDE DEF P, n
<1>2. \A k \in Nat : End(n, c, k) \in 0 .. n /\ End(n, c, k) <= End(n, c, k + 1)
  BY <1>1, Ends
<1>3. at \in [0 .. h -> 0 .. n] /\ at[0] = 0
  <2>1. ASSUME NEW k \in 0 .. h PROVE End(n, c, k) \in 0 .. n
    <3>1. k \in Nat
      OBVIOUS
    <3> QED BY <1>2, <3>1
  <2>2. End(n, c, 0) = 0 /\ 0 \in 0 .. h
    BY <1>1 DEF End
  <2> QED BY <2>1, <2>2
<1>4. \A k \in 1 .. h : /\ at[k] = End(n, c, k) /\ at[k - 1] = End(n, c, k - 1)
                        /\ k - 1 \in Nat /\ (k - 1) + 1 = k
  OBVIOUS
<1>5. \A k \in 1 .. h : at[k - 1] <= at[k]
  BY <1>2, <1>4
<1>6. \A k \in Nat : Len(P) <= k => End(n, c, k) = n
  <2>1. SUFFICES ASSUME NEW k \in Nat, Len(P) <= k PROVE End(n, c, k) = n
    OBVIOUS
  <2> DEFINE l == Len(P)
  <2>2. l \in Nat /\ l <= k /\ l * c <= k * c
    <3>1. l \in Nat /\ l <= k
      BY <1>1, <2>1
    <3> HIDE DEF l
    <3> QED BY <3>1, Products
  <2>3. End(n, c, l) = n
    BY <1>1
  <2> HIDE DEF l
  <2> DEFINE x == l * c
             y == k * c
  <2>4. x \in Nat /\ y \in Nat /\ x <= y
    BY <2>2
  <2>5. End(n, c, l) = IF x <= n THEN x ELSE n
    BY DEF End
  <2>6. End(n, c, k) = IF y <= n THEN y ELSE n
    BY DEF End
  <2> HIDE DEF x, y
  <2> QED BY <1>1, <2>3, <2>4, <2>5, <2>6
<1>7. at[h] = n
  <2>1. h \in 0 .. h /\ at[h] = End(n, c, h) /\ Len(P) <= h
    BY DEF P
  <2> QED BY <1>6, <2>1
<1>8. ASSUME NEW k \in 1 .. h
      PROVE  q[k] = SubSeq(word, at[k - 1] + 1, at[k])
  <2>1. CASE k <= Len(P)
    <3>1. k \in 1 .. Len(P)
      BY <1>1, <2>1
    <3>2. q[k] = P[k]
      BY <2>1 DEF P
    <3> QED BY <1>1, <1>4, <3>1, <3>2
  <2>2. CASE ~(k <= Len(P))
    <3>1. q[k] = <<>>
      BY <2>2 DEF P
    <3>2. k - 1 \in Nat /\ Len(P) <= k - 1 /\ Len(P) <= k /\ k \in Nat
      BY <1>1, <2>2
    <3>3. at[k - 1] = n /\ at[k] = n
      BY <1>4, <1>6, <3>2
    <3>4. SubSeq(word, n + 1, n) = <<>>
      BY <1>1, SubSeqEmpty
    <3> QED BY <3>1, <3>3, <3>4
  <2> QED BY <2>1, <2>2
<1> HIDE DEF at
<1>9. at \in [0 .. h -> 0 .. Len(word)] /\ at[h] = Len(word)
  BY <1>3, <1>7 DEF n
<1> QED BY <1>3, <1>5, <1>8, <1>9, JoinedSlices, ZenonT(30)

\* A cell is found in its line.
LEMMA CellRead ==
  ASSUME NEW w \in Nat, w > 2, NEW i \in Nat \ {0}, NEW p \in Line, Len(p) = w - 1,
         NEW line \in Line, (i - 1) * (w + 1) + (w + 1) < Len(line),
         \A k \in 1 .. w + 1 :
           line[(i - 1) * (w + 1) + k] = (<<"|", Space>> \o p)[k]
  PROVE  CellText(line, i, w) = Trimmed(p)
<1> DEFINE x == (i - 1) * (w + 1)
           a == x + 3
           m == w - 1
<1>1. x \in Nat /\ i * (w + 1) = x + (w + 1)
  <2>1. i - 1 \in Nat /\ i = (i - 1) + 1 /\ w + 1 \in Nat
    OBVIOUS
  <2> DEFINE j == i - 1
             v == w + 1
  <2> HIDE DEF j, v
  <2>2. j \in Nat /\ i = j + 1 /\ v \in Nat
    BY <2>1 DEF j, v
  <2>3. j * v \in Nat /\ i * v = j * v + v
    BY <2>2
  <2> QED BY <2>3 DEF j, v
<1>2. \A k \in 1 .. w + 1 : line[x + k] = (<<"|", Space>> \o p)[k]
  OBVIOUS
<1>3. x + (w + 1) < Len(line)
  OBVIOUS
<1> HIDE DEF x
<1>4. \A k \in 1 .. m : line[a + k - 1] = p[k]
  <2>1. SUFFICES ASSUME NEW k \in 1 .. w - 1 PROVE line[a + k - 1] = p[k]
    OBVIOUS
  <2>2. k + 2 \in 1 .. w + 1 /\ a + k - 1 = x + (k + 2)
    BY <1>1
  <2>3. (<<"|", Space>> \o p)[k + 2] = p[k]
    BY BorderedCell
  <2> QED BY <1>2, <2>2, <2>3
<1>5. /\ m \in Nat /\ a \in Nat \ {0} /\ a + m - 1 <= Len(line)
      /\ a + m - 1 = i * (w + 1)
  <2>1. Len(line) \in Nat
    BY LenProperties DEF Line
  <2> QED BY <1>1, <1>3, <2>1
<1>6. p \in [1 .. m -> Char]
  BY SeqOfLen DEF Line
<1>7. CellText(line, i, w) = Trimmed(SubSeq(line, a, a + m - 1))
  BY <1>5 DEF CellText, x
<1> HIDE DEF a, m
<1>8. SubSeq(line, a, a + m - 1) = p
  BY <1>4, <1>5, <1>6, Slice DEF Line
<1> QED BY <1>7, <1>8

\* What the i-th column has in a row of lines.
PieceOf(word, c, row) ==
  IF row <= Len(WrapWord(word, c)) THEN WrapWord(word, c)[row] ELSE <<>>

\* No piece of it ends in a space.
Wraps(word, c) ==
  /\ word \in Line \ {<<>>}
  /\ word \in Text \/ (Len(word) <= c /\ word[Len(word)] # Space)

\* A piece fits its column and does not end in a space.
LEMMA PieceFits ==
  ASSUME NEW c \in Nat \ {0}, NEW word, Wraps(word, c), NEW row \in Nat \ {0}
  PROVE  /\ PieceOf(word, c, row) \in Line
         /\ Len(PieceOf(word, c, row)) <= c
         /\ \/ PieceOf(word, c, row) = <<>>
            \/ PieceOf(word, c, row)[Len(PieceOf(word, c, row))] # Space
<1> DEFINE P == WrapWord(word, c)
           n == Len(word)
           s == PieceOf(word, c, row)
<1>1. /\ word \in Line \ {<<>>}
      /\ (\A k \in 1 .. n : word[k] # Space) \/ (n <= c /\ word[n] # Space)
  BY TextIs DEF Wraps
<1>2. /\ Len(P) \in Nat \ {0} /\ n \in Nat \ {0}
      /\ n <= c => Len(P) = 1
      /\ End(n, c, Len(P)) = n
      /\ \A p \in 1 .. Len(P) :
           /\ P[p] \in Line
           /\ End(n, c, p - 1) < End(n, c, p)
           /\ Len(P[p]) = End(n, c, p) - End(n, c, p - 1)
           /\ P[p][Len(P[p])] = word[End(n, c, p)]
  <2>1. CutUp(P, word, n, c)
    BY <1>1, Pieces
  <2> QED BY <2>1 DEF CutUp
<1>3. s = IF row <= Len(P) THEN P[row] ELSE <<>>
  BY DEF PieceOf
<1> HIDE DEF P, n, s
<1>4. CASE row <= Len(P)
  <2>1. row \in 1 .. Len(P) /\ row - 1 \in Nat /\ (row - 1) + 1 = row
    BY <1>2, <1>4
  <2> DEFINE a == End(n, c, row - 1)
             b == End(n, c, row)
  <2>2. a \in 0 .. n /\ b \in 0 .. n
    BY <1>2, <2>1, Ends
  <2>3. b <= a + c
    <3>1. End(n, c, (row - 1) + 1) <= End(n, c, row - 1) + c
      BY <1>2, <2>1, Ends
    <3> QED BY <2>1, <3>1
  <2>4. s \in Line /\ a < b /\ Len(s) = b - a /\ s[Len(s)] = word[b]
    BY <1>2, <1>3, <1>4, <2>1
  <2> HIDE DEF a, b
  <2>5. b \in 1 .. n /\ Len(s) <= c
    BY <1>2, <2>2, <2>3, <2>4
  <2>6. CASE \A k \in 1 .. n : word[k] # Space
    BY <2>4, <2>5, <2>6 DEF s
  <2>7. CASE n <= c /\ word[n] # Space
    <3>1. row = 1 /\ Len(P) = 1
      <4>1. Len(P) = 1
        BY <1>2, <2>7
      <4> QED BY <2>1, <4>1
    <3>2. b = n
      BY <1>2, <3>1 DEF b
    <3> QED BY <2>4, <2>5, <2>7, <3>2 DEF s
  <2> QED BY <1>1, <2>6, <2>7
<1>5. CASE ~(row <= Len(P))
  <2>1. s = <<>> /\ <<>> \in Line /\ Len(<<>>) = 0
    BY <1>3, <1>5, EmptySeq DEF Line
  <2> QED BY <2>1 DEF s
<1> QED BY <1>4, <1>5

\* The text between the borders.
PaddedPiece(word, w, row) ==
  IF row <= Len(WrapWord(word, w - 2))
  THEN ExtendToColumnWidth(WrapWord(word, w - 2)[row], w - 1)
  ELSE Blank(w - 1)

\* With blanks it fills the column.
LEMMA PaddedFits ==
  ASSUME NEW w \in Nat, w > 2, NEW word, Wraps(word, w - 2), NEW row \in Nat \ {0}
  PROVE  /\ PaddedPiece(word, w, row) \in Line
         /\ Len(PaddedPiece(word, w, row)) = w - 1
         /\ Trimmed(PaddedPiece(word, w, row)) = PieceOf(word, w - 2, row)
<1> DEFINE c == w - 2
           s == PieceOf(word, c, row)
           p == PaddedPiece(word, w, row)
<1>1. c \in Nat \ {0} /\ w - 2 = c /\ w - 1 \in Nat
  OBVIOUS
<1> HIDE DEF c
<1>2. /\ s \in Line /\ Len(s) <= c
      /\ s = <<>> \/ s[Len(s)] # Space
  <2>1. Wraps(word, c)
    BY <1>1
  <2> QED BY <1>1, <2>1, PieceFits
<1>3. \E k \in Nat : p = s \o Blank(k) /\ p \in Line /\ Len(p) = w - 1
  <2>1. CASE row <= Len(WrapWord(word, c))
    <3>1. p = ExtendToColumnWidth(s, w - 1)
      BY <1>1, <2>1 DEF PaddedPiece, PieceOf
    <3> HIDE DEF s, p
    <3>2. Len(s) <= w - 2
      BY <1>1, <1>2
    <3> QED BY <1>2, <3>1, <3>2, CellPadded
  <2>2. CASE ~(row <= Len(WrapWord(word, c)))
    <3>1. p = Blank(w - 1) /\ s = <<>>
      BY <1>1, <2>2 DEF PaddedPiece, PieceOf
    <3> DEFINE k == w - 1
    <3> HIDE DEF s, p, k
    <3>2. k \in Nat /\ p = Blank(k) /\ s = <<>>
      BY <1>1, <3>1 DEF k
    <3>3. Blank(k) \in Line /\ Len(Blank(k)) = k
      BY <3>2, BlankIs
    <3>4. <<>> \o Blank(k) = Blank(k)
      BY <3>3, ConcatEmptySeq DEF Line
    <3> QED BY <3>2, <3>3, <3>4 DEF k
  <2> QED BY <2>1, <2>2
<1> HIDE DEF s, p
<1>4. PICK k \in Nat : p = s \o Blank(k) /\ p \in Line /\ Len(p) = w - 1
  BY <1>3
<1>5. Trimmed(p) = s
  BY <1>2, <1>4, TrimmedPadded
<1> QED BY <1>1, <1>4, <1>5 DEF p, s

-----------------------------------------------------------------------------
(* Lines that hold contents                                                *)

\* Lines of n columns that hold the contents, wrapped.
HoldsRow(line, contents, n, w, r) ==
  /\ line \in Line
  /\ Len(line) = LineLen(n, w)
  /\ line[1] = "|"
  /\ \A i \in 1 .. n : CellText(line, i, w) = PieceOf(contents[i], w - 2, r)

\* As many lines as the longest of the contents needs.
Hold(lines, contents, n, w) ==
  /\ lines \in Seq(Line) /\ Len(lines) \in Nat \ {0}
  /\ \A r \in 1 .. Len(lines) : HoldsRow(lines[r], contents, n, w, r)
  /\ \A i \in 1 .. n : Len(WrapWord(contents[i], w - 2)) <= Len(lines)
  /\ \E i \in 1 .. n : Len(WrapWord(contents[i], w - 2)) = Len(lines)

\* The r-th line.
LineAt(contents, n, w, r) ==
  Joined([i \in 1 .. n |-> <<"|", Space>> \o PaddedPiece(contents[i], w, r)])
  \o <<"|">>

\* A line holds its row of the pieces.
LEMMA LineHolds ==
  ASSUME NEW n \in Nat \ {0}, NEW w \in Nat, w > 2,
         NEW contents, DOMAIN contents = 1 .. n,
         \A i \in 1 .. n : Wraps(contents[i], w - 2), NEW r \in Nat \ {0}
  PROVE  HoldsRow(LineAt(contents, n, w, r), contents, n, w, r)
<1> DEFINE P(i) == PaddedPiece(contents[i], w, r)
           cells == [i \in 1 .. n |-> <<"|", Space>> \o P(i)]
           line == LineAt(contents, n, w, r)
<1>1. ASSUME NEW i \in 1 .. n
      PROVE  /\ P(i) \in Line /\ Len(P(i)) = w - 1
             /\ Trimmed(P(i)) = PieceOf(contents[i], w - 2, r)
  <2>1. Wraps(contents[i], w - 2)
    OBVIOUS
  <2> QED BY <2>1, PaddedFits
<1> HIDE DEF P
<1>2. ASSUME NEW i \in 1 .. n
      PROVE  /\ <<"|", Space>> \o P(i) \in Line
             /\ Len(<<"|", Space>> \o P(i)) = w + 1
             /\ (<<"|", Space>> \o P(i))[1] = "|"
  <2> DEFINE p == P(i)
  <2> HIDE DEF p
  <2>1. p \in Line /\ Len(p) = w - 1
    BY <1>1 DEF p
  <2>2. /\ <<"|", Space>> \o p \in Line
        /\ Len(<<"|", Space>> \o p) = w + 1
        /\ (<<"|", Space>> \o p)[1] = "|"
    BY <2>1, BorderedCell
  <2> QED BY <2>2 DEF p
<1>3. /\ cells \in Seq(Line) /\ Len(cells) = n
      /\ \A i \in 1 .. n : /\ cells[i] = <<"|", Space>> \o P(i)
                           /\ Len(cells[i]) = w + 1
                           /\ cells[i][1] = "|"
  <2>1. cells \in [1 .. n -> Line]
    BY <1>2
  <2>2. \A i \in 1 .. n : cells[i] = <<"|", Space>> \o P(i)
    OBVIOUS
  <2>3. \A i \in 1 .. n : Len(cells[i]) = w + 1 /\ cells[i][1] = "|"
    BY <1>2, <2>2
  <2> HIDE DEF cells
  <2>4. cells \in Seq(Line) /\ Len(cells) = n
    BY <2>1, SeqOfLen
  <2> QED BY <2>2, <2>3, <2>4
<1>4. line = Joined(cells) \o <<"|">>
  BY DEF P, LineAt
<1> HIDE DEF cells, line
<1> DEFINE c == "|"
<1>5. c \in Char /\ line = Joined(cells) \o <<c>>
  <2>1. "|" \in Char
    BY SymbolsPrint
  <2> QED BY <1>4, <2>1
<1> HIDE DEF c
<1>6. /\ line \in Line /\ Len(line) = LineLen(n, w)
      /\ LineLen(n, w) \in Nat \ {0}
      /\ \A i \in 1 .. n :
           /\ (i - 1) * (w + 1) + (w + 1) < LineLen(n, w)
           /\ \A k \in 1 .. w + 1 : line[(i - 1) * (w + 1) + k] = cells[i][k]
  <2>1. \A i \in 1 .. n : Len(cells[i]) = w + 1
    BY <1>3
  <2>2. LaidInLine(line, cells, n, w)
    BY <1>3, <1>5, <2>1, CellsInLine
  <2> QED BY <2>2 DEF LaidInLine
<1>7. line[1] = "|"
  <2>1. 1 \in 1 .. n /\ 1 \in 1 .. w + 1 /\ (1 - 1) * (w + 1) + 1 = 1
    OBVIOUS
  <2>2. \A k \in 1 .. w + 1 : line[(1 - 1) * (w + 1) + k] = cells[1][k]
    BY <1>6, <2>1
  <2>3. line[(1 - 1) * (w + 1) + 1] = cells[1][1]
    BY <2>1, <2>2
  <2> QED BY <1>3, <2>1, <2>3
<1>8. ASSUME NEW i \in 1 .. n
      PROVE  CellText(line, i, w) = PieceOf(contents[i], w - 2, r)
  <2> DEFINE p == P(i)
  <2>1. p \in Line /\ Len(p) = w - 1 /\ Trimmed(p) = PieceOf(contents[i], w - 2, r)
    BY <1>1
  <2>2. cells[i] = <<"|", Space>> \o p
    BY <1>3
  <2>3. /\ (i - 1) * (w + 1) + (w + 1) < Len(line)
        /\ \A k \in 1 .. w + 1 :
             line[(i - 1) * (w + 1) + k] = (<<"|", Space>> \o p)[k]
    BY <1>6, <2>2
  <2> HIDE DEF p
  <2>4. i \in Nat \ {0} /\ line \in Line
    BY <1>6
  <2>5. CellText(line, i, w) = Trimmed(p)
    BY <2>1, <2>3, <2>4, CellRead
  <2> QED BY <2>1, <2>5
<1> QED BY <1>6, <1>7, <1>8 DEF HoldsRow, line

\* GetLines holds the contents it is given.
LEMMA LinesHold ==
  ASSUME NEW n \in Nat \ {0}, NEW w \in Nat, w > 2,
         NEW contents, DOMAIN contents = 1 .. n,
         \A i \in 1 .. n : Wraps(contents[i], w - 2)
  PROVE  Hold(GetLines(contents, w), contents, n, w)
<1> DEFINE W == WrapColumns(contents, w)
           T(i) == WrapWord(contents[i], w - 2)
           f == [i \in 1 .. n |-> Len(T(i))]
           S == {f[i] : i \in 1 .. n}
           h == Max(S)
           L == [r \in 1 .. h |-> LineAt(contents, n, w, r)]
<1>1. w - 2 \in Nat \ {0}
  OBVIOUS
<1>2. DOMAIN contents = 1 .. n
  OBVIOUS
<1>3. W = [i \in 1 .. n |-> T(i)]
  BY <1>2 DEF WrapColumns
<1>4. {Len(W[i]) : i \in DOMAIN W} = S
  BY <1>3
<1>5. f \in [1 .. n -> Nat \ {0}]
  <2>1. ASSUME NEW i \in 1 .. n PROVE Len(T(i)) \in Nat \ {0}
    <3> DEFINE t == contents[i]
               c == w - 2
    <3>1. t \in Line \ {<<>>} /\ c \in Nat \ {0}
      BY <1>1 DEF Wraps
    <3> HIDE DEF t, c
    <3>2. CutUp(WrapWord(t, c), t, Len(t), c)
      BY <3>1, Pieces
    <3>3. Len(WrapWord(t, c)) \in Nat \ {0}
      BY <3>2 DEF CutUp
    <3> QED BY <3>3 DEF t, c
  <2> QED BY <2>1
<1>6. h \in Nat \ {0} /\ h \in S /\ \A i \in 1 .. n : f[i] <= h
  <2> HIDE DEF f
  <2>1. f \in [1 .. n -> Nat]
    BY <1>5
  <2>2. /\ h \in S /\ \A i \in 1 .. n : f[i] <= h
    BY <2>1, Longest
  <2> QED BY <1>5, <2>2
<1>7. \A i \in 1 .. n : Len(T(i)) <= h
  BY <1>6
<1>8. \E i \in 1 .. n : Len(T(i)) = h
  BY <1>6
<1>9. GetLines(contents, w) = L
  <2>1. ASSUME NEW r, NEW i \in 1 .. n
        PROVE  (IF r <= Len(W[i]) THEN ExtendToColumnWidth(W[i][r], w - 1)
                ELSE Blank(w - 1)) = PaddedPiece(contents[i], w, r)
    BY <1>3 DEF PaddedPiece
  <2>2. DOMAIN W = 1 .. n
    BY <1>3
  <2> HIDE DEF W, T, S, f
  <2>3. ConcatenateWrappedColumns(W, w) = L
    BY <1>4, <2>1, <2>2 DEF ConcatenateWrappedColumns, LineAt
  <2> QED BY <2>3 DEF GetLines, W
<1> HIDE DEF h, S, f
<1>10. ASSUME NEW r \in 1 .. h
       PROVE  HoldsRow(LineAt(contents, n, w, r), contents, n, w, r)
  <2>1. r \in Nat \ {0}
    BY <1>6
  <2> QED BY <2>1, LineHolds
<1>11. /\ L \in [1 .. h -> Line]
       /\ \A r \in 1 .. h : HoldsRow(L[r], contents, n, w, r)
  BY <1>10 DEF HoldsRow
<1> HIDE DEF L
<1>12. L \in Seq(Line) /\ Len(L) = h
  BY <1>6, <1>11, SeqOfLen
<1>13. Hold(L, contents, n, w)
  BY <1>6, <1>7, <1>8, <1>11, <1>12 DEF Hold
<1> QED BY <1>9, <1>13

\* A line break is a line, as long as the others, that begins with a plus.
LEMMA BreakIs ==
  ASSUME NEW n \in Nat \ {0}, NEW w \in Nat
  PROVE  /\ GetLineBreak(w, n) \in Line
         /\ Len(GetLineBreak(w, n)) = LineLen(n, w)
         /\ GetLineBreak(w, n)[1] = "+"
         /\ LineLen(n, w) \in Nat \ {0}
<1> DEFINE dashes == [k \in 1 .. w |-> "-"]
           plus == "+"
           cell == <<plus>> \o dashes
           cells == [i \in 1 .. n |-> cell]
           line == GetLineBreak(w, n)
<1>1. plus \in Char /\ plus = "+"
  <2>1. "+" \in Char
    BY SymbolsPrint
  <2> QED BY <2>1
<1>2. dashes \in Line /\ Len(dashes) = w
  <2> DEFINE c == "-"
             d == [k \in 1 .. w |-> c]
  <2>1. c \in Char
    BY SymbolsPrint
  <2>2. dashes = d
    OBVIOUS
  <2> HIDE DEF c, dashes
  <2>3. d \in [1 .. w -> Char]
    BY <2>1
  <2> HIDE DEF d
  <2> QED BY <2>2, <2>3, SeqOfLen DEF Line
<1>3. line = Joined(cells) \o <<plus>>
  BY DEF GetLineBreak
<1> HIDE DEF plus, dashes, line
<1>4. <<plus>> \in Line /\ Len(<<plus>>) = 1 /\ <<plus>>[1] = plus
  BY <1>1, ShortLines
<1>5. /\ cell \in Line /\ Len(cell) = Len(<<plus>>) + Len(dashes)
      /\ \A k \in 1 .. Len(<<plus>>) + Len(dashes) :
           cell[k] = IF k <= Len(<<plus>>) THEN <<plus>>[k]
                     ELSE dashes[k - Len(<<plus>>)]
  BY <1>2, <1>4, LineConcat
<1> HIDE DEF cell
<1>6. Len(cell) = w + 1 /\ cell[1] = plus
  BY <1>2, <1>4, <1>5
<1>7. cells \in [1 .. n -> Line] /\ \A i \in 1 .. n : cells[i] = cell
  BY <1>5
<1> HIDE DEF cells
<1>8. cells \in Seq(Line) /\ Len(cells) = n
  BY <1>7, SeqOfLen
<1>9. LaidInLine(line, cells, n, w)
  <2>1. \A i \in 1 .. n : Len(cells[i]) = w + 1
    BY <1>6, <1>7
  <2> QED BY <1>1, <1>3, <1>8, <2>1, CellsInLine
<1>10. line[1] = "+"
  <2>1. 1 \in 1 .. n /\ 1 \in 1 .. w + 1 /\ (1 - 1) * (w + 1) + 1 = 1
    OBVIOUS
  <2>2. \A k \in 1 .. w + 1 : line[(1 - 1) * (w + 1) + k] = cells[1][k]
    BY <1>9, <2>1 DEF LaidInLine
  <2>3. line[(1 - 1) * (w + 1) + 1] = cells[1][1]
    BY <2>1, <2>2
  <2> QED BY <1>1, <1>6, <1>7, <2>1, <2>3
<1> QED BY <1>9, <1>10 DEF LaidInLine, line

\* What the i-th column of some lines has, put together.
ColumnText(lines, i, w) ==
  Joined([k \in DOMAIN lines |-> CellText(lines[k], i, w)])

\* Who reads a column of lines that hold contents finds them.
LEMMA HoldTells ==
  ASSUME NEW n \in Nat \ {0}, NEW w \in Nat, w > 2,
         NEW contents, DOMAIN contents = 1 .. n,
         \A i \in 1 .. n : Wraps(contents[i], w - 2),
         NEW lines, Hold(lines, contents, n, w), NEW i \in 1 .. n
  PROVE  ColumnText(lines, i, w) = contents[i]
<1> DEFINE c == w - 2
           word == contents[i]
           h == Len(lines)
           q == [k \in DOMAIN lines |-> CellText(lines[k], i, w)]
<1>1. c \in Nat \ {0} /\ word \in Line \ {<<>>} /\ Wraps(word, c)
  BY DEF Wraps
<1>2. /\ h \in Nat \ {0} /\ DOMAIN lines = 1 .. h
      /\ Len(WrapWord(word, c)) <= h
      /\ \A k \in 1 .. h : CellText(lines[k], i, w) = PieceOf(word, c, k)
  BY LenProperties DEF Hold, HoldsRow
<1>3. \A k \in 1 .. h : q[k] = PieceOf(word, c, k)
  BY <1>2
<1>4. DOMAIN q = 1 .. h /\ q = [k \in 1 .. h |-> q[k]]
  BY <1>2
<1>5. ColumnText(lines, i, w) = Joined(q)
  BY DEF ColumnText
<1> HIDE DEF c, word, h, q
<1>6. \A k \in 1 .. h : q[k] \in Line
  <2>1. SUFFICES ASSUME NEW k \in 1 .. h PROVE PieceOf(word, c, k) \in Line
    BY <1>3
  <2>2. k \in Nat \ {0}
    BY <1>2
  <2> QED BY <1>1, <2>2, PieceFits
<1>7. q \in Seq(Line) /\ Len(q) = h
  <2>1. q \in [1 .. h -> Line]
    BY <1>4, <1>6
  <2>2. h \in Nat
    BY <1>2
  <2> QED BY <2>1, <2>2, SeqOfLen
<1>8. \A k \in 1 .. h :
        q[k] = IF k <= Len(WrapWord(word, c)) THEN WrapWord(word, c)[k] ELSE <<>>
  BY <1>3 DEF PieceOf
<1>9. Joined(q) = word
  <2>1. h \in Nat
    BY <1>2
  <2> QED BY <1>1, <1>2, <1>7, <1>8, <2>1, WrappedJoins
<1> QED BY <1>5, <1>9 DEF word

\* A text alone, in a column wide enough for it.
LEMMA OneLine ==
  ASSUME NEW text \in Line \ {<<>>}, text[Len(text)] # Space, NEW w \in Nat,
         Len(text) + 2 <= w
  PROVE  LET line == Last(GetLines(<<text>>, w))
         IN /\ GetLines(<<text>>, w) = <<line>>
            /\ line \in Line
            /\ Len(line) = LineLen(1, w)
            /\ line[1] = "|"
            /\ CellText(line, 1, w) = text
<1> DEFINE contents == <<text>>
           L == GetLines(contents, w)
           line == Last(L)
<1>1. Len(text) \in Nat \ {0}
  BY EmptySeq, LenProperties DEF Line
<1>2. w > 2 /\ Len(text) <= w - 2 /\ w - 2 \in Nat \ {0}
  BY <1>1
<1>3. DOMAIN contents = 1 .. 1 /\ contents[1] = text
  OBVIOUS
<1> HIDE DEF contents
<1>4. \A i \in 1 .. 1 : Wraps(contents[i], w - 2)
  <2>1. Wraps(text, w - 2)
    BY <1>2 DEF Wraps
  <2> QED BY <1>3, <2>1
<1>5. Hold(L, contents, 1, w)
  <2> DEFINE n == 1
  <2>1. n \in Nat \ {0} /\ DOMAIN contents = 1 .. n
        /\ \A i \in 1 .. n : Wraps(contents[i], w - 2)
    BY <1>3, <1>4
  <2> HIDE DEF n
  <2>2. Hold(GetLines(contents, w), contents, n, w)
    BY <1>2, <2>1, LinesHold
  <2> QED BY <2>2 DEF n
<1> HIDE DEF L
<1>6. /\ L \in Seq(Line) /\ Len(L) \in Nat \ {0}
      /\ Len(L) = Len(WrapWord(text, w - 2))
      /\ HoldsRow(L[1], contents, 1, w, 1)
  BY <1>3, <1>5 DEF Hold
<1>7. /\ Len(WrapWord(text, w - 2)) = 1
  <2> DEFINE c == w - 2
  <2>1. c \in Nat \ {0} /\ Len(text) <= c
    BY <1>2
  <2> HIDE DEF c
  <2>2. CutUp(WrapWord(text, c), text, Len(text), c)
    BY <2>1, Pieces
  <2>3. Len(WrapWord(text, c)) = 1
    BY <2>1, <2>2 DEF CutUp
  <2> QED BY <2>3 DEF c
<1>8. Len(L) = 1 /\ line = L[1] /\ L = <<line>>
  <2>1. Len(L) = 1
    BY <1>6, <1>7
  <2>2. line = L[1]
    BY <2>1 DEF Last
  <2> QED BY <1>6, <2>1, <2>2
<1>10. CellText(line, 1, w) = PieceOf(text, w - 2, 1)
  BY <1>3, <1>6, <1>8 DEF HoldsRow
<1>11. PieceOf(text, w - 2, 1) = text
  <2> DEFINE c == w - 2
             n == Len(text)
  <2>1. c \in Nat \ {0} /\ n <= c
    BY <1>2
  <2> HIDE DEF c, n
  <2>2. CutUp(WrapWord(text, c), text, n, c)
    BY <2>1, Pieces DEF n
  <2>3. /\ Len(WrapWord(text, c)) = 1 /\ n \in Nat
        /\ WrapWord(text, c)[1] = SubSeq(text, End(n, c, 0) + 1, End(n, c, 1))
        /\ End(n, c, 1) = n
    <3>1. /\ Len(WrapWord(text, c)) = 1 /\ n \in Nat
          /\ End(n, c, Len(WrapWord(text, c))) = n
          /\ \A p \in 1 .. Len(WrapWord(text, c)) :
               WrapWord(text, c)[p] = SubSeq(text, End(n, c, p - 1) + 1, End(n, c, p))
      BY <2>1, <2>2 DEF CutUp
    <3>2. 1 \in 1 .. 1 /\ 1 - 1 = 0
      OBVIOUS
    <3> QED BY <3>1, <3>2
  <2>4. End(n, c, 0) = 0
    BY <2>1, <2>3 DEF End
  <2>5. SubSeq(text, 1, n) = text
    BY SubSeqFull DEF n, Line
  <2>6. WrapWord(text, c)[1] = text
    BY <2>3, <2>4, <2>5
  <2>7. PieceOf(text, c, 1) = text
    BY <2>3, <2>6 DEF PieceOf
  <2> QED BY <2>7 DEF c
<1> QED BY <1>6, <1>8, <1>10, <1>11 DEF HoldsRow, L, line, contents

-----------------------------------------------------------------------------
(* Names and titles                                                        *)

\* A text whose end is the end of its last part.
LEMMA LastOfConcat ==
  ASSUME NEW s \in Line, NEW t \in Line \ {<<>>}
  PROVE  /\ s \o t \in Line \ {<<>>}
         /\ (s \o t)[Len(s \o t)] = t[Len(t)]
<1>1. Len(t) \in Nat \ {0} /\ Len(s) \in Nat /\ Len(<<>>) = 0
  BY EmptySeq, LenProperties DEF Line
<1>2. /\ s \o t \in Line /\ Len(s \o t) = Len(s) + Len(t)
      /\ \A i \in 1 .. Len(s) + Len(t) :
           (s \o t)[i] = IF i <= Len(s) THEN s[i] ELSE t[i - Len(s)]
  BY LineConcat
<1> DEFINE n == Len(s) + Len(t)
<1>3. n \in 1 .. n /\ ~(n <= Len(s)) /\ n - Len(s) = Len(t)
  BY <1>1
<1> HIDE DEF n
<1>4. (s \o t)[n] = t[Len(t)]
  BY <1>2, <1>3 DEF n
<1>5. s \o t # <<>>
  BY <1>1, <1>2
<1> QED BY <1>2, <1>4, <1>5 DEF n

\* The name and type of a column end in a bracket.
LEMMA ItemTextEnds ==
  ASSUME NEW col, IsColumn(col)
  PROVE  /\ ItemText(col) \in Text \ {<<>>}
         /\ ItemText(col) \in Line \ {<<>>}
         /\ ItemText(col)[Len(ItemText(col))] # Space
<1>1. ItemText(col) \in Text /\ ItemText(col) \in Line
      /\ \A i \in 1 .. Len(ItemText(col)) : ItemText(col)[i] # Space
  BY ItemTextIsText, TextIs
<1>2. ItemText(col) # <<>>
  <2> DEFINE a == ColumnName(col) \o <<"(">>
                    \o (IF col.type = "int" THEN <<"i", "n", "t">>
                        ELSE <<"s", "t", "r">>)
             c == <<")">>
  <2>1. ItemText(col) = a \o c
    BY DEF ItemText
  <2>2. Len(c) = 1 /\ Len(<<>>) = 0
    BY EmptySeq
  <2>3. ItemText(col) \in Seq(Char)
    BY <1>1 DEF Line
  <2> QED BY <2>1, <2>2, <2>3
<1>3. Len(ItemText(col)) \in 1 .. Len(ItemText(col))
  BY <1>1, <1>2, EmptySeq, LenProperties DEF Line
<1> QED BY <1>1, <1>2, <1>3

\* So does the text of all the columns of a table.
LEMMA DescTextEnds ==
  ASSUME NEW cols, IsDesc(cols)
  PROVE  /\ DescText(cols) \in Line \ {<<>>}
         /\ DescText(cols)[Len(DescText(cols))] # Space
<1> DEFINE n == Len(cols)
           Pre(i) == IF i = 1 THEN <<>> ELSE <<",", Space>>
           pieces == [i \in 1 .. n |-> Pre(i) \o ItemText(cols[i])]
<1>1. n \in Nat \ {0} /\ DOMAIN cols = 1 .. n /\ \A i \in 1 .. n : IsColumn(cols[i])
  BY DEF IsDesc
<1>2. DescText(cols) = Joined(pieces)
  BY <1>1 DEF DescText
<1> HIDE DEF n
<1>3. \A i \in 1 .. n : Pre(i) \in Line
  <2>1. "," \in Char /\ Space \in Char
    BY SymbolsPrint DEF Symbols
  <2>2. <<",", Space>> \in Line /\ <<>> \in Line
    BY <2>1, ShortLines, EmptySeq DEF Line
  <2> QED BY <2>2
<1> HIDE DEF Pre
<1>4. \A i \in 1 .. n :
        /\ pieces[i] \in Line \ {<<>>}
        /\ pieces[i][Len(pieces[i])] # Space
  <2>1. SUFFICES ASSUME NEW i \in 1 .. n
                 PROVE  /\ pieces[i] \in Line \ {<<>>}
                        /\ pieces[i][Len(pieces[i])] # Space
    OBVIOUS
  <2> DEFINE t == ItemText(cols[i])
             s == Pre(i)
  <2>2. t \in Line \ {<<>>} /\ t[Len(t)] # Space /\ s \in Line
    BY <1>1, <1>3, ItemTextEnds
  <2>3. pieces[i] = s \o t
    OBVIOUS
  <2> HIDE DEF s, t, pieces
  <2> QED BY <2>2, <2>3, LastOfConcat
<1>5. pieces \in [1 .. n -> Line]
  BY <1>4
<1> HIDE DEF pieces
<1>6. pieces \in Seq(Line) /\ Len(pieces) = n
  <2>1. n \in Nat
    BY <1>1
  <2> QED BY <1>5, <2>1, SeqOfLen
<1>7. PICK upTo \in [0 .. n -> Line] :
        /\ \A k \in 1 .. n : upTo[k] = upTo[k - 1] \o pieces[k]
        /\ Joined(pieces) = upTo[n]
  BY <1>6, JoinedSteps DEF Line
<1>8. Joined(pieces) = upTo[n - 1] \o pieces[n] /\ upTo[n - 1] \in Line
  <2>1. n \in 1 .. n /\ n - 1 \in 0 .. n
    BY <1>1
  <2> QED BY <1>7, <2>1
<1>9. pieces[n] \in Line \ {<<>>} /\ pieces[n][Len(pieces[n])] # Space
  <2>1. n \in 1 .. n
    BY <1>1
  <2> QED BY <1>4, <2>1
<1> DEFINE a == upTo[n - 1]
           b == pieces[n]
<1>10. /\ a \in Line /\ b \in Line \ {<<>>} /\ b[Len(b)] # Space
       /\ DescText(cols) = a \o b
  BY <1>2, <1>8, <1>9
<1> HIDE DEF a, b
<1>11. a \o b \in Line \ {<<>>} /\ (a \o b)[Len(a \o b)] # Space
  BY <1>10, LastOfConcat
<1> QED BY <1>10, <1>11

\* The titles of a table.
LEMMA FieldNamesAre ==
  ASSUME NEW cols, IsDesc(cols)
  PROVE  /\ DOMAIN GetFieldNames(cols) = 1 .. Len(cols)
         /\ \A i \in 1 .. Len(cols) : GetFieldNames(cols)[i] \in Text \ {<<>>}
<1>1. /\ DOMAIN cols = 1 .. Len(cols)
      /\ \A i \in 1 .. Len(cols) : IsColumn(cols[i])
  BY DEF IsDesc
<1> QED BY <1>1, ItemTextEnds DEF GetFieldNames

-----------------------------------------------------------------------------
(* Frames                                                                  *)

\* The line breaks of a screen are at P, and texts are between them.
BreaksAt(P, s, texts, n, w) ==
  /\ P[Len(texts) + 1] = Len(s)
  /\ \A a, b \in 1 .. Len(texts) + 1 : a < b => P[a] < P[b]
  /\ \A b \in 1 .. Len(texts) + 1 : P[b] \in 1 .. Len(s) /\ s[P[b]][1] = "+"
  /\ \A i \in 1 .. Len(s) : s[i][1] = "+" => \E b \in 1 .. Len(texts) + 1 : P[b] = i
  /\ \A b \in 1 .. Len(texts) :
       Hold(SubSeq(s, P[b] + 1, P[b + 1] - 1), texts[b], n, w)

\* A screen of n columns, from its first line break to its last.
Framed(s, texts, n, w) ==
  /\ s \in Seq(Line)
  /\ \A i \in 1 .. Len(s) : Len(s[i]) = LineLen(n, w)
  /\ \E P \in [1 .. Len(texts) + 1 -> Nat \ {0}] : BreaksAt(P, s, texts, n, w)

\* One line break frames nothing.
LEMMA FramedStart ==
  ASSUME NEW n \in Nat \ {0}, NEW w \in Nat
  PROVE  Framed(<<GetLineBreak(w, n)>>, <<>>, n, w)
<1> DEFINE brk == GetLineBreak(w, n)
           s == <<brk>>
           P == [b \in 1 .. 1 |-> 1]
           texts == <<>>
<1>1. brk \in Line /\ Len(brk) = LineLen(n, w) /\ brk[1] = "+"
  BY BreakIs
<1> HIDE DEF brk
<1>2. s \in Seq(Line) /\ Len(s) = 1 /\ s[1] = brk
  BY <1>1
<1>3. Len(texts) = 0 /\ Len(texts) + 1 = 1
  BY EmptySeq
<1> HIDE DEF s, texts
<1>4. P \in [1 .. Len(texts) + 1 -> Nat \ {0}]
  BY <1>3
<1>5. BreaksAt(P, s, texts, n, w)
  <2>1. \A b \in 1 .. 1 : P[b] = 1 /\ b = 1
    OBVIOUS
  <2> HIDE DEF P
  <2>2. 1 \in 1 .. 1 /\ P[1] = 1
    BY <2>1
  <2>3. \A a, b \in 1 .. 1 : ~(a < b)
    OBVIOUS
  <2>4. \A i \in 1 .. 1 : \E b \in 1 .. 1 : P[b] = i
    BY <2>1
  <2>5. \A b \in 1 .. 0 : FALSE
    OBVIOUS
  <2> QED BY <1>1, <1>2, <1>3, <2>1, <2>2, <2>3, <2>4, <2>5 DEF BreaksAt
<1>6. \A i \in 1 .. Len(s) : Len(s[i]) = LineLen(n, w)
  BY <1>1, <1>2
<1> HIDE DEF P
<1>7. Framed(s, texts, n, w)
  BY <1>2, <1>4, <1>5, <1>6 DEF Framed
<1> QED BY <1>7 DEF s, texts, brk

\* Lines that hold contents, and a line break, below a frame are a frame.
LEMMA FramedStep ==
  ASSUME NEW n \in Nat \ {0}, NEW w \in Nat, NEW s, NEW T, NEW texts \in Seq(T),
         Framed(s, texts, n, w), NEW lines, NEW contents \in T,
         Hold(lines, contents, n, w)
  PROVE  Framed(s \o lines \o <<GetLineBreak(w, n)>>, Append(texts, contents), n, w)
<1> DEFINE brk == GetLineBreak(w, n)
           c == <<brk>>
           s2 == s \o lines \o c
           t2 == Append(texts, contents)
           N == Len(texts)
           m == Len(s)
           l == Len(lines)
           e == m + l + 1
<1>1. brk \in Line /\ Len(brk) = LineLen(n, w) /\ brk[1] = "+"
  BY BreakIs
<1> HIDE DEF brk
<1>2. c \in Seq(Line) /\ Len(c) = 1 /\ c[1] = brk
  BY <1>1
<1> HIDE DEF c
<1>3. PICK P \in [1 .. N + 1 -> Nat \ {0}] : BreaksAt(P, s, texts, n, w)
  BY DEF Framed
<1>4. /\ s \in Seq(Line) /\ m \in Nat
      /\ \A i \in 1 .. m : Len(s[i]) = LineLen(n, w)
  BY LenProperties DEF Framed
<1>5. /\ lines \in Seq(Line) /\ l \in Nat \ {0}
      /\ \A i \in 1 .. l : Len(lines[i]) = LineLen(n, w) /\ lines[i][1] = "|"
  BY DEF Hold, HoldsRow
<1>6. s2 \in Seq(Line) /\ InThree(s2, s, lines, c)
  <2> HIDE DEF m, l
  <2> QED BY <1>2, <1>4, <1>5, ThreeParts
<1>7. /\ N \in Nat /\ Len(t2) = N + 1
      /\ \A b \in 1 .. N : t2[b] = texts[b]
      /\ t2[N + 1] = contents
  BY LenProperties, AppendProperties
<1>8. s2 = s \o (lines \o c) /\ lines \o c \in Seq(Line)
  <2> HIDE DEF m, l
  <2> QED BY <1>2, <1>4, <1>5, ConcatAssociative, ConcatProperties, SMTT(30)
<1> HIDE DEF s2
<1>9. /\ Len(s2) = e
      /\ \A i \in 1 .. m : s2[i] = s[i]
      /\ \A i \in 1 .. l : s2[m + i] = lines[i]
      /\ s2[e] = brk
      /\ SubSeq(s2, m + 1, m + l) = lines
  BY <1>2, <1>6 DEF InThree
<1> HIDE DEF N, m, l, t2
<1>10. /\ e \in Nat \ {0}
       /\ \A i \in 1 .. e : \/ i \in 1 .. m
                            \/ i - m \in 1 .. l /\ m + (i - m) = i
                            \/ i = e
       /\ \A i \in 1 .. m : i \in 1 .. e /\ i < e
  BY <1>4, <1>5
<1> HIDE DEF e
<1>11. \A i \in 1 .. Len(s2) : Len(s2[i]) = LineLen(n, w)
  <2>1. SUFFICES ASSUME NEW i \in 1 .. e PROVE Len(s2[i]) = LineLen(n, w)
    BY <1>9
  <2>2. CASE i \in 1 .. m
    BY <1>4, <1>9, <2>2
  <2>3. CASE i - m \in 1 .. l /\ m + (i - m) = i
    <3>1. s2[m + (i - m)] = lines[i - m]
      BY <1>9, <2>3
    <3> QED BY <1>5, <2>3, <3>1
  <2>4. CASE i = e
    BY <1>1, <1>9, <2>4
  <2> QED BY <1>10, <2>2, <2>3, <2>4
<1> DEFINE R == [b \in 1 .. N + 2 |-> IF b <= N + 1 THEN P[b] ELSE e]
           M == 1 .. N + 1
<1>12. /\ P[N + 1] = m
       /\ \A a, b \in M : a < b => P[a] < P[b]
       /\ \A b \in M : P[b] \in 1 .. m /\ s[P[b]][1] = "+"
       /\ \A i \in 1 .. m : s[i][1] = "+" => \E b \in M : P[b] = i
       /\ \A b \in 1 .. N : Hold(SubSeq(s, P[b] + 1, P[b + 1] - 1), texts[b], n, w)
  BY <1>3 DEF BreaksAt, N, m
<1>13. /\ \A b \in M : R[b] = P[b] /\ b < N + 2 /\ b \in 1 .. N + 2
       /\ R[N + 2] = e
       /\ \A b \in 1 .. N + 2 : b \in M \/ b = N + 2
       /\ N + 2 \in 1 .. N + 2 /\ N + 1 \in M
       /\ \A b \in 1 .. N : b \in M /\ b + 1 \in M /\ b < b + 1
       /\ \A b \in 1 .. N + 1 : b \in 1 .. N \/ b = N + 1
       /\ (N + 1) + 1 = N + 2
  BY <1>7
<1>14. R \in [1 .. N + 2 -> Nat \ {0}]
  BY <1>10, <1>12, <1>13
<1> HIDE DEF R, M
<1>15. \A a, b \in 1 .. N + 2 : a < b => R[a] < R[b]
  <2>1. SUFFICES ASSUME NEW a \in 1 .. N + 2, NEW b \in 1 .. N + 2, a < b
                 PROVE  R[a] < R[b]
    OBVIOUS
  <2>2. CASE b \in M
    <3>1. a \in M
      BY <1>7, <2>1, <2>2 DEF M
    <3> QED BY <1>12, <1>13, <2>1, <2>2, <3>1
  <2>3. CASE b = N + 2
    <3>1. a \in M
      BY <1>7, <2>1, <2>3 DEF M
    <3> QED BY <1>10, <1>12, <1>13, <2>3, <3>1
  <2> QED BY <1>13, <2>2, <2>3
<1>16. \A b \in 1 .. N + 2 : R[b] \in 1 .. e /\ s2[R[b]][1] = "+"
  <2>1. SUFFICES ASSUME NEW b \in 1 .. N + 2
                 PROVE  R[b] \in 1 .. e /\ s2[R[b]][1] = "+"
    OBVIOUS
  <2>2. CASE b \in M
    BY <1>9, <1>10, <1>12, <1>13, <2>2
  <2>3. CASE b = N + 2
    BY <1>1, <1>9, <1>10, <1>13, <2>3
  <2> QED BY <1>13, <2>2, <2>3
<1>17. \A i \in 1 .. e : s2[i][1] = "+" => \E b \in 1 .. N + 2 : R[b] = i
  <2>1. SUFFICES ASSUME NEW i \in 1 .. e, s2[i][1] = "+"
                 PROVE  \E b \in 1 .. N + 2 : R[b] = i
    OBVIOUS
  <2>2. CASE i \in 1 .. m
    <3>1. PICK b \in M : P[b] = i
      BY <1>9, <1>12, <2>1, <2>2
    <3> QED BY <1>13, <3>1
  <2>3. CASE i - m \in 1 .. l /\ m + (i - m) = i
    <3>1. s2[m + (i - m)] = lines[i - m]
      BY <1>9, <2>3
    <3>2. lines[i - m][1] = "|" /\ "|" # "+"
      BY <1>5, <2>3
    <3> QED BY <2>1, <2>3, <3>1, <3>2
  <2>4. CASE i = e
    BY <1>13, <2>4
  <2> QED BY <1>10, <2>2, <2>3, <2>4
<1>18. ASSUME NEW b \in 1 .. N
       PROVE  SubSeq(s2, P[b] + 1, P[b + 1] - 1) = SubSeq(s, P[b] + 1, P[b + 1] - 1)
  <2> DEFINE x == P[b] + 1
             y == P[b + 1] - 1
  <2>1. P[b] \in 1 .. m /\ P[b + 1] \in 1 .. m
    BY <1>12, <1>13
  <2>2. x \in Int /\ y \in Int /\ x >= 1 /\ y <= m
    BY <1>4, <2>1
  <2>3. Len(SubSeq(s, x, y)) # 0
    BY <1>12 DEF Hold
  <2> HIDE DEF x, y
  <2>4. x <= y
    <3>1. SUFFICES ASSUME y < x PROVE FALSE
      BY <2>2
    <3>2. SubSeq(s, x, y) = <<>>
      BY <2>2, <3>1, SubSeqEmpty
    <3> QED BY <2>3, <3>2, EmptySeq
  <2>5. x \in 1 .. Len(s) /\ y \in 1 .. Len(s)
    BY <1>4, <2>2, <2>4 DEF m
  <2>6. SubSeq(s \o (lines \o c), x, y) = SubSeq(s, x, y)
    BY <1>4, <1>8, <2>5, SubSeqOfConcat1
  <2> QED BY <1>8, <2>6 DEF x, y
<1>19. \A b \in 1 .. N + 1 : Hold(SubSeq(s2, R[b] + 1, R[b + 1] - 1), t2[b], n, w)
  <2>1. SUFFICES ASSUME NEW b \in 1 .. N + 1
                 PROVE  Hold(SubSeq(s2, R[b] + 1, R[b + 1] - 1), t2[b], n, w)
    OBVIOUS
  <2>2. CASE b \in 1 .. N
    <3>1. R[b] = P[b] /\ R[b + 1] = P[b + 1] /\ t2[b] = texts[b]
      BY <1>7, <1>13, <2>2
    <3> QED BY <1>12, <1>18, <2>2, <3>1
  <2>3. CASE b = N + 1
    <3>1. R[b] = m /\ R[b + 1] = e /\ t2[b] = contents
      BY <1>7, <1>12, <1>13, <2>3
    <3>2. e - 1 = m + l
      BY <1>4, <1>5 DEF e
    <3>3. SubSeq(s2, R[b] + 1, R[b + 1] - 1) = lines
      BY <1>9, <3>1, <3>2
    <3> QED BY <3>1, <3>3
  <2> QED BY <1>13, <2>2, <2>3
<1>20. Len(t2) + 1 = N + 2 /\ Len(t2) = N + 1
  BY <1>7
<1>21. BreaksAt(R, s2, t2, n, w)
  BY <1>9, <1>13, <1>15, <1>16, <1>17, <1>19, <1>20 DEF BreaksAt
<1>22. Framed(s2, t2, n, w)
  BY <1>6, <1>11, <1>14, <1>20, <1>21 DEF Framed
<1> QED BY <1>22 DEF s2, t2, brk, c

\* The contents of n columns, each of which can be wrapped.
Contents(n, w) ==
  {c \in [1 .. n -> Line] : \A i \in 1 .. n : Wraps(c[i], w - 2)}

\* The breaks of a framed screen are as many as its texts and one, and the
\* b-th of them is where the b-th of its texts begins.
LEMMA BreaksOf ==
  ASSUME NEW n \in Nat \ {0}, NEW w \in Nat, NEW s, NEW T, NEW texts \in Seq(T),
         s \in Seq(Line),
         NEW P \in [1 .. Len(texts) + 1 -> Nat \ {0}], BreaksAt(P, s, texts, n, w)
  PROVE  /\ Cardinality(Breaks(s)) = Len(texts) + 1
         /\ \A b \in 1 .. Len(texts) + 1 : BreakAt(s, b) = P[b]
<1> DEFINE N == Len(texts) + 1
           m == Len(s)
           B == Breaks(s)
<1>1. N \in Nat \ {0} /\ m \in Nat /\ DOMAIN s = 1 .. m
  BY LenProperties
<1> HIDE DEF N, m
<1>2. /\ P \in [1 .. N -> Nat \ {0}]
      /\ \A a, b \in 1 .. N : a < b => P[a] < P[b]
      /\ \A b \in 1 .. N : P[b] \in 1 .. m /\ s[P[b]][1] = "+"
      /\ \A i \in 1 .. m : s[i][1] = "+" => \E b \in 1 .. N : P[b] = i
  BY DEF BreaksAt, N, m
<1>3. \A a, b \in 1 .. N : P[a] = P[b] => a = b
  <2>1. \A a, b \in 1 .. N : a < b \/ b < a \/ a = b
    BY <1>1
  <2>2. \A a \in 1 .. N : P[a] \in Nat
    BY <1>2
  <2> QED BY <1>2, <2>1, <2>2
<1>4. \A a, b \in 1 .. N : P[a] <= P[b] <=> a <= b
  <2>1. \A a, b \in 1 .. N : a < b \/ b < a \/ a = b
    BY <1>1
  <2>2. \A a \in 1 .. N : P[a] \in Nat
    BY <1>2
  <2> QED BY <1>2, <2>1, <2>2
<1>5. B = Members(P, N)
  BY <1>1, <1>2 DEF Breaks, Members
<1>6. Cardinality(B) = N
  BY <1>1, <1>2, <1>3, <1>5, MembersCount
<1> HIDE DEF B
<1> DEFINE Upto(i) == {k \in B : k <= i}
<1>7. \A b \in 1 .. N : Cardinality(Upto(P[b])) = b
  <2>1. SUFFICES ASSUME NEW b \in 1 .. N PROVE Cardinality(Upto(P[b])) = b
    OBVIOUS
  <2> DEFINE Q == [k \in 1 .. b |-> P[k]]
  <2>2. b \in Nat /\ \A k \in 1 .. b : k \in 1 .. N /\ k <= b
    BY <1>1
  <2>3. Q \in [1 .. b -> Nat \ {0}] /\ \A k \in 1 .. b : Q[k] = P[k]
    BY <1>2, <2>2
  <2> HIDE DEF Q
  <2>4. \A k, l \in 1 .. b : Q[k] = Q[l] => k = l
    BY <1>3, <2>2, <2>3
  <2>5. Cardinality(Members(Q, b)) = b
    BY <2>2, <2>3, <2>4, MembersCount
  <2>6. \A k \in 1 .. N : k <= b => k \in 1 .. b
    BY <2>2
  <2>7. Upto(P[b]) = Members(Q, b)
    BY <1>4, <1>5, <2>2, <2>3, <2>6 DEF Members
  <2> QED BY <2>5, <2>7
<1>8. ASSUME NEW b \in 1 .. N
      PROVE  BreakAt(s, b) = P[b]
  <2>1. P[b] \in B /\ Cardinality(Upto(P[b])) = b
    BY <1>5, <1>7 DEF Members
  <2>2. \A i \in B : Cardinality(Upto(i)) = b => i = P[b]
    <3>1. SUFFICES ASSUME NEW i \in B, Cardinality(Upto(i)) = b PROVE i = P[b]
      OBVIOUS
    <3>2. PICK c \in 1 .. N : i = P[c]
      BY <1>5 DEF Members
    <3>3. c = b
      BY <1>7, <3>1, <3>2
    <3> QED BY <3>2, <3>3
  <2>3. BreakAt(s, b) = CHOOSE i \in B : Cardinality(Upto(i)) = b
    BY DEF BreakAt, B
  <2> HIDE DEF Upto
  <2> QED BY <2>1, <2>2, <2>3
<1> QED BY <1>6, <1>8 DEF N, B

\* Who reads a framed screen finds its texts.
LEMMA FramedTells ==
  ASSUME NEW n \in Nat \ {0}, NEW w \in Nat, w > 2, NEW s,
         NEW texts \in Seq(Contents(n, w)), Framed(s, texts, n, w)
  PROVE  Told(s, n, w) = texts
<1> DEFINE N == Len(texts)
           Between(b) == SubSeq(s, BreakAt(s, b) + 1, BreakAt(s, b + 1) - 1)
           told == Told(s, n, w)
<1>1. N \in Nat /\ \A b \in 1 .. N : texts[b] \in Contents(n, w)
  BY LenProperties, ElementOfSeq
<1>2. PICK P \in [1 .. N + 1 -> Nat \ {0}] : BreaksAt(P, s, texts, n, w)
  BY DEF Framed
<1>3. /\ Cardinality(Breaks(s)) = N + 1
      /\ \A b \in 1 .. N + 1 : BreakAt(s, b) = P[b]
  <2>1. s \in Seq(Line)
    BY DEF Framed
  <2> QED BY <1>2, <2>1, BreaksOf
<1>4. \A b \in 1 .. N : Hold(SubSeq(s, P[b] + 1, P[b + 1] - 1), texts[b], n, w)
  BY <1>2 DEF BreaksAt
<1> HIDE DEF N
<1>5. \A b \in 1 .. N : Hold(Between(b), texts[b], n, w)
  <2>1. \A b \in 1 .. N : b \in 1 .. N + 1 /\ b + 1 \in 1 .. N + 1
    BY <1>1
  <2> QED BY <1>3, <1>4, <2>1
<1>6. (N + 1) - 1 = N
  BY <1>1
<1>7. told = [b \in 1 .. N |-> [i \in 1 .. n |-> ColumnText(Between(b), i, w)]]
  <2>1. \A b, i : Joined([k \in DOMAIN LinesBelow(s, b) |->
                            CellText(LinesBelow(s, b)[k], i, w)])
                    = ColumnText(Between(b), i, w)
    BY DEF ColumnText, LinesBelow
  <2> HIDE DEF Between
  <2> QED BY <1>3, <1>6, <2>1 DEF Told
<1> HIDE DEF Between, told
<1>8. ASSUME NEW b \in 1 .. N
      PROVE  [i \in 1 .. n |-> ColumnText(Between(b), i, w)] = texts[b]
  <2> DEFINE c == texts[b]
             lines == Between(b)
  <2>1. /\ c \in [1 .. n -> Line] /\ DOMAIN c = 1 .. n
        /\ \A i \in 1 .. n : Wraps(c[i], w - 2)
        /\ Hold(lines, c, n, w)
    BY <1>1, <1>5 DEF Contents
  <2> HIDE DEF c, lines
  <2>2. ASSUME NEW i \in 1 .. n PROVE ColumnText(lines, i, w) = c[i]
    BY <2>1, HoldTells
  <2>3. [i \in 1 .. n |-> ColumnText(lines, i, w)] = c
    BY <2>1, <2>2
  <2> QED BY <2>3 DEF c, lines
<1>9. told = [b \in 1 .. N |-> texts[b]]
  BY <1>7, <1>8
<1>10. texts = [b \in 1 .. N |-> texts[b]]
  BY LenProperties DEF N
<1> QED BY <1>9, <1>10 DEF told

-----------------------------------------------------------------------------
(* The lists the Repl shows                                                *)

\* SHOW COLUMNS frames the one text.
LEMMA ColumnsShown ==
  ASSUME NEW cols, IsDesc(cols)
  PROVE  LET s == PrettyShowColumns(cols)
         IN /\ s \in Seq(Line) /\ Len(s) = 3
            /\ \A i \in 1 .. Len(s) : Len(s[i]) = Len(s[1])
            /\ Told(s, 1, Len(s[1]) - 2) = <<<<DescText(cols)>>>>
<1> DEFINE text == DescText(cols)
           n == 1
           w == Len(text) + 2
           brk == GetLineBreak(w, n)
           lines == GetLines(<<text>>, w)
           line == Last(lines)
           s == <<brk, line, brk>>
           contents == <<text>>
           T == Contents(n, w)
<1>1. text \in Line \ {<<>>} /\ text[Len(text)] # Space
  BY DescTextEnds
<1> HIDE DEF text
<1>2. Len(text) \in Nat \ {0}
  BY <1>1, EmptySeq, LenProperties DEF Line
<1>3. w \in Nat /\ w > 2 /\ Len(text) + 2 <= w /\ Len(text) <= w - 2
  BY <1>2
<1> HIDE DEF w
<1>4. /\ lines = <<line>> /\ line \in Line /\ Len(line) = LineLen(n, w)
  BY <1>1, <1>3, OneLine
<1>5. n \in Nat \ {0} /\ n = 1
  OBVIOUS
<1>6. PrettyShowColumns(cols) = s
  BY DEF PrettyShowColumns, text, w
<1> HIDE DEF n
<1>7. brk \in Line /\ Len(brk) = LineLen(n, w)
  BY <1>3, <1>5, BreakIs
<1>8. contents \in T /\ DOMAIN contents = 1 .. n
      /\ \A i \in 1 .. n : Wraps(contents[i], w - 2)
  <2>1. Wraps(text, w - 2)
    BY <1>1, <1>3 DEF Wraps
  <2>2. contents \in [1 .. n -> Line] /\ \A i \in 1 .. n : contents[i] = text
    BY <1>1, <1>5
  <2> QED BY <2>1, <2>2 DEF Contents
<1>9. Hold(lines, contents, n, w)
  BY <1>3, <1>5, <1>8, LinesHold
<1> HIDE DEF T, contents, lines, brk
<1>10. <<>> \in Seq(T)
  BY EmptySeq
<1>11. Framed(<<brk>>, <<>>, n, w)
  BY <1>3, <1>5, FramedStart DEF brk
<1>12. Framed(<<brk>> \o lines \o <<brk>>, Append(<<>>, contents), n, w)
  BY <1>3, <1>5, <1>8, <1>9, <1>10, <1>11, FramedStep DEF brk
<1>13. <<brk>> \o lines \o <<brk>> = s
  <2> HIDE DEF line
  <2>1. <<brk>> \o <<line>> \o <<brk>> = <<brk, line, brk>>
    BY ThreeOfOne
  <2> QED BY <1>4, <2>1
<1>14. Append(<<>>, contents) = <<contents>> /\ <<contents>> \in Seq(T)
  BY <1>8
<1>15. Told(s, n, w) = <<contents>>
  BY <1>3, <1>5, <1>12, <1>13, <1>14, FramedTells DEF T
<1> HIDE DEF line
<1>16. /\ s \in Seq(Line) /\ Len(s) = 3 /\ s[1] = brk
       /\ \A i \in 1 .. 3 : s[i] = brk \/ s[i] = line
  BY <1>4, <1>7
<1> HIDE DEF s
<1>17. \A i \in 1 .. 3 : Len(s[i]) = LineLen(n, w)
  BY <1>4, <1>7, <1>16
<1>18. Len(s[1]) = LineLen(n, w) /\ LineLen(n, w) - 2 = w
  BY <1>3, <1>5, <1>7, <1>16 DEF LineLen
<1> QED BY <1>5, <1>6, <1>15, <1>16, <1>17, <1>18 DEF contents, text

\* SHOW TABLES has a line for each name, of one width.
LEMMA TablesShown ==
  ASSUME NEW names \in Seq(DOMAIN Spelled)
  PROVE  LET s == PrettyShowTables(names)
             shown == SubSeq(s, 4, Len(s) - 1)
             k == Len(names)
         IN /\ s \in Seq(Line) /\ Len(s) = k + 4
            /\ \A i \in 1 .. Len(s) : Len(s[i]) = Len(s[1])
            /\ shown \in Seq(Line) /\ Len(shown) = k
            /\ \A i \in 1 .. k :
                 CellText(shown[i], 1, Len(shown[i]) - 2) = Spelled[names[i]]
<1> DEFINE header == <<"T", "a", "b", "l", "e", "s">>
           k == Len(names)
           l == [t \in DOMAIN Spelled |-> Len(Spelled[t])]
           w == Max({Len(Spelled[names[i]]) : i \in DOMAIN names}
                    \cup {Len(header)}) + 2
           brk == GetLineBreak(w, 1)
           LineOf(text) == Last(GetLines(<<text>>, w))
           a == <<brk, LineOf(header), brk>>
           b == [i \in DOMAIN names |-> LineOf(Spelled[names[i]])]
           c == <<brk>>
           s == a \o b \o c
<1>1. PrettyShowTables(names) = s
  BY DEF PrettyShowTables
<1>2. \A t \in DOMAIN Spelled :
        /\ Spelled[t] \in Line \ {<<>>} /\ Len(Spelled[t]) \in Nat
        /\ Spelled[t][Len(Spelled[t])] # Space
  <2>1. SUFFICES ASSUME NEW t \in DOMAIN Spelled
                 PROVE  /\ Spelled[t] \in Line \ {<<>>} /\ Len(Spelled[t]) \in Nat
                        /\ Spelled[t][Len(Spelled[t])] # Space
    OBVIOUS
  <2> DEFINE u == Spelled[t]
  <2>2. u \in Text \ {<<>>}
    BY PrinterAssumption
  <2> HIDE DEF u
  <2>3. u \in Line /\ Len(u) \in 1 .. Len(u) /\ Len(u) \in Nat
    BY <2>2, TextIs, EmptySeq, LenProperties DEF Line
  <2>4. u[Len(u)] # Space
    BY <2>2, <2>3, TextIs
  <2> QED BY <2>2, <2>3, <2>4 DEF u
<1>3. /\ header \in Line \ {<<>>} /\ Len(header) \in Nat
      /\ header[Len(header)] # Space
  <2> HIDE DEF header
  <2>1. header \in Text \ {<<>>}
    BY TablesText DEF header
  <2>2. header \in Line /\ Len(header) \in 1 .. Len(header) /\ Len(header) \in Nat
    BY <2>1, TextIs, EmptySeq, LenProperties DEF Line
  <2>3. header[Len(header)] # Space
    BY <2>1, <2>2, TextIs
  <2> QED BY <2>1, <2>2, <2>3
<1> HIDE DEF header
<1>4. /\ k \in Nat /\ DOMAIN names = 1 .. k
      /\ \A i \in 1 .. k : names[i] \in DOMAIN Spelled
  BY LenProperties, ElementOfSeq
<1>5. /\ w \in Nat /\ Len(header) + 2 <= w
      /\ \A i \in 1 .. k : Len(Spelled[names[i]]) + 2 <= w
  <2> DEFINE S == DOMAIN Spelled
             m == Len(header)
             x == Widest(l, names, m)
  <2>1. l \in [S -> Nat] /\ m \in Nat /\ names \in Seq(S)
    BY <1>2, <1>3
  <2>2. {Len(Spelled[names[i]]) : i \in DOMAIN names}
          = {l[names[i]] : i \in DOMAIN names}
    BY <1>4
  <2>3. w = x + 2
    BY <2>2 DEF Widest
  <2>4. \A i \in 1 .. k : l[names[i]] = Len(Spelled[names[i]])
    BY <1>4
  <2> HIDE DEF S, l, m, w
  <2>5. x \in Nat /\ m <= x /\ \A i \in 1 .. Len(names) : l[names[i]] <= x
    BY <2>1, WidestSpans DEF Spans
  <2>6. \A i \in 1 .. k : l[names[i]] <= x /\ l[names[i]] \in Nat
    BY <1>4, <2>1, <2>5 DEF S
  <2> HIDE DEF x, k
  <2> QED BY <2>1, <2>3, <2>4, <2>5, <2>6 DEF m
<1> HIDE DEF w, l, LineOf
<1>6. brk \in Line /\ Len(brk) = LineLen(1, w)
  BY <1>5, BreakIs
<1>7. LineLen(1, w) - 2 = w
  BY <1>5 DEF LineLen
<1>8. LineOf(header) \in Line /\ Len(LineOf(header)) = LineLen(1, w)
  BY <1>3, <1>5, OneLine DEF LineOf
<1>9. \A i \in 1 .. k :
        /\ LineOf(Spelled[names[i]]) \in Line
        /\ Len(LineOf(Spelled[names[i]])) = LineLen(1, w)
        /\ CellText(LineOf(Spelled[names[i]]), 1, w) = Spelled[names[i]]
  <2>1. SUFFICES ASSUME NEW i \in 1 .. k
                 PROVE  /\ LineOf(Spelled[names[i]]) \in Line
                        /\ Len(LineOf(Spelled[names[i]])) = LineLen(1, w)
                        /\ CellText(LineOf(Spelled[names[i]]), 1, w) = Spelled[names[i]]
    OBVIOUS
  <2> DEFINE u == Spelled[names[i]]
  <2>2. u \in Line \ {<<>>} /\ u[Len(u)] # Space /\ Len(u) + 2 <= w
    BY <1>2, <1>4, <1>5
  <2> HIDE DEF u
  <2>3. /\ LineOf(u) \in Line /\ Len(LineOf(u)) = LineLen(1, w)
        /\ CellText(LineOf(u), 1, w) = u
    BY <1>5, <2>2, OneLine DEF LineOf
  <2> QED BY <2>3 DEF u
<1> HIDE DEF brk, k
<1>10. /\ b \in [1 .. k -> Line]
       /\ \A i \in 1 .. k : b[i] = LineOf(Spelled[names[i]])
  BY <1>4, <1>9
<1> HIDE DEF b
<1>11. b \in Seq(Line) /\ Len(b) = k
  BY <1>4, <1>10, SeqOfLen
<1> DEFINE h == LineOf(header)
<1>12. h \in Line /\ Len(h) = LineLen(1, w)
  BY <1>8
<1> HIDE DEF h
<1>13. /\ a \in Seq(Line) /\ Len(a) = 3
       /\ \A i \in 1 .. 3 : a[i] = brk \/ a[i] = h
       /\ c \in Seq(Line) /\ Len(c) = 1 /\ c[1] = brk /\ a[1] = brk
  BY <1>6, <1>12 DEF h
<1> HIDE DEF a, c
<1>14. s \in Seq(Line) /\ InThree(s, a, b, c)
  BY <1>11, <1>13, ThreeParts
<1> HIDE DEF s
<1>15. /\ Len(s) = k + 4
       /\ \A i \in 1 .. 3 : s[i] = a[i]
       /\ \A i \in 1 .. k : s[3 + i] = b[i]
       /\ s[k + 4] = brk
       /\ SubSeq(s, 4, k + 3) = b
  <2>1. /\ Len(s) = 3 + k + 1
        /\ \A i \in 1 .. 3 : s[i] = a[i]
        /\ \A i \in 1 .. k : s[3 + i] = b[i]
        /\ \A i \in 1 .. 1 : s[3 + k + i] = c[i]
        /\ SubSeq(s, 3 + 1, 3 + k) = b
    BY <1>11, <1>13, <1>14 DEF InThree
  <2>2. 3 + k + 1 = k + 4 /\ 3 + 1 = 4 /\ 3 + k = k + 3 /\ 1 \in 1 .. 1
    BY <1>4
  <2>3. s[3 + k + 1] = c[1]
    BY <2>1, <2>2
  <2> QED BY <1>13, <2>1, <2>2, <2>3
<1>16. \A i \in 1 .. k + 4 : Len(s[i]) = LineLen(1, w)
  <2>1. SUFFICES ASSUME NEW i \in 1 .. k + 4 PROVE Len(s[i]) = LineLen(1, w)
    OBVIOUS
  <2>2. CASE i \in 1 .. 3
    BY <1>6, <1>12, <1>13, <1>15, <2>2
  <2>3. CASE i - 3 \in 1 .. k /\ 3 + (i - 3) = i
    <3>1. s[3 + (i - 3)] = b[i - 3]
      BY <1>15, <2>3
    <3> QED BY <1>9, <1>10, <2>3, <3>1
  <2>4. CASE i = k + 4
    BY <1>6, <1>15, <2>4
  <2>5. i \in 1 .. 3 \/ (i - 3 \in 1 .. k /\ 3 + (i - 3) = i) \/ i = k + 4
    BY <1>4
  <2> QED BY <2>2, <2>3, <2>4, <2>5
<1>17. Len(s) - 1 = k + 3 /\ 1 \in 1 .. k + 4 /\ Len(s) = k + 4
  BY <1>4, <1>15
<1>18. \A i \in 1 .. Len(s) : Len(s[i]) = Len(s[1])
  BY <1>16, <1>17
<1>19. SubSeq(s, 4, Len(s) - 1) = b
  BY <1>15, <1>17
<1>20. \A i \in 1 .. k : CellText(b[i], 1, Len(b[i]) - 2) = Spelled[names[i]]
  <2>1. SUFFICES ASSUME NEW i \in 1 .. k
                 PROVE  CellText(b[i], 1, Len(b[i]) - 2) = Spelled[names[i]]
    OBVIOUS
  <2>2. Len(b[i]) = LineLen(1, w) /\ CellText(b[i], 1, w) = Spelled[names[i]]
    BY <1>9, <1>10
  <2> QED BY <1>7, <2>2
<1> QED BY <1>1, <1>11, <1>14, <1>17, <1>18, <1>19, <1>20 DEF k

-----------------------------------------------------------------------------
(* The table of a query                                                    *)

\* What is printed of a plan: the titles, and a line of fields for each row.
TextsOf(cols, rows) ==
  <<GetFieldNames(cols)>> \o [i \in DOMAIN rows |-> GetFieldTexts(rows[i], cols)]

\* The titles fit any column wide enough to be wrapped in.
LEMMA NamesFit ==
  ASSUME NEW cols, IsDesc(cols), NEW w \in Nat, w > 2
  PROVE  GetFieldNames(cols) \in Contents(Len(cols), w)
<1> DEFINE g == GetFieldNames(cols)
           n == Len(cols)
<1>1. DOMAIN g = 1 .. n /\ \A i \in 1 .. n : g[i] \in Text \ {<<>>}
  BY FieldNamesAre
<1>2. g = [i \in DOMAIN g |-> g[i]]
  BY DEF GetFieldNames
<1> HIDE DEF g, n
<1>3. \A i \in 1 .. n : g[i] \in Line /\ Wraps(g[i], w - 2)
  BY <1>1, TextIs DEF Wraps
<1>4. g \in [1 .. n -> Line]
  BY <1>1, <1>2, <1>3
<1> QED BY <1>3, <1>4 DEF Contents, g, n

\* So do the fields of a record that can be printed, and its first fields
\* are printed as they are in the whole record.
LEMMA FieldsFit ==
  ASSUME NEW cols, IsDesc(cols), NEW w \in Nat, w > 2, NEW row \in Record,
         \A i \in DOMAIN cols : Field(row, i) # Null,
         Wrappable(GetFieldTexts(row, cols), w)
  PROVE  /\ GetFieldTexts(row, cols) \in Contents(Len(cols), w)
         /\ GetFieldTexts(SubSeq(row, 1, Len(cols)), cols) = GetFieldTexts(row, cols)
<1> DEFINE n == Len(cols)
           g == GetFieldTexts(row, cols)
           s == SubSeq(row, 1, n)
           V == {Null} \cup Value
<1>1. n \in Nat \ {0} /\ DOMAIN cols = 1 .. n
  BY DEF IsDesc
<1>2. row \in Seq(V) /\ DOMAIN row = 1 .. Len(row) /\ Len(row) \in Nat
      /\ \A i \in DOMAIN row : row[i] \in V
  BY LenProperties, ElementOfSeq DEF Record
<1> HIDE DEF n, V
<1>3. \A i \in 1 .. n : i \in DOMAIN row /\ row[i] \in V \ {Null} /\ Field(row, i) = row[i]
  BY <1>1, <1>2 DEF Field
<1>4. \A i \in 1 .. n : row[i] \in Value
  BY <1>3 DEF V
<1>5. n <= Len(row)
  BY <1>1, <1>2, <1>3
<1>6. g = [i \in 1 .. n |-> FieldText(row[i])]
  BY <1>1, <1>3 DEF GetFieldTexts
<1>7. \A i \in 1 .. n : g[i] # <<>>
  BY <1>6 DEF Wrappable
<1> HIDE DEF g
<1>8. \A i \in 1 .. n : g[i] \in Text \ {<<>>}
  BY <1>4, <1>6, <1>7, FieldTextIsText
<1>9. \A i \in 1 .. n : g[i] \in Line /\ Wraps(g[i], w - 2)
  BY <1>8, TextIs DEF Wraps
<1>10. g \in [1 .. n -> Line]
  BY <1>6, <1>9
<1>11. g \in Contents(n, w)
  BY <1>9, <1>10 DEF Contents
<1>12. /\ Len(s) = n /\ DOMAIN s = 1 .. n
       /\ \A i \in 1 .. n : s[i] = row[i]
  <2>1. 1 \in Int /\ n \in Int /\ 1 <= n /\ n - 1 + 1 = n /\ \A i \in 1 .. n : 1 + i - 1 = i
    BY <1>1
  <2>2. \A k \in 1 .. n : row[k] \in V
    BY <1>3
  <2>3. /\ SubSeq(row, 1, n) \in Seq(V)
        /\ Len(SubSeq(row, 1, n)) = IF 1 <= n THEN n - 1 + 1 ELSE 0
        /\ \A k \in 1 .. n - 1 + 1 : SubSeq(row, 1, n)[k] = row[1 + k - 1]
    BY <2>1, <2>2, SubSeqProperties
  <2>4. Len(s) = n /\ s \in Seq(V)
    BY <2>1, <2>3
  <2>5. DOMAIN s = 1 .. n
    BY <2>4, LenProperties
  <2> HIDE DEF s
  <2> QED BY <2>1, <2>3, <2>4, <2>5 DEF s
<1> HIDE DEF s
<1>13. \A i \in 1 .. n : Field(s, i) = row[i]
  BY <1>12 DEF Field
<1>14. GetFieldTexts(s, cols) = [i \in 1 .. n |-> FieldText(row[i])]
  BY <1>1, <1>13 DEF GetFieldTexts
<1>15. GetFieldTexts(s, cols) = g
  BY <1>6, <1>14
<1> QED BY <1>11, <1>15 DEF g, s, n

\* A row more is its texts appended.
LEMMA TextsGrow ==
  ASSUME NEW cols, NEW T, GetFieldNames(cols) \in T,
         NEW R, NEW rows \in Seq(R), TextsOf(cols, rows) \in Seq(T),
         NEW row \in R, GetFieldTexts(row, cols) \in T
  PROVE  /\ TextsOf(cols, Append(rows, row))
              = Append(TextsOf(cols, rows), GetFieldTexts(row, cols))
         /\ TextsOf(cols, Append(rows, row)) \in Seq(T)
<1> DEFINE h == <<GetFieldNames(cols)>>
           F(r) == GetFieldTexts(r, cols)
           n == Len(rows)
           f == [i \in 1 .. n |-> F(rows[i])]
           rows2 == Append(rows, row)
           f2 == [i \in 1 .. n + 1 |-> F(rows2[i])]
<1>1. n \in Nat /\ DOMAIN rows = 1 .. n
  BY LenProperties
<1>2. /\ rows2 \in Seq(R) /\ Len(rows2) = n + 1
      /\ \A i \in 1 .. n : rows2[i] = rows[i]
      /\ rows2[n + 1] = row
  BY AppendProperties
<1>3. DOMAIN rows2 = 1 .. n + 1
  BY <1>2, LenProperties
<1> HIDE DEF n, rows2, F
<1>4. TextsOf(cols, rows) = h \o f /\ TextsOf(cols, rows2) = h \o f2
  BY <1>1, <1>3 DEF TextsOf, F
<1>5. h \in Seq(T) /\ Len(h) = 1 /\ h[1] = GetFieldNames(cols)
  OBVIOUS
<1> HIDE DEF h
<1>6. \A i \in 1 .. n : f[i] \in T
  <2>1. h \o f \in Seq(T)
    BY <1>4
  <2> DEFINE u == h \o f
  <2>2. Len(f) = n
    BY <1>1
  <2>3. Len(u) = 1 + n /\ \A i \in 1 .. 1 + n : u[i] = IF i <= 1 THEN h[i] ELSE f[i - 1]
    <3> DEFINE V == T \cup {f[i] : i \in 1 .. n}
    <3>1. f \in [1 .. n -> V]
      OBVIOUS
    <3> HIDE DEF f
    <3>2. h[1] \in V /\ h = <<h[1]>>
      BY <1>5
    <3> HIDE DEF V
    <3>3. h \in Seq(V)
      <4>1. \A z \in V : <<z>> \in Seq(V)
        OBVIOUS
      <4> QED BY <3>2, <4>1
    <3>4. f \in Seq(V)
      BY <1>1, <3>1, SeqOfLen
    <3> HIDE DEF u
    <3>5. u = h \o f
      BY DEF u
    <3>6. /\ Len(h \o f) = Len(h) + Len(f)
          /\ \A i \in 1 .. Len(h) + Len(f) :
               (h \o f)[i] = IF i <= Len(h) THEN h[i] ELSE f[i - Len(h)]
      BY <3>3, <3>4, ConcatProperties
    <3> QED BY <1>5, <2>2, <3>5, <3>6
  <2> HIDE DEF u, f
  <2>4. \A i \in 1 .. 1 + n : u[i] \in T
    BY <2>1, <2>3, ElementOfSeq DEF u
  <2>5. \A i \in 1 .. n : i + 1 \in 1 .. 1 + n /\ ~(i + 1 <= 1) /\ (i + 1) - 1 = i
    BY <1>1
  <2> QED BY <2>3, <2>4, <2>5
<1>7. f \in [1 .. n -> T]
  BY <1>6
<1>8. f \in Seq(T) /\ Len(f) = n
  BY <1>1, <1>7, SeqOfLen
<1>9. F(row) \in T
  BY DEF F
<1> DEFINE g == Append(f, F(row))
           S == 1 .. n + 1
<1>10. /\ g \in Seq(T) /\ Len(g) = n + 1
       /\ \A i \in 1 .. n : g[i] = f[i]
       /\ g[n + 1] = F(row)
  <2> HIDE DEF f
  <2> QED BY <1>8, <1>9, AppendProperties
<1>11. f2 = g
  <2>1. \A i \in S : i \in 1 .. n \/ i = n + 1
    BY <1>1
  <2>2. \A i \in 1 .. n : f[i] = F(rows[i])
    OBVIOUS
  <2>3. \A i \in S : f2[i] = F(rows2[i])
    OBVIOUS
  <2>4. g \in [S -> T]
    <3> HIDE DEF g
    <3>1. n + 1 \in Nat
      BY <1>1
    <3> QED BY <1>10, <3>1, SeqOfLen
  <2> HIDE DEF g, f
  <2>5. \A i \in S : f2[i] = g[i]
    <3> HIDE DEF f2, S
    <3> QED BY <1>2, <1>10, <2>1, <2>2, <2>3
  <2>6. f2 \in [S -> T]
    <3>1. \A i \in S : g[i] \in T
      BY <2>4
    <3> QED BY <2>3, <2>5, <3>1
  <2> HIDE DEF f2, S
  <2> QED BY <2>4, <2>5, <2>6, SameFunction
<1>12. h \o g = Append(h \o f, F(row))
  <2> HIDE DEF f
  <2>1. Append(f, F(row)) = f \o <<F(row)>> /\ <<F(row)>> \in Seq(T)
    BY <1>8, <1>9, AppendIsConcat
  <2>2. h \o f \in Seq(T)
    BY <1>4
  <2>3. Append(h \o f, F(row)) = (h \o f) \o <<F(row)>>
    BY <1>9, <2>2, AppendIsConcat
  <2>4. (h \o f) \o <<F(row)>> = h \o (f \o <<F(row)>>)
    BY <1>5, <1>8, <2>1, ConcatAssociative
  <2> QED BY <2>1, <2>3, <2>4
<1>13. Append(h \o f, F(row)) \in Seq(T)
  <2>1. h \o f \in Seq(T)
    BY <1>4
  <2> QED BY <1>9, <2>1, AppendProperties
<1> QED BY <1>4, <1>11, <1>12, <1>13 DEF F, rows2

\* The header opens a frame,
LEMMA HeaderFrames ==
  ASSUME NEW cols, IsDesc(cols), NEW w \in Nat, w > 2
  PROVE  LET n == Len(cols)
         IN Framed(Append(GetTableHeader(cols, w), GetLineBreak(w, n)),
                   <<GetFieldNames(cols)>>, n, w)
<1> DEFINE n == Len(cols)
           g == GetFieldNames(cols)
           brk == GetLineBreak(w, n)
           b == <<brk>>
           lines == GetLines(g, w)
           T == Contents(n, w)
<1>1. n \in Nat \ {0} /\ g \in T
  BY NamesFit DEF IsDesc
<1> HIDE DEF n, g
<1>2. DOMAIN g = 1 .. n /\ \A i \in 1 .. n : Wraps(g[i], w - 2)
  BY <1>1 DEF Contents
<1>3. Hold(lines, g, n, w)
  BY <1>1, <1>2, LinesHold
<1>4. brk \in Line /\ lines \in Seq(Line)
  BY <1>1, <1>3, BreakIs DEF Hold
<1> HIDE DEF T, lines
<1>5. <<>> \in Seq(T)
  BY EmptySeq
<1>6. Framed(b, <<>>, n, w)
  BY <1>1, FramedStart
<1> HIDE DEF brk
<1>7. Framed(b \o lines \o b, Append(<<>>, g), n, w)
  <2> HIDE DEF b
  <2> QED BY <1>1, <1>3, <1>5, <1>6, FramedStep DEF brk, b
<1>8. Append(<<>>, g) = <<g>>
  OBVIOUS
<1>9. Append(b \o lines, brk) = b \o lines \o b
  <2>1. b \o lines \in Seq(Line)
    BY <1>4
  <2> QED BY <1>4, <2>1, AppendIsConcat
<1>10. GetTableHeader(cols, w) = b \o lines
  BY DEF GetTableHeader, b, brk, lines, n, g
<1> QED BY <1>7, <1>8, <1>9, <1>10 DEF brk, n, g

\* and a row after it keeps it open.
LEMMA RowFrames ==
  ASSUME NEW n \in Nat \ {0}, NEW w \in Nat, w > 2, NEW s \in Seq(Line),
         NEW T, T = Contents(n, w), NEW texts \in Seq(T), NEW contents \in T,
         Framed(Append(s, GetLineBreak(w, n)), texts, n, w)
  PROVE  Framed(Append(s \o (<<GetLineBreak(w, n)>> \o GetLines(contents, w)),
                       GetLineBreak(w, n)),
                Append(texts, contents), n, w)
<1> DEFINE brk == GetLineBreak(w, n)
           b == <<brk>>
           lines == GetLines(contents, w)
           s1 == Append(s, brk)
<1>1. DOMAIN contents = 1 .. n /\ \A i \in 1 .. n : Wraps(contents[i], w - 2)
  BY DEF Contents
<1>2. Hold(lines, contents, n, w)
  BY <1>1, LinesHold
<1>3. brk \in Line /\ lines \in Seq(Line)
  BY <1>2, BreakIs DEF Hold
<1> HIDE DEF lines
<1>4. Framed(s1 \o lines \o b, Append(texts, contents), n, w)
  <2> HIDE DEF s1
  <2>1. Framed(s1, texts, n, w)
    BY DEF s1
  <2> QED BY <1>2, <2>1, FramedStep
<1> HIDE DEF brk
<1>5. b \in Seq(Line)
  BY <1>3
<1>6. s1 = s \o b
  BY <1>3, AppendIsConcat
<1>7. s \o (b \o lines) = s1 \o lines /\ s1 \o lines \in Seq(Line)
  <2> HIDE DEF b, s1
  <2>1. s \o (b \o lines) = (s \o b) \o lines
    BY <1>3, <1>5, ConcatAssociative, SMTT(30)
  <2>2. s1 \in Seq(Line)
    BY <1>5, <1>6, ConcatProperties
  <2> QED BY <1>3, <1>6, <2>1, <2>2, ConcatProperties
<1>8. Append(s1 \o lines, brk) = s1 \o lines \o b
  BY <1>3, <1>7, AppendIsConcat
<1> HIDE DEF s1, b
<1>9. Append(s \o (b \o lines), brk) = s1 \o lines \o b
  BY <1>7, <1>8
<1> QED BY <1>4, <1>9 DEF brk, b, lines

-----------------------------------------------------------------------------
(* The variables                                                           *)

\* Who is at work on what.
Working ==
  /\ statement # Null => statement \in Statement
  /\ width \in Terminal
  /\ phase \in {"planned", "open"} =>
       statement # Null /\ statement.kind \in Executed /\ answer = "none"
  /\ phase = "down" => statement = Null /\ answer = "none" /\ DOMAIN tables = {}

\* Where a session starts,
LEMMA InitTyped ==
  ASSUME Init
  PROVE  TypeOK /\ Working
<1>1. DOMAIN tables = DOMAIN catalog
  BY DEF Init
<1> QED BY <1>1, SessionAssumption DEF Init, TypeOK, Working, Phase

\* and what a step of it keeps.
LEMMA NextTyped ==
  ASSUME TypeOK, Working, [NextStep]_vars
  PROVE  TypeOK' /\ Working'
<1> USE DEF TypeOK, Working, Phase, setting
<1>1. ASSUME UNCHANGED vars PROVE TypeOK' /\ Working'
  BY <1>1 DEF vars
<1>2. ASSUME NEW s \in Statement, Take(s)
      PROVE  /\ statement' = s /\ s # Null /\ s \in Statement
             /\ given' \in 0 .. MaxStatements
             /\ phase = "ready" /\ before' = tables /\ output' = <<>>
  BY <1>2, SessionAssumption DEF Take
<1>3. ASSUME Create PROVE TypeOK' /\ Working'
  <2>1. PICK s \in Statement : /\ s.kind = "create" /\ Take(s) /\ CreateTable(s)
                               /\ screen' = <<>>
                               /\ UNCHANGED <<setting, files, phase, node>>
    BY <1>3 DEF Create
  <2>2. DOMAIN tables' = DOMAIN catalog'
    <3>1. CASE s.table \in DOMAIN catalog
      BY <2>1, <3>1 DEF CreateTable
    <3>2. CASE s.table \notin DOMAIN catalog
      <4>1. /\ catalog' = Put(catalog, s.table, s.cols)
            /\ tables' = Put(tables, s.table, Opened(s.table))
        BY <2>1, <3>2 DEF CreateTable
      <4> QED BY <4>1 DEF Put
    <3> QED BY <3>1, <3>2
  <2>3. answer' \in {"ok", "error"}
    BY <2>1 DEF CreateTable
  <2>4. s.kind \in Kind
    BY SessionAssumption
  <2> QED BY <1>2, <2>1, <2>2, <2>3, <2>4
<1>4. ASSUME ShowTables PROVE TypeOK' /\ Working'
  BY <1>2, <1>4, SessionAssumption DEF ShowTables
<1>5. ASSUME ShowColumns PROVE TypeOK' /\ Working'
  BY <1>2, <1>5, SessionAssumption DEF ShowColumns
<1>6. ASSUME NEW r, NEW next, Goes(r, next)
      PROVE  \/ phase' = next /\ answer' = "none"
             \/ phase' = "crashed" /\ answer' = "none"
             \/ phase' = "ready" /\ answer' = "error"
  BY <1>6 DEF Goes
<1>7. ASSUME Submit PROVE TypeOK' /\ Working'
  <2>1. PICK s \in Statement, order \in {"seen", "reversed"} :
          /\ s.kind \in Executed
          /\ Take(s)
          /\ Goes(ParseQuery(s, catalog, order), "planned")
          /\ screen' = <<>>
          /\ UNCHANGED <<setting, files, catalog, tables>>
    BY <1>7 DEF Submit
  <2>2. \/ phase' = "planned" /\ answer' = "none"
        \/ phase' = "crashed" /\ answer' = "none"
        \/ phase' = "ready" /\ answer' = "error"
    BY <1>6, <2>1
  <2>3. s.kind \in Kind
    BY SessionAssumption
  <2> QED BY <1>2, <2>1, <2>2, <2>3
<1>8. ASSUME OpenPlan PROVE TypeOK' /\ Working'
  <2>1. /\ phase = "planned"
        /\ UNCHANGED <<setting, files, catalog, tables, statement, before, output,
                       given>>
        /\ width = Null => UNCHANGED screen
    BY <1>8 DEF OpenPlan
  <2>2. \/ phase' = "open" /\ answer' = "none"
        \/ phase' = "crashed" /\ answer' = "none"
        \/ phase' = "ready" /\ answer' = "error"
    <3>1. Goes(OpIteratorOpen(node, tables), "open")
          \/ (phase' = "crashed" /\ UNCHANGED answer)
      BY <1>8 DEF OpenPlan
    <3> QED BY <1>6, <2>1, <3>1
  <2> QED BY <2>1, <2>2
<1>9. ASSUME FetchRow PROVE TypeOK' /\ Working'
  <2>1. /\ phase = "open" /\ phase' \in {"open", "crashed"}
        /\ width = Null => UNCHANGED screen
        /\ UNCHANGED <<setting, files, catalog, statement, before, answer, given>>
    BY <1>9 DEF FetchRow
  <2>2. DOMAIN tables' = DOMAIN tables
    BY <1>9 DEF FetchRow, Added
  <2> QED BY <2>1, <2>2
<1>10. ASSUME FinishQuery PROVE TypeOK' /\ Working'
  BY <1>10 DEF FinishQuery
<1>11. ASSUME Quit PROVE TypeOK' /\ Working'
  BY <1>11 DEF Quit, NoTables, NoStatement
<1>12. ASSUME Start PROVE TypeOK' /\ Working'
  BY <1>12 DEF Start
<1> QED
  BY <1>1, <1>3, <1>4, <1>5, <1>7, <1>8, <1>9, <1>10, <1>11, <1>12 DEF NextStep

\* The variables of a session hold what they may.
THEOREM SessionTyped == Spec => []TypeOK
<1>1. Init => TypeOK /\ Working
  BY InitTyped
<1>2. TypeOK /\ Working /\ [NextStep]_vars => (TypeOK /\ Working)'
  BY NextTyped
<1> QED BY <1>1, <1>2, PTL DEF Spec

-----------------------------------------------------------------------------
(* The rows                                                                *)

\* Tables that can be printed.
Declared(tabs) ==
  /\ IsFiniteSet(DOMAIN tabs)
  /\ DOMAIN tabs \subseteq DOMAIN Spelled
  /\ \A t \in DOMAIN tabs : IsDesc(tabs[t])

\* The rows of each table and each file are records.
Stored ==
  /\ \A t \in DOMAIN tables : tables[t] \in Seq(Record)
  /\ \A t \in DOMAIN files : files[t] \in Seq(Record)
  /\ Declared(catalog)
  /\ Declared(schema)

\* The database a session starts with is stored.
LEMMA InitStored ==
  ASSUME Init
  PROVE  Stored
<1>1. PICK d \in Database :
        /\ schema = d.catalog /\ files = d.files
        /\ catalog = d.catalog
        /\ tables = [t \in DOMAIN d.catalog |-> d.files[t]]
  BY DEF Init
<1>2. /\ IsFiniteSet(DOMAIN d.catalog)
      /\ DOMAIN d.catalog \subseteq DOMAIN d.files \cap DOMAIN Spelled
      /\ \A t \in DOMAIN d.catalog : IsDesc(d.catalog[t])
      /\ \A t \in DOMAIN d.files : d.files[t] \in Seq(Record)
  BY SessionAssumption
<1> QED BY <1>1, <1>2 DEF Stored, Declared

\* So are the rows of a file, there or not.
LEMMA RowsOfType ==
  ASSUME Stored, NEW t
  PROVE  RowsOf(t) \in Seq(Record) /\ RowsAnywhere(t) \in Seq(Record)
<1>1. <<>> \in Seq(Record)
  BY EmptySeq
<1> QED BY <1>1 DEF Stored, RowsOf, RowsAnywhere

\* What FetchRow does to the rows of a table.
LEMMA FetchAdds ==
  ASSUME PlansSound, Stored, FetchRow
  PROVE  /\ UNCHANGED <<schema, files, catalog>>
         /\ DOMAIN tables' = DOMAIN tables
         /\ \A t \in DOMAIN tables :
              /\ tables'[t] \in Seq(Record)
              /\ IsPrefix(tables[t], tables'[t])
<1> DEFINE r == OpIteratorNext(node, tables)
<1>1. /\ phase = "open" /\ r.st = "ok"
      /\ tables' = Added(r)
      /\ UNCHANGED <<schema, files, catalog>>
  BY DEF FetchRow, setting
<1>2. node.kind = "insert" => r.node.added \in Seq(Record)
  BY <1>1 DEF PlansSound
<1> HIDE DEF r
<1>3. \A t \in DOMAIN tables : tables[t] \in Seq(Record) /\ Len(tables[t]) \in Nat
  BY LenProperties DEF Stored
<1>4. CASE node.kind = "insert"
  <2> DEFINE u == tables[node.table]
             v == r.node.added
  <2>1. tables' = [tables EXCEPT ![node.table] = u \o v]
    BY <1>1, <1>4 DEF Added
  <2>2. v \in Seq(Record)
    BY <1>2, <1>4
  <2>3. ASSUME NEW t \in DOMAIN tables
        PROVE  tables'[t] \in Seq(Record) /\ IsPrefix(tables[t], tables'[t])
    <3>1. CASE t = node.table
      <4>1. tables'[t] = u \o v /\ tables[t] = u /\ u \in Seq(Record)
        BY <1>3, <2>1, <3>1
      <4> HIDE DEF u, v
      <4>2. IsPrefix(u, u \o v) /\ u \o v \in Seq(Record)
        BY <2>2, <4>1, PrefixOfConcat
      <4> QED BY <4>1, <4>2
    <3>2. CASE t # node.table
      <4>1. tables'[t] = tables[t]
        BY <2>1, <3>2
      <4> QED BY <1>3, <4>1, PrefixOfItself
    <3> QED BY <3>1, <3>2
  <2>4. DOMAIN tables' = DOMAIN tables
    BY <2>1
  <2> QED BY <1>1, <2>3, <2>4
<1>5. CASE node.kind # "insert"
  <2>1. tables' = tables
    BY <1>1, <1>5 DEF Added
  <2> QED BY <1>1, <1>3, <2>1, PrefixOfItself
<1> QED BY <1>4, <1>5

\* A step keeps what is stored.
LEMMA NextStored ==
  ASSUME TypeOK, PlansSound, Stored, [NextStep]_vars
  PROVE  Stored'
<1>1. ASSUME UNCHANGED <<schema, files, catalog, tables>> PROVE Stored'
  BY <1>1 DEF Stored, Declared
<1>2. ASSUME UNCHANGED vars PROVE Stored'
  BY <1>1, <1>2 DEF vars, setting
<1>3. ASSUME Create PROVE Stored'
  <2>1. PICK s \in Statement : /\ s.kind = "create" /\ CreateTable(s)
                               /\ UNCHANGED <<setting, files, phase, node>>
    BY <1>3 DEF Create
  <2>2. s.table \in DOMAIN Spelled /\ IsDesc(s.cols)
    BY <2>1, SessionAssumption
  <2>3. CASE s.table \in DOMAIN catalog
    BY <1>1, <2>1, <2>3 DEF CreateTable, setting
  <2>4. CASE s.table \notin DOMAIN catalog
    <3> DEFINE x == s.table
               y == Opened(x)
    <3>1. catalog' = Put(catalog, x, s.cols) /\ tables' = Put(tables, x, y)
      BY <2>1, <2>4 DEF CreateTable
    <3>2. y \in Seq(Record)
      BY RowsOfType DEF Opened
    <3> HIDE DEF x, y
    <3>3. \A t \in DOMAIN tables' : tables'[t] \in Seq(Record)
      BY <3>1, <3>2 DEF Put, Stored
    <3>4. DOMAIN catalog' = DOMAIN catalog \cup {x}
          /\ \A t \in DOMAIN catalog' :
               catalog'[t] = IF t = x THEN s.cols ELSE catalog[t]
      BY <3>1 DEF Put
    <3>5. IsFiniteSet(DOMAIN catalog')
      BY <3>4, FS_AddElement DEF Stored, Declared
    <3>6. Declared(catalog)'
      BY <2>2, <3>4, <3>5 DEF Stored, Declared, x
    <3>7. UNCHANGED <<schema, files>>
      BY <2>1 DEF setting
    <3> QED BY <3>3, <3>6, <3>7 DEF Stored, Declared
  <2> QED BY <2>3, <2>4
<1>4. ASSUME ShowTables PROVE Stored'
  BY <1>1, <1>4 DEF ShowTables, setting
<1>5. ASSUME ShowColumns PROVE Stored'
  BY <1>1, <1>5 DEF ShowColumns, setting
<1>6. ASSUME Submit PROVE Stored'
  BY <1>1, <1>6 DEF Submit, setting
<1>7. ASSUME OpenPlan PROVE Stored'
  BY <1>1, <1>7 DEF OpenPlan, setting
<1>8. ASSUME FetchRow PROVE Stored'
  <2>1. /\ UNCHANGED <<schema, files, catalog>>
        /\ DOMAIN tables' = DOMAIN tables
        /\ \A t \in DOMAIN tables : tables'[t] \in Seq(Record)
    BY <1>8, FetchAdds
  <2> QED BY <2>1 DEF Stored, Declared
<1>9. ASSUME FinishQuery PROVE Stored'
  BY <1>1, <1>9 DEF FinishQuery, setting
<1>10. ASSUME Quit PROVE Stored'
  <2>1. /\ files' = [t \in DOMAIN tables \cup DOMAIN files |->
                       IF t \in DOMAIN tables THEN tables[t] ELSE files[t]]
        /\ catalog' = NoTables /\ tables' = NoTables /\ schema' = schema
    BY <1>10 DEF Quit, setting
  <2>2. DOMAIN NoTables = {}
    BY DEF NoTables
  <2>3. Declared(NoTables)
    BY <2>2, FS_EmptySet DEF Declared
  <2>4. \A t \in DOMAIN files' : files'[t] \in Seq(Record)
    BY <2>1 DEF Stored
  <2> QED BY <2>1, <2>2, <2>3, <2>4 DEF Stored, Declared
<1>11. ASSUME Start PROVE Stored'
  <2>1. /\ catalog' = schema /\ tables' = [t \in DOMAIN schema |-> RowsOf(t)]
        /\ UNCHANGED <<schema, files>>
    BY <1>11 DEF Start, setting, Opened
  <2>2. \A t \in DOMAIN tables' : tables'[t] \in Seq(Record)
    BY <2>1, RowsOfType
  <2> QED BY <2>1, <2>2 DEF Stored, Declared
<1> QED
  BY <1>2, <1>3, <1>4, <1>5, <1>6, <1>7, <1>8, <1>9, <1>10, <1>11 DEF NextStep

\* The rows of every table and file after a step begin with those before it.
LEMMA NextKeeps ==
  ASSUME TypeOK, Working, PlansSound, Stored, [NextStep]_vars
  PROVE  [\A t \in DOMAIN tables \cup DOMAIN files :
            IsPrefix(RowsAnywhere(t), RowsAnywhere(t)')]_vars
<1> DEFINE Keeps == \A t \in DOMAIN tables \cup DOMAIN files :
                      IsPrefix(RowsAnywhere(t), RowsAnywhere(t)')
<1>1. \A t : IsPrefix(RowsAnywhere(t), RowsAnywhere(t))
  <2>1. SUFFICES ASSUME NEW t PROVE IsPrefix(RowsAnywhere(t), RowsAnywhere(t))
    OBVIOUS
  <2>2. Len(RowsAnywhere(t)) \in Nat
    BY RowsOfType, LenProperties
  <2> QED BY <2>2, PrefixOfItself
<1>2. ASSUME \A t \in DOMAIN tables \cup DOMAIN files :
               RowsAnywhere(t)' = RowsAnywhere(t)
      PROVE  Keeps
  BY <1>1, <1>2
<1>3. ASSUME UNCHANGED <<files, tables>> PROVE Keeps
  BY <1>2, <1>3 DEF RowsAnywhere, RowsOf
<1>4. ASSUME Create PROVE Keeps
  <2>1. PICK s \in Statement : CreateTable(s) /\ UNCHANGED files
    BY <1>4 DEF Create
  <2>2. CASE s.table \in DOMAIN catalog
    BY <1>3, <2>1, <2>2 DEF CreateTable
  <2>3. CASE s.table \notin DOMAIN catalog
    <3>1. tables' = Put(tables, s.table, RowsOf(s.table))
      BY <2>1, <2>3 DEF CreateTable, Opened
    <3>2. s.table \notin DOMAIN tables
      BY <2>3 DEF TypeOK
    <3>3. DOMAIN tables' = DOMAIN tables \cup {s.table}
      BY <3>1 DEF Put
    <3>4. \A t \in DOMAIN tables' :
            tables'[t] = IF t = s.table THEN RowsOf(t) ELSE tables[t]
      BY <3>1 DEF Put
    <3>5. \A t : RowsOf(t)' = RowsOf(t)
      BY <2>1 DEF RowsOf
    <3>6. ASSUME NEW t PROVE RowsAnywhere(t)' = RowsAnywhere(t)
      <4>1. RowsAnywhere(t)' = IF t \in DOMAIN tables' THEN tables'[t] ELSE RowsOf(t)
        BY <3>5 DEF RowsAnywhere
      <4> QED BY <3>2, <3>3, <3>4, <4>1 DEF RowsAnywhere
    <3> QED BY <1>2, <3>6
  <2> QED BY <2>2, <2>3
<1>5. ASSUME ShowTables PROVE Keeps
  BY <1>3, <1>5 DEF ShowTables
<1>6. ASSUME ShowColumns PROVE Keeps
  BY <1>3, <1>6 DEF ShowColumns
<1>7. ASSUME Submit PROVE Keeps
  BY <1>3, <1>7 DEF Submit
<1>8. ASSUME OpenPlan PROVE Keeps
  BY <1>3, <1>8 DEF OpenPlan
<1>9. ASSUME FetchRow PROVE Keeps
  <2>1. /\ UNCHANGED files
        /\ DOMAIN tables' = DOMAIN tables
        /\ \A t \in DOMAIN tables : IsPrefix(tables[t], tables'[t])
    BY <1>9, FetchAdds
  <2>2. \A t : RowsOf(t)' = RowsOf(t)
    BY <2>1 DEF RowsOf
  <2>3. ASSUME NEW t PROVE IsPrefix(RowsAnywhere(t), RowsAnywhere(t)')
    <3>1. CASE t \in DOMAIN tables
      <4>1. RowsAnywhere(t) = tables[t] /\ RowsAnywhere(t)' = tables'[t]
        BY <2>1, <3>1 DEF RowsAnywhere
      <4> QED BY <2>1, <3>1, <4>1
    <3>2. CASE t \notin DOMAIN tables
      <4>1. RowsAnywhere(t)' = RowsAnywhere(t)
        BY <2>1, <2>2, <3>2 DEF RowsAnywhere
      <4> QED BY <1>1, <4>1
    <3> QED BY <3>1, <3>2
  <2> QED BY <2>3
<1>10. ASSUME FinishQuery PROVE Keeps
  BY <1>3, <1>10 DEF FinishQuery
<1>11. ASSUME Quit PROVE Keeps
  <2>1. /\ files' = [t \in DOMAIN tables \cup DOMAIN files |->
                       IF t \in DOMAIN tables THEN tables[t] ELSE files[t]]
        /\ DOMAIN tables' = {}
    BY <1>11 DEF Quit, NoTables
  <2>2. ASSUME NEW t \in DOMAIN tables \cup DOMAIN files
        PROVE  RowsAnywhere(t)' = RowsAnywhere(t)
    <3>1. RowsAnywhere(t)' = files'[t]
      BY <2>1 DEF RowsAnywhere, RowsOf
    <3> QED BY <2>1, <3>1 DEF RowsAnywhere, RowsOf
  <2> QED BY <1>2, <2>2
<1>12. ASSUME Start PROVE Keeps
  <2>1. /\ tables' = [t \in DOMAIN schema |-> RowsOf(t)]
        /\ UNCHANGED files /\ DOMAIN tables = {}
    BY <1>12 DEF Start, Opened, Working
  <2>2. \A t : RowsOf(t)' = RowsOf(t)
    BY <2>1 DEF RowsOf
  <2>3. ASSUME NEW t PROVE RowsAnywhere(t)' = RowsAnywhere(t)
    <3>1. RowsAnywhere(t) = RowsOf(t)
      BY <2>1 DEF RowsAnywhere
    <3> QED BY <2>1, <2>2, <3>1 DEF RowsAnywhere
  <2> QED BY <1>2, <2>3
<1> HIDE DEF Keeps
<1>13. Keeps \/ UNCHANGED vars
  BY <1>4, <1>5, <1>6, <1>7, <1>8, <1>9, <1>10, <1>11, <1>12 DEF NextStep
<1> QED BY <1>13 DEF Keeps

\* Rows are only ever added: no statement, end or start of a session loses or
\* changes one, also of a table the next session does not declare.
THEOREM RowsAreKept == Spec /\ []PlansSound => RowsKept
<1>1. Init => TypeOK /\ Working /\ Stored
  BY InitTyped, InitStored
<1>2. /\ TypeOK /\ Working /\ Stored /\ PlansSound /\ [NextStep]_vars
      => (TypeOK /\ Working /\ Stored)'
  BY NextTyped, NextStored
<1>3. TypeOK /\ Working /\ Stored /\ PlansSound /\ [NextStep]_vars
      => [\A t \in DOMAIN tables \cup DOMAIN files :
            IsPrefix(RowsAnywhere(t), RowsAnywhere(t)')]_vars
  BY NextKeeps
<1> QED BY <1>1, <1>2, <1>3, PTL DEF Spec, RowsKept

-----------------------------------------------------------------------------
(* The screen                                                              *)

\* Lines of one length, none longer than the terminal is wide.
Aligned(s) ==
  /\ s \in Seq(Line)
  /\ \A i \in 1 .. Len(s) : Len(s[i]) = Len(s[1])

\* None longer than the terminal is wide.
Within(s) == \A i \in 1 .. Len(s) : Len(s[i]) <= width

\* A screen that shows the titles and the rows in columns w wide.
Drawn(cols, w, s, rows) ==
  /\ IsDesc(cols)
  /\ w \in Nat /\ w > 2
  /\ rows \in Seq(Record)
  /\ TextsOf(cols, rows) \in Seq(Contents(Len(cols), w))
  /\ Framed(s, TextsOf(cols, rows), Len(cols), w)

\* The same, its last line break still to be drawn.
Drawing(cols, w, s, rows) ==
  /\ s \in Seq(Line)
  /\ Drawn(cols, w, Append(s, GetLineBreak(w, Len(cols))), rows)

\* What the screen shows of a statement that runs or has been answered.
Shows ==
  /\ phase = "open" => Drawing(node.cols, WidthOf(node.cols), screen, output)
  /\ Answered =>
       /\ statement.kind \in Executed =>
            Drawn(node.cols, WidthOf(node.cols), screen, output)
       /\ statement.kind = "show_tables" =>
            \E names : /\ Lists(names, DOMAIN catalog)
                       /\ screen = PrettyShowTables(names)
       /\ statement.kind = "show_columns" =>
            /\ statement.table \in DOMAIN catalog
            /\ screen = PrettyShowColumns(catalog[statement.table])
       /\ statement.kind = "create" => screen = <<>>

\* The strengthening that makes the properties of the screen inductive.
Screened ==
  width # Null =>
    /\ Aligned(screen)
    /\ statement.kind \in Executed => Within(screen)
    /\ Shows

\* A session starts with an empty screen.
LEMMA InitScreened ==
  ASSUME Init
  PROVE  Screened
<1>1. screen = <<>> /\ phase = "ready" /\ answer = "none"
  BY DEF Init
<1>2. screen \in Seq(Line) /\ Len(screen) = 0
  BY <1>1, EmptySeq
<1> QED BY <1>1, <1>2 DEF Screened, Aligned, Within, Shows, Answered

\* The columns of a plan fit the terminal.
LEMMA Fitting ==
  ASSUME width # Null, width \in Terminal, NEW cols, IsDesc(cols),
         WidthOf(cols) > 2
  PROVE  /\ WidthOf(cols) \in Nat
         /\ LineLen(Len(cols), WidthOf(cols)) <= width
<1> DEFINE n == Len(cols)
           q == (width - 1) \div n
           w == WidthOf(cols)
<1>1. width \in Nat /\ n \in Nat \ {0}
  BY SessionAssumption DEF IsDesc
<1>2. w = q - 1
  BY DEF WidthOf, ColumnWidth
<1>3. w > 2
  OBVIOUS
<1> HIDE DEF n, w
<1> DEFINE m == width - 1
<1>4. m \in Int /\ width = m + 1
  BY <1>1
<1> HIDE DEF m
<1>5. m \div n \in Int /\ n * (m \div n) <= m
  BY <1>1, <1>4
<1>6. q = m \div n
  BY DEF m
<1> HIDE DEF q
<1>7. q \in Int /\ n * q <= m
  BY <1>5, <1>6
<1>8. w \in Nat /\ w + 1 = q
  BY <1>2, <1>3, <1>7
<1>9. LineLen(n, w) = n * q + 1 /\ n * q \in Int
  BY <1>1, <1>7, <1>8 DEF LineLen
<1> DEFINE x == n * q
<1> HIDE DEF x
<1>10. x \in Int /\ x <= m /\ LineLen(n, w) = x + 1
  BY <1>7, <1>9 DEF x
<1>11. LineLen(n, w) <= width
  BY <1>4, <1>10
<1> QED BY <1>8, <1>11 DEF n, w

\* The lines of a frame, and those above its last one.
LEMMA FrameFits ==
  ASSUME width # Null, width \in Terminal, NEW cols, NEW s, NEW rows,
         Drawn(cols, WidthOf(cols), s, rows)
  PROVE  Aligned(s) /\ Within(s)
<1> DEFINE k == LineLen(Len(cols), WidthOf(cols))
<1>1. k <= width
  BY Fitting DEF Drawn
<1>2. s \in Seq(Line) /\ \A i \in 1 .. Len(s) : Len(s[i]) = k
  BY DEF Drawn, Framed
<1> HIDE DEF k
<1>3. \A i \in 1 .. Len(s) : 1 \in 1 .. Len(s)
  BY <1>2, LenProperties
<1> QED BY <1>1, <1>2, <1>3 DEF Aligned, Within

\* Without its last line a screen is as aligned as with it.
LEMMA FrameAbove ==
  ASSUME NEW s \in Seq(Line), NEW line \in Line,
         Aligned(Append(s, line)), Within(Append(s, line))
  PROVE  Aligned(s) /\ Within(s)
<1> DEFINE u == Append(s, line)
<1>1. /\ Len(s) \in Nat /\ Len(u) = Len(s) + 1
      /\ \A i \in 1 .. Len(s) : u[i] = s[i]
  BY LenProperties, AppendProperties
<1> HIDE DEF u
<1>2. \A i \in 1 .. Len(s) : i \in 1 .. Len(u) /\ 1 \in 1 .. Len(s)
  BY <1>1
<1>3. \A i \in 1 .. Len(u) : Len(u[i]) = Len(u[1]) /\ Len(u[i]) <= width
  BY DEF Aligned, Within, u
<1> QED BY <1>1, <1>2, <1>3 DEF Aligned, Within

\* An open frame fits like a closed one.
LEMMA DrawingFits ==
  ASSUME width # Null, width \in Terminal, NEW cols, NEW s, NEW rows,
         Drawing(cols, WidthOf(cols), s, rows)
  PROVE  Aligned(s) /\ Within(s)
<1> DEFINE w == WidthOf(cols)
           brk == GetLineBreak(w, Len(cols))
<1>1. /\ s \in Seq(Line)
      /\ Drawn(cols, w, Append(s, brk), rows)
      /\ Len(cols) \in Nat \ {0} /\ w \in Nat
  BY DEF Drawing, Drawn, IsDesc
<1>2. Aligned(Append(s, brk)) /\ Within(Append(s, brk))
  BY <1>1, FrameFits
<1>3. brk \in Line
  <2> HIDE DEF w
  <2> QED BY <1>1, BreakIs
<1> HIDE DEF brk
<1> QED BY <1>1, <1>2, <1>3, FrameAbove

\* A header with no rows yet,
LEMMA HeaderDrawn ==
  ASSUME NEW cols, IsDesc(cols), NEW w \in Nat, w > 2
  PROVE  Drawing(cols, w, GetTableHeader(cols, w), <<>>)
<1> DEFINE n == Len(cols)
           g == GetFieldNames(cols)
           s == GetTableHeader(cols, w)
           T == Contents(n, w)
<1>1. n \in Nat \ {0} /\ g \in T
  BY NamesFit DEF IsDesc
<1>2. Framed(Append(s, GetLineBreak(w, n)), <<g>>, n, w)
  BY HeaderFrames
<1>3. TextsOf(cols, <<>>) = <<g>>
  <2>1. [i \in DOMAIN <<>> |-> GetFieldTexts(<<>>[i], cols)] = <<>>
    OBVIOUS
  <2> HIDE DEF g
  <2>2. <<g>> \o <<>> = <<g>>
    OBVIOUS
  <2> QED BY <2>1, <2>2 DEF TextsOf, g
<1>4. s \in Seq(Line)
  <2> DEFINE b == <<GetLineBreak(w, n)>>
             lines == GetLines(g, w)
  <2>1. DOMAIN g = 1 .. n /\ \A i \in 1 .. n : Wraps(g[i], w - 2)
    BY <1>1 DEF Contents
  <2> HIDE DEF g
  <2>2. lines \in Seq(Line)
    <3> HIDE DEF n
    <3> QED BY <1>1, <2>1, LinesHold DEF Hold
  <2>3. b \in Seq(Line)
    <3> HIDE DEF n
    <3>1. GetLineBreak(w, n) \in Line
      BY <1>1, BreakIs
    <3> QED BY <3>1
  <2>4. s = b \o lines
    BY DEF GetTableHeader, g
  <2> HIDE DEF s, b, lines
  <2> QED BY <2>2, <2>3, <2>4, ConcatProperties
<1> HIDE DEF s, g, T, n
<1>5. <<g>> \in Seq(T)
  BY <1>1
<1>6. <<>> \in Seq(Record)
  BY EmptySeq
<1> QED BY <1>2, <1>3, <1>4, <1>5, <1>6 DEF Drawing, Drawn, s, g, T, n

\* and with one row more.
LEMMA RowDrawn ==
  ASSUME NEW cols, NEW w, NEW s, NEW rows, Drawing(cols, w, s, rows),
         NEW row \in Record, \A i \in DOMAIN cols : Field(row, i) # Null,
         Wrappable(GetFieldTexts(row, cols), w)
  PROVE  Drawing(cols, w, s \o GetTupleLines(row, cols, w),
                 Append(rows, SubSeq(row, 1, Len(cols))))
<1> DEFINE n == Len(cols)
           T == Contents(n, w)
           brk == GetLineBreak(w, n)
           texts == TextsOf(cols, rows)
           row1 == SubSeq(row, 1, n)
           contents == GetFieldTexts(row, cols)
           added == GetTupleLines(row, cols, w)
           rows1 == Append(rows, row1)
<1>1. /\ IsDesc(cols) /\ w \in Nat /\ w > 2 /\ n \in Nat \ {0}
      /\ rows \in Seq(Record) /\ s \in Seq(Line) /\ texts \in Seq(T)
      /\ Framed(Append(s, brk), texts, n, w)
  BY DEF Drawing, Drawn, IsDesc
<1>2. contents \in T /\ GetFieldTexts(row1, cols) = contents
  BY <1>1, FieldsFit
<1>3. GetFieldNames(cols) \in T
  BY <1>1, NamesFit
<1>4. row1 \in Record
  <2> DEFINE V == {Null} \cup Value
  <2>1. row \in Seq(V)
    BY DEF Record
  <2>2. \A i \in 1 .. n : i \in 1 .. Len(row)
    <3>1. \A i \in 1 .. n : i \in DOMAIN row
      BY <1>1 DEF Field, IsDesc
    <3> QED BY <2>1, <3>1, LenProperties
  <2>3. \A i \in 1 .. n : row[i] \in V
    BY <2>1, <2>2, ElementOfSeq
  <2>4. 1 \in Int /\ n \in Int
    BY <1>1
  <2> HIDE DEF V, n
  <2>5. SubSeq(row, 1, n) \in Seq(V)
    BY <2>3, <2>4, SubSeqProperties
  <2> QED BY <2>5 DEF Record, V
<1> HIDE DEF T, row1, contents, texts
<1>5. rows1 \in Seq(Record)
  BY <1>1, <1>4, AppendProperties
<1>6. /\ TextsOf(cols, rows1) = Append(texts, contents)
      /\ TextsOf(cols, rows1) \in Seq(T)
  BY <1>1, <1>2, <1>3, <1>4, TextsGrow DEF texts
<1>7. added = <<brk>> \o GetLines(contents, w)
  BY DEF GetTupleLines, contents
<1>8. Framed(Append(s \o added, brk), Append(texts, contents), n, w)
  <2> HIDE DEF n
  <2> QED BY <1>1, <1>2, <1>7, RowFrames DEF T
<1>9. s \o added \in Seq(Line)
  <2> DEFINE lines == GetLines(contents, w)
             b == <<brk>>
  <2>1. DOMAIN contents = 1 .. n /\ \A i \in 1 .. n : Wraps(contents[i], w - 2)
    BY <1>2 DEF T, Contents
  <2>2. lines \in Seq(Line)
    <3> HIDE DEF n
    <3> QED BY <1>1, <2>1, LinesHold DEF Hold
  <2>3. b \in Seq(Line)
    <3> HIDE DEF n
    <3>1. GetLineBreak(w, n) \in Line
      BY <1>1, BreakIs
    <3> QED BY <3>1
  <2> HIDE DEF lines, b, added
  <2>4. b \o lines \in Seq(Line)
    BY <2>2, <2>3, ConcatProperties
  <2>5. added = b \o lines
    BY <1>7 DEF b, lines
  <2> QED BY <1>1, <2>4, <2>5, ConcatProperties
<1> HIDE DEF n, rows1, added
<1> QED BY <1>1, <1>5, <1>6, <1>8, <1>9 DEF Drawing, Drawn, T, n, rows1, row1, added

-----------------------------------------------------------------------------
(* The screen, step by step                                                *)

\* A step that clears the screen and answers nothing.
LEMMA NothingShown ==
  ASSUME screen' = <<>>, phase' # "open", ~Answered'
  PROVE  Screened'
<1>1. Aligned(screen)' /\ Within(screen)'
  <2>1. screen' \in Seq(Line) /\ Len(screen') = 0
    BY EmptySeq
  <2> QED BY <2>1 DEF Aligned, Within
<1>2. Shows'
  BY DEF Shows
<1> QED BY <1>1, <1>2 DEF Screened

\* CREATE TABLE clears the screen.
LEMMA CreateShows ==
  ASSUME Create
  PROVE  Screened'
<1>1. PICK s \in Statement :
        /\ s.kind = "create" /\ Take(s) /\ screen' = <<>>
        /\ UNCHANGED <<setting, files, phase, node>>
  BY DEF Create
<1>2. statement' = s /\ phase = "ready" /\ phase' = "ready"
  BY <1>1 DEF Take
<1>3. Aligned(screen)' /\ Within(screen)'
  <2>1. screen' \in Seq(Line) /\ Len(screen') = 0
    BY <1>1, EmptySeq
  <2> QED BY <2>1 DEF Aligned, Within
<1>4. Shows'
  BY <1>1, <1>2 DEF Shows, Executed
<1> QED BY <1>3, <1>4 DEF Screened

\* SHOW TABLES draws its list, whatever its order.
LEMMA ShowTablesShows ==
  ASSUME Stored, ShowTables
  PROVE  Screened'
<1>1. PICK s \in Statement :
        /\ s.kind = "show_tables" /\ Take(s)
        /\ \/ width = Null /\ screen' = <<>> /\ answer' = "error" /\ phase' = phase
           \/ /\ width # Null /\ DOMAIN catalog # {}
              /\ \E names \in TableNames : screen' = PrettyShowTables(names)
              /\ answer' = "ok" /\ phase' = phase
           \/ /\ width # Null /\ DOMAIN catalog = {}
              /\ phase' = "crashed" /\ answer' = "none" /\ screen' = <<>>
        /\ UNCHANGED <<setting, files, catalog, tables, node>>
  BY DEF ShowTables
<1>2. /\ statement' = s /\ phase = "ready"
      /\ width' = width /\ catalog' = catalog
  BY <1>1 DEF Take, setting
<1>3. CASE width = Null
  BY <1>2, <1>3 DEF Screened
<1>4. CASE phase' = "crashed" /\ screen' = <<>>
  BY <1>4, NothingShown DEF Answered
<1>5. CASE width # Null /\ phase' = phase
           /\ \E names \in TableNames : screen' = PrettyShowTables(names)
  <2>1. PICK names \in TableNames : screen' = PrettyShowTables(names)
    BY <1>5
  <2>2. Lists(names, DOMAIN catalog)
    <3>1. IsFiniteSet(DOMAIN catalog)
      BY DEF Stored, Declared
    <3>2. Lists(SetToSeq(DOMAIN catalog), DOMAIN catalog)
      BY <3>1, SetToSeqLists
    <3>3. Lists(Reverse(SetToSeq(DOMAIN catalog)), DOMAIN catalog)
      BY <3>2, ReverseLists
    <3> QED BY <3>2, <3>3 DEF TableNames
  <2>3. Aligned(screen')
    <3>1. DOMAIN catalog \subseteq DOMAIN Spelled
      BY DEF Stored, Declared
    <3>2. names \in Seq(DOMAIN Spelled)
      BY <2>2, <3>1 DEF Lists
    <3>3. LET u == PrettyShowTables(names)
          IN u \in Seq(Line) /\ \A i \in 1 .. Len(u) : Len(u[i]) = Len(u[1])
      BY <3>2, TablesShown
    <3> QED BY <2>1, <3>3 DEF Aligned
  <2>4. Shows'
    BY <1>1, <1>2, <1>5, <2>1, <2>2 DEF Shows, Executed
  <2>5. statement'.kind \notin Executed
    BY <1>1, <1>2 DEF Executed
  <2> QED BY <2>3, <2>4, <2>5 DEF Screened, Aligned
<1> QED BY <1>1, <1>3, <1>4, <1>5

\* SHOW COLUMNS draws the columns of the table.
LEMMA ShowColumnsShows ==
  ASSUME Stored, ShowColumns
  PROVE  Screened'
<1>1. PICK s \in Statement :
        /\ s.kind = "show_columns" /\ Take(s)
        /\ IF width # Null /\ s.table \in DOMAIN catalog
           THEN screen' = PrettyShowColumns(catalog[s.table]) /\ answer' = "ok"
           ELSE screen' = <<>> /\ answer' = "error"
        /\ UNCHANGED <<setting, files, catalog, tables, phase, node>>
  BY DEF ShowColumns
<1>2. /\ statement' = s /\ phase = "ready" /\ phase' = "ready"
      /\ width' = width /\ catalog' = catalog
  BY <1>1 DEF Take, setting
<1>3. CASE ~(width # Null /\ s.table \in DOMAIN catalog)
  BY <1>1, <1>2, <1>3, NothingShown DEF Answered
<1>4. CASE width # Null /\ s.table \in DOMAIN catalog
  <2>1. screen' = PrettyShowColumns(catalog[s.table])
    BY <1>1, <1>4
  <2>2. Aligned(screen')
    <3>1. IsDesc(catalog[s.table])
      BY <1>4 DEF Stored, Declared
    <3>2. LET u == PrettyShowColumns(catalog[s.table])
          IN u \in Seq(Line) /\ \A i \in 1 .. Len(u) : Len(u[i]) = Len(u[1])
      BY <3>1, ColumnsShown
    <3> QED BY <2>1, <3>2 DEF Aligned
  <2>3. Shows'
    BY <1>1, <1>2, <1>4, <2>1 DEF Shows, Executed
  <2>4. statement'.kind \notin Executed
    BY <1>1, <1>2 DEF Executed
  <2> QED BY <2>2, <2>3, <2>4 DEF Screened, Aligned
<1> QED BY <1>3, <1>4

\* Where a plan that answers takes the session.
LEMMA GoesTo ==
  ASSUME NEW r, NEW next, Goes(r, next)
  PROVE  /\ node' = r.node
         /\ \/ phase' = next
            \/ phase' = "crashed"
            \/ phase' = "ready" /\ answer' = "error"
  BY DEF Goes

\* A statement planned has drawn nothing.
LEMMA SubmitShows ==
  ASSUME Submit
  PROVE  Screened'
<1>1. PICK s \in Statement, order \in {"seen", "reversed"} :
        /\ Goes(ParseQuery(s, catalog, order), "planned")
        /\ screen' = <<>>
  BY DEF Submit
<1>2. \/ phase' = "planned"
      \/ phase' = "crashed"
      \/ phase' = "ready" /\ answer' = "error"
  BY <1>1, GoesTo
<1> QED BY <1>1, <1>2, NothingShown DEF Answered

\* A step that leaves the screen alone and ends in a crash or an error.
LEMMA ScreenKept ==
  ASSUME Screened, UNCHANGED <<screen, width, statement>>,
         phase' # "open", ~Answered'
  PROVE  Screened'
<1>1. Shows'
  BY DEF Shows
<1> QED BY <1>1 DEF Screened, Aligned, Within

\* A step after which the screen is drawn, wholly or still without its end.
LEMMA ScreenDrawn ==
  ASSUME width' # Null, width' \in Terminal, UNCHANGED width,
         NEW cols, NEW rows, node'.cols = cols, output' = rows,
         \/ Drawing(cols, WidthOf(cols), screen', rows) /\ ~Answered'
         \/ /\ Drawn(cols, WidthOf(cols), screen', rows) /\ phase' # "open"
            /\ statement'.kind \in Executed
  PROVE  Screened'
<1>1. WidthOf(node.cols)' = WidthOf(cols)
  BY DEF WidthOf
<1>2. Aligned(screen') /\ Within(screen')
  BY FrameFits, DrawingFits
<1>3. Aligned(screen)' /\ Within(screen)'
  BY <1>2 DEF Aligned, Within
<1>4. Shows'
  <2>1. CASE Drawing(cols, WidthOf(cols), screen', rows) /\ ~Answered'
    <3> HIDE DEF Drawing
    <3> QED BY <1>1, <2>1 DEF Shows
  <2>2. CASE /\ Drawn(cols, WidthOf(cols), screen', rows) /\ phase' # "open"
             /\ statement'.kind \in Executed
    BY <1>1, <2>2 DEF Shows, Executed
  <2> QED BY <2>1, <2>2
<1> QED BY <1>3, <1>4 DEF Screened

\* OpenPlan draws the header of the plan it opens.
LEMMA OpenPlanShows ==
  ASSUME TypeOK, Working, Screened, PlansSound, OpenPlan
  PROVE  Screened'
<1> DEFINE r == OpIteratorOpen(node, tables)
           c == node.cols
           w == WidthOf(c)
<1>1. /\ phase = "planned"
      /\ UNCHANGED <<statement, output, width>>
      /\ output = <<>> /\ width \in Terminal
      /\ IsDesc(c) /\ r.node.cols = c
  BY DEF OpenPlan, setting, TypeOK, Working, PlansSound
<1>2. CASE width = Null
  BY <1>1, <1>2 DEF Screened
<1>3. CASE phase' = "crashed" /\ UNCHANGED screen
  BY <1>1, <1>3, ScreenKept DEF Answered
<1>4. CASE /\ width # Null
           /\ Wrappable(GetFieldNames(c), w)
           /\ Goes(r, "open")
           /\ screen' = GetTableHeader(c, w)
  <2>1. w > 2
    BY <1>4 DEF Wrappable
  <2>2. w \in Nat
    BY <1>1, <1>4, <2>1, Fitting
  <2> HIDE DEF w, r
  <2>3. Drawing(c, w, screen', <<>>)
    BY <1>1, <1>4, <2>1, <2>2, HeaderDrawn
  <2>4. node'.cols = c /\ ~Answered'
    <3>1. \/ phase' = "open"
          \/ phase' = "crashed"
          \/ phase' = "ready" /\ answer' = "error"
      BY <1>4, GoesTo
    <3>2. node' = r.node
      BY <1>4, GoesTo
    <3> QED BY <1>1, <3>1, <3>2 DEF Answered
  <2> HIDE DEF c
  <2> QED BY <1>1, <1>4, <2>3, <2>4, ScreenDrawn DEF w
<1> QED BY <1>2, <1>3, <1>4 DEF OpenPlan

\* FetchRow draws one row below those that are there.
LEMMA FetchRowShows ==
  ASSUME TypeOK, Working, Screened, PlansSound, FetchRow
  PROVE  Screened'
<1> DEFINE r == OpIteratorNext(node, tables)
           c == node.cols
           w == WidthOf(c)
<1>1. /\ phase = "open" /\ r.st = "ok"
      /\ UNCHANGED <<statement, answer, width>> /\ node' = r.node
      /\ IF Printable(r.rec, c)
         THEN /\ output' = Append(output, SubSeq(r.rec, 1, Len(c)))
              /\ screen' = IF width = Null THEN screen ELSE
                           screen \o GetTupleLines(r.rec, c, w)
              /\ phase' = phase
         ELSE /\ phase' = "crashed"
              /\ UNCHANGED <<output, screen>>
  BY DEF FetchRow, setting
<1>2. r.node.cols = c /\ r.rec \in Record
  BY <1>1 DEF PlansSound
<1>3. width \in Terminal /\ answer = "none"
  BY <1>1 DEF Working
<1> HIDE DEF r
<1>4. CASE width = Null
  BY <1>1, <1>4 DEF Screened
<1>5. CASE ~Printable(r.rec, c)
  BY <1>1, <1>5, ScreenKept DEF Answered
<1>6. CASE width # Null /\ Printable(r.rec, c)
  <2>1. /\ \A i \in DOMAIN c : Field(r.rec, i) # Null
        /\ Wrappable(GetFieldTexts(r.rec, c), w)
    BY <1>6 DEF Printable
  <2>2. Drawing(c, w, screen, output)
    BY <1>1, <1>6 DEF Screened, Shows
  <2>3. /\ screen' = screen \o GetTupleLines(r.rec, c, w)
        /\ output' = Append(output, SubSeq(r.rec, 1, Len(c)))
    BY <1>1, <1>6
  <2> HIDE DEF w
  <2>4. Drawing(c, w, screen', output')
    BY <1>2, <2>1, <2>2, <2>3, RowDrawn
  <2>5. node'.cols = c /\ ~Answered'
    BY <1>1, <1>2, <1>3 DEF Answered
  <2> HIDE DEF c
  <2> QED BY <1>1, <1>3, <1>6, <2>4, <2>5, ScreenDrawn DEF w
<1> QED BY <1>4, <1>5, <1>6

\* FinishQuery closes the frame.
LEMMA FinishQueryShows ==
  ASSUME TypeOK, Working, Screened, PlansSound, FinishQuery
  PROVE  Screened'
<1> DEFINE r == OpIteratorNext(node, tables)
           c == node.cols
           w == WidthOf(c)
<1>1. /\ phase = "open"
      /\ UNCHANGED <<statement, output, width>> /\ node' = r.node
      /\ IF r.st = "crash"
         THEN phase' = "crashed" /\ UNCHANGED <<answer, screen>>
         ELSE /\ phase' = "ready" /\ answer' = "ok"
              /\ screen' = IF width = Null THEN screen ELSE
                           Append(screen, GetLineBreak(w, Len(c)))
  BY DEF FinishQuery, setting
<1>2. r.node.cols = c
  BY <1>1 DEF PlansSound
<1>3. width \in Terminal /\ statement.kind \in Executed
  BY <1>1 DEF Working
<1> HIDE DEF r
<1>4. CASE width = Null
  BY <1>1, <1>4 DEF Screened
<1>5. CASE r.st = "crash"
  BY <1>1, <1>5, ScreenKept DEF Answered
<1>6. CASE width # Null /\ r.st # "crash"
  <2>1. Drawing(c, w, screen, output)
    BY <1>1, <1>6 DEF Screened, Shows
  <2>2. Drawn(c, w, screen', output')
    BY <1>1, <1>6, <2>1 DEF Drawing
  <2>3. node'.cols = c /\ phase' # "open" /\ statement'.kind \in Executed
    BY <1>1, <1>2, <1>3, <1>6
  <2> HIDE DEF c
  <2> QED BY <1>1, <1>3, <1>6, <2>2, <2>3, ScreenDrawn
<1> QED BY <1>4, <1>5, <1>6

\* Every step keeps the screen what the statement calls for.
LEMMA NextScreened ==
  ASSUME TypeOK, Working, Stored, Screened, PlansSound, [NextStep]_vars
  PROVE  Screened'
<1>1. ASSUME UNCHANGED vars PROVE Screened'
  BY <1>1 DEF vars, setting, Screened, Aligned, Within, Shows, Answered, WidthOf
<1>2. ASSUME Quit PROVE Screened'
  BY <1>2, NothingShown DEF Quit, NoStatement, Answered
<1>3. ASSUME Start PROVE Screened'
  <2>1. /\ UNCHANGED <<screen, width, statement, answer>>
        /\ answer = "none" /\ phase' = "ready"
    BY <1>3 DEF Start, setting, Working
  <2> QED BY <2>1, ScreenKept DEF Answered
<1> QED
  BY <1>1, <1>2, <1>3, CreateShows, ShowTablesShows, ShowColumnsShows,
     SubmitShows, OpenPlanShows, FetchRowShows, FinishQueryShows DEF NextStep

\* What the lines hold makes the frame one rectangle, no wider than the
\* terminal.
LEMMA ScreenedAligned ==
  ASSUME TypeOK, Screened
  PROVE  ScreenAligned
<1>1. CASE width = Null
  <2>1. screen = <<>>
    BY <1>1 DEF TypeOK
  <2> QED BY <2>1 DEF ScreenAligned
<1>2. CASE width # Null
  <2>1. screen \in Seq(Line) /\ \A i \in 1 .. Len(screen) : Len(screen[i]) = Len(screen[1])
    BY <1>2 DEF Screened, Aligned
  <2>2. DOMAIN screen = 1 .. Len(screen)
    BY <2>1, LenProperties
  <2>3. statement.kind \in Executed =>
          \A i \in 1 .. Len(screen) : Len(screen[i]) <= width
    BY <1>2 DEF Screened, Within
  <2> QED BY <2>1, <2>2, <2>3 DEF ScreenAligned
<1> QED BY <1>1, <1>2

-----------------------------------------------------------------------------
(* What the screen tells                                                   *)

\* Who reads the list of tables finds each by its name, once.
LEMMA TablesTold ==
  ASSUME Stored, NEW names, Lists(names, DOMAIN catalog),
         screen = PrettyShowTables(names)
  PROVE  LET shown == SubSeq(screen, 4, Len(screen) - 1)
             NameIn(line) == CellText(line, 1, Len(line) - 2)
         IN /\ {NameIn(shown[i]) : i \in DOMAIN shown}
                 = {Spelled[t] : t \in DOMAIN catalog}
            /\ Len(shown) = Cardinality(DOMAIN catalog)
<1> DEFINE shown == SubSeq(screen, 4, Len(screen) - 1)
           NameIn(line) == CellText(line, 1, Len(line) - 2)
           S == DOMAIN catalog
           k == Len(names)
<1>1. names \in Seq(S) /\ k = Cardinality(S) /\ Members(names, k) = S
  BY DEF Lists
<1>2. names \in Seq(DOMAIN Spelled)
  BY <1>1 DEF Stored, Declared
<1>3. /\ shown \in Seq(Line) /\ Len(shown) = k
      /\ \A i \in 1 .. k : NameIn(shown[i]) = Spelled[names[i]]
  BY <1>2, TablesShown
<1>4. DOMAIN shown = 1 .. k
  BY <1>3, LenProperties
<1>5. S = {names[i] : i \in 1 .. k}
  BY <1>1 DEF Members
<1> HIDE DEF shown, NameIn, S, k
<1>6. {NameIn(shown[i]) : i \in DOMAIN shown} = {Spelled[names[i]] : i \in 1 .. k}
  BY <1>3, <1>4
<1>7. {Spelled[names[i]] : i \in 1 .. k} = {Spelled[t] : t \in S}
  BY <1>5
<1>8. /\ {NameIn(shown[i]) : i \in DOMAIN shown} = {Spelled[t] : t \in S}
      /\ Len(shown) = Cardinality(S)
  BY <1>1, <1>3, <1>6, <1>7
<1> QED BY <1>8 DEF shown, NameIn, S

\* A screen with its frame drawn tells what was printed.
LEMMA ScreenedTells ==
  ASSUME TypeOK, Stored, Screened
  PROVE  ScreenTells
<1> SUFFICES ASSUME width # Null, Answered
             PROVE  /\ statement.kind \in Executed =>
                         Told(screen, Len(node.cols), WidthOf(node.cols)) =
                           <<GetFieldNames(node.cols)>>
                           \o [i \in DOMAIN output |->
                                 GetFieldTexts(output[i], node.cols)]
                    /\ statement.kind = "show_tables" =>
                         LET shown == SubSeq(screen, 4, Len(screen) - 1)
                             NameIn(line) == CellText(line, 1, Len(line) - 2)
                         IN /\ {NameIn(shown[i]) : i \in DOMAIN shown}
                                 = {Spelled[t] : t \in DOMAIN catalog}
                            /\ Len(shown) = Cardinality(DOMAIN catalog)
                    /\ statement.kind = "show_columns" =>
                         Told(screen, 1, Len(screen[1]) - 2)
                           = <<<<DescText(catalog[statement.table])>>>>
                    /\ statement.kind = "create" => screen = <<>>
  BY DEF ScreenTells
<1>1. Shows
  BY DEF Screened
<1>2. ASSUME statement.kind \in Executed
      PROVE  Told(screen, Len(node.cols), WidthOf(node.cols)) =
               <<GetFieldNames(node.cols)>>
               \o [i \in DOMAIN output |-> GetFieldTexts(output[i], node.cols)]
  <2> DEFINE c == node.cols
             w == WidthOf(c)
             n == Len(c)
             texts == TextsOf(c, output)
  <2>1. Drawn(c, w, screen, output)
    BY <1>1, <1>2 DEF Shows
  <2>2. /\ n \in Nat \ {0} /\ w \in Nat /\ w > 2
        /\ texts \in Seq(Contents(n, w)) /\ Framed(screen, texts, n, w)
    BY <2>1 DEF Drawn, IsDesc
  <2> HIDE DEF n, w, texts, c
  <2>3. Told(screen, n, w) = texts
    BY <2>2, FramedTells
  <2> QED BY <2>3 DEF n, w, texts, c, TextsOf
<1>3. ASSUME statement.kind = "show_tables"
      PROVE  LET shown == SubSeq(screen, 4, Len(screen) - 1)
                 NameIn(line) == CellText(line, 1, Len(line) - 2)
             IN /\ {NameIn(shown[i]) : i \in DOMAIN shown}
                     = {Spelled[t] : t \in DOMAIN catalog}
                /\ Len(shown) = Cardinality(DOMAIN catalog)
  <2>1. PICK names : /\ Lists(names, DOMAIN catalog)
                     /\ screen = PrettyShowTables(names)
    BY <1>1, <1>3 DEF Shows
  <2> QED BY <2>1, TablesTold
<1>4. ASSUME statement.kind = "show_columns"
      PROVE  Told(screen, 1, Len(screen[1]) - 2)
               = <<<<DescText(catalog[statement.table])>>>>
  <2>1. /\ statement.table \in DOMAIN catalog
        /\ screen = PrettyShowColumns(catalog[statement.table])
    BY <1>1, <1>4 DEF Shows
  <2>2. IsDesc(catalog[statement.table])
    BY <2>1 DEF Stored, Declared
  <2> QED BY <2>1, <2>2, ColumnsShown
<1>5. statement.kind = "create" => screen = <<>>
  BY <1>1 DEF Shows
<1> QED BY <1>2, <1>3, <1>4, <1>5

\* Every line the session draws is as long as the others: the frame is one
\* rectangle, and no wider than the terminal when a query is printed.
THEOREM ScreenIsAligned == Spec /\ []PlansSound => []ScreenAligned
<1>1. Init => TypeOK /\ Working /\ Stored /\ Screened
  BY InitTyped, InitStored, InitScreened
<1>2. /\ TypeOK /\ Working /\ Stored /\ Screened /\ PlansSound /\ [NextStep]_vars
      => (TypeOK /\ Working /\ Stored /\ Screened)'
  BY NextTyped, NextStored, NextScreened
<1>3. TypeOK /\ Working /\ Stored /\ Screened => ScreenAligned
  BY ScreenedAligned
<1> QED BY <1>1, <1>2, <1>3, PTL DEF Spec

\* Who reads the screen column by column finds the titles and the rows that
\* were fetched, whatever was wrapped; SHOW lists each table once, by its
\* whole name.
THEOREM ScreenIsTrue == Spec /\ []PlansSound => []ScreenTells
<1>1. Init => TypeOK /\ Working /\ Stored /\ Screened
  BY InitTyped, InitStored, InitScreened
<1>2. /\ TypeOK /\ Working /\ Stored /\ Screened /\ PlansSound /\ [NextStep]_vars
      => (TypeOK /\ Working /\ Stored /\ Screened)'
  BY NextTyped, NextStored, NextScreened
<1>3. TypeOK /\ Working /\ Stored /\ Screened => ScreenTells
  BY ScreenedTells
<1> QED BY <1>1, <1>2, <1>3, PTL DEF Spec

=============================================================================
