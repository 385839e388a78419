-------------------------- MODULE PageLayoutProofs --------------------------
(***************************************************************************)
(* Bytes are a page: PageLayout implements PageOnFile, for every page      *)
(* size, width of a byte and table.  What the constructor of HeapPage      *)
(* computes fits the page, a header bit is set and cleared alone, and a    *)
(* record is read as it was written.  The invariant: the header has a bit  *)
(* for every slot and the count of the free ones is exact; and every slot  *)
(* present on file holds some record, whole and within its columns, so     *)
(* that it is read as it was written whatever follows the page in memory.  *)
(***************************************************************************)
EXTENDS PageLayout, ListLemmas

(* Integer division.                                                       *)

\* What integer division gives.
LEMMA Division ==
  ASSUME NEW a \in Nat, NEW b \in Nat \ {0}
  PROVE  /\ a \div b \in Nat
         /\ (a \div b) * b <= a
         /\ a < (a \div b + 1) * b
         /\ a % b \in 0 .. (b - 1)
         /\ a = (a \div b) * b + (a % b)
  OBVIOUS

\* One factor common to both sides of a comparison can be left out.
LEMMA Cancel ==
  ASSUME NEW a \in Int, NEW b \in Int, NEW c \in Nat \ {0}, a * c < b * c
  PROVE  a < b
<1>1. SUFFICES ASSUME b <= a PROVE FALSE
  OBVIOUS
<1>2. b * c <= a * c
  BY <1>1
<1> QED
  BY <1>2

\* Quotient and remainder are the only ones.
LEMMA DivisionUnique ==
  ASSUME NEW q \in Nat, NEW b \in Nat \ {0}, NEW r \in 0 .. (b - 1)
  PROVE  (q * b + r) \div b = q /\ (q * b + r) % b = r
<1> DEFINE a == q * b + r
           p == a \div b
<1>1. a \in Nat
  OBVIOUS
<1>2. /\ p \in Nat /\ p * b <= a /\ a < (p + 1) * b
      /\ a % b \in Nat /\ a = p * b + (a % b)
  <2> HIDE DEF a
  <2> QED
    BY <1>1, Division
<1> HIDE DEF p
<1>3. q * b <= a /\ a < (q + 1) * b
  OBVIOUS
<1> HIDE DEF a
<1>4. /\ q * b \in Nat /\ p * b \in Nat
      /\ (q + 1) * b \in Nat /\ (p + 1) * b \in Nat
  BY <1>2
<1>5. q * b < (p + 1) * b /\ p * b < (q + 1) * b
  BY <1>1, <1>2, <1>3, <1>4
<1>6. q < p + 1 /\ p < q + 1
  BY <1>2, <1>5, Cancel
<1>7. p = q
  BY <1>2, <1>6
<1>8. a % b = r
  BY <1>2, <1>4, <1>7 DEF a
<1> QED
  BY <1>7, <1>8 DEF a, p

\* To divide twice is to divide by the product.
LEMMA DivisionTwice ==
  ASSUME NEW a \in Nat, NEW b \in Nat \ {0}, NEW c \in Nat \ {0}
  PROVE  (a \div b) \div c = a \div (b * c)
<1> DEFINE q == a \div b
           r == a % b
           p == q \div c
           t == q % c
<1>1. q \in Nat /\ r \in 0 .. (b - 1) /\ a = q * b + r
  BY Division
<1> HIDE DEF q, r
<1>2. p \in Nat /\ t \in 0 .. (c - 1) /\ q = p * c + t
  BY <1>1, Division
<1> HIDE DEF p, t
<1>3. t * b + r \in 0 .. (b * c - 1)
  <2>1. t * b <= (c - 1) * b
    BY <1>2
  <2>2. (c - 1) * b = b * c - b /\ t * b \in Nat /\ b * c \in Nat
    BY <1>2
  <2> QED
    BY <1>1, <2>1, <2>2
<1>4. b * c \in Nat \ {0}
  OBVIOUS
<1>5. a = p * (b * c) + (t * b + r)
  BY <1>1, <1>2
<1>6. a \div (b * c) = p
  BY <1>2, <1>3, <1>4, <1>5, DivisionUnique
<1> QED
  BY <1>6 DEF p, q

-----------------------------------------------------------------------------
(* Powers of two, and the bits of a number.                                *)

\* Powers of two.
LEMMA Powers ==
  /\ TwoTo \in [Nat -> Nat \ {0}]
  /\ TwoTo[0] = 1
  /\ \A n \in Nat : TwoTo[n + 1] = 2 * TwoTo[n]
<1> DEFINE P == Nat \ {0}
           F == [n \in Nat |-> [t \in P |-> 2 * t]]
           Eq(f) == f = [n \in Nat |-> IF n = 0 THEN 1 ELSE 2 * f[n - 1]]
           S == {n \in Nat : TwoTo[n] \in P}
<1>1. PICK f : Iterates(f, F, 1, P)
  <2>1. Steps(F, P)
    BY DEF Steps
  <2> HIDE DEF F
  <2> QED BY <2>1, Iterate
<1>2. f \in [Nat -> P] /\ f[0] = 1 /\ \A n \in Nat : f[n + 1] = 2 * f[n]
  BY <1>1 DEF Iterates
<1>3. Eq(f)
  <2>1. ASSUME NEW n \in Nat, n # 0
        PROVE  f[n] = 2 * f[n - 1]
    <3>1. n - 1 \in Nat /\ (n - 1) + 1 = n
      BY <2>1
    <3> QED BY <1>2, <3>1
  <2> QED BY <1>2, <2>1
<1>4. Eq(TwoTo)
  <2>1. TwoTo = CHOOSE g : Eq(g)
    BY DEF TwoTo
  <2> HIDE DEF Eq
  <2> QED BY <1>3, <2>1
<1> HIDE DEF TwoTo
<1>5. TwoTo[0] = 1 /\ \A n \in Nat : TwoTo[n + 1] = 2 * TwoTo[n]
  BY <1>4
<1>6. Nat \subseteq S
  <2>1. 0 \in S /\ \A n \in Nat : n \in S => n + 1 \in S
    BY <1>5
  <2> HIDE DEF S
  <2> QED BY <2>1, SetInduction
<1> QED BY <1>4, <1>5, <1>6

LEMMA PowersAdd ==
  ASSUME NEW m \in Nat, NEW n \in Nat
  PROVE  TwoTo[m + n] = TwoTo[m] * TwoTo[n]
<1> DEFINE S == {k \in Nat : TwoTo[m + k] = TwoTo[m] * TwoTo[k]}
<1>1. 0 \in S
  BY Powers
<1>2. ASSUME NEW k \in Nat, k \in S
      PROVE  k + 1 \in S
  <2>1. TwoTo[m + k + 1] = 2 * TwoTo[m + k] /\ TwoTo[k + 1] = 2 * TwoTo[k]
    BY Powers
  <2>2. TwoTo[m] \in Nat /\ TwoTo[k] \in Nat
    BY Powers
  <2>3. 2 * (TwoTo[m] * TwoTo[k]) = TwoTo[m] * (2 * TwoTo[k])
    BY <2>2
  <2> QED BY <1>2, <2>1, <2>3
<1> HIDE DEF S
<1>3. Nat \subseteq S
  BY <1>1, <1>2, SetInduction
<1> QED BY <1>3 DEF S

LEMMA BaseType == Base \in Nat \ {0}
  BY Powers, SizesAssumption DEF Base

\* The bit of weight 2^k of a number.
BitOf(b, k) == (b \div TwoTo[k]) % 2

\* To add 2^k where that bit is 0 sets it and leaves the others.
LEMMA SetBit ==
  ASSUME NEW b \in Nat, NEW k \in Nat, BitOf(b, k) = 0
  PROVE  /\ BitOf(b + TwoTo[k], k) = 1
         /\ \A l \in Nat \ {k} : BitOf(b + TwoTo[k], l) = BitOf(b, l)
<1> DEFINE P == TwoTo[k]
           q == b \div P
           r == b % P
<1>1. P \in Nat \ {0}
  BY Powers
<1>2. q \in Nat /\ r \in 0 .. (P - 1) /\ b = q * P + r /\ q % 2 = 0
  <2> HIDE DEF P
  <2> QED BY <1>1, Division DEF BitOf, P
<1> HIDE DEF P, q, r
<1>3. b + P = (q + 1) * P + r
  BY <1>1, <1>2
<1>4. (b + P) \div P = q + 1
  <2> DEFINE x == q + 1
  <2>1. x \in Nat /\ b + P = x * P + r
    BY <1>2, <1>3
  <2> HIDE DEF x
  <2>2. (x * P + r) \div P = x
    BY <1>1, <1>2, <2>1, DivisionUnique, SMTT(30)
  <2> QED BY <2>1, <2>2 DEF x
<1>5. BitOf(b + P, k) = 1
  <2>1. (q + 1) % 2 = 1
    BY <1>2
  <2> QED BY <1>4, <2>1 DEF BitOf, P
<1>6. ASSUME NEW l \in Nat, l < k
      PROVE  BitOf(b + P, l) = BitOf(b, l)
  <2> DEFINE Q == TwoTo[l]
             M == TwoTo[k - l - 1]
             u == b \div Q
             v == b % Q
  <2>1. Q \in Nat \ {0} /\ M \in Nat \ {0}
    BY <1>6, Powers
  <2>2. P = Q * (2 * M)
    <3>1. k - l - 1 \in Nat /\ k = l + ((k - l - 1) + 1)
      BY <1>6
    <3>2. TwoTo[(k - l - 1) + 1] = 2 * M
      BY <3>1, Powers
    <3> QED BY <3>1, <3>2, PowersAdd DEF P
  <2> HIDE DEF Q, M
  <2>3. u \in Nat /\ v \in 0 .. (Q - 1) /\ b = u * Q + v
    BY <2>1, Division
  <2> HIDE DEF u, v
  <2>4. b + P = (u + 2 * M) * Q + v
    BY <2>1, <2>2, <2>3
  <2>5. (b + P) \div Q = u + 2 * M
    <3> DEFINE x == u + 2 * M
    <3>1. x \in Nat /\ b + P = x * Q + v
      BY <2>1, <2>3, <2>4
    <3> HIDE DEF x
    <3>2. (x * Q + v) \div Q = x
      BY <2>1, <2>3, <3>1, DivisionUnique
    <3> QED BY <3>1, <3>2 DEF x
  <2>6. (u + 2 * M) % 2 = u % 2
    BY <2>1, <2>3
  <2> QED BY <2>5, <2>6 DEF BitOf, Q, u
<1>7. ASSUME NEW l \in Nat, k < l
      PROVE  BitOf(b + P, l) = BitOf(b, l)
  <2> DEFINE M == TwoTo[l - k - 1]
             h == q \div 2
  <2>1. M \in Nat \ {0}
    BY <1>7, Powers
  <2>2. TwoTo[l] = P * (2 * M)
    <3>1. l - k - 1 \in Nat /\ l = k + ((l - k - 1) + 1)
      BY <1>7
    <3>2. TwoTo[(l - k - 1) + 1] = 2 * M
      BY <3>1, Powers
    <3> QED BY <3>1, <3>2, PowersAdd DEF P
  <2> HIDE DEF M
  <2>3. h \in Nat /\ q = h * 2 /\ (q + 1) \div 2 = h
    BY <1>2
  <2> HIDE DEF h
  <2>4. b + P \in Nat /\ 2 * M \in Nat \ {0}
    BY <1>1, <2>1
  <2>5. b \div TwoTo[l] = q \div (2 * M) /\ (b + P) \div TwoTo[l] = (q + 1) \div (2 * M)
    BY <1>1, <1>4, <2>2, <2>4, DivisionTwice DEF q
  <2>6. q \div (2 * M) = h \div M /\ (q + 1) \div (2 * M) = h \div M
    <3>1. q \div 2 = h
      BY <2>3
    <3> QED BY <1>2, <2>1, <2>3, <3>1, DivisionTwice
  <2> QED BY <2>5, <2>6 DEF BitOf
<1> QED BY <1>5, <1>6, <1>7 DEF P

\* To subtract 2^k where that bit is 1 clears it and leaves the others.
LEMMA ClearBit ==
  ASSUME NEW b \in Nat, NEW k \in Nat, BitOf(b, k) = 1
  PROVE  /\ b - TwoTo[k] \in Nat
         /\ BitOf(b - TwoTo[k], k) = 0
         /\ \A l \in Nat \ {k} : BitOf(b - TwoTo[k], l) = BitOf(b, l)
<1> DEFINE P == TwoTo[k]
           q == b \div P
           r == b % P
<1>1. P \in Nat \ {0}
  BY Powers
<1>2. q \in Nat /\ r \in 0 .. (P - 1) /\ b = q * P + r /\ q % 2 = 1
  <2> HIDE DEF P
  <2> QED BY <1>1, Division DEF BitOf, P
<1> HIDE DEF P, q, r
<1>3. q - 1 \in Nat /\ (q - 1) % 2 = 0 /\ b - P = (q - 1) * P + r
  BY <1>1, <1>2
<1>4. b - P \in Nat
  <2>1. (q - 1) * P \in Nat
    BY <1>1, <1>3
  <2> QED BY <1>2, <1>3, <2>1
<1>5. (b - P) \div P = q - 1
  <2> DEFINE x == q - 1
  <2>1. x \in Nat /\ b - P = x * P + r
    BY <1>3
  <2> HIDE DEF x
  <2>2. (x * P + r) \div P = x
    BY <1>1, <1>2, <2>1, DivisionUnique
  <2> QED BY <2>1, <2>2 DEF x
<1>6. BitOf(b - P, k) = 0
  BY <1>3, <1>5 DEF BitOf, P
<1>7. (b - P) + P = b
  BY <1>1
<1> QED BY <1>4, <1>6, <1>7, SetBit DEF P

-----------------------------------------------------------------------------
\* Header and slots never need more than a page: with the number of slots
\* that heap_page.cc computes, the bytes GetPageData writes before its padding
\* are at most PageSize, so the padding is never negative.
THEOREM SlotsFit ==
  ASSUME NEW size \in Nat
  PROVE  /\ SlotsOf(size) \in Nat
         /\ HeaderOf(SlotsOf(size)) \in Nat
         /\ HeaderOf(SlotsOf(size)) + SlotsOf(size) * size <= PageSize
<1> DEFINE n == SlotsOf(size)
           h == HeaderOf(n)
<1>1. /\ PageSize * Bits \in Nat
      /\ size * Bits + 1 \in Nat \ {0}
  BY SizesAssumption
<1>2. /\ n \in Nat
      /\ n * (size * Bits + 1) <= PageSize * Bits
  <2> HIDE DEF h
  <2> QED
    BY <1>1, Division DEF SlotsOf
<1> HIDE DEF n
<1>3. h \in Nat /\ h * Bits <= n + Bits - 1
  BY <1>2, SizesAssumption, Division DEF HeaderOf
<1> HIDE DEF h
<1>4. n * (size * Bits + 1) = (n * size) * Bits + n
  BY <1>2, SizesAssumption
<1>5. (h + n * size) * Bits = h * Bits + (n * size) * Bits
  BY <1>2, <1>3, SizesAssumption
<1>6. (PageSize + 1) * Bits = PageSize * Bits + Bits
  BY SizesAssumption
<1>7. n * size \in Nat /\ (n * size) * Bits \in Nat /\ h * Bits \in Nat
  BY <1>2, <1>3, SizesAssumption
<1>8. (h + n * size) * Bits < (PageSize + 1) * Bits
  BY <1>1, <1>2, <1>3, <1>4, <1>5, <1>6, <1>7, SizesAssumption
<1>9. h + n * size < PageSize + 1
  BY <1>3, <1>7, <1>8, Cancel, SizesAssumption
<1>10. h + n * size <= PageSize
  BY <1>3, <1>7, <1>9, SizesAssumption
<1> QED
  BY <1>2, <1>3, <1>10 DEF n, h

\* A page has no slot exactly when a tuple is as wide as the page: the
\* schemas for which InsertTuples of heap_file.cc adds empty pages for ever.
THEOREM NoSlotForWideTuples ==
  ASSUME NEW size \in Nat
  PROVE  SlotsOf(size) = 0 <=> size >= PageSize
<1> DEFINE p == PageSize * Bits
           w == size * Bits
<1>1. p \in Nat /\ w \in Nat /\ w + 1 \in Nat \ {0}
  BY SizesAssumption
<1>2. SlotsOf(size) = p \div (w + 1)
  BY DEF SlotsOf
<1>3. (size < PageSize) <=> (w < p)
  <2>1. ASSUME size < PageSize PROVE w < p
    <3>1. size + 1 <= PageSize
      BY <2>1, SizesAssumption
    <3>2. (size + 1) * Bits <= PageSize * Bits
      BY <3>1, SizesAssumption
    <3>3. (size + 1) * Bits = w + Bits
      BY SizesAssumption
    <3> QED
      BY <3>2, <3>3, <1>1, SizesAssumption
  <2>2. ASSUME w < p PROVE size < PageSize
    BY <2>2, Cancel, SizesAssumption
  <2> QED
    BY <2>1, <2>2
<1> HIDE DEF p, w
<1>4. p \div (w + 1) = 0 <=> p < w + 1
  BY <1>1
<1> QED
  BY <1>1, <1>2, <1>3, <1>4, SizesAssumption

\* The header has a bit for every slot: TuplePresent, MarkOccupied and
\* MarkFree of heap_page.cc never index past it.
THEOREM BitsInHeader ==
  ASSUME NEW n \in Nat, NEW i \in 0 .. (n - 1)
  PROVE  ByteOf(i) \in 1 .. HeaderOf(n)
<1> DEFINE q == i \div Bits
           h == HeaderOf(n)
<1>1. q \in Nat /\ q * Bits <= i
  BY Division, SizesAssumption
<1>2. h \in Nat /\ n + Bits - 1 < (h + 1) * Bits
  <2>1. n + Bits - 1 \in Nat
    BY SizesAssumption
  <2> QED
    BY <2>1, Division, SizesAssumption DEF HeaderOf
<1>3. ByteOf(i) = q + 1
  BY DEF ByteOf
<1> HIDE DEF q, h
<1>4. (q + 1) * Bits = q * Bits + Bits
  BY <1>1, SizesAssumption
<1>5. q * Bits \in Nat /\ (h + 1) * Bits \in Nat
  BY <1>1, <1>2, SizesAssumption
<1>6. (q + 1) * Bits < (h + 1) * Bits
  BY <1>1, <1>2, <1>4, <1>5, SizesAssumption
<1>7. q + 1 < h + 1
  BY <1>1, <1>2, <1>6, Cancel, SizesAssumption
<1> QED
  BY <1>1, <1>2, <1>3, <1>7 DEF h

-----------------------------------------------------------------------------
(* Byte arrays.                                                            *)

\* A byte array of n bytes.
Bytes(n) == [1 .. n -> Nat]

\* The columns: their widths and where they begin.
LEMMA Widths ==
  /\ SizeTo \in [Nat -> Nat]
  /\ SizeTo[0] = 0
  /\ \A n \in Nat : SizeTo[n + 1] = SizeTo[n] + GetLen(Desc[n + 1])
  /\ \A n \in Nat : GetLen(Desc[n]) \in Nat
<1> DEFINE W(n) == GetLen(Desc[n])
           F == [n \in Nat |-> [t \in Nat |-> t + W(n + 1)]]
           Eq(f) == f = [n \in Nat |-> IF n = 0 THEN 0 ELSE f[n - 1] + W(n)]
           S == {n \in Nat : SizeTo[n] \in Nat}
<1>0. \A n \in Nat : W(n) \in Nat
  BY SizesAssumption DEF GetLen, INT_LEN
<1> HIDE DEF W
<1>1. PICK f : Iterates(f, F, 0, Nat)
  <2>1. Steps(F, Nat)
    BY <1>0 DEF Steps
  <2> HIDE DEF F
  <2> QED BY <2>1, Iterate
<1>2. f \in [Nat -> Nat] /\ f[0] = 0 /\ \A n \in Nat : f[n + 1] = f[n] + W(n + 1)
  BY <1>1 DEF Iterates
<1>3. Eq(f)
  <2>1. ASSUME NEW n \in Nat, n # 0
        PROVE  f[n] = f[n - 1] + W(n)
    <3>1. n - 1 \in Nat /\ (n - 1) + 1 = n
      BY <2>1
    <3> QED BY <1>2, <3>1
  <2> QED BY <1>2, <2>1
<1>4. Eq(SizeTo)
  <2>1. SizeTo = CHOOSE g : Eq(g)
    BY DEF SizeTo, W
  <2> HIDE DEF Eq
  <2> QED BY <1>3, <2>1
<1> HIDE DEF SizeTo
<1>5. SizeTo[0] = 0 /\ \A n \in Nat : SizeTo[n + 1] = SizeTo[n] + W(n + 1)
  BY <1>4
<1>6. Nat \subseteq S
  <2>1. 0 \in S /\ \A n \in Nat : n \in S => n + 1 \in S
    BY <1>0, <1>5
  <2> HIDE DEF S
  <2> QED BY <2>1, SetInduction
<1> QED BY <1>0, <1>4, <1>5, <1>6 DEF W

LEMMA Inside ==
  ASSUME NEW n \in Nat, NEW m \in Nat, m <= n
  PROVE  SizeTo[m] <= SizeTo[n]
<1> DEFINE S == {k \in Nat : SizeTo[m] <= SizeTo[m + k]}
<1>1. 0 \in S
  BY Widths
<1>2. ASSUME NEW k \in Nat, k \in S
      PROVE  k + 1 \in S
  <2>1. /\ SizeTo[m + k + 1] = SizeTo[m + k] + GetLen(Desc[m + k + 1])
        /\ SizeTo[m + k] \in Nat /\ SizeTo[m] \in Nat /\ GetLen(Desc[m + k + 1]) \in Nat
    BY Widths
  <2> QED BY <1>2, <2>1
<1> HIDE DEF S
<1>3. n - m \in S
  BY <1>1, <1>2, SetInduction
<1> QED BY <1>3 DEF S

\* The slots fill the page after the header, and never overflow it.
LEMMA Layout ==
  /\ NumSlots \in Nat /\ HeaderLen \in Nat /\ GetSize \in Nat
  /\ Len(Desc) \in Nat /\ DOMAIN Desc = 1 .. Len(Desc)
  /\ HeaderLen + NumSlots * GetSize <= PageSize
<1>1. Len(Desc) \in Nat /\ DOMAIN Desc = 1 .. Len(Desc)
  BY SizesAssumption
<1>2. GetSize \in Nat
  BY <1>1, Widths DEF GetSize
<1> QED BY <1>1, <1>2, SlotsFit DEF NumSlots, HeaderLen

-----------------------------------------------------------------------------
(* Header bits.                                                            *)

LEMMA PlaceOfBit ==
  ASSUME NEW i \in Slot
  PROVE  /\ i \in Nat /\ ByteOf(i) \in 1 .. HeaderLen
         /\ i % Bits \in 0 .. (Bits - 1)
         /\ \A s \in Slot : ByteOf(i) = ByteOf(s) /\ i % Bits = s % Bits => i = s
<1>1. i \in Nat /\ i \in 0 .. (NumSlots - 1)
  BY Layout DEF Slot
<1>2. ByteOf(i) \in 1 .. HeaderLen
  BY <1>1, BitsInHeader, Layout DEF HeaderLen
<1>3. \A s \in Slot : /\ s \div Bits \in Nat
                      /\ s = (s \div Bits) * Bits + (s % Bits)
  <2> TAKE s \in Slot
  <2>1. s \in Nat /\ Bits \in Nat \ {0}
    BY Layout, SizesAssumption DEF Slot
  <2> QED BY <2>1, Division
<1>4. ASSUME NEW s \in Slot, ByteOf(i) = ByteOf(s)
      PROVE  i \div Bits = s \div Bits
  <2> DEFINE p == i \div Bits
             q == s \div Bits
  <2>1. p \in Nat /\ q \in Nat /\ p + 1 = q + 1
    BY <1>3, <1>4 DEF ByteOf
  <2> HIDE DEF p, q
  <2>2. p = q
    BY <2>1
  <2> QED BY <2>2 DEF p, q
<1>5. i % Bits \in 0 .. (Bits - 1)
  BY <1>1, SizesAssumption, Division
<1> QED BY <1>1, <1>2, <1>3, <1>4, <1>5

LEMMA PresentIsBit ==
  ASSUME NEW h, NEW i
  PROVE  TuplePresent(h, i) <=> BitOf(h[ByteOf(i)], i % Bits) = 1
  BY DEF TuplePresent, BitOf, Bit

\* MarkOccupied sets the bit of one slot and leaves those of the others.
LEMMA Marked ==
  ASSUME NEW h \in Bytes(HeaderLen), NEW i \in Slot
  PROVE  /\ MarkOccupied(h, i) \in Bytes(HeaderLen)
         /\ \A s \in Slot : TuplePresent(MarkOccupied(h, i), s)
                              <=> s = i \/ TuplePresent(h, s)
<1>1. CASE TuplePresent(h, i)
  BY <1>1 DEF MarkOccupied
<1>2. CASE ~TuplePresent(h, i)
  <2> DEFINE b == h[ByteOf(i)]
             k == i % Bits
             g == MarkOccupied(h, i)
  <2>1. /\ i \in Nat /\ ByteOf(i) \in 1 .. HeaderLen /\ k \in Nat /\ b \in Nat
        /\ TwoTo[k] \in Nat
    <3>1. i \in Nat /\ ByteOf(i) \in 1 .. HeaderLen /\ k \in 0 .. (Bits - 1)
      BY PlaceOfBit
    <3>2. k \in Nat /\ b \in Nat
      BY <3>1, SizesAssumption DEF Bytes
    <3> HIDE DEF k
    <3> QED BY <3>1, <3>2, Powers
  <2>2. g = [h EXCEPT ![ByteOf(i)] = b + TwoTo[k]]
    BY <1>2 DEF MarkOccupied, Bit
  <2>3. g \in Bytes(HeaderLen)
    BY <2>1, <2>2 DEF Bytes
  <2>4. BitOf(b, k) = 0
    <3>1. BitOf(b, k) \in {0, 1}
      <4>1. b \div TwoTo[k] \in Nat
        BY <2>1, Powers, Division
      <4> QED BY <4>1 DEF BitOf
    <3> QED BY <1>2, <3>1, PresentIsBit
  <2>5. /\ BitOf(b + TwoTo[k], k) = 1
        /\ \A l \in Nat \ {k} : BitOf(b + TwoTo[k], l) = BitOf(b, l)
    <3> HIDE DEF b, k
    <3> QED BY <2>1, <2>4, SetBit
  <2>6. ASSUME NEW s \in Slot
        PROVE  TuplePresent(g, s) <=> s = i \/ TuplePresent(h, s)
    <3> DEFINE l == s % Bits
    <3>1. /\ l \in Nat /\ ByteOf(s) \in 1 .. HeaderLen
          /\ ByteOf(i) = ByteOf(s) /\ k = l => i = s
      BY PlaceOfBit, SizesAssumption
    <3>2. TuplePresent(g, s) <=> BitOf(g[ByteOf(s)], l) = 1
      BY PresentIsBit
    <3>3. TuplePresent(h, s) <=> BitOf(h[ByteOf(s)], l) = 1
      BY PresentIsBit
    <3>4. g[ByteOf(s)] = IF ByteOf(s) = ByteOf(i) THEN b + TwoTo[k] ELSE h[ByteOf(s)]
      BY <2>2, <3>1 DEF Bytes
    <3> HIDE DEF g, k, l
    <3>5. CASE s = i
      BY <2>5, <3>2, <3>4, <3>5 DEF k, l
    <3>6. CASE s # i /\ ByteOf(s) = ByteOf(i)
      BY <2>5, <3>1, <3>2, <3>3, <3>4, <3>6
    <3>7. CASE s # i /\ ByteOf(s) # ByteOf(i)
      BY <3>2, <3>3, <3>4, <3>7
    <3> QED BY <3>5, <3>6, <3>7
  <2> QED BY <2>3, <2>6
<1> QED BY <1>1, <1>2

\* MarkFree clears the bit of one slot and leaves those of the others.
LEMMA Freed ==
  ASSUME NEW h \in Bytes(HeaderLen), NEW i \in Slot
  PROVE  /\ MarkFree(h, i) \in Bytes(HeaderLen)
         /\ \A s \in Slot : TuplePresent(MarkFree(h, i), s)
                              <=> s # i /\ TuplePresent(h, s)
<1>1. CASE ~TuplePresent(h, i)
  BY <1>1 DEF MarkFree
<1>2. CASE TuplePresent(h, i)
  <2> DEFINE b == h[ByteOf(i)]
             k == i % Bits
             g == MarkFree(h, i)
  <2>1. /\ i \in Nat /\ ByteOf(i) \in 1 .. HeaderLen /\ k \in Nat /\ b \in Nat
        /\ TwoTo[k] \in Nat
    <3>1. i \in Nat /\ ByteOf(i) \in 1 .. HeaderLen /\ k \in 0 .. (Bits - 1)
      BY PlaceOfBit
    <3>2. k \in Nat /\ b \in Nat
      BY <3>1, SizesAssumption DEF Bytes
    <3> HIDE DEF k
    <3> QED BY <3>1, <3>2, Powers
  <2>2. g = [h EXCEPT ![ByteOf(i)] = b - TwoTo[k]]
    BY <1>2 DEF MarkFree, Bit
  <2>3. BitOf(b, k) = 1
    BY <1>2, PresentIsBit
  <2>4. /\ b - TwoTo[k] \in Nat
        /\ BitOf(b - TwoTo[k], k) = 0
        /\ \A l \in Nat \ {k} : BitOf(b - TwoTo[k], l) = BitOf(b, l)
    <3> HIDE DEF b, k
    <3> QED BY <2>1, <2>3, ClearBit
  <2>5. g \in Bytes(HeaderLen)
    BY <2>1, <2>2, <2>4 DEF Bytes
  <2>6. ASSUME NEW s \in Slot
        PROVE  TuplePresent(g, s) <=> s # i /\ TuplePresent(h, s)
    <3> DEFINE l == s % Bits
    <3>1. /\ l \in Nat /\ ByteOf(s) \in 1 .. HeaderLen
          /\ ByteOf(i) = ByteOf(s) /\ k = l => i = s
      BY PlaceOfBit, SizesAssumption
    <3>2. TuplePresent(g, s) <=> BitOf(g[ByteOf(s)], l) = 1
      BY PresentIsBit
    <3>3. TuplePresent(h, s) <=> BitOf(h[ByteOf(s)], l) = 1
      BY PresentIsBit
    <3>4. g[ByteOf(s)] = IF ByteOf(s) = ByteOf(i) THEN b - TwoTo[k] ELSE h[ByteOf(s)]
      BY <2>2, <3>1 DEF Bytes
    <3> HIDE DEF g, k, l
    <3>5. CASE s = i
      BY <2>4, <3>2, <3>4, <3>5 DEF k, l
    <3>6. CASE s # i /\ ByteOf(s) = ByteOf(i)
      BY <2>4, <3>1, <3>2, <3>3, <3>4, <3>6
    <3>7. CASE s # i /\ ByteOf(s) # ByteOf(i)
      BY <3>2, <3>3, <3>4, <3>7
    <3> QED BY <3>5, <3>6, <3>7
  <2> QED BY <2>5, <2>6
<1> QED BY <1>1, <1>2

-----------------------------------------------------------------------------
(* The digits of an integer.                                               *)

\* The digits of a number are those it is made of ...
LEMMA DigitsOfNumber ==
  ASSUME NEW d0 \in 0 .. (Base - 1), NEW d1 \in 0 .. (Base - 1),
         NEW d2 \in 0 .. (Base - 1), NEW d3 \in 0 .. (Base - 1)
  PROVE  LET u == load32_le(<<d0, d1, d2, d3>>) IN
         /\ u \in Nat
         /\ Digit(u, 0) = d0 /\ Digit(u, 1) = d1
         /\ Digit(u, 2) = d2 /\ Digit(u, 3) = d3
<1> DEFINE B == Base
           k2 == d3 * B + d2
           k1 == k2 * B + d1
           u == k1 * B + d0
<1>1. load32_le(<<d0, d1, d2, d3>>) = u
  BY BaseType DEF load32_le, Place
<1>2. B \in Nat \ {0}
  BY BaseType
<1> HIDE DEF B
<1>3. d3 \in Nat /\ d3 % B = d3
  BY <1>2 DEF B
<1>4. k2 \in Nat /\ k2 \div B = d3 /\ k2 % B = d2
  BY <1>2, <1>3, DivisionUnique DEF B
<1> HIDE DEF k2
<1>5. k1 \in Nat /\ k1 \div B = k2 /\ k1 % B = d1
  BY <1>2, <1>4, DivisionUnique DEF B
<1> HIDE DEF k1
<1>6. u \in Nat /\ u \div B = k1 /\ u % B = d0
  BY <1>2, <1>5, DivisionUnique DEF B
<1> HIDE DEF u
<1>7. u \div (B * B) = k2
  BY <1>2, <1>5, <1>6, DivisionTwice
<1>8. u \div (B * B * B) = d3
  <2>1. B * B \in Nat \ {0}
    BY <1>2
  <2> QED
    BY <1>2, <1>4, <1>6, <1>7, <2>1, DivisionTwice
<1>9. u \div 1 = u
  BY <1>6
<1> QED
  BY <1>1, <1>3, <1>4, <1>5, <1>6, <1>7, <1>8, <1>9 DEF Digit, Place, B

\* ... and make it, if four are enough.
LEMMA NumberOfDigits ==
  ASSUME NEW u \in Nat, u < Modulus
  PROVE  /\ \A k \in 0 .. 3 : Digit(u, k) \in 0 .. (Base - 1)
         /\ load32_le(Memory(u)) = u
<1> DEFINE B == Base
           k1 == u \div B
           k2 == k1 \div B
           k3 == k2 \div B
<1>1. B \in Nat \ {0} /\ B * B \in Nat \ {0} /\ B * B * B \in Nat \ {0}
  BY BaseType
<1>2. k1 \in Nat /\ u = k1 * B + (u % B) /\ u % B \in 0 .. (B - 1)
  BY <1>1, Division
<1> HIDE DEF B
<1>3. k2 = u \div (B * B)
  BY <1>1, DivisionTwice
<1>4. k3 = u \div (B * B * B)
  <2> HIDE DEF k2
  <2>1. (u \div (B * B)) \div B = u \div (B * B * B)
    BY <1>1, DivisionTwice
  <2> QED
    BY <1>3, <2>1
<1> HIDE DEF k1
<1>5. k2 \in Nat /\ k1 = k2 * B + (k1 % B) /\ k1 % B \in 0 .. (B - 1)
  BY <1>1, <1>2, Division
<1> HIDE DEF k2
<1>6. k3 \in Nat /\ k2 = k3 * B + (k2 % B) /\ k2 % B \in 0 .. (B - 1)
  BY <1>1, <1>5, Division
<1>7. k3 * (B * B * B) <= u
  BY <1>1, <1>4, Division
<1> HIDE DEF k3
<1>8. u < B * (B * B * B)
  BY BaseType DEF Modulus, Place, INT_LEN, B
<1>9. k3 < B
  <2>1. k3 * (B * B * B) < B * (B * B * B)
    BY <1>1, <1>6, <1>7, <1>8
  <2> QED
    BY <1>1, <1>6, <2>1, Cancel
<1>10. k3 % B = k3
  BY <1>1, <1>6, <1>9
<1>11. /\ Digit(u, 0) = u % B /\ Digit(u, 1) = k1 % B
       /\ Digit(u, 2) = k2 % B /\ Digit(u, 3) = k3
  <2>1. u \div 1 = u
    OBVIOUS
  <2> QED
    BY <1>3, <1>4, <1>10, <2>1 DEF Digit, Place, B, k1
<1>12. \A k \in 0 .. 3 : Digit(u, k) \in 0 .. (Base - 1)
  BY <1>2, <1>5, <1>6, <1>9, <1>11, BaseType DEF B
<1>13. load32_le(Memory(u)) =
         (u % B) * 1 + (k1 % B) * B + (k2 % B) * (B * B) + k3 * (B * B * B)
  BY <1>11 DEF load32_le, Memory, Place, B
<1>14. u = ((k3 * B + (k2 % B)) * B + (k1 % B)) * B + (u % B)
  BY <1>2, <1>5, <1>6
<1> QED
  BY <1>1, <1>2, <1>5, <1>6, <1>12, <1>13, <1>14

\* An integer of 4 bytes is read back from the file as it was: writing swaps
\* its bytes (htonl) and reading swaps them back (ntohl), and the sign is kept.
THEOREM IntegersKept ==
  ASSUME NEW n \in Int, -Modulus <= 2 * n, 2 * n < Modulus
  PROVE  ParseInt(DumpInt(n)) = n
<1> DEFINE u == Unsigned(n)
           s == Swap(u)
<1>1. Modulus \in Nat \ {0}
  BY BaseType DEF Modulus, Place, INT_LEN
<1>2. u \in Nat /\ u < Modulus /\ Signed(u) = n
  BY <1>1 DEF Unsigned, Signed
<1> HIDE DEF u
<1>3. /\ \A k \in 0 .. 3 : Digit(u, k) \in 0 .. (Base - 1)
      /\ load32_le(Memory(u)) = u
  BY <1>2, NumberOfDigits
<1>4. /\ s \in Nat
      /\ Digit(s, 0) = Digit(u, 3) /\ Digit(s, 1) = Digit(u, 2)
      /\ Digit(s, 2) = Digit(u, 1) /\ Digit(s, 3) = Digit(u, 0)
  BY <1>3, DigitsOfNumber DEF Swap
<1>5. s < Modulus
  BY <1>3, BaseType DEF s, Swap, load32_le, Modulus, Place, INT_LEN
<1> HIDE DEF s
<1>6. load32_le(Memory(s)) = s
  BY <1>4, <1>5, NumberOfDigits
<1>7. Swap(s) = load32_le(Memory(u))
  BY <1>4 DEF Swap, Memory
<1>8. Signed(Swap(load32_le(Memory(s)))) = n
  BY <1>2, <1>3, <1>6, <1>7
<1> QED
  BY <1>8 DEF ParseInt, DumpInt, u, s

-----------------------------------------------------------------------------
(* What a field is on file.                                                *)

LEMMA IntBytes ==
  ASSUME NEW n \in Int
  PROVE  DumpInt(n) \in Bytes(INT_LEN)
<1>1. Base \in Nat \ {0} /\ \A k \in 1 .. 4 : Place[k] \in Nat \ {0}
  BY BaseType DEF Place
<1>2. Modulus \in Nat \ {0}
  BY <1>1 DEF Modulus, INT_LEN
<1>3. \A u \in Nat : \A k \in 0 .. 3 : Digit(u, k) \in Nat
  <2> TAKE u \in Nat
  <2> TAKE k \in 0 .. 3
  <2>1. Place[k + 1] \in Nat \ {0}
    BY <1>1
  <2>2. u \div Place[k + 1] \in Nat
    BY <2>1, Division
  <2> DEFINE x == u \div Place[k + 1]
             b == Base
  <2> HIDE DEF x, b
  <2>3. x \in Nat /\ b \in Nat \ {0}
    BY <1>1, <2>2 DEF x, b
  <2>4. x % b \in Nat
    BY <2>3, Division
  <2> QED BY <2>4 DEF Digit, x, b
<1>4. Unsigned(n) \in Nat
  BY <1>2 DEF Unsigned
<1>5. Swap(Unsigned(n)) \in Nat
  <2>1. \A d0, d1, d2, d3 \in Nat : load32_le(<<d0, d1, d2, d3>>) \in Nat
    BY <1>1 DEF load32_le
  <2> DEFINE u == Unsigned(n)
  <2> HIDE DEF u
  <2>2. Digit(u, 0) \in Nat /\ Digit(u, 1) \in Nat /\ Digit(u, 2) \in Nat /\ Digit(u, 3) \in Nat
    BY <1>3, <1>4 DEF u
  <2>3. Swap(u) \in Nat
    BY <2>1, <2>2 DEF Swap
  <2> QED BY <2>3 DEF u
<1> QED BY <1>3, <1>5 DEF DumpInt, Memory, Bytes, INT_LEN

LEMMA TextBytes ==
  ASSUME NEW s \in Seq(Nat), Len(s) <= STR_LEN
  PROVE  /\ DumpString(s) \in Bytes(STR_LEN + INT_LEN)
         /\ \A k \in 1 .. INT_LEN : DumpString(s)[k] = DumpInt(Len(s))[k]
         /\ \A k \in 1 .. Len(s) : DumpString(s)[INT_LEN + k] = s[k]
         /\ \A k \in (Len(s) + 1) .. STR_LEN : DumpString(s)[INT_LEN + k] = 0
<1> DEFINE n == Len(s)
           d == DumpInt(n)
           z == Zeros(STR_LEN - n)
<1>1. n \in Nat /\ STR_LEN \in Nat /\ STR_LEN - n \in Nat
  BY SizesAssumption, LenProperties
<1>2. d \in Seq(Nat) /\ Len(d) = INT_LEN
  <2>1. n \in Int /\ INT_LEN \in Nat
    BY <1>1 DEF INT_LEN
  <2>2. d \in [1 .. INT_LEN -> Nat]
    BY <2>1, IntBytes DEF Bytes
  <2> HIDE DEF d
  <2> QED BY <2>1, <2>2, SeqOfLen
<1>3. z \in Seq(Nat) /\ Len(z) = STR_LEN - n /\ \A k \in 1 .. (STR_LEN - n) : z[k] = 0
  <2>1. z \in [1 .. (STR_LEN - n) -> Nat]
    BY DEF Zeros
  <2> QED BY <1>1, <2>1, SeqOfLen DEF Zeros
<1> HIDE DEF d, z
<1>4. /\ d \o s \in Seq(Nat) /\ Len(d \o s) = INT_LEN + n
      /\ \A i \in 1 .. (INT_LEN + n) :
           (d \o s)[i] = IF i <= INT_LEN THEN d[i] ELSE s[i - INT_LEN]
  BY <1>2, ConcatProperties
<1> DEFINE ds == d \o s
<1> HIDE DEF ds
<1>5. /\ ds \o z \in Seq(Nat) /\ Len(ds \o z) = INT_LEN + n + (STR_LEN - n)
      /\ \A i \in 1 .. (INT_LEN + n + (STR_LEN - n)) :
           (ds \o z)[i] = IF i <= INT_LEN + n THEN ds[i] ELSE z[i - (INT_LEN + n)]
  <2>1. ds \in Seq(Nat) /\ Len(ds) = INT_LEN + n
    BY <1>4 DEF ds
  <2>2. z \in Seq(Nat)
    BY <1>3
  <2>3. /\ ds \o z \in Seq(Nat) /\ Len(ds \o z) = Len(ds) + Len(z)
        /\ \A i \in 1 .. (Len(ds) + Len(z)) :
             (ds \o z)[i] = IF i <= Len(ds) THEN ds[i] ELSE z[i - Len(ds)]
    BY <2>1, <2>2, ConcatProperties
  <2> QED BY <1>3, <2>1, <2>3
<1>6. DumpString(s) = ds \o z
  BY DEF DumpString, ds, d, z
<1>7. DumpString(s) \in Bytes(STR_LEN + INT_LEN)
  <2>1. INT_LEN + n + (STR_LEN - n) = STR_LEN + INT_LEN /\ STR_LEN + INT_LEN \in Nat
    BY <1>1 DEF INT_LEN
  <2> QED BY <1>5, <1>6, <2>1, SeqOfLen, ZenonT(30) DEF Bytes
<1>8. ASSUME NEW k \in 1 .. INT_LEN PROVE DumpString(s)[k] = d[k]
  BY <1>1, <1>4, <1>5, <1>6 DEF INT_LEN, ds
<1>9. ASSUME NEW k \in 1 .. n PROVE DumpString(s)[INT_LEN + k] = s[k]
  BY <1>1, <1>4, <1>5, <1>6 DEF INT_LEN, ds
<1>10. ASSUME NEW k \in (n + 1) .. STR_LEN PROVE DumpString(s)[INT_LEN + k] = 0
  <2>1. /\ INT_LEN + k \in 1 .. (INT_LEN + n + (STR_LEN - n))
        /\ ~(INT_LEN + k <= INT_LEN + n)
        /\ (INT_LEN + k) - (INT_LEN + n) \in 1 .. (STR_LEN - n)
    BY <1>1 DEF INT_LEN
  <2> QED BY <1>3, <1>5, <1>6, <2>1
<1> QED BY <1>7, <1>8, <1>9, <1>10 DEF d

\* A field that fits is as wide as its column.
LEMMA FieldBytes ==
  ASSUME NEW j \in DOMAIN Desc, NEW v, IsField(Desc[j], v),
         Desc[j] = "str" => Len(v) <= STR_LEN
  PROVE  DumpField(j, v) \in Bytes(GetLen(Desc[j]))
<1>1. Desc[j] \in {"int", "str"}
  BY SizesAssumption, ElementOfSeq
<1>2. CASE Desc[j] = "int"
  BY <1>2, IntBytes DEF DumpField, IsField, GetLen
<1>3. CASE Desc[j] = "str"
  <2>1. v \in Seq(Nat)
    BY <1>3, BaseType, SeqMonotonic DEF IsField
  <2> QED BY <1>3, <2>1, TextBytes DEF DumpField, GetLen
<1> QED BY <1>1, <1>2, <1>3

-----------------------------------------------------------------------------
(* What a page is on file.                                                 *)

LEMMA RowFields ==
  ASSUME NEW row \in Row
  PROVE  /\ row = [j \in DOMAIN Desc |-> row[j]]
         /\ \A j \in DOMAIN Desc : IsField(Desc[j], row[j])
  BY RowAssumption

\* The fields of a record that fits follow each other in its slot.
LEMMA RowBytes ==
  ASSUME NEW row \in Row, ~TooLong(row)
  PROVE  LET d == Joined([j \in DOMAIN Desc |-> DumpField(j, row[j])]) IN
         /\ d \in Bytes(GetSize)
         /\ \A j \in DOMAIN Desc : \A k \in 1 .. GetLen(Desc[j]) :
              /\ SizeTo[j - 1] + k \in 1 .. GetSize
              /\ d[SizeTo[j - 1] + k] = DumpField(j, row[j])[k]
<1> DEFINE N == Len(Desc)
           pieces == [j \in DOMAIN Desc |-> DumpField(j, row[j])]
<1>1. N \in Nat /\ DOMAIN Desc = 1 .. N
  BY Layout
<1>2. ASSUME NEW j \in 1 .. N
      PROVE  /\ pieces[j] \in Seq(Nat)
             /\ Len(pieces[j]) = GetLen(Desc[j])
             /\ SizeTo[j] = SizeTo[j - 1] + GetLen(Desc[j])
  <2>1. DumpField(j, row[j]) \in Bytes(GetLen(Desc[j]))
    <3>1. Desc[j] = "str" => Len(row[j]) \in Nat /\ ~(Len(row[j]) > STR_LEN)
      BY <1>1, RowFields, LenProperties DEF TooLong, IsField
    <3>2. Desc[j] = "str" => Len(row[j]) <= STR_LEN
      BY <3>1, SizesAssumption
    <3> QED BY <1>1, <3>2, RowFields, FieldBytes
  <2>2. /\ j \in Nat /\ GetLen(Desc[j]) \in Nat /\ j - 1 \in Nat
        /\ SizeTo[(j - 1) + 1] = SizeTo[j - 1] + GetLen(Desc[(j - 1) + 1])
        /\ (j - 1) + 1 = j
    <3>1. j \in Nat /\ j - 1 \in Nat /\ (j - 1) + 1 = j
      BY <1>1
    <3> QED BY <3>1, Widths
  <2>3. pieces[j] = DumpField(j, row[j])
    BY <1>1
  <2> HIDE DEF pieces
  <2>4. pieces[j] \in [1 .. GetLen(Desc[j]) -> Nat]
    BY <2>1, <2>3 DEF Bytes
  <2> QED BY <2>2, <2>4, SeqOfLen
<1>3. pieces \in Seq(Seq(Nat)) /\ Len(pieces) = N
  <2>1. pieces \in [1 .. N -> Seq(Nat)]
    BY <1>1, <1>2
  <2> HIDE DEF pieces
  <2> QED BY <1>1, <2>1, SeqOfLen
<1> HIDE DEF pieces, N
<1>4. /\ Joined(pieces) \in Bytes(SizeTo[Len(pieces)])
      /\ \A n \in 1 .. Len(pieces) : \A k \in 1 .. Len(pieces[n]) :
           /\ SizeTo[n - 1] + k \in 1 .. SizeTo[Len(pieces)]
           /\ Joined(pieces)[SizeTo[n - 1] + k] = pieces[n][k]
  <2>1. \A n \in 1 .. Len(pieces) : SizeTo[n] = SizeTo[n - 1] + Len(pieces[n])
    BY <1>2, <1>3
  <2> QED BY <1>3, <2>1, Widths, JoinedPieces, ZenonT(40) DEF Bytes
<1>5. SizeTo[Len(pieces)] = GetSize
  BY <1>3 DEF GetSize, N
<1>6. \A j \in 1 .. N : pieces[j] = DumpField(j, row[j])
  BY <1>1 DEF pieces
<1> DEFINE d == Joined(pieces)
<1> HIDE DEF d
<1>7. d \in Bytes(GetSize)
  BY <1>4, <1>5 DEF d
<1>8. ASSUME NEW j \in DOMAIN Desc, NEW k \in 1 .. GetLen(Desc[j])
      PROVE  /\ SizeTo[j - 1] + k \in 1 .. GetSize
             /\ d[SizeTo[j - 1] + k] = DumpField(j, row[j])[k]
  <2>1. j \in 1 .. Len(pieces) /\ k \in 1 .. Len(pieces[j])
    BY <1>1, <1>2, <1>3
  <2> QED BY <1>1, <1>4, <1>5, <1>6, <2>1 DEF d
<1> QED BY <1>7, <1>8 DEF d, pieces

\* A record as GetPageData may meet it: of the table, and within its columns.
Fits(row) == row \in Row /\ ~TooLong(row)

\* Every record present can be written.
AllFit == \A i \in Slot : TuplePresent(header, i) => Fits(records[i])

\* The field j of slot i begins at At(i, j) and lies in the page.
LEMMA FieldInPage ==
  ASSUME NEW i \in Slot, NEW j \in DOMAIN Desc
  PROVE  /\ At(i, j) \in Nat \ {0}
         /\ At(i, j) + GetLen(Desc[j]) - 1 <= PageSize
         /\ At(i, j) = HeaderLen + i * GetSize + SizeTo[j - 1] + 1
         /\ SizeTo[j - 1] + GetLen(Desc[j]) <= GetSize
<1>1. /\ NumSlots \in Nat /\ HeaderLen \in Nat /\ GetSize \in Nat
      /\ HeaderLen + NumSlots * GetSize <= PageSize
      /\ i \in Nat /\ i + 1 <= NumSlots
  BY Layout DEF Slot
<1>2. j \in Nat /\ j - 1 \in Nat /\ (j - 1) + 1 = j /\ j <= Len(Desc) /\ Len(Desc) \in Nat
  BY Layout
<1>3. /\ SizeTo[j - 1] \in Nat /\ GetLen(Desc[j]) \in Nat /\ SizeTo[j] \in Nat
      /\ SizeTo[j] = SizeTo[j - 1] + GetLen(Desc[j])
  BY <1>2, Widths
<1>4. SizeTo[j] <= GetSize
  BY <1>2, Inside DEF GetSize
<1>5. At(i, j) = HeaderLen + i * GetSize + SizeTo[j - 1] + 1
  BY DEF At
<1> DEFINE a == SizeTo[j - 1]
           l == GetLen(Desc[j])
           g == GetSize
           h == HeaderLen
<1>6. a \in Nat /\ l \in Nat /\ g \in Nat /\ h \in Nat /\ a + l <= g
  BY <1>1, <1>3, <1>4
<1>7. h + NumSlots * g <= PageSize /\ At(i, j) = h + i * g + a + 1
  BY <1>1, <1>5
<1> HIDE DEF a, l, g, h
<1>8. i * g \in Nat /\ i * g + g <= NumSlots * g
  <2>1. i * g + g = (i + 1) * g
    BY <1>1, <1>6
  <2>2. (i + 1) * g <= NumSlots * g
    BY <1>1, <1>6
  <2> QED BY <1>1, <1>6, <2>1, <2>2
<1>9. NumSlots * g \in Nat
  BY <1>1, <1>6
<1>10. At(i, j) \in Nat \ {0} /\ At(i, j) + l - 1 <= PageSize
  BY <1>6, <1>7, <1>8, <1>9, SizesAssumption
<1> QED BY <1>5, <1>6, <1>10 DEF a, l, g, h

\* Each slot of the image is as wide as a tuple.
LEMMA SlotBytes ==
  ASSUME AllFit
  PROVE  /\ DumpSlots \in Bytes(NumSlots * GetSize)
         /\ \A i \in Slot : \A k \in 1 .. GetSize :
              /\ i * GetSize + k \in 1 .. (NumSlots * GetSize)
              /\ DumpSlots[i * GetSize + k] = DumpSlot(i)[k]
<1> DEFINE g == GetSize
           pieces == [n \in 1 .. NumSlots |-> DumpSlot(n - 1)]
           at == [n \in Nat |-> n * g]
<1>1. NumSlots \in Nat /\ g \in Nat
  BY Layout
<1>2. \A i \in Slot : DumpSlot(i) \in Bytes(g)
  <2> TAKE i \in Slot
  <2>1. CASE TuplePresent(header, i)
    BY <2>1, RowBytes DEF AllFit, Fits, DumpSlot
  <2>2. CASE ~TuplePresent(header, i)
    <3>1. Zeros(g) \in Bytes(g)
      BY <1>1 DEF Zeros, Bytes
    <3> QED BY <2>2, <3>1 DEF DumpSlot
  <2> QED BY <2>1, <2>2
<1> HIDE DEF g
<1>3. ASSUME NEW n \in 1 .. NumSlots
      PROVE  /\ pieces[n] = DumpSlot(n - 1)
             /\ pieces[n] \in Seq(Nat) /\ Len(pieces[n]) = g
             /\ at[n] = at[n - 1] + g
  <2>1. n - 1 \in Slot /\ n \in Nat /\ n - 1 \in Nat
    BY <1>1 DEF Slot
  <2>2. pieces[n] \in [1 .. g -> Nat]
    BY <1>2, <2>1 DEF Bytes
  <2>3. n * g = (n - 1) * g + g
    BY <1>1, <2>1
  <2>4. at[n] = at[n - 1] + g
    BY <2>1, <2>3
  <2> HIDE DEF at
  <2>5. pieces[n] = DumpSlot(n - 1)
    OBVIOUS
  <2> HIDE DEF pieces
  <2> QED BY <1>1, <2>2, <2>4, <2>5, SeqOfLen
<1>4. pieces \in Seq(Seq(Nat)) /\ Len(pieces) = NumSlots
  <2>1. pieces \in [1 .. NumSlots -> Seq(Nat)]
    BY <1>3
  <2> HIDE DEF pieces
  <2> QED BY <1>1, <2>1, SeqOfLen
<1>5. at \in [Nat -> Nat] /\ at[0] = 0 /\ at[NumSlots] = NumSlots * g
  BY <1>1
<1>6. DumpSlots = Joined(pieces)
  BY DEF DumpSlots
<1> HIDE DEF pieces
<1>7. /\ Joined(pieces) \in Bytes(at[Len(pieces)])
      /\ \A n \in 1 .. Len(pieces) : \A k \in 1 .. Len(pieces[n]) :
           /\ at[n - 1] + k \in 1 .. at[Len(pieces)]
           /\ Joined(pieces)[at[n - 1] + k] = pieces[n][k]
  <2>1. \A n \in 1 .. Len(pieces) : at[n] = at[n - 1] + Len(pieces[n])
    BY <1>3, <1>4
  <2> HIDE DEF at
  <2>2. pieces \in Seq(Seq(Nat)) /\ at \in [Nat -> Nat] /\ at[0] = 0
    BY <1>4, <1>5
  <2>3. /\ Joined(pieces) \in [1 .. at[Len(pieces)] -> Nat]
        /\ \A n \in 1 .. Len(pieces) : \A k \in 1 .. Len(pieces[n]) :
             /\ at[n - 1] + k \in 1 .. at[Len(pieces)]
             /\ Joined(pieces)[at[n - 1] + k] = pieces[n][k]
    BY <2>1, <2>2, JoinedPieces, ZenonT(30)
  <2> QED BY <2>3 DEF Bytes
<1>8. ASSUME NEW i \in Slot, NEW k \in 1 .. g
      PROVE  /\ i * g + k \in 1 .. (NumSlots * g)
             /\ DumpSlots[i * g + k] = DumpSlot(i)[k]
  <2>1. i + 1 \in 1 .. NumSlots /\ (i + 1) - 1 = i /\ i \in Nat
    BY <1>1 DEF Slot
  <2>2. at[i] = i * g
    BY <2>1
  <2>3. Len(pieces[i + 1]) = g /\ pieces[i + 1] = DumpSlot(i)
    BY <1>3, <2>1
  <2> HIDE DEF at
  <2>4. /\ at[(i + 1) - 1] + k \in 1 .. at[Len(pieces)]
        /\ Joined(pieces)[at[(i + 1) - 1] + k] = pieces[i + 1][k]
    BY <1>4, <1>7, <2>1, <2>3
  <2> QED BY <1>4, <1>5, <1>6, <2>1, <2>2, <2>3, <2>4
<1>9. DumpSlots \in Bytes(NumSlots * g)
  <2> HIDE DEF at
  <2> QED BY <1>4, <1>5, <1>6, <1>7
<1> QED BY <1>8, <1>9 DEF g

\* The image is a page: its header, then its slots, then zeros.
LEMMA PageBytes ==
  ASSUME header \in Bytes(HeaderLen), AllFit
  PROVE  /\ GetPageData \in Bytes(PageSize)
         /\ HeaderIn(GetPageData) = header
         /\ \A i \in Slot : \A k \in 1 .. GetSize :
              GetPageData[HeaderLen + i * GetSize + k] = DumpSlot(i)[k]
<1> DEFINE h == HeaderLen
           l == NumSlots * GetSize
           s == DumpSlots
           b == header \o s
           z == Zeros(PageSize - (h + l))
<1>1. h \in Nat /\ l \in Nat /\ h + l <= PageSize /\ PageSize \in Nat /\ PageSize - (h + l) \in Nat
  <2>1. NumSlots \in Nat /\ GetSize \in Nat /\ h \in Nat /\ h + l <= PageSize
    BY Layout
  <2>2. l \in Nat
    BY <2>1
  <2> HIDE DEF h, l
  <2> QED BY <2>1, <2>2, SizesAssumption
<1>2. /\ s \in [1 .. l -> Nat] /\ header \in [1 .. h -> Nat]
      /\ \A i \in Slot : \A k \in 1 .. GetSize :
           i * GetSize + k \in 1 .. l /\ s[i * GetSize + k] = DumpSlot(i)[k]
  BY SlotBytes DEF Bytes
<1> HIDE DEF s, h, l
<1>3. s \in Seq(Nat) /\ Len(s) = l /\ header \in Seq(Nat) /\ Len(header) = h
  BY <1>1, <1>2, SeqOfLen
<1>4. /\ b \in Seq(Nat) /\ Len(b) = h + l
      /\ \A n \in 1 .. (h + l) : b[n] = IF n <= h THEN header[n] ELSE s[n - h]
  BY <1>3, ConcatProperties
<1>5. z \in Seq(Nat) /\ Len(z) = PageSize - (h + l)
  <2>1. z \in [1 .. (PageSize - (h + l)) -> Nat]
    BY <1>1 DEF Zeros
  <2> HIDE DEF z
  <2> QED BY <1>1, <2>1, SeqOfLen
<1>6. GetPageData = b \o z
  BY <1>4 DEF GetPageData, s
<1> HIDE DEF b, z
<1> DEFINE p == GetPageData
<1>7. /\ p \in Seq(Nat) /\ Len(p) = PageSize
      /\ \A n \in 1 .. (h + l) : p[n] = b[n]
  <2>1. /\ p \in Seq(Nat) /\ Len(p) = Len(b) + Len(z)
        /\ \A n \in 1 .. (Len(b) + Len(z)) :
             p[n] = IF n <= Len(b) THEN b[n] ELSE z[n - Len(b)]
    <3>1. b \in Seq(Nat) /\ z \in Seq(Nat)
      BY <1>4, <1>5
    <3> QED BY <1>6, <3>1, ConcatProperties
  <2>2. Len(b) + Len(z) = PageSize /\ Len(b) = h + l
    BY <1>1, <1>4, <1>5
  <2>3. ASSUME NEW n \in 1 .. (h + l) PROVE p[n] = b[n]
    <3>1. n \in 1 .. PageSize /\ n <= h + l
      BY <1>1
    <3> HIDE DEF p
    <3> QED BY <2>1, <2>2, <3>1
  <2> HIDE DEF p
  <2> QED BY <2>1, <2>2, <2>3
<1> HIDE DEF p
<1>8. p \in Bytes(PageSize)
  BY <1>1, <1>7, SeqOfLen DEF Bytes
<1>9. HeaderIn(p) = header
  <2>1. /\ SubSeq(p, 1, h) \in Seq(Nat)
        /\ Len(SubSeq(p, 1, h)) = h
        /\ \A n \in 1 .. h : SubSeq(p, 1, h)[n] = p[n]
    <3>1. \A n \in 1 .. h : p[n] \in Nat
      BY <1>1, <1>2, <1>4, <1>7
    <3>2. 1 \in Int /\ h \in Int
      BY <1>1
    <3>3. /\ SubSeq(p, 1, h) \in Seq(Nat)
          /\ Len(SubSeq(p, 1, h)) = IF 1 <= h THEN h - 1 + 1 ELSE 0
          /\ \A n \in 1 .. h - 1 + 1 : SubSeq(p, 1, h)[n] = p[1 + n - 1]
      BY <3>1, <3>2, SubSeqProperties
    <3>4. h - 1 + 1 = h /\ (IF 1 <= h THEN h - 1 + 1 ELSE 0) = h /\ \A n \in 1 .. h : 1 + n - 1 = n
      BY <1>1
    <3> QED BY <3>3, <3>4
  <2>2. SubSeq(p, 1, h) \in [1 .. h -> Nat]
    BY <1>1, <2>1, SeqOfLen
  <2>3. \A n \in 1 .. h : SubSeq(p, 1, h)[n] = header[n]
    BY <1>1, <1>4, <1>7, <2>1
  <2>4. SubSeq(p, 1, h) = header
    <3> DEFINE f == SubSeq(p, 1, h)
               S == 1 .. h
    <3>1. f \in [S -> Nat] /\ header \in [S -> Nat]
      BY <1>2, <2>2
    <3>2. \A n \in S : f[n] = header[n]
      BY <2>3
    <3> HIDE DEF f, S
    <3>3. f = header
      BY <3>1, <3>2, SameFunction
    <3> QED BY <3>3 DEF f
  <2> QED BY <2>4 DEF HeaderIn, h
<1>10. ASSUME NEW i \in Slot, NEW k \in 1 .. GetSize
       PROVE  p[h + i * GetSize + k] = DumpSlot(i)[k]
  <2> DEFINE x == i * GetSize + k
  <2>1. x \in 1 .. l /\ s[x] = DumpSlot(i)[k]
    BY <1>2
  <2>2. h + i * GetSize + k = h + x
    <3>1. i \in Nat /\ GetSize \in Nat
      BY Layout DEF Slot
    <3>2. i * GetSize \in Nat /\ k \in Nat
      BY <3>1
    <3> QED BY <1>1, <3>2
  <2> HIDE DEF x
  <2>3. h + x \in 1 .. (h + l) /\ ~(h + x <= h) /\ (h + x) - h = x
    BY <1>1, <2>1
  <2> QED BY <1>4, <1>7, <2>1, <2>2, <2>3
<1> QED BY <1>8, <1>9, <1>10 DEF p, h

\* data holds row in slot i, field after field.
Dumped(data, i, row) ==
  /\ Fits(row)
  /\ \A j \in DOMAIN Desc : \A k \in 1 .. GetLen(Desc[j]) :
       data[At(i, j) + k - 1] = DumpField(j, row[j])[k]

\* GetPageData writes every record present.
LEMMA PageHolds ==
  ASSUME header \in Bytes(HeaderLen), AllFit,
         NEW i \in Slot, TuplePresent(header, i)
  PROVE  Dumped(GetPageData, i, records[i])
<1> DEFINE row == records[i]
           d == Joined([j \in DOMAIN Desc |-> DumpField(j, row[j])])
<1>1. row \in Row /\ ~TooLong(row) /\ Fits(row)
  BY DEF AllFit, Fits
<1>2. DumpSlot(i) = d
  BY DEF DumpSlot
<1> HIDE DEF row
<1>3. \A j \in DOMAIN Desc : \A k \in 1 .. GetLen(Desc[j]) :
        /\ SizeTo[j - 1] + k \in 1 .. GetSize
        /\ d[SizeTo[j - 1] + k] = DumpField(j, row[j])[k]
  BY <1>1, RowBytes
<1> HIDE DEF d
<1>4. ASSUME NEW j \in DOMAIN Desc, NEW k \in 1 .. GetLen(Desc[j])
      PROVE  GetPageData[At(i, j) + k - 1] = DumpField(j, row[j])[k]
  <2> DEFINE x == SizeTo[j - 1] + k
             y == i * GetSize
  <2>1. x \in 1 .. GetSize /\ d[x] = DumpField(j, row[j])[k]
    BY <1>3
  <2>2. GetPageData[HeaderLen + i * GetSize + x] = DumpSlot(i)[x]
    <3> HIDE DEF x
    <3> QED BY <2>1, PageBytes
  <2>3. At(i, j) + k - 1 = HeaderLen + i * GetSize + x
    <3>1. HeaderLen \in Nat /\ GetSize \in Nat /\ i \in Nat /\ j - 1 \in Nat /\ k \in Int
      <4>1. HeaderLen \in Nat /\ GetSize \in Nat /\ NumSlots \in Nat
        BY Layout
      <4>2. i \in Nat /\ k \in Int
        BY <4>1 DEF Slot
      <4>3. j - 1 \in Nat
        BY Layout
      <4> QED BY <4>1, <4>2, <4>3
    <3>2. y \in Nat /\ SizeTo[j - 1] \in Nat
      BY <3>1, Widths
    <3>3. At(i, j) = HeaderLen + y + SizeTo[j - 1] + 1
      BY DEF At
    <3> HIDE DEF y
    <3>4. (HeaderLen + y + SizeTo[j - 1] + 1) + k - 1 = HeaderLen + y + (SizeTo[j - 1] + k)
      BY <3>1, <3>2
    <3> QED BY <3>3, <3>4 DEF y
  <2> HIDE DEF x
  <2> QED BY <1>2, <2>1, <2>2, <2>3
<1> QED BY <1>1, <1>4 DEF Dumped, row

-----------------------------------------------------------------------------
(* Reading a page back.                                                    *)

LEMMA IntRead ==
  ASSUME NEW bytes \in Seq(Nat), NEW i \in Nat \ {0}, i + INT_LEN - 1 <= Len(bytes),
         NEW v \in Int, -Modulus <= 2 * v, 2 * v < Modulus,
         \A k \in 1 .. INT_LEN : bytes[i + k - 1] = DumpInt(v)[k]
  PROVE  ParseInt(SubSeq(bytes, i, i + INT_LEN - 1)) = v
<1> DEFINE d == DumpInt(v)
<1>1. INT_LEN \in Nat /\ d \in [1 .. INT_LEN -> Nat]
  BY IntBytes DEF Bytes, INT_LEN
<1>2. ParseInt(d) = v
  BY IntegersKept
<1> HIDE DEF d
<1>3. \A k \in 1 .. INT_LEN : bytes[i + k - 1] = d[k]
  BY DEF d
<1>4. SubSeq(bytes, i, i + INT_LEN - 1) = d
  BY <1>1, <1>3, Slice, SMTT(30)
<1> QED BY <1>2, <1>4

\* Where some byte is zero, a C string ends before the first one.
LEMMA FirstZero ==
  ASSUME NEW bytes \in Seq(Nat), NEW i \in Nat \ {0}, i <= Len(bytes),
         bytes[Len(bytes)] = 0
  PROVE  \E e \in i .. Len(bytes) :
           /\ CString(bytes, i) = SubSeq(bytes, i, e - 1)
           /\ bytes[e] = 0 /\ \A j \in i .. (e - 1) : bytes[j] # 0
<1> DEFINE End(k) == bytes[k] = 0 /\ \A j \in i .. (k - 1) : bytes[j] # 0
           T == {k \in i .. Len(bytes) : bytes[k] = 0}
           e == CHOOSE k \in i .. Len(bytes) : End(k)
<1>1. Len(bytes) \in Nat
  BY LenProperties
<1>2. T \subseteq Nat /\ Len(bytes) \in T
  BY <1>1
<1>3. PICK m \in T : \A k \in T : m <= k
  <2> HIDE DEF T
  <2> QED BY <1>2, LeastNatural
<1>4. m \in i .. Len(bytes) /\ End(m)
  <2>1. m \in i .. Len(bytes) /\ bytes[m] = 0
    BY <1>3
  <2>2. ASSUME NEW j \in i .. (m - 1), bytes[j] = 0 PROVE FALSE
    <3>1. j \in T /\ j < m
      BY <1>1, <2>1, <2>2
    <3>2. m \in Nat /\ j \in Nat
      BY <1>2, <1>3, <3>1
    <3> HIDE DEF T
    <3> QED BY <1>3, <3>1, <3>2
  <2> QED BY <2>1, <2>2
<1>5. e \in i .. Len(bytes) /\ End(e)
  <2> HIDE DEF End
  <2> QED BY <1>4
<1>6. CString(bytes, i) = SubSeq(bytes, i, e - 1)
  BY DEF CString
<1> HIDE DEF e
<1> QED BY <1>5, <1>6

\* A text is read as it was written, and its end looked for outside its field
\* only when it fills it.
LEMMA TextRead ==
  ASSUME NEW bytes \in Seq(Nat), bytes[Len(bytes)] = 0,
         NEW i \in Nat \ {0}, i + (STR_LEN + INT_LEN) - 1 < Len(bytes),
         NEW s, IsField("str", s), Len(s) <= STR_LEN,
         \A k \in 1 .. (STR_LEN + INT_LEN) : bytes[i + k - 1] = DumpString(s)[k]
  PROVE  /\ ParseString(bytes, i) = s
         /\ ParseInt(SubSeq(bytes, i, i + INT_LEN - 1)) = Len(s)
         /\ Len(s) < STR_LEN => Len(CString(bytes, i + INT_LEN)) = Len(s)
<1> DEFINE n == Len(s)
           B == 1 .. (Base - 1)
           L == Len(bytes)
           b == i + INT_LEN
<1>1. /\ s \in Seq(B) /\ 2 * n < Modulus
      /\ B \subseteq Nat
  BY BaseType DEF IsField
<1>2. /\ s \in Seq(Nat) /\ n \in Nat /\ s \in [1 .. n -> Nat]
      /\ \A k \in 1 .. n : s[k] \in Nat /\ s[k] # 0
  <2>1. s \in Seq(Nat)
    <3> HIDE DEF B
    <3> QED BY <1>1, SeqMonotonic
  <2>2. n \in Nat /\ s \in [1 .. n -> Nat]
    BY <2>1, LenProperties, SeqOfLen
  <2>3. \A k \in 1 .. n : s[k] \in B
    <3> HIDE DEF B
    <3> QED BY <1>1, ElementOfSeq
  <2>4. \A x \in B : x \in Nat /\ x # 0
    BY BaseType
  <2> HIDE DEF B, n
  <2> QED BY <2>1, <2>2, <2>3, <2>4
<1>3. STR_LEN \in Nat /\ INT_LEN \in Nat /\ L \in Nat /\ b \in Nat \ {0} /\ n <= STR_LEN
      /\ b + STR_LEN <= L /\ i + INT_LEN - 1 <= L
  BY SizesAssumption, LenProperties DEF INT_LEN
<1>4. ParseInt(SubSeq(bytes, i, i + INT_LEN - 1)) = n
  <2>1. -Modulus <= 2 * n /\ n \in Int
    <3>1. Modulus \in Int
      BY BaseType DEF Modulus, Place, INT_LEN
    <3> QED BY <1>1, <1>2, <3>1
  <2>2. ASSUME NEW k \in 1 .. INT_LEN
        PROVE  bytes[i + k - 1] = DumpInt(n)[k]
    <3>1. k \in 1 .. (STR_LEN + INT_LEN)
      BY <1>3
    <3>2. DumpString(s)[k] = DumpInt(n)[k]
      BY <1>2, TextBytes
    <3> QED BY <3>1, <3>2
  <2> HIDE DEF n, L
  <2> QED BY <1>1, <1>3, <2>1, <2>2, IntRead DEF L
<1>5. /\ \A k \in 1 .. n : bytes[b + k - 1] = s[k]
      /\ \A k \in (n + 1) .. STR_LEN : bytes[b + k - 1] = 0
  <2>1. ASSUME NEW k \in 1 .. STR_LEN
        PROVE  bytes[b + k - 1] = DumpString(s)[INT_LEN + k]
    <3>1. INT_LEN + k \in 1 .. (STR_LEN + INT_LEN) /\ i + (INT_LEN + k) - 1 = b + k - 1
      BY <1>3
    <3> HIDE DEF b
    <3> QED BY <3>1
  <2>2. \A k \in 1 .. n : DumpString(s)[INT_LEN + k] = s[k]
    BY <1>2, TextBytes
  <2>3. \A k \in (n + 1) .. STR_LEN : DumpString(s)[INT_LEN + k] = 0
    BY <1>2, TextBytes
  <2>4. /\ \A k \in 1 .. n : k \in 1 .. STR_LEN
        /\ \A k \in (n + 1) .. STR_LEN : k \in 1 .. STR_LEN
    BY <1>2, <1>3
  <2> HIDE DEF n, b
  <2> QED BY <2>1, <2>2, <2>3, <2>4
<1> HIDE DEF n, b, L
<1>6. PICK e \in b .. L :
           /\ CString(bytes, b) = SubSeq(bytes, b, e - 1)
           /\ bytes[e] = 0 /\ \A j \in b .. (e - 1) : bytes[j] # 0
  <2>1. b \in Nat \ {0} /\ b <= Len(bytes)
    BY <1>3 DEF L
  <2> QED BY <2>1, FirstZero DEF L
<1>7. b + n <= e
  <2>1. SUFFICES ASSUME e < b + n PROVE FALSE
    BY <1>2, <1>3
  <2>2. e - b + 1 \in 1 .. n /\ b + (e - b + 1) - 1 = e
    BY <1>2, <1>3, <2>1
  <2>3. bytes[e] = s[e - b + 1]
    BY <1>5, <2>2
  <2> QED BY <1>2, <1>6, <2>2, <2>3
<1>8. ASSUME n < STR_LEN PROVE e = b + n
  <2>1. n + 1 \in (n + 1) .. STR_LEN /\ b + (n + 1) - 1 = b + n
    BY <1>2, <1>3, <1>8
  <2>2. bytes[b + n] = 0
    BY <1>5, <2>1
  <2>3. SUFFICES ASSUME b + n < e PROVE FALSE
    BY <1>2, <1>3, <1>7
  <2>4. b + n \in b .. (e - 1)
    BY <1>2, <1>3, <2>3
  <2> QED BY <1>6, <2>2, <2>4
<1> DEFINE c == CString(bytes, b)
<1>9. c \in Seq(Nat) /\ Len(c) = e - b /\ \A k \in 1 .. (e - b) : c[k] = bytes[b + k - 1]
  <2> DEFINE m == e - 1
  <2>1. b \in Int /\ m \in Int /\ m - b + 1 = e - b /\ (IF b <= m THEN m - b + 1 ELSE 0) = e - b
    BY <1>3
  <2>2. \A k \in b .. m : bytes[k] \in Nat
    BY <1>3, ElementOfSeq DEF L
  <2> HIDE DEF m
  <2>3. /\ SubSeq(bytes, b, m) \in Seq(Nat)
        /\ Len(SubSeq(bytes, b, m)) = IF b <= m THEN m - b + 1 ELSE 0
        /\ \A k \in 1 .. (m - b + 1) : SubSeq(bytes, b, m)[k] = bytes[b + k - 1]
    BY <2>1, <2>2, SubSeqProperties
  <2>4. c = SubSeq(bytes, b, m)
    BY <1>6 DEF m
  <2> HIDE DEF c
  <2> QED BY <2>1, <2>3, <2>4
<1> HIDE DEF c
<1>10. Cut(c, n) = s
  <2>1. ~(n < 0 \/ n > Len(c))
    BY <1>2, <1>3, <1>7, <1>9
  <2>2. Cut(c, n) = SubSeq(c, 1, n)
    BY <2>1 DEF Cut
  <2>3. \A k \in 1 .. n : c[1 + k - 1] = s[k]
    <3> TAKE k \in 1 .. n
    <3>1. k \in 1 .. (e - b) /\ 1 + k - 1 = k
      BY <1>2, <1>3, <1>7
    <3>2. c[k] = bytes[b + k - 1] /\ bytes[b + k - 1] = s[k]
      BY <1>5, <1>9, <3>1
    <3> QED BY <3>1, <3>2
  <2>4. 1 + n - 1 = n /\ 1 + n - 1 <= Len(c)
    BY <1>2, <2>1, <1>9, LenProperties
  <2>5. SubSeq(c, 1, 1 + n - 1) = s
    BY <1>2, <1>9, <2>3, <2>4, Slice
  <2> QED BY <2>2, <2>4, <2>5
<1>11. ParseString(bytes, i) = s
  BY <1>4, <1>10 DEF ParseString, b, c
<1>12. n < STR_LEN => Len(c) = n
  BY <1>2, <1>3, <1>8, <1>9
<1> QED BY <1>4, <1>11, <1>12 DEF n, b, c

\* A page is in memory with more bytes after it, and a zero somewhere.
LEMMA MemoryAfter ==
  ASSUME NEW data \in Bytes(PageSize), NEW beyond \in Seq(Nat)
  PROVE  LET bytes == data \o beyond \o <<0>> IN
         /\ bytes \in Seq(Nat) /\ PageSize < Len(bytes) /\ bytes[Len(bytes)] = 0
         /\ \A k \in 1 .. PageSize : bytes[k] = data[k]
<1> DEFINE a == data \o beyond
           z == <<0>>
<1>1. PageSize \in Nat /\ data \in Seq(Nat) /\ Len(data) = PageSize /\ Len(beyond) \in Nat
  BY SizesAssumption, SeqOfLen, LenProperties DEF Bytes
<1>2. /\ a \in Seq(Nat) /\ Len(a) = PageSize + Len(beyond)
      /\ \A k \in 1 .. (PageSize + Len(beyond)) :
           a[k] = IF k <= PageSize THEN data[k] ELSE beyond[k - PageSize]
  BY <1>1, ConcatProperties
<1>3. z \in Seq(Nat) /\ Len(z) = 1 /\ z[1] = 0
  OBVIOUS
<1> HIDE DEF a, z
<1>4. /\ a \o z \in Seq(Nat) /\ Len(a \o z) = Len(a) + 1
      /\ \A k \in 1 .. (Len(a) + 1) :
           (a \o z)[k] = IF k <= Len(a) THEN a[k] ELSE z[k - Len(a)]
  <2>1. a \in Seq(Nat) /\ z \in Seq(Nat)
    BY <1>2, <1>3
  <2>2. /\ a \o z \in Seq(Nat) /\ Len(a \o z) = Len(a) + Len(z)
        /\ \A k \in 1 .. (Len(a) + Len(z)) :
             (a \o z)[k] = IF k <= Len(a) THEN a[k] ELSE z[k - Len(a)]
    BY <2>1, ConcatProperties
  <2> QED BY <1>3, <2>2
<1> DEFINE b == a \o z
           n == Len(a)
<1>5. n \in Nat /\ PageSize <= n
  BY <1>1, <1>2
<1>6. b[n + 1] = 0
  <2>1. n + 1 \in 1 .. (n + 1) /\ ~(n + 1 <= n) /\ (n + 1) - n = 1
    BY <1>5
  <2> HIDE DEF n
  <2> QED BY <1>3, <1>4, <2>1 DEF n
<1>7. \A k \in 1 .. PageSize : b[k] = data[k]
  <2> TAKE k \in 1 .. PageSize
  <2>1. k \in 1 .. (n + 1) /\ k <= n /\ k \in 1 .. (PageSize + Len(beyond)) /\ k <= PageSize
    BY <1>1, <1>5
  <2> HIDE DEF n
  <2> QED BY <1>2, <1>4, <2>1 DEF n
<1> QED BY <1>1, <1>4, <1>5, <1>6, <1>7 DEF a, z

\* A record is read as it was written, whatever follows the page.
LEMMA FieldRead ==
  ASSUME NEW data \in Bytes(PageSize), NEW beyond \in Seq(Nat),
         NEW i \in Slot, NEW row, Dumped(data, i, row), NEW j \in DOMAIN Desc
  PROVE  LET bytes == data \o beyond \o <<0>> IN
         /\ ParseField(bytes, i, j) = row[j]
         /\ Desc[j] = "str" =>
              /\ ParseInt(SubSeq(bytes, At(i, j), At(i, j) + INT_LEN - 1)) = Len(row[j])
              /\ Len(row[j]) < STR_LEN =>
                   Len(CString(bytes, At(i, j) + INT_LEN)) = Len(row[j])
<1> DEFINE bytes == data \o beyond \o <<0>>
           at == At(i, j)
           v == row[j]
<1>1. /\ bytes \in Seq(Nat) /\ PageSize < Len(bytes) /\ bytes[Len(bytes)] = 0
      /\ \A k \in 1 .. PageSize : bytes[k] = data[k]
  BY MemoryAfter
<1> HIDE DEF bytes
<1>2. at \in Nat \ {0} /\ at + GetLen(Desc[j]) - 1 <= PageSize
  BY FieldInPage
<1>3. IsField(Desc[j], v) /\ ~TooLong(row)
  BY RowFields DEF Dumped, Fits
<1>4. \A k \in 1 .. GetLen(Desc[j]) : bytes[at + k - 1] = DumpField(j, v)[k]
  <2> TAKE k \in 1 .. GetLen(Desc[j])
  <2>1. data[at + k - 1] = DumpField(j, v)[k]
    BY DEF Dumped
  <2>2. at + k - 1 \in 1 .. PageSize
    <3>1. GetLen(Desc[j]) \in Nat /\ PageSize \in Nat
      BY SizesAssumption DEF GetLen, INT_LEN
    <3> HIDE DEF at
    <3> QED BY <1>2, <3>1
  <2> HIDE DEF at, v
  <2> QED BY <1>1, <2>1, <2>2
<1> HIDE DEF at, v
<1>5. Len(bytes) \in Nat /\ PageSize \in Nat
  BY <1>1, LenProperties, SizesAssumption
<1>6. CASE Desc[j] = "int"
  <2>1. GetLen(Desc[j]) = INT_LEN /\ DumpField(j, v) = DumpInt(v) /\ INT_LEN \in Nat
    BY <1>6 DEF GetLen, DumpField, INT_LEN
  <2>2. v \in Int /\ -Modulus <= 2 * v /\ 2 * v < Modulus
    BY <1>3, <1>6 DEF IsField
  <2>3. at + INT_LEN - 1 <= Len(bytes)
    BY <1>1, <1>2, <1>5, <2>1
  <2>4. \A k \in 1 .. INT_LEN : bytes[at + k - 1] = DumpInt(v)[k]
    BY <1>4, <2>1
  <2>5. bytes \in Seq(Nat) /\ at \in Nat \ {0}
    BY <1>1, <1>2
  <2>6. ParseInt(SubSeq(bytes, at, at + INT_LEN - 1)) = v
    BY <2>2, <2>3, <2>4, <2>5, IntRead
  <2> QED BY <1>6, <2>6 DEF ParseField, at, v, bytes
<1>7. CASE Desc[j] = "str"
  <2>1. GetLen(Desc[j]) = STR_LEN + INT_LEN /\ DumpField(j, v) = DumpString(v) /\ INT_LEN \in Nat
    BY <1>7 DEF GetLen, DumpField, INT_LEN
  <2>2. IsField("str", v)
    BY <1>3, <1>7
  <2>3. Len(v) <= STR_LEN
    <3>1. Len(v) \in Nat /\ STR_LEN \in Nat
      BY <2>2, LenProperties, SizesAssumption DEF IsField
    <3>2. ~(Len(v) > STR_LEN)
      BY <1>3, <1>7 DEF TooLong, v
    <3> QED BY <3>1, <3>2
  <2>4. at + (STR_LEN + INT_LEN) - 1 < Len(bytes)
    <3>1. STR_LEN + INT_LEN \in Nat
      BY <2>1, SizesAssumption
    <3> QED BY <1>1, <1>2, <1>5, <2>1, <3>1
  <2>5. \A k \in 1 .. (STR_LEN + INT_LEN) : bytes[at + k - 1] = DumpString(v)[k]
    BY <1>4, <2>1
  <2>6. bytes \in Seq(Nat) /\ bytes[Len(bytes)] = 0 /\ at \in Nat \ {0}
    BY <1>1, <1>2
  <2>7. /\ ParseString(bytes, at) = v
        /\ ParseInt(SubSeq(bytes, at, at + INT_LEN - 1)) = Len(v)
        /\ Len(v) < STR_LEN => Len(CString(bytes, at + INT_LEN)) = Len(v)
    BY <2>2, <2>3, <2>4, <2>5, <2>6, TextRead
  <2> QED BY <1>7, <2>7 DEF ParseField, at, v, bytes
<1>8. Desc[j] \in {"int", "str"}
  BY SizesAssumption, ElementOfSeq, Layout
<1> QED BY <1>6, <1>7, <1>8

-----------------------------------------------------------------------------
(* The loop of AddTuples.                                                  *)

\* What it carries from slot to slot.
Filling == [header : Bytes(HeaderLen), records : [Slot -> Row \cup {Null}], j : Nat]

InMemory ==
  /\ header \in Bytes(HeaderLen)
  /\ records \in [Slot -> Row \cup {Null}]
  /\ \A i \in Slot : TuplePresent(header, i) => records[i] \in Row
  /\ free_space = FreeIn(header)

LEMMA PassedType ==
  ASSUME NEW ts \in Seq(Row), NEW st \in Filling, NEW i \in Slot
  PROVE  Passed(st, ts, i) \in Filling
<1>1. CASE st.j < Len(ts) /\ ~TuplePresent(st.header, i)
  <2>1. MarkOccupied(st.header, i) \in Bytes(HeaderLen)
    BY Marked DEF Filling
  <2>2. ts[st.j + 1] \in Row
    <3>1. st.j + 1 \in 1 .. Len(ts)
      BY <1>1, LenProperties DEF Filling
    <3> QED BY <3>1, ElementOfSeq
  <2>3. [st.records EXCEPT ![i] = ts[st.j + 1]] \in [Slot -> Row \cup {Null}]
    BY <2>2 DEF Filling
  <2>4. st.j + 1 \in Nat
    BY DEF Filling
  <2> QED BY <1>1, <2>1, <2>3, <2>4 DEF Passed, Filling
<1>2. CASE ~(st.j < Len(ts) /\ ~TuplePresent(st.header, i))
  BY <1>2 DEF Passed
<1> QED BY <1>1, <1>2

LEMMA FilledSteps ==
  ASSUME InMemory, NEW ts \in Seq(Row)
  PROVE  \E after \in [0 .. NumSlots -> Filling] :
           /\ after[0] = [header |-> header, records |-> records, j |-> 0]
           /\ \A n \in Slot : after[n + 1] = Passed(after[n], ts, n)
           /\ Filled(ts) = after[NumSlots]
<1> DEFINE N == NumSlots
           T == Filling
           e == [header |-> header, records |-> records, j |-> 0]
           F == [n \in Nat |-> [t \in T |-> IF n \in Slot THEN Passed(t, ts, n) ELSE t]]
           Eq(u) == u = [n \in 0 .. N |-> IF n = 0 THEN e
                                          ELSE Passed(u[n - 1], ts, n - 1)]
           after == CHOOSE u : Eq(u)
           S == {n \in Nat : n <= N => after[n] \in T}
<1>1. /\ N \in Nat /\ e \in T /\ \A t \in T : \A n \in Slot : Passed(t, ts, n) \in T
      /\ \A n \in 0 .. N : n # 0 => n - 1 \in Slot /\ n - 1 \in Nat /\ (n - 1) + 1 = n
      /\ \A n \in Slot : n \in Nat /\ n + 1 \in 0 .. N /\ (n + 1) - 1 = n /\ n + 1 # 0
  <2>1. N \in Nat
    BY Layout
  <2>2. e \in T
    BY DEF InMemory, Filling
  <2>3. /\ \A n \in 0 .. N : n # 0 => n - 1 \in Slot /\ n - 1 \in Nat /\ (n - 1) + 1 = n
        /\ \A n \in Slot : n \in Nat /\ n + 1 \in 0 .. N /\ (n + 1) - 1 = n /\ n + 1 # 0
    BY <2>1 DEF Slot
  <2> QED BY <2>1, <2>2, <2>3, PassedType
<1> HIDE DEF e, N, T
<1>2. PICK f : Iterates(f, F, e, T)
  <2>1. Steps(F, T)
    BY <1>1 DEF Steps
  <2> HIDE DEF F
  <2> QED BY <1>1, <2>1, Iterate
<1>3. f[0] = e /\ \A n \in Slot : f[n + 1] = Passed(f[n], ts, n)
  <2>1. f[0] = e /\ \A n \in Nat : f[n] \in T /\ f[n + 1] = F[n][f[n]]
    BY <1>2 DEF Iterates
  <2> QED BY <1>1, <2>1
<1>4. Eq([n \in 0 .. N |-> f[n]])
  <2> DEFINE g == [n \in 0 .. N |-> f[n]]
  <2>1. ASSUME NEW n \in 0 .. N, n # 0
        PROVE  g[n] = Passed(g[n - 1], ts, n - 1)
    <3>1. n - 1 \in Slot /\ n - 1 \in 0 .. N /\ (n - 1) + 1 = n
      BY <1>1, <2>1
    <3>2. f[(n - 1) + 1] = Passed(f[n - 1], ts, n - 1)
      BY <1>3, <3>1
    <3> QED BY <3>1, <3>2
  <2>2. g[0] = e
    BY <1>1, <1>3
  <2>3. \A n \in 0 .. N : g[n] = IF n = 0 THEN e ELSE Passed(g[n - 1], ts, n - 1)
    BY <2>1, <2>2
  <2> QED BY <2>3
<1>5. Eq(after)
  <2> HIDE DEF Eq
  <2> QED BY <1>4
<1> HIDE DEF after
<1>6. /\ after[0] = e
      /\ \A n \in Slot : after[n + 1] = Passed(after[n], ts, n)
  <2>1. \A n \in 0 .. N : after[n] = IF n = 0 THEN e ELSE Passed(after[n - 1], ts, n - 1)
    BY <1>5
  <2>2. 0 \in 0 .. N
    BY <1>1
  <2> QED BY <1>1, <2>1, <2>2
<1>7. Nat \subseteq S
  <2>1. 0 \in S
    BY <1>1, <1>6
  <2>2. ASSUME NEW n \in Nat, n \in S PROVE n + 1 \in S
    <3>1. SUFFICES ASSUME n + 1 <= N PROVE after[n + 1] \in T
      OBVIOUS
    <3>2. n \in Slot
      BY <1>1, <3>1 DEF Slot, N
    <3>3. after[n] \in T
      BY <1>1, <2>2, <3>1
    <3> QED BY <1>1, <1>6, <3>2, <3>3
  <2> HIDE DEF S
  <2> QED BY <2>1, <2>2, SetInduction
<1>8. after \in [0 .. N -> T]
  <2>1. \A n \in 0 .. N : after[n] \in T
    BY <1>1, <1>7
  <2> QED BY <1>5, <2>1
<1>9. Filled(ts) = after[N]
  BY DEF Filled, after, N, e
<1> QED BY <1>6, <1>8, <1>9 DEF N, T, e

\* When n slots are passed, the tuples placed lie at p in slots that were free,
\* in order, and no free slot before them is left.
Placing(st, p, ts, n) ==
  /\ st.j \in Nat /\ st.j <= Len(ts) /\ p \in [1 .. st.j -> Slot]
  /\ \A k, l \in 1 .. st.j : k < l => p[k] < p[l]
  /\ \A k \in 1 .. st.j : /\ p[k] < n /\ ~TuplePresent(header, p[k])
                          /\ st.records[p[k]] = ts[k]
  /\ \A s \in Slot :
       /\ TuplePresent(st.header, s) <=> TuplePresent(header, s) \/ \E k \in 1 .. st.j : p[k] = s
       /\ (\A k \in 1 .. st.j : p[k] # s) => st.records[s] = records[s]
       /\ ~TuplePresent(header, s) =>
            (\E k \in 1 .. st.j : p[k] = s) \/ (\A k \in 1 .. st.j : p[k] < s)
       /\ st.j < Len(ts) /\ s < n /\ ~TuplePresent(header, s) =>
            \E k \in 1 .. st.j : p[k] = s

LEMMA PassedPlacing ==
  ASSUME NEW ts \in Seq(Row), NEW st \in Filling, NEW n \in Slot,
         NEW p, Placing(st, p, ts, n)
  PROVE  \E q : Placing(Passed(st, ts, n), q, ts, n + 1)
<1>1. /\ n \in Nat /\ Len(ts) \in Nat /\ st.j \in Nat
      /\ \A s \in Slot : s \in Nat
      /\ \A k \in 1 .. st.j : p[k] \in Nat /\ p[k] < n
  <2>1. n \in Nat /\ Len(ts) \in Nat /\ st.j \in Nat /\ \A s \in Slot : s \in Nat
    BY Layout, LenProperties DEF Slot, Placing
  <2>2. \A k \in 1 .. st.j : p[k] \in Slot /\ p[k] < n
    BY DEF Placing
  <2> QED BY <2>1, <2>2
<1>2. CASE ~(st.j < Len(ts) /\ ~TuplePresent(st.header, n))
  <2>1. Passed(st, ts, n) = st
    BY <1>2 DEF Passed
  <2>2. \A k \in 1 .. st.j : p[k] < n + 1
    <3> TAKE k \in 1 .. st.j
    <3>1. p[k] \in Nat /\ n \in Nat /\ p[k] < n
      BY <1>1
    <3> QED BY <3>1
  <2>3. ASSUME NEW s \in Slot, st.j < Len(ts), s < n + 1, ~TuplePresent(header, s)
        PROVE  \E k \in 1 .. st.j : p[k] = s
    <3>1. CASE s = n
      BY <1>2, <2>3, <3>1 DEF Placing
    <3>2. CASE s < n
      BY <2>3, <3>2 DEF Placing
    <3> QED BY <1>1, <2>3, <3>1, <3>2
  <2>4. Placing(st, p, ts, n + 1)
    BY <2>2, <2>3 DEF Placing
  <2> QED BY <2>1, <2>4
<1>3. CASE st.j < Len(ts) /\ ~TuplePresent(st.header, n)
  <2> DEFINE j == st.j + 1
             q == [k \in 1 .. j |-> IF k = j THEN n ELSE p[k]]
             g == MarkOccupied(st.header, n)
             r == [st.records EXCEPT ![n] = ts[j]]
             new == [header |-> g, records |-> r, j |-> j]
  <2>1. Passed(st, ts, n) = new
    BY <1>3 DEF Passed
  <2>2. /\ j \in Nat /\ j <= Len(ts) /\ j = st.j + 1
        /\ \A k \in 1 .. st.j : k \in 1 .. j /\ k # j
        /\ \A k \in 1 .. j : k = j \/ k \in 1 .. st.j
        /\ j \in 1 .. j
    BY <1>1, <1>3
  <2>3. /\ q[j] = n /\ \A k \in 1 .. st.j : q[k] = p[k]
        /\ q \in [1 .. j -> Slot]
    BY <2>2 DEF Placing
  <2>4. \A s \in Slot : TuplePresent(g, s) <=> s = n \/ TuplePresent(st.header, s)
    BY Marked DEF Filling
  <2>5. r[n] = ts[j] /\ \A s \in Slot : s # n => r[s] = st.records[s]
    BY DEF Filling
  <2> HIDE DEF j, q, g, r
  <2>6. /\ ~TuplePresent(header, n)
        /\ \A k \in 1 .. st.j : p[k] < n /\ p[k] # n /\ p[k] \in Slot
    BY <1>1, <1>3 DEF Placing
  <2>7. \A k, l \in 1 .. j : k < l => q[k] < q[l]
    <3> TAKE k, l \in 1 .. j
    <3> HAVE k < l
    <3>1. k \in 1 .. st.j
      BY <2>2
    <3>2. CASE l = j
      BY <2>3, <2>6, <3>1, <3>2
    <3>3. CASE l \in 1 .. st.j
      BY <2>3, <3>1, <3>3 DEF Placing
    <3> QED BY <2>2, <3>2, <3>3
  <2>8. \A k \in 1 .. j : q[k] < n + 1 /\ ~TuplePresent(header, q[k]) /\ r[q[k]] = ts[k]
    <3> TAKE k \in 1 .. j
    <3>1. CASE k = j
      BY <1>1, <2>3, <2>5, <2>6, <3>1
    <3>2. CASE k \in 1 .. st.j
      <4>1. q[k] = p[k] /\ p[k] \in Slot /\ p[k] < n /\ p[k] # n
        BY <2>3, <2>6, <3>2
      <4>2. ~TuplePresent(header, p[k]) /\ st.records[p[k]] = ts[k]
        BY <3>2 DEF Placing
      <4>3. p[k] < n + 1
        <5>1. p[k] \in Nat /\ n \in Nat /\ p[k] < n
          BY <1>1, <3>2
        <5> QED BY <5>1
      <4> QED BY <2>5, <4>1, <4>2, <4>3
    <3> QED BY <2>2, <3>1, <3>2
  <2>9. ASSUME NEW s \in Slot
        PROVE  /\ TuplePresent(g, s) <=> TuplePresent(header, s) \/ \E k \in 1 .. j : q[k] = s
               /\ (\A k \in 1 .. j : q[k] # s) => r[s] = records[s]
               /\ ~TuplePresent(header, s) =>
                    (\E k \in 1 .. j : q[k] = s) \/ (\A k \in 1 .. j : q[k] < s)
               /\ s < n + 1 /\ ~TuplePresent(header, s) => \E k \in 1 .. j : q[k] = s
    <3>1. (\E k \in 1 .. j : q[k] = s) <=> s = n \/ \E k \in 1 .. st.j : p[k] = s
      BY <2>2, <2>3
    <3>2. /\ TuplePresent(st.header, s) <=> TuplePresent(header, s) \/ \E k \in 1 .. st.j : p[k] = s
          /\ (\A k \in 1 .. st.j : p[k] # s) => st.records[s] = records[s]
          /\ s < n /\ ~TuplePresent(header, s) => \E k \in 1 .. st.j : p[k] = s
      BY <1>3 DEF Placing
    <3>3. TuplePresent(g, s) <=> TuplePresent(header, s) \/ \E k \in 1 .. j : q[k] = s
      BY <2>4, <3>1, <3>2
    <3>4. (\A k \in 1 .. j : q[k] # s) => r[s] = records[s]
      BY <2>5, <3>1, <3>2
    <3>5. s < n + 1 /\ ~TuplePresent(header, s) => \E k \in 1 .. j : q[k] = s
      <4>1. s < n + 1 => s = n \/ s < n
        BY <1>1
      <4> QED BY <3>1, <3>2, <4>1
    <3>6. s < n + 1 \/ \A k \in 1 .. j : q[k] < s
      <4>1. SUFFICES ASSUME ~(s < n + 1), NEW k \in 1 .. j PROVE q[k] < s
        OBVIOUS
      <4>2. n < s
        BY <1>1, <4>1
      <4>3. CASE k = j
        BY <2>3, <4>2, <4>3
      <4>4. CASE k \in 1 .. st.j
        <5>1. p[k] \in Nat /\ n \in Nat /\ s \in Nat /\ p[k] < n
          BY <1>1, <4>4
        <5>2. p[k] < s
          BY <4>2, <5>1
        <5> QED BY <2>3, <4>4, <5>2
      <4> QED BY <2>2, <4>3, <4>4
    <3> QED BY <3>3, <3>4, <3>5, <3>6
  <2>10. Placing(new, q, ts, n + 1)
    BY <2>2, <2>3, <2>7, <2>8, <2>9 DEF Placing
  <2> QED BY <2>1, <2>10
<1> QED BY <1>2, <1>3

\* AddTuples places every tuple it is given room for.
LEMMA FilledPlacing ==
  ASSUME InMemory, NEW ts \in Seq(Row), Len(ts) <= free_space
  PROVE  /\ Filled(ts) \in Filling
         /\ \E p : /\ Placing(Filled(ts), p, ts, NumSlots)
                   /\ Filled(ts).j = Len(ts)
         /\ FreeIn(Filled(ts).header) = free_space - Len(ts)
<1>1. PICK after \in [0 .. NumSlots -> Filling] :
           /\ after[0] = [header |-> header, records |-> records, j |-> 0]
           /\ \A n \in Slot : after[n + 1] = Passed(after[n], ts, n)
           /\ Filled(ts) = after[NumSlots]
  BY FilledSteps
<1> DEFINE S == {n \in Nat : n <= NumSlots => \E p : Placing(after[n], p, ts, n)}
<1>2. NumSlots \in Nat /\ Len(ts) \in Nat
  BY Layout, LenProperties
<1>3. 0 \in S
  <2> DEFINE p == [k \in 1 .. 0 |-> 0]
  <2>1. \A s \in Slot : ~(s < 0)
    BY <1>2 DEF Slot
  <2>2. Placing([header |-> header, records |-> records, j |-> 0], p, ts, 0)
    BY <1>2, <2>1 DEF Placing
  <2> QED BY <1>1, <2>2
<1>4. ASSUME NEW n \in Nat, n \in S PROVE n + 1 \in S
  <2>1. SUFFICES ASSUME n + 1 <= NumSlots
                 PROVE  \E q : Placing(after[n + 1], q, ts, n + 1)
    OBVIOUS
  <2>2. n \in Slot /\ n <= NumSlots /\ n \in 0 .. NumSlots
    BY <1>2, <2>1 DEF Slot
  <2>3. PICK p : Placing(after[n], p, ts, n)
    BY <1>4, <2>2
  <2>4. after[n + 1] = Passed(after[n], ts, n) /\ after[n] \in Filling
    BY <1>1, <2>2
  <2> QED BY <2>2, <2>3, <2>4, PassedPlacing
<1> HIDE DEF S
<1>5. NumSlots \in S
  BY <1>2, <1>3, <1>4, SetInduction
<1> DEFINE st == Filled(ts)
<1>6. PICK p : Placing(st, p, ts, NumSlots)
  BY <1>1, <1>2, <1>5 DEF S
<1>7. st \in Filling
  BY <1>1, <1>2
<1> HIDE DEF st
<1> DEFINE A == {i \in Slot : ~TuplePresent(header, i)}
           R == Members(p, st.j)
<1>8. IsFiniteSet(A) /\ Cardinality(A) \in Nat /\ free_space = Cardinality(A)
  <2>1. IsFiniteSet(Slot)
    BY <1>2, FS_Interval DEF Slot
  <2>2. IsFiniteSet(A)
    BY <2>1, FS_Subset
  <2> HIDE DEF A
  <2>3. Cardinality(A) \in Nat
    BY <2>2, FS_CardinalityType
  <2> QED BY <2>2, <2>3 DEF InMemory, FreeIn, A
<1>9. IsFiniteSet(R) /\ Cardinality(R) = st.j
  <2>1. \A k, l \in 1 .. st.j : p[k] = p[l] => k = l
    <3>1. SUFFICES ASSUME NEW k \in 1 .. st.j, NEW l \in 1 .. st.j, p[k] = p[l], k # l
                   PROVE  FALSE
      OBVIOUS
    <3>2. p[k] \in Nat /\ p[l] \in Nat
      <4>1. p \in [1 .. st.j -> Slot]
        BY <1>6 DEF Placing
      <4>2. p[k] \in Slot /\ p[l] \in Slot
        BY <4>1
      <4> QED BY <1>2, <4>2 DEF Slot
    <3>3. k < l \/ l < k
      BY <3>1
    <3> QED BY <1>6, <3>1, <3>2, <3>3 DEF Placing
  <2>2. st.j \in Nat /\ p \in [1 .. st.j -> Slot]
    BY <1>6 DEF Placing
  <2> DEFINE m == st.j
  <2> HIDE DEF m
  <2>3. m \in Nat /\ p \in [1 .. m -> Slot] /\ \A k, l \in 1 .. m : p[k] = p[l] => k = l
    BY <2>1, <2>2 DEF m
  <2>4. IsFiniteSet(Members(p, m)) /\ Cardinality(Members(p, m)) = m
    BY <2>3, MembersCount
  <2> QED BY <2>4 DEF m
<1>10. R \subseteq A
  BY <1>6 DEF Placing, Members
<1>11. st.j = Len(ts)
  <2>1. SUFFICES ASSUME st.j < Len(ts) PROVE FALSE
    BY <1>2, <1>6 DEF Placing
  <2>2. A \subseteq R
    <3> SUFFICES ASSUME NEW s \in A PROVE s \in R
      OBVIOUS
    <3>1. s \in Slot /\ s < NumSlots /\ ~TuplePresent(header, s)
      BY <1>2 DEF Slot
    <3>2. \E k \in 1 .. st.j : p[k] = s
      BY <1>6, <2>1, <3>1 DEF Placing
    <3> QED BY <3>2 DEF Members
  <2>3. A = R
    BY <1>10, <2>2
  <2> HIDE DEF A, R
  <2> QED BY <1>2, <1>8, <1>9, <2>1, <2>3
<1>12. FreeIn(st.header) = free_space - Len(ts)
  <2>1. {i \in Slot : ~TuplePresent(st.header, i)} = A \ R
    BY <1>6 DEF Placing, Members
  <2> HIDE DEF A, R
  <2>2. A \cap R = R
    BY <1>10
  <2>3. Cardinality(A \ R) = Cardinality(A) - Cardinality(A \cap R)
    BY <1>8, FS_Difference
  <2> QED BY <1>8, <1>9, <1>11, <2>1, <2>2, <2>3 DEF FreeIn
<1> QED BY <1>6, <1>7, <1>11, <1>12 DEF st

-----------------------------------------------------------------------------
(* The invariant.                                                          *)

LEMMA HeaderType ==
  ASSUME NEW data \in Bytes(PageSize)
  PROVE  HeaderIn(data) \in Bytes(HeaderLen)
<1> DEFINE f == [k \in 1 .. HeaderLen |-> data[k]]
           n == HeaderLen
<1>1. n \in Nat /\ n <= PageSize /\ PageSize \in Nat
  <2>1. /\ NumSlots \in Nat /\ GetSize \in Nat /\ HeaderLen \in Nat
        /\ HeaderLen + NumSlots * GetSize <= PageSize
    BY Layout
  <2>2. NumSlots * GetSize \in Nat
    BY <2>1
  <2> QED BY <2>1, <2>2, SizesAssumption
<1>2. data \in Seq(Nat) /\ Len(data) = PageSize
  BY <1>1, SeqOfLen DEF Bytes
<1>3. f \in [1 .. n -> Nat] /\ \A k \in 1 .. n : data[1 + k - 1] = f[k]
  <2>1. ASSUME NEW k \in 1 .. n
        PROVE  data[k] \in Nat /\ f[k] = data[k] /\ 1 + k - 1 = k
    <3>1. k \in 1 .. PageSize /\ 1 + k - 1 = k
      BY <1>1
    <3> QED BY <3>1 DEF Bytes
  <2>2. f \in [1 .. n -> Nat]
    BY <2>1
  <2> HIDE DEF f
  <2> QED BY <2>1, <2>2
<1> HIDE DEF f, n
<1>4. 1 + n - 1 = n /\ 1 + n - 1 <= Len(data)
  BY <1>1, <1>2
<1>5. SubSeq(data, 1, 1 + n - 1) = f
  BY <1>1, <1>2, <1>3, <1>4, Slice
<1> QED BY <1>3, <1>4, <1>5 DEF HeaderIn, Bytes, n

\* Reading a page gives the records it was written from.
LEMMA Reread ==
  ASSUME NEW data \in Bytes(PageSize), NEW beyond \in Seq(Nat), NEW recs,
         \A i \in Slot : TuplePresent(HeaderIn(data), i) => Dumped(data, i, recs[i])
  PROVE  RecordsIn(data, beyond) = Held(HeaderIn(data), recs)
<1> DEFINE h == HeaderIn(data)
           bytes == data \o beyond \o <<0>>
<1>1. ASSUME NEW i \in Slot, TuplePresent(h, i)
      PROVE  [j \in DOMAIN Desc |-> ParseField(bytes, i, j)] = recs[i]
  <2> DEFINE row == recs[i]
  <2>1. Dumped(data, i, row)
    BY <1>1
  <2> HIDE DEF row
  <2>2. \A j \in DOMAIN Desc : ParseField(bytes, i, j) = row[j]
    BY <2>1, FieldRead
  <2>3. row = [j \in DOMAIN Desc |-> row[j]]
    BY <2>1, RowFields DEF Dumped, Fits
  <2> HIDE DEF bytes
  <2> QED BY <2>2, <2>3 DEF row
<1>2. RecordsIn(data, beyond) =
        [i \in Slot |-> IF TuplePresent(h, i)
                        THEN [j \in DOMAIN Desc |-> ParseField(bytes, i, j)] ELSE Null]
  BY DEF RecordsIn
<1> HIDE DEF h, bytes
<1> QED BY <1>1, <1>2 DEF Held, h

\* What is on file was written from some records.
OnFile ==
  /\ image \in Bytes(PageSize)
  /\ \E recs \in [Slot -> Row \cup {Null}] :
       \A i \in Slot : TuplePresent(HeaderIn(image), i) => Dumped(image, i, recs[i])

IInv == up \in BOOLEAN /\ InMemory /\ OnFile

Disk == Held(HeaderIn(image), RecordsIn(image, <<>>))

LEMMA DiskIs ==
  ASSUME OnFile
  PROVE  /\ HeaderIn(image) \in Bytes(HeaderLen)
         /\ Disk \in [Slot -> Row \cup {Null}]
         /\ \A i \in Slot : (Disk[i] = Null) <=> ~TuplePresent(HeaderIn(image), i)
         /\ \A i \in Slot : TuplePresent(HeaderIn(image), i) => Dumped(image, i, Disk[i])
         /\ \A beyond \in Seq(Nat) : RecordsIn(image, beyond) = Disk
<1>1. PICK recs \in [Slot -> Row \cup {Null}] :
        \A i \in Slot : TuplePresent(HeaderIn(image), i) => Dumped(image, i, recs[i])
  BY DEF OnFile
<1> DEFINE h == HeaderIn(image)
<1>2. image \in Bytes(PageSize) /\ h \in Bytes(HeaderLen)
  BY HeaderType DEF OnFile
<1>3. \A beyond \in Seq(Nat) : RecordsIn(image, beyond) = Held(h, recs)
  BY <1>1, <1>2, Reread
<1>4. <<>> \in Seq(Nat)
  BY EmptySeq
<1>5. Disk = Held(h, Held(h, recs))
  BY <1>3, <1>4 DEF Disk
<1> HIDE DEF h
<1>6. Held(h, Held(h, recs)) = Held(h, recs)
  BY DEF Held
<1>7. /\ Held(h, recs) \in [Slot -> Row \cup {Null}]
      /\ \A i \in Slot : TuplePresent(h, i) => Held(h, recs)[i] = recs[i]
      /\ \A i \in Slot : ~TuplePresent(h, i) => Held(h, recs)[i] = Null
  BY DEF Held
<1>8. \A i \in Slot : TuplePresent(h, i) => Dumped(image, i, Disk[i]) /\ Disk[i] # Null
  <2> TAKE i \in Slot
  <2> HAVE TuplePresent(h, i)
  <2>1. Disk[i] = recs[i] /\ Dumped(image, i, recs[i])
    BY <1>1, <1>5, <1>6, <1>7 DEF h
  <2>2. recs[i] \in Row
    BY <2>1 DEF Dumped, Fits
  <2> QED BY <2>1, <2>2, RowAssumption
<1> QED BY <1>2, <1>3, <1>5, <1>6, <1>7, <1>8 DEF h

\* A slot is empty when its bit is clear.
LEMMA DataIs ==
  ASSUME InMemory
  PROVE  /\ Held(header, records) \in [Slot -> Row \cup {Null}]
         /\ \A i \in Slot : (Held(header, records)[i] = Null) <=> ~TuplePresent(header, i)
  BY RowAssumption DEF InMemory, Held

LEMMA NoBits ==
  ASSUME image = Zeros(PageSize)
  PROVE  /\ image \in Bytes(PageSize)
         /\ \A i \in Slot : ~TuplePresent(HeaderIn(image), i)
<1>1. image \in Bytes(PageSize)
  BY SizesAssumption DEF Zeros, Bytes
<1>2. ASSUME NEW i \in Slot PROVE ~TuplePresent(HeaderIn(image), i)
  <2> DEFINE h == HeaderIn(image)
             b == ByteOf(i)
  <2>1. b \in 1 .. HeaderLen /\ HeaderLen \in Nat
    BY PlaceOfBit, Layout
  <2>2. h[b] = 0
    <3> DEFINE z == [k \in 1 .. HeaderLen |-> 0]
               n == HeaderLen
    <3>1. n \in Nat /\ n <= PageSize /\ PageSize \in Nat
      <4>1. /\ NumSlots \in Nat /\ GetSize \in Nat
            /\ HeaderLen + NumSlots * GetSize <= PageSize
        BY Layout
      <4>2. NumSlots * GetSize \in Nat
        BY <4>1
      <4> QED BY <2>1, <4>1, <4>2, SizesAssumption
    <3>2. image \in Seq(Nat) /\ Len(image) = PageSize
      BY <1>1, <3>1, SeqOfLen DEF Bytes
    <3>3. z \in [1 .. n -> Nat] /\ \A k \in 1 .. n : image[1 + k - 1] = z[k]
      <4>1. z \in [1 .. n -> Nat]
        OBVIOUS
      <4>2. ASSUME NEW k \in 1 .. n PROVE image[1 + k - 1] = 0
        <5>1. k \in 1 .. PageSize /\ 1 + k - 1 = k
          BY <3>1
        <5> QED BY <5>1 DEF Zeros
      <4> QED BY <4>1, <4>2
    <3>4. z[b] = 0
      BY <2>1
    <3> HIDE DEF z, n, b, h
    <3>5. 1 + n - 1 = n /\ 1 + n - 1 <= Len(image)
      BY <3>1, <3>2
    <3>6. SubSeq(image, 1, 1 + n - 1) = z
      BY <3>1, <3>2, <3>3, <3>5, Slice
    <3> QED BY <3>4, <3>5, <3>6 DEF HeaderIn, h, n
  <2>3. 0 \div Bit(i) = 0
    <3>1. i % Bits \in Nat
      BY PlaceOfBit, SizesAssumption
    <3>2. TwoTo[i % Bits] \in Nat \ {0}
      BY <3>1, Powers
    <3> DEFINE t == TwoTo[i % Bits]
    <3> HIDE DEF t
    <3>3. 0 \div t = 0
      BY <3>2 DEF t
    <3> QED BY <3>3 DEF Bit, t
  <2> QED BY <2>2, <2>3 DEF TuplePresent
<1> QED BY <1>1, <1>2

LEMMA InitInv ==
  ASSUME Init
  PROVE  IInv /\ PageHeld!Init
<1>1. /\ image \in Bytes(PageSize) /\ header = HeaderIn(image)
      /\ \A i \in Slot : ~TuplePresent(header, i)
  BY NoBits DEF Init
<1>2. header \in Bytes(HeaderLen)
  BY <1>1, HeaderType
<1>3. records = [i \in Slot |-> Null]
  BY <1>1 DEF Init, RecordsIn
<1>4. InMemory
  BY <1>1, <1>2, <1>3 DEF InMemory, Init
<1>5. OnFile
  <2>1. [i \in Slot |-> Null] \in [Slot -> Row \cup {Null}]
    OBVIOUS
  <2> QED BY <1>1, <2>1 DEF OnFile
<1>6. free_space = NumSlots
  <2>1. {i \in Slot : ~TuplePresent(header, i)} = Slot
    BY <1>1
  <2>2. Cardinality(0 .. (NumSlots - 1)) = NumSlots
    <3>1. NumSlots \in Nat /\ NumSlots - 1 \in Int /\ 0 \in Int
      BY Layout
    <3>2. Cardinality(0 .. (NumSlots - 1)) =
            IF 0 > NumSlots - 1 THEN 0 ELSE (NumSlots - 1) - 0 + 1
      BY <3>1, FS_Interval
    <3> QED BY <3>1, <3>2
  <2> QED BY <2>1, <2>2 DEF Init, FreeIn, Slot
<1>7. Held(header, records) = [i \in Slot |-> Null] /\ Disk = [i \in Slot |-> Null]
  BY <1>1 DEF Held, Disk
<1> QED BY <1>4, <1>5, <1>6, <1>7 DEF Init, IInv, PageHeld!Init, PageHeld!Blank,
          PageHeld!Slot, Slot, Disk

-----------------------------------------------------------------------------
(* Each action keeps the invariant and is one of PageOnFile.               *)

\* The set sizes of PageOnFile are those of this module.
LEMMA SameSize ==
  ASSUME NEW S
  PROVE  PageHeld!Cardinality(S) = Cardinality(S)
  BY DEF PageHeld!Cardinality, Cardinality

LEMMA AddTuplesStep ==
  ASSUME IInv, NEW ts \in Seq(Row), AddTuples(ts),
         ts \in {<<t>> : t \in Row} \cup {<<t1, t2>> : t1, t2 \in Row}
  PROVE  IInv' /\ PageHeld!Add
<1> DEFINE st == Filled(ts)
           data == Held(header, records)
           n == Len(ts)
<1>1. InMemory /\ OnFile /\ up \in BOOLEAN
  BY DEF IInv
<1>2. /\ header' = st.header /\ records' = st.records /\ n <= free_space
      /\ free_space' = free_space - n /\ image' = image /\ up' = up
  BY DEF AddTuples
<1>3. st \in Filling /\ FreeIn(st.header) = free_space - n /\ st.j = n
  BY <1>1, <1>2, FilledPlacing
<1>4. PICK p : Placing(st, p, ts, NumSlots)
  BY <1>1, <1>2, FilledPlacing
<1> HIDE DEF st
<1>5. n \in Nat /\ p \in [1 .. n -> Slot] /\ \A k \in 1 .. n : ts[k] \in Row
  <2>1. n \in Nat /\ p \in [1 .. n -> Slot]
    BY <1>3, <1>4, LenProperties DEF Placing
  <2> QED BY <2>1, ElementOfSeq
<1>6. /\ \A k, l \in 1 .. n : k < l => p[k] < p[l]
      /\ \A k \in 1 .. n : ~TuplePresent(header, p[k]) /\ records'[p[k]] = ts[k]
      /\ \A s \in Slot :
           /\ TuplePresent(header', s) <=> TuplePresent(header, s) \/ \E k \in 1 .. n : p[k] = s
           /\ (\A k \in 1 .. n : p[k] # s) => records'[s] = records[s]
           /\ ~TuplePresent(header, s) =>
                (\E k \in 1 .. n : p[k] = s) \/ (\A k \in 1 .. n : p[k] < s)
  BY <1>2, <1>3, <1>4 DEF Placing
<1> HIDE DEF n
<1>7. InMemory'
  <2>1. header' \in Bytes(HeaderLen) /\ records' \in [Slot -> Row \cup {Null}]
    BY <1>2, <1>3 DEF Filling
  <2>2. ASSUME NEW s \in Slot, TuplePresent(header', s)
        PROVE  records'[s] \in Row
    <3>1. CASE \E k \in 1 .. n : p[k] = s
      BY <1>5, <1>6, <3>1
    <3>2. CASE \A k \in 1 .. n : p[k] # s
      BY <1>1, <1>6, <2>2, <3>2 DEF InMemory
    <3> QED BY <3>1, <3>2
  <2>3. free_space' = FreeIn(header')
    BY <1>2, <1>3
  <2> QED BY <2>1, <2>2, <2>3 DEF InMemory
<1>8. IInv'
  BY <1>1, <1>2, <1>7 DEF IInv, OnFile
<1> DEFINE page == [data |-> PageHeld!Filled(data, p, ts), free |-> free_space - n,
                    dirty |-> FALSE]
<1>9. /\ data \in [Slot -> Row \cup {Null}]
      /\ \A s \in Slot : (data[s] = Null) <=> ~TuplePresent(header, s)
      /\ PageHeld!FreeSlots(data) = {s \in Slot : ~TuplePresent(header, s)}
  BY <1>1, DataIs DEF PageHeld!FreeSlots, PageHeld!Slot, Slot
<1>10. p \in PageHeld!Placements(data, n)
  <2>1. p \in [1 .. n -> PageHeld!FreeSlots(data)]
    BY <1>5, <1>6, <1>9
  <2>2. \A s \in PageHeld!FreeSlots(data) :
          (\E k \in 1 .. n : p[k] = s) \/ (\A k \in 1 .. n : p[k] < s)
    BY <1>6, <1>9
  <2> QED BY <1>6, <2>1, <2>2 DEF PageHeld!Placements
<1>11. Cardinality(PageHeld!FreeSlots(data)) = free_space
  BY <1>1, <1>9 DEF InMemory, FreeIn
<1>12. page \in PageHeld!AddTuples(PageHeld!Memory, ts)
  <2> HIDE DEF data
  <2>1. (IF n <= Cardinality(PageHeld!FreeSlots(data))
         THEN n ELSE Cardinality(PageHeld!FreeSlots(data))) = n
    BY <1>2, <1>11 DEF n
  <2>2. PageHeld!Memory = [data |-> data, free |-> free_space, dirty |-> FALSE]
    BY DEF PageHeld!Memory, data
  <2> QED BY <1>10, <2>1, <2>2, SameSize DEF PageHeld!AddTuples, n
<1>13. Held(header, records)' = PageHeld!Filled(data, p, ts)
  <2>1. ASSUME NEW s \in Slot
        PROVE  (IF TuplePresent(header', s) THEN records'[s] ELSE Null) =
               (IF \E k \in DOMAIN p : p[k] = s
                THEN ts[CHOOSE k \in DOMAIN p : p[k] = s] ELSE data[s])
    <3>1. DOMAIN p = 1 .. n
      BY <1>5
    <3>2. CASE \E k \in 1 .. n : p[k] = s
      <4> DEFINE k == CHOOSE l \in 1 .. n : p[l] = s
      <4>1. k \in 1 .. n /\ p[k] = s
        BY <3>2
      <4> HIDE DEF k
      <4>2. TuplePresent(header', s) /\ records'[s] = ts[k]
        BY <1>6, <4>1
      <4> QED BY <3>1, <3>2, <4>2 DEF k
    <3>3. CASE \A k \in 1 .. n : p[k] # s
      <4>1. records'[s] = records[s] /\ (TuplePresent(header', s) <=> TuplePresent(header, s))
        BY <1>6, <3>3
      <4>2. data[s] = IF TuplePresent(header, s) THEN records[s] ELSE Null
        BY DEF Held
      <4> HIDE DEF data
      <4> QED BY <3>1, <3>3, <4>1, <4>2
    <3> QED BY <3>2, <3>3
  <2> HIDE DEF data
  <2> QED BY <2>1 DEF Held, PageHeld!Filled, PageHeld!Slot, Slot
<1>14. Disk' = Disk
  BY <1>2 DEF Disk
<1>15. PageHeld!Add
  <2>1. PageHeld!Becomes(page)
    BY <1>2, <1>13 DEF PageHeld!Becomes, n
  <2> HIDE DEF page
  <2>2. Len(ts) <= free_space
    BY <1>2 DEF n
  <2> QED BY <1>12, <1>14, <2>1, <2>2 DEF PageHeld!Add, Disk
<1> QED BY <1>8, <1>15

LEMMA RemoveRecordStep ==
  ASSUME IInv, NEW i \in Slot, RemoveRecord(i)
  PROVE  IInv' /\ PageHeld!Remove
<1> DEFINE data == Held(header, records)
<1>1. InMemory /\ OnFile /\ up \in BOOLEAN
  BY DEF IInv
<1>2. /\ header' = MarkFree(header, i) /\ records' = records /\ TuplePresent(header, i)
      /\ free_space' = free_space + 1 /\ image' = image /\ up' = up
  BY DEF RemoveRecord
<1>3. /\ header' \in Bytes(HeaderLen)
      /\ \A s \in Slot : TuplePresent(header', s) <=> s # i /\ TuplePresent(header, s)
  BY <1>1, <1>2, Freed DEF InMemory
<1>4. free_space' = FreeIn(header')
  <2> DEFINE A == {s \in Slot : ~TuplePresent(header, s)}
  <2>1. IsFiniteSet(A) /\ i \notin A
    <3>1. IsFiniteSet(Slot)
      <4>1. NumSlots \in Nat
        BY Layout
      <4> QED BY <4>1, FS_Interval DEF Slot
    <3> QED BY <1>2, <3>1, FS_Subset
  <2>2. {s \in Slot : ~TuplePresent(header', s)} = A \cup {i}
    BY <1>3
  <2>3. free_space = Cardinality(A)
    BY <1>1 DEF InMemory, FreeIn
  <2> HIDE DEF A
  <2>4. Cardinality(A \cup {i}) = Cardinality(A) + 1
    BY <2>1, FS_AddElement
  <2> QED BY <1>2, <2>2, <2>3, <2>4 DEF FreeIn
<1>5. InMemory'
  BY <1>1, <1>2, <1>3, <1>4 DEF InMemory
<1>6. IInv'
  BY <1>1, <1>2, <1>5 DEF IInv, OnFile
<1>7. Held(header, records)' = [data EXCEPT ![i] = Null]
  BY <1>2, <1>3 DEF Held
<1>8. PageHeld!HasRecord(PageHeld!Memory, i)
  <2>1. data[i] # Null
    BY <1>1, <1>2, DataIs
  <2> QED BY <2>1 DEF PageHeld!HasRecord, PageHeld!Memory, PageHeld!Slot, Slot
<1>9. PageHeld!Remove
  BY <1>2, <1>7, <1>8 DEF PageHeld!Remove, PageHeld!RemoveRecord, PageHeld!Memory,
     PageHeld!Becomes, PageHeld!Slot, Slot
<1> QED BY <1>6, <1>9

LEMMA WritePageStep ==
  ASSUME IInv, WritePage
  PROVE  /\ IInv'
         /\ \/ PageHeld!Write
            \/ UNCHANGED <<Held(header, records), free_space, Disk>>
<1>1. InMemory /\ OnFile /\ up \in BOOLEAN
  BY DEF IInv
<1>2. header' = header /\ records' = records /\ free_space' = free_space
  BY DEF WritePage
<1>3. InMemory'
  BY <1>1, <1>2 DEF InMemory
<1>4. CASE \E i \in Slot : TuplePresent(header, i) /\ TooLong(records[i])
  <2>1. up' = FALSE /\ image' = image
    BY <1>4 DEF WritePage
  <2>2. IInv'
    BY <1>1, <1>3, <2>1 DEF IInv, OnFile
  <2> QED BY <1>2, <2>1, <2>2 DEF Disk
<1>5. CASE ~\E i \in Slot : TuplePresent(header, i) /\ TooLong(records[i])
  <2>1. up' = up /\ image' = GetPageData
    BY <1>5 DEF WritePage
  <2>2. header \in Bytes(HeaderLen) /\ AllFit
    BY <1>1, <1>5 DEF InMemory, AllFit, Fits
  <2>3. image' \in Bytes(PageSize) /\ HeaderIn(image') = header
    BY <2>1, <2>2, PageBytes
  <2>4. \A i \in Slot : TuplePresent(HeaderIn(image'), i) => Dumped(image', i, records[i])
    BY <2>1, <2>2, <2>3, PageHolds
  <2>5. OnFile'
    BY <1>1, <2>3, <2>4 DEF OnFile, InMemory
  <2>6. RecordsIn(image', <<>>) = Held(header, records)
    <3>1. <<>> \in Seq(Nat)
      BY EmptySeq
    <3> QED BY <2>3, <2>4, <3>1, Reread
  <2>7. Disk' = Held(header, records)
    BY <2>3, <2>6 DEF Disk, Held
  <2>8. PageHeld!Write
    BY <1>2, <2>7 DEF PageHeld!Write, Disk
  <2> QED BY <1>1, <1>3, <2>1, <2>5, <2>8 DEF IInv
<1> QED BY <1>4, <1>5

LEMMA ReadPageStep ==
  ASSUME IInv, ReadPage
  PROVE  IInv' /\ PageHeld!Read
<1>1. OnFile /\ up \in BOOLEAN
  BY DEF IInv
<1>2. PICK beyond \in Beyond : records' = RecordsIn(image, beyond)
  BY DEF ReadPage
<1>3. /\ header' = HeaderIn(image) /\ free_space' = FreeIn(header')
      /\ image' = image /\ up' = up
  BY DEF ReadPage
<1>4. beyond \in Seq(Nat)
  <2> DEFINE B == 0 .. (Base - 1)
  <2>1. beyond \in Seq(B) /\ B \subseteq Nat
    BY BeyondAssumption, BaseType
  <2> HIDE DEF B
  <2> QED BY <2>1, SeqMonotonic
<1>5. records' = Disk /\ header' \in Bytes(HeaderLen)
  BY <1>1, <1>2, <1>3, <1>4, DiskIs
<1>6. /\ Disk \in [Slot -> Row \cup {Null}]
      /\ \A i \in Slot : (Disk[i] = Null) <=> ~TuplePresent(header', i)
  BY <1>1, <1>3, DiskIs
<1>7. InMemory'
  BY <1>3, <1>5, <1>6 DEF InMemory
<1>8. IInv'
  BY <1>1, <1>3, <1>7 DEF IInv, OnFile
<1>9. Held(header, records)' = Disk
  <2>1. Held(header', Disk) = [i \in Slot |-> IF TuplePresent(header', i) THEN Disk[i] ELSE Null]
    BY DEF Held
  <2>2. Held(header', Disk) = Disk
    BY <1>6, <2>1
  <2> QED BY <1>5, <2>2
<1>10. PageHeld!FreeSlots(Disk) = {i \in Slot : ~TuplePresent(header', i)}
  BY <1>6 DEF PageHeld!FreeSlots, PageHeld!Slot, Slot
<1>11. PageHeld!Becomes(PageHeld!Create(Disk))
  BY <1>3, <1>9, <1>10, SameSize DEF PageHeld!Becomes, PageHeld!Create, FreeIn
<1>12. PageHeld!Read
  BY <1>3, <1>11 DEF PageHeld!Read, Disk
<1> QED BY <1>8, <1>12

\* The steps of a page of bytes are those of a page of slots.
LEMMA NextStep ==
  ASSUME IInv, [Next]_vars
  PROVE  IInv' /\ [PageHeld!Add \/ PageHeld!Remove \/ PageHeld!Write \/ PageHeld!Read]_
                    <<Held(header, records), free_space, Held(HeaderIn(image), RecordsIn(image, <<>>))>>
<1>1. CASE \E t \in Row : AddTuples(<<t>>)
  <2>1. PICK t \in Row : AddTuples(<<t>>)
    BY <1>1
  <2> DEFINE ts == <<t>>
  <2>2. ts \in Seq(Row) /\ ts \in {<<x>> : x \in Row} \cup {<<x1, x2>> : x1, x2 \in Row}
    OBVIOUS
  <2>3. AddTuples(ts)
    BY <2>1
  <2> HIDE DEF ts
  <2>4. IInv' /\ PageHeld!Add
    BY <2>2, <2>3, AddTuplesStep
  <2> QED BY <2>4
<1>2. CASE \E t1, t2 \in Row : AddTuples(<<t1, t2>>)
  <2>1. PICK t1 \in Row, t2 \in Row : AddTuples(<<t1, t2>>)
    BY <1>2
  <2> DEFINE ts == <<t1, t2>>
  <2>2. ts \in Seq(Row) /\ ts \in {<<x>> : x \in Row} \cup {<<x1, x2>> : x1, x2 \in Row}
    OBVIOUS
  <2>3. AddTuples(ts)
    BY <2>1
  <2> HIDE DEF ts
  <2>4. IInv' /\ PageHeld!Add
    BY <2>2, <2>3, AddTuplesStep
  <2> QED BY <2>4
<1>3. CASE \E i \in Slot : RemoveRecord(i)
  BY <1>3, RemoveRecordStep
<1>4. CASE WritePage
  BY <1>4, WritePageStep DEF Disk
<1>5. CASE ReadPage
  BY <1>5, ReadPageStep
<1>6. CASE UNCHANGED vars
  BY <1>6 DEF vars, IInv, InMemory, OnFile
<1> QED BY <1>1, <1>2, <1>3, <1>4, <1>5, <1>6 DEF Next

-----------------------------------------------------------------------------
LEMMA Invariance == Spec => []IInv
<1>1. Init => IInv
  BY InitInv
<1>2. IInv /\ [Next]_vars => IInv'
  BY NextStep
<1> QED BY <1>1, <1>2, PTL DEF Spec

\* The image is always a page long.
THEOREM ImagesArePages == Spec => []ImageIsPage
<1>1. IInv => ImageIsPage
  <2> SUFFICES ASSUME IInv PROVE Len(image) = PageSize
    BY DEF ImageIsPage
  <2>1. image \in [1 .. PageSize -> Nat] /\ PageSize \in Nat
    BY SizesAssumption DEF IInv, OnFile, Bytes
  <2> QED BY <2>1, SeqOfLen
<1> QED BY <1>1, Invariance, PTL

\* No text is read past its field when it is shorter than the field.
THEOREM TextsEndInside == Spec => []ReadsInside
<1>1. IInv => ReadsInside
  <2>1. SUFFICES ASSUME IInv, NEW i \in Slot, NEW j \in DOMAIN Desc,
                        TuplePresent(HeaderIn(image), i), Desc[j] = "str",
                        ParseInt(SubSeq(image, At(i, j), At(i, j) + INT_LEN - 1)) < STR_LEN
                 PROVE  Len(CString(image \o <<0>>, At(i, j) + INT_LEN)) =
                        ParseInt(SubSeq(image, At(i, j), At(i, j) + INT_LEN - 1))
    BY DEF ReadsInside
  <2> DEFINE at == At(i, j)
             bytes == image \o <<>> \o <<0>>
             row == Disk[i]
  <2>2. image \in Bytes(PageSize) /\ Dumped(image, i, row)
    BY <2>1, DiskIs DEF IInv, OnFile
  <2>3. <<>> \in Seq(Nat)
    BY EmptySeq
  <2> HIDE DEF row
  <2>4. /\ ParseInt(SubSeq(bytes, at, at + INT_LEN - 1)) = Len(row[j])
        /\ Len(row[j]) < STR_LEN => Len(CString(bytes, at + INT_LEN)) = Len(row[j])
    BY <2>1, <2>2, <2>3, FieldRead
  <2>5. image \in Seq(Nat) /\ Len(image) = PageSize /\ PageSize \in Nat
    BY <2>2, SeqOfLen, SizesAssumption DEF Bytes
  <2>6. bytes = image \o <<0>>
    BY <2>5, ConcatEmptySeq
  <2>7. SubSeq(bytes, at, at + INT_LEN - 1) = SubSeq(image, at, at + INT_LEN - 1)
    <3>1. at \in Nat \ {0} /\ at + INT_LEN - 1 <= PageSize /\ INT_LEN \in Nat
      BY <2>1, FieldInPage, SizesAssumption DEF GetLen, INT_LEN
    <3>2. /\ bytes \in Seq(Nat) /\ PageSize < Len(bytes)
          /\ \A k \in 1 .. PageSize : bytes[k] = image[k]
      BY <2>2, <2>3, MemoryAfter
    <3> DEFINE f == [k \in 1 .. INT_LEN |-> image[at + k - 1]]
    <3> HIDE DEF bytes, at
    <3>3. ASSUME NEW k \in 1 .. INT_LEN
          PROVE  /\ image[at + k - 1] = f[k] /\ bytes[at + k - 1] = f[k]
                 /\ f[k] \in Nat
      <4>1. at + k - 1 \in 1 .. PageSize
        BY <2>5, <3>1
      <4> QED BY <2>2, <3>2, <4>1 DEF Bytes
    <3>4. f \in [1 .. INT_LEN -> Nat]
      BY <3>3
    <3> HIDE DEF f
    <3>5. at + INT_LEN - 1 <= Len(image) /\ at + INT_LEN - 1 <= Len(bytes)
      BY <2>5, <3>1, <3>2, LenProperties
    <3>6. SubSeq(image, at, at + INT_LEN - 1) = f
      BY <2>5, <3>1, <3>3, <3>4, <3>5, Slice
    <3>7. SubSeq(bytes, at, at + INT_LEN - 1) = f
      BY <3>1, <3>2, <3>3, <3>4, <3>5, Slice, SMTT(30)
    <3> QED BY <3>6, <3>7
  <2> HIDE DEF bytes
  <2> QED BY <2>1, <2>4, <2>6, <2>7
<1> QED BY <1>1, Invariance, PTL

\* The bytes implement the page: see PageHeld.
THEOREM BytesImplementPage == Spec => ImplementsPage
<1>1. Init => PageHeld!Init
  BY InitInv
<1>2. IInv /\ [Next]_vars =>
        [PageHeld!Add \/ PageHeld!Remove \/ PageHeld!Write \/ PageHeld!Read]_
          <<Held(header, records), free_space, Held(HeaderIn(image), RecordsIn(image, <<>>))>>
  BY NextStep
<1> QED BY <1>1, <1>2, Invariance, PTL DEF Spec, ImplementsPage, PageHeld!Spec

=============================================================================
