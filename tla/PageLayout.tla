----------------------------- MODULE PageLayout -----------------------------
(***************************************************************************)
(* The bytes of a heap page (src/komfydb/storage/heap_page.cc): header     *)
(* bits, then slots of one width, then padding.  HeapPage takes a page for *)
(* what its slots hold; this module shows that its bytes say just that.    *)
(*                                                                         *)
(* A field is an integer or the characters of a text, a record the         *)
(* sequence of its fields.  Sizes are parameters, a byte of Bits bits.     *)
(***************************************************************************)
EXTENDS Joining, FiniteSets

CONSTANTS
  Bits,       \* bits of a byte: 8
  PageSize,   \* CONFIG_PAGE_SIZE: 4096
  STR_LEN,    \* bytes kept for a text: 128
  Desc,       \* the types of the columns
  Row,        \* the tuples a statement may add
  Null,       \* a record with no field set
  Beyond      \* what memory may hold after the bytes of a page

ASSUME SizesAssumption ==
  /\ Bits \in Nat \ {0} /\ PageSize \in Nat /\ STR_LEN \in Nat
  /\ Desc \in Seq({"int", "str"})

VARIABLES
  header, records, free_space,   \* the members of HeapPage
  image,                         \* the page on file
  up                             \* the process lives

vars == <<header, records, free_space, image, up>>

INT_LEN == 4

\* 1 << n.
TwoTo[n \in Nat] == IF n = 0 THEN 1 ELSE 2 * TwoTo[n - 1]

Base == TwoTo[Bits]

\* Type::GetLen.
GetLen(type) == IF type = "int" THEN INT_LEN ELSE STR_LEN + INT_LEN

\* TupleDesc::GetSize, of the first n columns.
SizeTo[n \in Nat] == IF n = 0 THEN 0 ELSE SizeTo[n - 1] + GetLen(Desc[n])
GetSize == SizeTo[Len(Desc)]

\* The slots of a page, each of a tuple and a header bit.
SlotsOf(size) == (PageSize * Bits) \div (size * Bits + 1)

HeaderOf(slots) == (slots + Bits - 1) \div Bits

NumSlots == SlotsOf(GetSize)
HeaderLen == HeaderOf(NumSlots)
Slot == 0 .. (NumSlots - 1)

Zeros(n) == [i \in 1 .. n |-> 0]

-----------------------------------------------------------------------------
(* Header bits.                                                            *)

ByteOf(i) == i \div Bits + 1
Bit(i) == TwoTo[i % Bits]

TuplePresent(h, i) == (h[ByteOf(i)] \div Bit(i)) % 2 = 1

\* `|=` and `&= ~` of one bit.
MarkOccupied(h, i) ==
  IF TuplePresent(h, i) THEN h ELSE [h EXCEPT ![ByteOf(i)] = @ + Bit(i)]
MarkFree(h, i) ==
  IF TuplePresent(h, i) THEN [h EXCEPT ![ByteOf(i)] = @ - Bit(i)] ELSE h

-----------------------------------------------------------------------------
(* Integers: in memory the byte of least weight comes first; on file, by   *)
(* htonl and ntohl, the one of most.                                       *)

Place == <<1, Base, Base * Base, Base * Base * Base>>
Digit(u, k) == (u \div Place[k + 1]) % Base
Modulus == Place[INT_LEN] * Base

Unsigned(n) == n % Modulus
Signed(u) == IF 2 * u < Modulus THEN u ELSE u - Modulus

Memory(u) == <<Digit(u, 0), Digit(u, 1), Digit(u, 2), Digit(u, 3)>>
load32_le(b) ==
  b[1] * Place[1] + b[2] * Place[2] + b[3] * Place[3] + b[4] * Place[4]
Swap(u) == load32_le(<<Digit(u, 3), Digit(u, 2), Digit(u, 1), Digit(u, 0)>>)

DumpInt(n) == Memory(Swap(Unsigned(n)))
ParseInt(b) == Signed(Swap(load32_le(b)))

\* What a field of a type may be: an int, or a text without a zero byte, the
\* length of which is an int.
IsField(type, v) ==
  IF type = "int" THEN v \in Int /\ -Modulus <= 2 * v /\ 2 * v < Modulus
  ELSE v \in Seq(1 .. (Base - 1)) /\ 2 * Len(v) < Modulus

ASSUME RowAssumption ==
  /\ Null \notin Row
  /\ \A row \in Row : /\ row = [j \in DOMAIN Desc |-> row[j]]
                       /\ \A j \in DOMAIN Desc : IsField(Desc[j], row[j])

ASSUME BeyondAssumption == Beyond \subseteq Seq(0 .. (Base - 1))

-----------------------------------------------------------------------------
(* Texts: their length, their characters, and zeros.                       *)

\* Mutant: no zeros.
DumpString_Unpadded(s) == DumpInt(Len(s)) \o s

DumpString(s) == DumpInt(Len(s)) \o s \o Zeros(STR_LEN - Len(s))

\* The C string that begins at i: up to the first zero byte, which may be one
\* of a later field or lie beyond the page.
CString(bytes, i) ==
  LET end == CHOOSE k \in i .. Len(bytes) :
               bytes[k] = 0 /\ \A j \in i .. (k - 1) : bytes[j] # 0
  IN SubSeq(bytes, i, end - 1)

\* Mutant: the length on file is not looked at.
Cut_Not(s, n) == s

\* substr takes a negative length for a huge one.
Cut(s, n) == IF n < 0 \/ n > Len(s) THEN s ELSE SubSeq(s, 1, n)

ParseString(bytes, i) ==
  Cut(CString(bytes, i + INT_LEN), ParseInt(SubSeq(bytes, i, i + INT_LEN - 1)))

\* insert takes a negative padding for a huge count, and throws.
TooLong(row) == \E j \in DOMAIN Desc : Desc[j] = "str" /\ Len(row[j]) > STR_LEN

-----------------------------------------------------------------------------
(* A page image and back.                                                  *)

DumpField(j, v) == IF Desc[j] = "int" THEN DumpInt(v) ELSE DumpString(v)

DumpSlot(i) ==
  IF TuplePresent(header, i)
  THEN Joined([j \in DOMAIN Desc |-> DumpField(j, records[i][j])])
  ELSE Zeros(GetSize)

DumpSlots == Joined([i \in 1 .. NumSlots |-> DumpSlot(i - 1)])

\* Mutant: the header is forgotten when the padding is counted.
GetPageData_Padding == header \o DumpSlots \o Zeros(PageSize - Len(DumpSlots))

GetPageData ==
  LET bytes == header \o DumpSlots
  IN bytes \o Zeros(PageSize - Len(bytes))

\* Where field j of slot i begins.
At(i, j) == HeaderLen + i * GetSize + SizeTo[j - 1] + 1

ParseField(bytes, i, j) ==
  IF Desc[j] = "int" THEN ParseInt(SubSeq(bytes, At(i, j), At(i, j) + INT_LEN - 1))
  ELSE ParseString(bytes, At(i, j))

HeaderIn(data) == SubSeq(data, 1, HeaderLen)

\* beyond is what is in memory after data.
RecordsIn(data, beyond) ==
  [i \in Slot |-> IF TuplePresent(HeaderIn(data), i)
                  THEN [j \in DOMAIN Desc |->
                          ParseField(data \o beyond \o <<0>>, i, j)]
                  ELSE Null]

\* What a page with these members holds.
Held(h, recs) == [i \in Slot |-> IF TuplePresent(h, i) THEN recs[i] ELSE Null]

FreeIn(h) == Cardinality({i \in Slot : ~TuplePresent(h, i)})

-----------------------------------------------------------------------------
(* The page in the pool.                                                   *)

Init ==
  /\ image = Zeros(PageSize)
  /\ header = HeaderIn(image)
  /\ records = RecordsIn(image, <<>>)
  /\ free_space = FreeIn(header)
  /\ up = TRUE

\* AddTuples passes slot i: was.j tuples are placed before it.
Passed(was, ts, i) ==
  IF was.j < Len(ts) /\ ~TuplePresent(was.header, i)
  THEN [header |-> MarkOccupied(was.header, i),
        records |-> [was.records EXCEPT ![i] = ts[was.j + 1]],
        j |-> was.j + 1]
  ELSE was

\* The loop of AddTuples, over all slots.
Filled(ts) ==
  LET after[n \in 0 .. NumSlots] ==
        IF n = 0 THEN [header |-> header, records |-> records, j |-> 0]
        ELSE Passed(after[n - 1], ts, n - 1)
  IN after[NumSlots]

AddTuples(ts) ==
  /\ up /\ Len(ts) <= free_space
  /\ header' = Filled(ts).header
  /\ records' = Filled(ts).records
  /\ free_space' = free_space - Len(ts)
  /\ UNCHANGED <<image, up>>

\* RemoveRecord leaves the record where it is.
RemoveRecord(i) ==
  /\ up /\ TuplePresent(header, i)
  /\ header' = MarkFree(header, i)
  /\ free_space' = free_space + 1
  /\ UNCHANGED <<records, image, up>>

WritePage ==
  /\ up
  /\ IF \E i \in Slot : TuplePresent(header, i) /\ TooLong(records[i])
     THEN up' = FALSE /\ UNCHANGED image
     ELSE image' = GetPageData /\ UNCHANGED up
  /\ UNCHANGED <<header, records, free_space>>

\* The page is evicted and read again.
ReadPage ==
  /\ up
  /\ header' = HeaderIn(image)
  /\ \E beyond \in Beyond : records' = RecordsIn(image, beyond)
  /\ free_space' = FreeIn(header')
  /\ UNCHANGED <<image, up>>

Next ==
  \/ \E t \in Row : AddTuples(<<t>>)
  \/ \E t1, t2 \in Row : AddTuples(<<t1, t2>>)
  \/ \E i \in Slot : RemoveRecord(i)
  \/ WritePage
  \/ ReadPage

Spec == Init /\ [][Next]_vars

-----------------------------------------------------------------------------
(* Properties *)

\* An image is always a page long: header, slots and padding.
ImageIsPage == Len(image) = PageSize

\* A text shorter than its field is read without leaving the field: the zero
\* that ends it is one of its own padding.
ReadsInside ==
  \A i \in Slot, j \in DOMAIN Desc :
    LET at == At(i, j)
        len == ParseInt(SubSeq(image, at, at + INT_LEN - 1))
    IN /\ TuplePresent(HeaderIn(image), i)
       /\ Desc[j] = "str"
       /\ len < STR_LEN
       => Len(CString(image \o <<0>>, at + INT_LEN)) = len

\* The bytes in memory and on file are a page as HeapPage has it: every
\* operation on them is the one of HeapPage, writing and reading back loses
\* and changes nothing, whatever the fields are and whatever follows in memory.
PageHeld ==
  INSTANCE PageOnFile WITH
    Tuple <- Row, Malformed <- {}, Empty <- Null,
    data <- Held(header, records), free <- free_space,
    disk <- Held(HeaderIn(image), RecordsIn(image, <<>>))

ImplementsPage == PageHeld!Spec

=============================================================================
