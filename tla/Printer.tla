------------------------------ MODULE Printer ------------------------------
(***************************************************************************)
(* The tables the Repl draws (src/komfydb/execution/executor.cc): rows of  *)
(* cells in columns of one width, a text too long for its column wrapped   *)
(* onto further lines.  A text and a line are sequences of characters.     *)
(***************************************************************************)
EXTENDS Values, Joining, SequencesExt

CONSTANTS
  Char,      \* the characters there are
  Spelled    \* the characters of the names of tables and columns

Space == " "
Blank(n) == [i \in 1 .. n |-> Space]

\* What is drawn besides names and texts.
Symbols ==
  {Space, "+", "-", "|", "(", ")", ",", "_",
   "0", "1", "2", "3", "4", "5", "6", "7", "8", "9",
   "i", "n", "t", "s", "r", "T", "a", "b", "l", "e"}

\* Characters, none of them a space.
Text == {t \in Seq(Char) : \A i \in DOMAIN t : t[i] # Space}

\* A name has a character at least.
ASSUME PrinterAssumption ==
  /\ Symbols \subseteq Char
  /\ Word \in Text
  /\ \A name \in DOMAIN Spelled : Spelled[name] \in Text \ {<<>>}

\* The value of a digit at each place of an int.
Places == <<1, 10, 100, 1000, 10000, 100000, 1000000, 10000000, 100000000,
            1000000000>>

\* std::to_string.
Digits(n) ==
  LET count == CHOOSE k \in 1 .. 10 : (k = 10 \/ n < Places[k + 1])
                                      /\ (k = 1 \/ n >= Places[k])
  IN [i \in 1 .. count |->
        <<"0", "1", "2", "3", "4", "5", "6", "7", "8", "9">>
          [((n \div Places[count - i + 1]) % 10) + 1]]

\* The text of a field, and of a column's name and type.
FieldText(v) ==
  IF TypeOf(v) = "str" THEN SubSeq(Word, 1, v[2])
  ELSE IF v[2] < 0 THEN <<"-">> \o Digits(-v[2])
  ELSE Digits(v[2])

ColumnName(col) ==
  IF "table" \in DOMAIN col /\ col.table = "__aggregate__"
  THEN Spelled[col.name[1]] \o <<"_", "_">> \o Spelled[col.name[2]]
  ELSE Spelled[col.name]

\* A column: a table's, or an aggregate's, which has a pair for its name.
IsColumn(col) ==
  /\ col.type \in {"int", "str"}
  /\ IF "table" \in DOMAIN col /\ col.table = "__aggregate__"
     THEN col.name[1] \in DOMAIN Spelled /\ col.name[2] \in DOMAIN Spelled
     ELSE col.name \in DOMAIN Spelled

\* The columns of a table or a plan, one at least.
IsDesc(cols) ==
  /\ Len(cols) \in Nat \ {0} /\ DOMAIN cols = 1 .. Len(cols)
  /\ \A i \in DOMAIN cols : IsColumn(cols[i])

ItemText(col) ==
  ColumnName(col) \o <<"(">>
    \o (IF col.type = "int" THEN <<"i", "n", "t">> ELSE <<"s", "t", "r">>)
    \o <<")">>

GetFieldNames(cols) == [i \in DOMAIN cols |-> ItemText(cols[i])]
GetFieldTexts(row, cols) == [i \in DOMAIN cols |-> FieldText(Field(row, i))]

-----------------------------------------------------------------------------
ColumnWidth(terminal_width, count) == (terminal_width - 1) \div count - 1

\* WrapWord divides by the length, and substr throws where there is nothing
\* to cut; the titles, never shorter than six characters, leave a narrower
\* column no way out.
Wrappable(contents, column_width) ==
  column_width > 2 /\ \A i \in DOMAIN contents : contents[i] # <<>>

\* Mutant: off by one at the end of a piece.
WrapWord_Short(word, length) ==
  [p \in 1 .. ((Len(word) + length - 1) \div length) |->
     SubSeq(word, (p - 1) * length + 1, Min({p * length - 1, Len(word)}))]

WrapWord(word, length) ==
  [p \in 1 .. ((Len(word) + length - 1) \div length) |->
     SubSeq(word, (p - 1) * length + 1, Min({p * length, Len(word)}))]

WrapColumns(contents, column_width) ==
  [i \in DOMAIN contents |-> WrapWord(contents[i], column_width - 2)]

ExtendToColumnWidth(content, column_width) ==
  content \o Blank(column_width - Len(content))

\* As many lines as the longest column needs.
ConcatenateWrappedColumns(wrapped, column_width) ==
  LET Piece(i, row) ==
        IF row <= Len(wrapped[i])
        THEN ExtendToColumnWidth(wrapped[i][row], column_width - 1)
        ELSE Blank(column_width - 1)
  IN [row \in 1 .. Max({Len(wrapped[i]) : i \in DOMAIN wrapped}) |->
        Joined([i \in DOMAIN wrapped |-> <<"|", Space>> \o Piece(i, row)])
        \o <<"|">>]

GetLines(contents, column_width) ==
  ConcatenateWrappedColumns(WrapColumns(contents, column_width), column_width)

\* Mutant: nothing between the columns.
GetLineBreak_Unjoined(column_width, count) ==
  <<"+">> \o [i \in 1 .. (count * column_width) |-> "-"] \o <<"+">>

GetLineBreak(column_width, count) ==
  Joined([i \in 1 .. count |->
            <<"+">> \o [k \in 1 .. column_width |-> "-"]])
  \o <<"+">>

GetTableHeader(cols, column_width) ==
  <<GetLineBreak(column_width, Len(cols))>>
  \o GetLines(GetFieldNames(cols), column_width)

GetTupleLines(row, cols, column_width) ==
  <<GetLineBreak(column_width, Len(cols))>>
  \o GetLines(GetFieldTexts(row, cols), column_width)

\* A list under a title, each in one line as wide as the longest takes.
PrettyShowTables(names) ==
  LET header == <<"T", "a", "b", "l", "e", "s">>
      column_width == Max({Len(Spelled[names[i]]) : i \in DOMAIN names}
                          \cup {Len(header)}) + 2
      line_break == GetLineBreak(column_width, 1)
      LineOf(text) == Last(GetLines(<<text>>, column_width))
  IN <<line_break, LineOf(header), line_break>>
     \o [i \in DOMAIN names |-> LineOf(Spelled[names[i]])]
     \o <<line_break>>

\* The columns of a table, in one line.
DescText(cols) ==
  Joined([i \in DOMAIN cols |->
            (IF i = 1 THEN <<>> ELSE <<",", Space>>) \o ItemText(cols[i])])

PrettyShowColumns(cols) ==
  LET column_width == Len(DescText(cols)) + 2
      line_break == GetLineBreak(column_width, 1)
  IN <<line_break, Last(GetLines(<<DescText(cols)>>, column_width)), line_break>>

-----------------------------------------------------------------------------
(* Reading a screen: what the lines between two line breaks have in each   *)
(* column, put together.                                                   *)

Trimmed(text) ==
  SubSeq(text, 1, Max({0} \cup {i \in DOMAIN text : text[i] # Space}))

CellText(line, i, column_width) ==
  Trimmed(SubSeq(line, (i - 1) * (column_width + 1) + 3, i * (column_width + 1)))

Breaks(screen) == {i \in DOMAIN screen : screen[i][1] = "+"}

\* The b-th break from the top.
BreakAt(screen, b) ==
  CHOOSE i \in Breaks(screen) : Cardinality({k \in Breaks(screen) : k <= i}) = b

LinesBelow(screen, b) ==
  SubSeq(screen, BreakAt(screen, b) + 1, BreakAt(screen, b + 1) - 1)

Told(screen, count, column_width) ==
  [b \in 1 .. (Cardinality(Breaks(screen)) - 1) |->
     [i \in 1 .. count |->
        Joined([k \in DOMAIN LinesBelow(screen, b) |->
                  CellText(LinesBelow(screen, b)[k], i, column_width)])]]

=============================================================================
