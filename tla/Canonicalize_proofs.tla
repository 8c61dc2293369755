------------------------ MODULE Canonicalize_proofs -------------------------
(***************************************************************************)
(* Proofs about the conversion of a flow table, for all files, aliases,    *)
(* units and labels.                                                       *)
(*                                                                         *)
(* First what the stages make of a file: the table read, the column of a   *)
(* field, the values of a field, the labels, and that all this leaves a    *)
(* canonical table as it is.  Then the invariant, that each stage is that  *)
(* of the file.  Then the eight ways of reading a cell, and by them what a *)
(* canonical table says of the file's cells.                               *)
(***************************************************************************)
EXTENDS CanonicalizeProps, FiniteSums, SequenceTheorems, TLAPS

-----------------------------------------------------------------------------
(* Places in a table *)

\* A set of natural numbers that is not empty has a least member.
LEMMA LeastPlace ==
  ASSUME NEW S \in SUBSET Nat, S # {}
  PROVE  Min(S) \in S /\ \A n \in S : Min(S) <= n
<1> DEFINE U == {n \in Nat : \A m \in S : n < m}
<1>1. SUFFICES ASSUME \A x \in S : \E y \in S : ~(x <= y) PROVE FALSE
  BY DEF Min
<1>2. 0 \in U
  BY <1>1
<1>3. ASSUME NEW n \in Nat, n \in U PROVE n + 1 \in U
  <2>1. n + 1 \notin S
    BY <1>1, <1>3
  <2> QED BY <1>3, <2>1
<1>4. Nat \subseteq U
  <2> HIDE DEF U
  <2> QED BY <1>2, <1>3, NatSetInduction
<1>5. PICK s \in S : TRUE
  OBVIOUS
<1>6. s \in U
  BY <1>4
<1> QED BY <1>5, <1>6

\* One that is bounded has a greatest.
LEMMA GreatestPlace ==
  ASSUME NEW L \in Nat, NEW S \in SUBSET (0 .. L), S # {}
  PROVE  Max(S) \in S /\ \A n \in S : n <= Max(S)
<1> DEFINE B == {n \in Nat : \A m \in S : m <= n}
<1>1. L \in B
  OBVIOUS
<1> DEFINE top == Min(B)
<1>2. top \in B /\ \A n \in B : top <= n
  BY <1>1, LeastPlace
<1> HIDE DEF top
<1>3. top \in S
  <2> SUFFICES ASSUME top \notin S PROVE FALSE
    OBVIOUS
  <2>1. PICK s \in S : TRUE
    OBVIOUS
  <2>2. top \in Nat /\ s <= top /\ s # top /\ s \in Nat
    BY <1>2, <2>1
  <2>3. \A m \in S : m <= top - 1
    BY <1>2, <2>2
  <2>4. top - 1 \in B
    BY <2>2, <2>3
  <2> QED BY <1>2, <2>2, <2>4
<1>4. \E x \in S : \A y \in S : x >= y
  BY <1>2, <1>3
<1>5. Max(S) \in S /\ \A y \in S : Max(S) >= y
  BY <1>4 DEF Max
<1> QED BY <1>5

\* What a table is made of.
LEMMA TableType ==
  ASSUME NEW t, IsTable(t)
  PROVE  /\ Len(t) \in Nat /\ 1 <= Len(t) /\ DOMAIN t = 1 .. Len(t)
         /\ 1 \in DOMAIN t /\ DOMAIN t \subseteq Nat /\ t = [n \in DOMAIN t |-> t[n]]
         /\ \A n \in DOMAIN t :
              /\ IsColumn(t[n])
              /\ t[n].type \in {"text", "int", "float", "timestamp"}
              /\ t[n].values = [r \in Rows(t) |-> t[n].values[r]]
              /\ DOMAIN t[n].values = Rows(t)
              /\ \A r \in Rows(t) : t[n].values[r] \in Cells(t[n].type)
         /\ \E k \in Nat : Rows(t) = 1 .. k
<1>1. t \in Seq(Range(t)) /\ t # <<>>
  BY DEF IsTable
<1>2. /\ Len(t) \in Nat /\ 1 <= Len(t) /\ DOMAIN t = 1 .. Len(t) /\ 1 \in DOMAIN t
      /\ t = [n \in DOMAIN t |-> t[n]]
  BY <1>1, LenProperties, EmptySeq
<1>3. ASSUME NEW n \in DOMAIN t
      PROVE  /\ IsColumn(t[n])
             /\ t[n].type \in {"text", "int", "float", "timestamp"}
             /\ t[n].values \in Seq(Cells(t[n].type))
             /\ t[n].values = [r \in Rows(t) |-> t[n].values[r]]
             /\ DOMAIN t[n].values = Rows(t)
             /\ \A r \in Rows(t) : t[n].values[r] \in Cells(t[n].type)
  <2>1. /\ IsColumn(t[n])
        /\ t[n].type \in {"text", "int", "float", "timestamp"}
        /\ t[n].values \in Seq(Cells(t[n].type))
    BY DEF IsTable, IsColumn
  <2>2. DOMAIN t[n].values = Rows(t)
    BY DEF IsTable, Rows
  <2>3. t[n].values = [r \in DOMAIN t[n].values |-> t[n].values[r]]
    BY <2>1
  <2>4. \A r \in DOMAIN t[n].values : t[n].values[r] \in Cells(t[n].type)
    BY <2>1, ElementOfSeq, LenProperties
  <2> QED BY <2>1, <2>2, <2>3, <2>4
<1>4. Rows(t) = 1 .. Len(t[1].values) /\ Len(t[1].values) \in Nat
  BY <1>2, <1>3, LenProperties DEF Rows
<1> QED BY <1>2, <1>3, <1>4

\* A table is built of columns of one length.
LEMMA TableBuilt ==
  ASSUME NEW t, NEW L \in Nat, NEW k \in Nat, 1 <= L, t = [n \in 1 .. L |-> t[n]],
         \A n \in 1 .. L :
           /\ t[n] = [name |-> t[n].name, type |-> t[n].type, values |-> t[n].values]
           /\ t[n].type \in {"text", "int", "float", "timestamp"}
           /\ t[n].values = [r \in 1 .. k |-> t[n].values[r]]
           /\ \A r \in 1 .. k : t[n].values[r] \in Cells(t[n].type)
  PROVE  IsTable(t) /\ Rows(t) = 1 .. k
<1>1. DOMAIN t = 1 .. L
  OBVIOUS
<1>2. t \in [1 .. L -> Range(t)]
  BY <1>1 DEF Range
<1>3. t \in Seq(Range(t)) /\ t # <<>>
  <2>1. t \in Seq(Range(t))
    BY <1>2, SeqDef
  <2>2. 1 \in DOMAIN t /\ Len(t) = L
    BY <1>1, <2>1, LenProperties
  <2> QED BY <2>1, <2>2, EmptySeq
<1>4. ASSUME NEW n \in 1 .. L
      PROVE  IsColumn(t[n]) /\ DOMAIN t[n].values = 1 .. k
  <2>1. t[n].values = [r \in 1 .. k |-> t[n].values[r]]
    OBVIOUS
  <2>2. t[n].values \in [1 .. k -> Cells(t[n].type)] /\ DOMAIN t[n].values = 1 .. k
    BY <2>1
  <2>3. t[n].values \in Seq(Cells(t[n].type))
    BY <2>2, SeqDef
  <2> QED BY <2>2, <2>3 DEF IsColumn
<1> QED BY <1>1, <1>3, <1>4 DEF IsTable, Rows

-----------------------------------------------------------------------------
(* What is read of a file *)

\* None, no number and the infinite ones are apart, and neither numbers nor texts.
LEMMA NoNumber ==
  /\ None \notin Int /\ NaN \notin Int /\ Inf \notin Int /\ NegInf \notin Int
  /\ None \notin Texts /\ NaN \notin Texts /\ Inf \notin Texts /\ NegInf \notin Texts
  /\ None # NaN /\ None # Inf /\ None # NegInf /\ NaN # Inf /\ NaN # NegInf /\ Inf # NegInf
  /\ Specials = {NaN, Inf, NegInf}
<1>1. /\ Specials = {NaN, Inf, NegInf} /\ None \notin Specials
      /\ (Specials \cup {None}) \cap Int = {} /\ NaN # Inf /\ NaN # NegInf /\ Inf # NegInf
  BY SpecialAssumption DEF Specials
<1>2. \A c \in Specials \cup {None} : c \notin Texts
  BY NullAssumption
<1> QED BY <1>1, <1>2

\* 64 bits hold what 32 do, and 0.
LEMMA Widths ==
  /\ Int64 \subseteq Int /\ Int32 \subseteq Int64 /\ 0 \in Int32
  /\ MaxInt64 \in Int64 /\ -(MaxInt64 + 1) \in Int64 /\ 58 \in Int32 /\ 6 \in Int32
BY ThresholdAssumption, SchemaAssumption, SMT DEF Int64, Int32

\* A text is trimmed or not, and nothing else changes.
LEMMA TrimmedText ==
  ASSUME NEW c \in Texts \cup {None}
  PROVE  /\ Trimmed(c) \in Texts \cup {None}
         /\ c = None <=> Trimmed(c) = None
         /\ c # None => /\ c \in Texts
                        /\ Trimmed(c) = [form |-> c.form, value |-> c.value, padded |-> FALSE]
BY NoNumber DEF Trimmed, Texts

\* A text parsed as a float is a float or none.
LEMMA ParsedText ==
  ASSUME NEW c \in Texts
  PROVE  /\ ParsedFloat(c) = IF c.form \in {"plain", "decimal"} THEN c.value
                             ELSE IF c.form = "nan" THEN NaN
                             ELSE IF c.form = "inf" THEN Inf
                             ELSE IF c.form = "-inf" THEN NegInf ELSE None
         /\ ParsedFloat(c) \in Floats \cup {None}
<1>1. c.value \in Int
  BY DEF Texts
<1>2. ParsedFloat(c) = IF c.form \in {"plain", "decimal"} THEN c.value
                       ELSE IF c.form = "nan" THEN NaN
                       ELSE IF c.form = "inf" THEN Inf
                       ELSE IF c.form = "-inf" THEN NegInf ELSE None
  BY DEF ParsedFloat
<1> QED BY <1>1, <1>2, NoNumber DEF Floats

\* A number of a text, and none of what is not one.
LEMMA TextCasts ==
  ASSUME NEW c \in Texts \cup {None}
  PROVE  /\ TextToInt(c) \in Int64 \cup {None}
         /\ TextToInt(c) = IF c # None /\ ~c.padded /\ c.form = "plain" /\ c.value \in Int64
                           THEN c.value ELSE None
         /\ TextToFloat(c) \in Floats \cup {None}
         /\ TextToFloat(c) = IF c = None \/ c.padded THEN None ELSE ParsedFloat(c)
<1>1. TextToInt(c) = IF c # None /\ ~c.padded /\ c.form = "plain" /\ c.value \in Int64
                     THEN c.value ELSE None
  BY DEF TextToInt
<1>2. TextToFloat(c) = IF c = None \/ c.padded THEN None ELSE ParsedFloat(c)
  BY DEF TextToFloat
<1> QED BY <1>1, <1>2, ParsedText

\* A type that is inferred fits every cell.
LEMMA InferredType ==
  ASSUME NEW R, NEW cells, DOMAIN cells = R, \A r \in R : cells[r] \in Texts \cup {None}
  PROVE  /\ Inferred(cells) \in {"int", "float", "timestamp", "text"}
         /\ Inferred(cells) # "text" =>
              \A r \in R : cells[r] # None =>
                ~cells[r].padded /\ cells[r].form \in {"plain", "decimal", "date"}
         /\ Inferred(cells) = "int" =>
              \A r \in R : cells[r] # None => cells[r].form = "plain" /\ cells[r].value \in Int64
         /\ Inferred(cells) = "float" =>
              /\ \A r \in R : cells[r] # None => cells[r].form \in {"plain", "decimal"}
              /\ \E r \in R : cells[r] # None /\ cells[r].form = "decimal"
         /\ Inferred(cells) = "timestamp" =>
              \A r \in R : cells[r] # None => cells[r].form = "date" /\ cells[r].value \in Int64
<1> DEFINE Form(c) == CASE c.padded -> "padded"
                        [] ~c.padded /\ c.form = "plain" /\ c.value \notin Int64 -> "long"
                        [] OTHER -> c.form
           forms == {Form(c) : c \in Range(cells) \ {None}}
<1>1. Inferred(cells) = CASE forms = {"plain"} -> "int"
       [] "decimal" \in forms /\ forms \subseteq {"plain", "decimal"} -> "float"
       [] forms = {"date"} -> "timestamp"
       [] OTHER -> "text"
  BY DEF Inferred
<1>2. ASSUME NEW r \in R, cells[r] # None
      PROVE  /\ Form(cells[r]) \in forms
             /\ Form(cells[r]) \in {"plain", "decimal", "date"} =>
                  /\ ~cells[r].padded /\ cells[r].form = Form(cells[r])
                  /\ cells[r].form \in {"plain", "date"} => cells[r].value \in Int64
  <2>1. cells[r] \in Range(cells) \ {None}
    BY <1>2 DEF Range
  <2>2. /\ cells[r].padded \in BOOLEAN
        /\ cells[r].form = "date" => cells[r].value \in Int64
    BY <1>2 DEF Texts
  <2>3. Form(cells[r]) \in forms
    BY <2>1
  <2>4. Form(cells[r]) = IF cells[r].padded THEN "padded"
                         ELSE IF cells[r].form = "plain" /\ cells[r].value \notin Int64 THEN "long"
                         ELSE cells[r].form
    BY <2>2
  <2> HIDE DEF Form, forms
  <2> QED BY <2>2, <2>3, <2>4
<1>3. ASSUME "decimal" \in forms
      PROVE  \E r \in R : cells[r] # None /\ cells[r].form = "decimal"
  <2>1. PICK c \in Range(cells) \ {None} : Form(c) = "decimal"
    BY <1>3
  <2>2. PICK r \in R : cells[r] = c
    BY <2>1 DEF Range
  <2>3. Form(c) = IF c.padded THEN "padded"
                  ELSE IF c.form = "plain" /\ c.value \notin Int64 THEN "long" ELSE c.form
    <3>1. c.padded \in BOOLEAN
      BY <2>1, <2>2 DEF Texts
    <3> QED BY <3>1
  <2>4. c.form = "decimal"
    <3> HIDE DEF Form
    <3> QED BY <2>1, <2>3
  <2> QED BY <2>1, <2>2, <2>4
<1> HIDE DEF forms, Form
<1>4. Inferred(cells) \in {"int", "float", "timestamp", "text"}
  BY <1>1
<1>5. CASE Inferred(cells) = "int"
  <2>1. forms = {"plain"}
    BY <1>1, <1>5
  <2> QED BY <1>2, <1>5, <2>1
<1>6. CASE Inferred(cells) = "float"
  <2>1. "decimal" \in forms /\ forms \subseteq {"plain", "decimal"}
    BY <1>1, <1>6
  <2> QED BY <1>2, <1>3, <1>6, <2>1
<1>7. CASE Inferred(cells) = "timestamp"
  <2>1. forms = {"date"}
    BY <1>1, <1>7
  <2> QED BY <1>2, <1>7, <2>1
<1> QED BY <1>4, <1>5, <1>6, <1>7

\* What is read of a cell, by the format of the file.
IsReading(f, n, r, type, v) ==
  LET c == f.columns[n].values[r]
  IN CASE f.format = "parquet" -> type = f.columns[n].type /\ v = c
       [] f.format = "delimited" ->
            /\ type = Inferred(f.columns[n].values)
            /\ v = IF c = None \/ type = "text" THEN Trimmed(c) ELSE c.value
       [] OTHER -> type = Declared(f, n) /\ v = ZeekCell(f, type, c)

\* What is declared in a log is one of three types.
LEMMA ZeekTypes ==
  ASSUME NEW f, NEW n
  PROVE  Declared(f, n) \in {"text", "int", "float"}
BY DEF Declared, ZeekArrowType

\* Its cells are of it.
LEMMA ZeekCellType ==
  ASSUME NEW f, NEW n, NEW c \in Texts \cup {None}
  PROVE  /\ Declared(f, n) \in {"text", "int", "float"}
         /\ ZeekCell(f, Declared(f, n), c) \in Cells(Declared(f, n))
<1>1. Declared(f, n) \in {"text", "int", "float"}
  BY ZeekTypes
<1>2. Fill(f, c) \in Texts \cup {None}
  <2>1. Written("plain", 0) \in Texts
    BY DEF Written, Texts, Forms
  <2> QED BY <2>1, TrimmedText DEF Fill
<1>3. /\ TextToInt(Fill(f, c)) \in Int64 \cup {None}
      /\ TextToFloat(Fill(f, c)) \in Floats \cup {None}
      /\ Trimmed(c) \in Texts \cup {None}
  BY <1>2, TextCasts, TrimmedText
<1> QED BY <1>1, <1>3 DEF ZeekCell, Cells

\* A legible file is a table that has the columns and the rows of the file, and
\* whose cells are read from those of the file.
LEMMA TableOfFile ==
  ASSUME NEW f, IsFile(f), IsLegible(f)
  PROVE  /\ IsTable(TableOf(f)) /\ IsTable(f.columns)
         /\ DOMAIN TableOf(f) = DOMAIN f.columns /\ Rows(TableOf(f)) = Rows(f.columns)
         /\ \A n \in DOMAIN f.columns :
              /\ TableOf(f)[n].name = f.columns[n].name
              /\ \A r \in Rows(f.columns) :
                   IsReading(f, n, r, TableOf(f)[n].type, TableOf(f)[n].values[r])
         /\ f.format = "parquet" => TableOf(f) = f.columns
<1> DEFINE columns == f.columns
           rows == Rows(columns)
           t == TableOf(f)
<1>1. /\ f.format \in {"parquet", "delimited", "zeek"} /\ IsTable(columns)
      /\ f.format = "parquet" <=> IsParquet(f)
      /\ f.format = "zeek" <=> IsZeek(f)
      /\ f.format = "zeek" => /\ Len(ZeekFields(f)) = Len(columns)
                              /\ \A n \in DOMAIN columns : ZeekFields(f)[n] = columns[n].name
      /\ f.format # "parquet" => \A n \in DOMAIN columns : columns[n].type = "text"
  BY DEF IsFile, IsLegible, IsZeek
<1>2. /\ Len(columns) \in Nat /\ 1 \in DOMAIN columns /\ DOMAIN columns = 1 .. Len(columns)
      /\ \A n \in DOMAIN columns :
           /\ IsColumn(columns[n])
           /\ DOMAIN columns[n].values = rows
           /\ \A r \in rows : columns[n].values[r] \in Cells(columns[n].type)
      /\ \E k \in Nat : rows = 1 .. k
  BY <1>1, TableType
<1>3. f.format # "parquet" =>
        \A n \in DOMAIN columns : \A r \in rows : columns[n].values[r] \in Texts \cup {None}
  BY <1>1, <1>2 DEF Cells
<1>4. PICK k \in Nat : rows = 1 .. k
  BY <1>2
<1>5. CASE f.format = "parquet"
  <2>1. t = columns
    BY <1>1, <1>5 DEF TableOf
  <2> QED BY <1>1, <1>5, <2>1 DEF IsReading
<1>6. CASE f.format = "delimited"
  <2> DEFINE typeOf(n) == Inferred(columns[n].values)
             cell(n, c) == IF c = None \/ typeOf(n) = "text" THEN Trimmed(c) ELSE c.value
             cells(n) == [r \in rows |-> cell(n, columns[n].values[r])]
  <2>1. t = [n \in DOMAIN columns |-> DelimitedColumn(columns[n])]
    BY <1>1, <1>6 DEF TableOf
  <2>2. ASSUME NEW n \in DOMAIN columns
        PROVE  t[n] = [name |-> columns[n].name, type |-> typeOf(n), values |-> cells(n)]
    <3>1. columns[n] = [name |-> columns[n].name, type |-> columns[n].type,
                        values |-> columns[n].values]
      BY <1>2 DEF IsColumn
    <3>2. DelimitedColumn(columns[n])
            = [columns[n] EXCEPT !.type = typeOf(n),
                                 !.values = [r \in DOMAIN columns[n].values |->
                                               cell(n, columns[n].values[r])]]
      BY DEF DelimitedColumn
    <3>3. DelimitedColumn(columns[n])
            = [name |-> columns[n].name, type |-> typeOf(n), values |-> cells(n)]
      BY <1>2, <3>1, <3>2
    <3>4. t[n] = DelimitedColumn(columns[n])
      BY <2>1
    <3> QED BY <3>3, <3>4
  <2>3. ASSUME NEW n \in DOMAIN columns
        PROVE  /\ typeOf(n) \in {"int", "float", "timestamp", "text"}
               /\ \A r \in rows :
                    /\ IsReading(f, n, r, typeOf(n), cells(n)[r])
                    /\ cells(n)[r] \in Cells(typeOf(n))
    <3>1. typeOf(n) \in {"int", "float", "timestamp", "text"}
      <4>1. DOMAIN columns[n].values = rows /\ \A r \in rows : columns[n].values[r] \in Texts \cup {None}
        BY <1>2, <1>3, <1>6
      <4> HIDE DEF columns, rows
      <4>2. Inferred(columns[n].values) \in {"int", "float", "timestamp", "text"}
        BY <4>1, InferredType
      <4> QED BY <4>2
    <3>2. ASSUME NEW r \in rows
          PROVE  cells(n)[r] \in Cells(typeOf(n))
      <4> DEFINE c == columns[n].values[r]
      <4>1. c \in Texts \cup {None} /\ Trimmed(c) \in Texts \cup {None}
        BY <1>3, <1>6, TrimmedText
      <4>2. c # None => /\ c.value \in Int
                        /\ typeOf(n) \in {"int", "timestamp"} => c.value \in Int64
        <5>1. /\ DOMAIN columns[n].values = rows
              /\ \A q \in rows : columns[n].values[q] \in Texts \cup {None}
          BY <1>2, <1>3, <1>6
        <5>2. c # None => c.value \in Int
          BY <4>1 DEF Texts
        <5> HIDE DEF columns, rows
        <5>3. columns[n].values[r] # None /\ typeOf(n) \in {"int", "timestamp"} =>
                columns[n].values[r].value \in Int64
          BY <5>1, InferredType
        <5> QED BY <5>2, <5>3
      <4>3. cells(n)[r] = IF c = None \/ typeOf(n) = "text" THEN Trimmed(c) ELSE c.value
        OBVIOUS
      <4>4. c = None => Trimmed(c) = None
        BY DEF Trimmed
      <4> HIDE DEF c, typeOf, cells
      <4> QED BY <3>1, <4>1, <4>2, <4>3, <4>4 DEF Cells, Floats
    <3>3. ASSUME NEW r \in rows
          PROVE  IsReading(f, n, r, typeOf(n), cells(n)[r])
      BY <1>6 DEF IsReading
    <3> QED BY <3>1, <3>2, <3>3
  <2>4. DOMAIN t = 1 .. Len(columns) /\ t = [n \in 1 .. Len(columns) |-> t[n]]
    BY <1>2, <2>1
  <2>5. 1 <= Len(columns)
    BY <1>2
  <2>6. ASSUME NEW n \in 1 .. Len(columns)
        PROVE  /\ t[n] = [name |-> t[n].name, type |-> t[n].type, values |-> t[n].values]
               /\ t[n].type \in {"text", "int", "float", "timestamp"}
               /\ t[n].values = [r \in 1 .. k |-> t[n].values[r]]
               /\ \A r \in 1 .. k : t[n].values[r] \in Cells(t[n].type)
               /\ t[n].name = columns[n].name
               /\ \A r \in rows : IsReading(f, n, r, t[n].type, t[n].values[r])
    <3>1. n \in DOMAIN columns
      BY <1>2
    <3>2. PICK c : c = t[n]
      OBVIOUS
    <3>3. /\ t[n].name = columns[n].name /\ t[n].type = typeOf(n) /\ t[n].values = cells(n)
          /\ t[n] = [name |-> t[n].name, type |-> t[n].type, values |-> t[n].values]
      <4> HIDE DEF typeOf, cells, t
      <4>1. c = [name |-> columns[n].name, type |-> typeOf(n), values |-> cells(n)]
        BY <2>2, <3>1, <3>2
      <4>2. /\ c.name = columns[n].name /\ c.type = typeOf(n) /\ c.values = cells(n)
            /\ c = [name |-> c.name, type |-> c.type, values |-> c.values]
        BY <4>1
      <4> QED BY <3>2, <4>2
    <3>4. cells(n) = [r \in 1 .. k |-> cells(n)[r]]
      <4> HIDE DEF cell
      <4> QED BY <1>4
    <3> HIDE DEF typeOf, cells, t
    <3> QED BY <1>4, <2>3, <3>1, <3>3, <3>4
  <2> HIDE DEF t
  <2>7. IsTable(t) /\ Rows(t) = 1 .. k
    <3> HIDE DEF columns
    <3>1. Len(columns) \in Nat /\ 1 <= Len(columns)
      BY <1>2
    <3>2. \A n \in 1 .. Len(columns) :
            /\ t[n] = [name |-> t[n].name, type |-> t[n].type, values |-> t[n].values]
            /\ t[n].type \in {"text", "int", "float", "timestamp"}
            /\ t[n].values = [r \in 1 .. k |-> t[n].values[r]]
            /\ \A r \in 1 .. k : t[n].values[r] \in Cells(t[n].type)
      BY <2>6
    <3> QED BY <2>4, <3>1, <3>2, TableBuilt, Zenon
  <2>8. /\ DOMAIN t = DOMAIN columns /\ Rows(t) = rows
        /\ \A n \in DOMAIN columns :
             /\ t[n].name = columns[n].name
             /\ \A r \in rows : IsReading(f, n, r, t[n].type, t[n].values[r])
    <3> HIDE DEF columns, rows
    <3> QED BY <1>2, <1>4, <2>4, <2>6, <2>7
  <2> QED BY <1>1, <1>6, <2>7, <2>8 DEF t
<1>7. CASE f.format = "zeek"
  <2> DEFINE typeOf(n) == Declared(f, n)
             cells(n) == [r \in rows |-> ZeekCell(f, typeOf(n), columns[n].values[r])]
  <2>1. t = [n \in DOMAIN columns |-> ZeekColumn(f, n)]
    BY <1>1, <1>7 DEF TableOf
  <2>2. ASSUME NEW n \in DOMAIN columns
        PROVE  t[n] = [name |-> columns[n].name, type |-> typeOf(n), values |-> cells(n)]
    <3>1. ZeekColumn(f, n) = [name |-> ZeekFields(f)[n], type |-> Declared(f, n),
                              values |-> [r \in DOMAIN columns[n].values |->
                                            ZeekCell(f, Declared(f, n), columns[n].values[r])]]
      BY DEF ZeekColumn
    <3>2. ZeekFields(f)[n] = columns[n].name /\ DOMAIN columns[n].values = rows
      BY <1>1, <1>2, <1>7
    <3> QED BY <2>1, <3>1, <3>2
  <2>3. ASSUME NEW n \in DOMAIN columns
        PROVE  /\ typeOf(n) \in {"int", "float", "text"}
               /\ \A r \in rows :
                    /\ IsReading(f, n, r, typeOf(n), cells(n)[r])
                    /\ cells(n)[r] \in Cells(typeOf(n))
    <3>1. typeOf(n) \in {"int", "float", "text"}
      BY ZeekCellType
    <3>2. \A r \in rows : columns[n].values[r] \in Texts \cup {None}
      BY <1>3, <1>7
    <3>3. \A r \in rows : cells(n)[r] = ZeekCell(f, typeOf(n), columns[n].values[r])
      OBVIOUS
    <3>4. \A r \in rows : IsReading(f, n, r, typeOf(n), cells(n)[r])
      BY <1>7, <3>3 DEF IsReading
    <3>5. \A r \in rows : cells(n)[r] \in Cells(typeOf(n))
      BY <3>2, <3>3, ZeekCellType
    <3> QED BY <3>1, <3>4, <3>5
  <2>4. DOMAIN t = 1 .. Len(columns) /\ t = [n \in 1 .. Len(columns) |-> t[n]]
    BY <1>2, <2>1
  <2>5. 1 <= Len(columns)
    BY <1>2
  <2>6. ASSUME NEW n \in 1 .. Len(columns)
        PROVE  /\ t[n] = [name |-> t[n].name, type |-> t[n].type, values |-> t[n].values]
               /\ t[n].type \in {"text", "int", "float", "timestamp"}
               /\ t[n].values = [r \in 1 .. k |-> t[n].values[r]]
               /\ \A r \in 1 .. k : t[n].values[r] \in Cells(t[n].type)
               /\ t[n].name = columns[n].name
               /\ \A r \in rows : IsReading(f, n, r, t[n].type, t[n].values[r])
    <3>1. n \in DOMAIN columns
      BY <1>2
    <3>2. PICK c : c = t[n]
      OBVIOUS
    <3>3. /\ t[n].name = columns[n].name /\ t[n].type = typeOf(n) /\ t[n].values = cells(n)
          /\ t[n] = [name |-> t[n].name, type |-> t[n].type, values |-> t[n].values]
      <4> HIDE DEF typeOf, cells, t
      <4>1. c = [name |-> columns[n].name, type |-> typeOf(n), values |-> cells(n)]
        BY <2>2, <3>1, <3>2
      <4>2. /\ c.name = columns[n].name /\ c.type = typeOf(n) /\ c.values = cells(n)
            /\ c = [name |-> c.name, type |-> c.type, values |-> c.values]
        BY <4>1
      <4> QED BY <3>2, <4>2
    <3>4. cells(n) = [r \in 1 .. k |-> cells(n)[r]]
      BY <1>4
    <3> HIDE DEF typeOf, cells, t
    <3> QED BY <1>4, <2>3, <3>1, <3>3, <3>4
  <2> HIDE DEF t
  <2>7. IsTable(t) /\ Rows(t) = 1 .. k
    <3> HIDE DEF columns
    <3>1. Len(columns) \in Nat /\ 1 <= Len(columns)
      BY <1>2
    <3>2. \A n \in 1 .. Len(columns) :
            /\ t[n] = [name |-> t[n].name, type |-> t[n].type, values |-> t[n].values]
            /\ t[n].type \in {"text", "int", "float", "timestamp"}
            /\ t[n].values = [r \in 1 .. k |-> t[n].values[r]]
            /\ \A r \in 1 .. k : t[n].values[r] \in Cells(t[n].type)
      BY <2>6
    <3> QED BY <2>4, <3>1, <3>2, TableBuilt, Zenon
  <2>8. /\ DOMAIN t = DOMAIN columns /\ Rows(t) = rows
        /\ \A n \in DOMAIN columns :
             /\ t[n].name = columns[n].name
             /\ \A r \in rows : IsReading(f, n, r, t[n].type, t[n].values[r])
    <3> HIDE DEF columns, rows
    <3> QED BY <1>2, <1>4, <2>4, <2>6, <2>7
  <2> QED BY <1>1, <1>7, <2>7, <2>8 DEF t
<1> QED BY <1>1, <1>5, <1>6, <1>7

-----------------------------------------------------------------------------
(* Which column a field comes from *)

\* The fields are eleven, all different.
LEMMA TheSchema ==
  /\ DOMAIN CanonicalSchema = 1 .. 11 /\ Len(CanonicalSchema) = 11
  /\ \A n \in 1 .. 11 : CanonicalSchema[n] \in CanonicalFields
  /\ \A n, m \in 1 .. 11 : CanonicalSchema[n] = CanonicalSchema[m] => n = m
  /\ \A field \in CanonicalFields : \E n \in 1 .. 11 : CanonicalSchema[n] = field
  /\ CanonicalFields = {"timestamp", "src_ip", "dest_ip", "src_port", "dest_port", "fwd_bytes",
                        "bwd_bytes", "fwd_pkts", "bwd_pkts", "flow_dur", "protocol"}
<1>1. DOMAIN CanonicalSchema = 1 .. 11 /\ Len(CanonicalSchema) = 11
  BY DEF CanonicalSchema
<1>2. \A n, m \in 1 .. 11 : CanonicalSchema[n] = CanonicalSchema[m] => n = m
  BY DEF CanonicalSchema
<1>3. CanonicalFields = {CanonicalSchema[n] : n \in 1 .. 11}
  BY <1>1 DEF CanonicalFields, Range
<1>4. {CanonicalSchema[n] : n \in 1 .. 11}
        = {"timestamp", "src_ip", "dest_ip", "src_port", "dest_port", "fwd_bytes",
           "bwd_bytes", "fwd_pkts", "bwd_pkts", "flow_dur", "protocol"}
  BY DEF CanonicalSchema
<1> QED BY <1>1, <1>2, <1>3, <1>4

\* A column is found by its normalized name, and is one that has it.
LEMMA NamedColumn ==
  ASSUME NEW t, IsTable(t), NEW core, HasColumn(t, core)
  PROVE  \E n \in DOMAIN t : t[n].name.core = core /\ Named(t, core) = t[n]
<1> DEFINE S == {n \in DOMAIN t : t[n].name.core = core}
           last == t[Max(S)]
           Same == {n \in DOMAIN t : t[n].name = last.name}
<1>1. Len(t) \in Nat /\ DOMAIN t = 1 .. Len(t)
  BY TableType
<1>2. S \in SUBSET (0 .. Len(t)) /\ S # {}
  BY <1>1 DEF HasColumn
<1>3. Max(S) \in S
  <2> HIDE DEF S
  <2> QED BY <1>1, <1>2, GreatestPlace
<1>4. Max(S) \in Same /\ Same \in SUBSET Nat
  <2>1. Same \in SUBSET Nat
    BY <1>1
  <2> HIDE DEF S
  <2>2. Max(S) \in DOMAIN t
    BY <1>3 DEF S
  <2> QED BY <2>1, <2>2
<1>5. Min(Same) \in Same
  <2> HIDE DEF Same
  <2> QED BY <1>4, LeastPlace
<1>6. Named(t, core) = t[Min(Same)]
  BY DEF Named
<1>7. last.name.core = core
  BY <1>3
<1>8. Min(Same) \in DOMAIN t /\ t[Min(Same)].name = last.name
  BY <1>5
<1> HIDE DEF Same, last
<1> QED BY <1>6, <1>7, <1>8

\* A field that is resolved comes from a column of its first alias that is there.
LEMMA SourceColumn ==
  ASSUME NEW t, IsTable(t), NEW field \in CanonicalFields, Resolved(t, field)
  PROVE  /\ Min(Known(t, field)) \in Known(t, field)
         /\ Known(t, field) \in SUBSET (Nat \ {0})
         /\ \A k \in Known(t, field) : Min(Known(t, field)) <= k
         /\ \E n \in DOMAIN t :
              /\ t[n].name.core = Aliases[field][Min(Known(t, field))]
              /\ Source(t, field) = t[n]
<1>1. Aliases[field] \in Seq(STRING)
  BY SchemaAssumption
<1>2. Known(t, field) \in SUBSET (Nat \ {0}) /\ Known(t, field) # {}
  BY <1>1, LenProperties DEF Known, Resolved
<1>3. Min(Known(t, field)) \in Known(t, field) /\ \A k \in Known(t, field) : Min(Known(t, field)) <= k
  BY <1>2, LeastPlace
<1>4. HasColumn(t, Aliases[field][Min(Known(t, field))])
  BY <1>3 DEF Known
<1> QED BY <1>2, <1>3, <1>4, NamedColumn DEF Source

-----------------------------------------------------------------------------
(* What a field may hold *)

Types == {"text", "int", "float", "timestamp"}

\* What the casts make of a cell of a column's type.
LEMMA CastTypes ==
  ASSUME NEW type \in Types, NEW v \in Cells(type)
  PROVE  /\ ToInt32(type, v) \in Int32 \cup {None}
         /\ ToFloat(type, v) \in Floats \cup {None}
         /\ ToText(type, v) \in Texts \cup {None}
         /\ type = "text" => ToText(type, v) = v
<1>1. ToInt32(type, v) \in Int32 \cup {None}
  BY DEF ToInt32
<1>2. CASE type = "text"
  <2>1. v \in Texts \cup {None}
    BY <1>2 DEF Cells
  <2>2. TextToFloat(v) \in Floats \cup {None}
    BY <2>1, TextCasts
  <2>3. ToText(type, v) = v
    <3>1. v # NaN /\ v # Inf /\ v # NegInf /\ type # "int" /\ type # "timestamp"
      BY <1>2, <2>1, NoNumber
    <3> QED BY <1>2, <3>1 DEF ToText
  <2> QED BY <1>1, <1>2, <2>1, <2>2, <2>3 DEF ToFloat
<1>3. CASE type # "text"
  <2>1. v \in Int \cup {None, NaN, Inf, NegInf} /\ (type # "float" => v \in Int64 \cup {None})
    BY <1>3, Widths, NoNumber DEF Cells, Types, Floats
  <2>2. /\ \A n \in Int : Written("plain", n) \in Texts /\ Written("decimal", n) \in Texts
        /\ \A n \in Int64 : Written("date", n) \in Texts
        /\ Written("nan", 0) \in Texts /\ Written("inf", 0) \in Texts /\ Written("-inf", 0) \in Texts
    BY Widths DEF Written, Texts, Forms
  <2>3. ToText(type, v) \in Texts \cup {None}
    <3>1. CASE v = None
      <4>1. v # NaN /\ v # Inf /\ v # NegInf
        BY <3>1, NoNumber
      <4> QED BY <3>1, <4>1 DEF ToText
    <3>2. CASE v = NaN
      <4>1. v # None /\ v # Inf /\ v # NegInf /\ v \notin Int64
        BY <3>2, Widths, NoNumber
      <4>2. type # "int" /\ type # "timestamp"
        BY <2>1, <4>1
      <4>3. ToText(type, v) = Written("nan", 0)
        BY <1>3, <3>2, <4>1, <4>2 DEF ToText
      <4> QED BY <2>2, <4>3
    <3>3. CASE v = Inf
      <4>1. v # None /\ v # NaN /\ v # NegInf /\ v \notin Int64
        BY <3>3, Widths, NoNumber
      <4>2. type # "int" /\ type # "timestamp"
        BY <2>1, <4>1
      <4>3. ToText(type, v) = Written("inf", 0)
        BY <1>3, <3>3, <4>1, <4>2 DEF ToText
      <4> QED BY <2>2, <4>3
    <3>4. CASE v = NegInf
      <4>1. v # None /\ v # NaN /\ v # Inf /\ v \notin Int64
        BY <3>4, Widths, NoNumber
      <4>2. type # "int" /\ type # "timestamp"
        BY <2>1, <4>1
      <4>3. ToText(type, v) = Written("-inf", 0)
        BY <1>3, <3>4, <4>1, <4>2 DEF ToText
      <4> QED BY <2>2, <4>3
    <3>5. CASE v \in Int
      <4>1. v # None /\ v # NaN /\ v # Inf /\ v # NegInf
        BY <3>5, NoNumber
      <4>2. type = "int" \/ type = "float" \/ (type = "timestamp" /\ v \in Int64)
        BY <1>3, <2>1, <4>1 DEF Types
      <4> QED BY <2>2, <3>5, <4>1, <4>2 DEF ToText
    <3> QED BY <2>1, <3>1, <3>2, <3>3, <3>4, <3>5
  <2>4. ToFloat(type, v) \in Floats \cup {None}
    BY <1>3, <2>1, NoNumber DEF ToFloat, Floats
  <2> QED BY <1>1, <1>3, <2>3, <2>4
<1> QED BY <1>2, <1>3

\* A text stays as it is.
LEMMA TextAsIs ==
  ASSUME NEW c \in Texts \cup {None}
  PROVE  ToText("text", c) = c
<1>1. "text" \in Types /\ c \in Cells("text")
  BY DEF Types, Cells
<1> QED BY <1>1, CastTypes

\* A count or a protocol in a text is a number or none.
LEMMA TextNumbers ==
  ASSUME NEW c \in Texts \cup {None}
  PROVE  /\ ParseMagnitude(c) = IF c = None THEN None
                                ELSE IF c.form = "magnitude" THEN c.value * 1000
                                ELSE ParsedFloat(c)
         /\ ParseMagnitude(c) \in Floats \cup {None}
         /\ ProtocolNumber(c) = IF c = None THEN None
                                ELSE IF c.form = "tcp" THEN 6
                                ELSE IF c.form = "ipv6-icmp" THEN 58
                                ELSE IF c.form = "plain" /\ c.value \in Int32 THEN c.value
                                ELSE None
         /\ ProtocolNumber(c) \in Int32 \cup {None}
<1>1. c # None => c \in Texts /\ c.value \in Int /\ c.value * 1000 \in Int
  BY DEF Texts
<1>2. ParseMagnitude(c) = IF c = None THEN None
                          ELSE IF c.form = "magnitude" THEN c.value * 1000
                          ELSE ParsedFloat(c)
  BY DEF ParseMagnitude
<1>3. ProtocolNumber(c) = IF c = None THEN None
                          ELSE IF c.form = "tcp" THEN 6
                          ELSE IF c.form = "ipv6-icmp" THEN 58
                          ELSE IF c.form = "plain" /\ c.value \in Int32 THEN c.value
                          ELSE None
  BY DEF ProtocolNumber
<1>4. ParseMagnitude(c) \in Floats \cup {None}
  BY <1>1, <1>2, ParsedText DEF Floats
<1> QED BY <1>2, <1>3, <1>4, Widths

\* What a canonical column may hold.
Settled(field, v) ==
  /\ field \in {"timestamp", "fwd_bytes", "bwd_bytes", "fwd_pkts", "bwd_pkts"} =>
       v \in Int64 \cup {None}
  /\ field \in {"src_ip", "dest_ip"} => v \in Texts \cup {None}
  /\ field \in {"src_port", "dest_port"} => v \in Int32
  /\ field = "flow_dur" => v \in Floats \cup {None}
  /\ field = "protocol" => v \in Int32 \cup {None}

\* What does not fit 64 bits goes to an end of them.
LEMMA Saturated ==
  ASSUME NEW x \in Floats
  PROVE  ToInt64(x) \in Int64 /\ (x \in Int64 => ToInt64(x) = x)
<1>1. CASE x \in Specials
  <2>1. ToInt64(x) \in {0, MaxInt64, -(MaxInt64 + 1)}
    BY <1>1, NoNumber DEF ToInt64
  <2>2. x \notin Int
    BY <1>1, NoNumber
  <2> QED BY <2>1, <2>2, Widths
<1>2. CASE x \in Int
  <2>1. ToInt64(x) = IF x > MaxInt64 THEN MaxInt64
                     ELSE IF x < -(MaxInt64 + 1) THEN -(MaxInt64 + 1) ELSE x
    <3>1. x # NaN /\ x # Inf /\ x # NegInf
      BY <1>2, NoNumber
    <3> QED BY <3>1 DEF ToInt64
  <2> QED BY <1>2, <2>1, ThresholdAssumption, SMT DEF Int64
<1> QED BY <1>1, <1>2 DEF Floats

\* The numbers that are taken for microseconds, when they are the largest.
InMicroseconds(largest) ==
  largest \in Int /\ Threshold * 1000 <= largest /\ largest < Threshold * 1000000

\* Microseconds are a number, when there is one to start from.
LEMMA MicrosType ==
  ASSUME NEW v \in Floats \cup {None}, NEW largest \in Int \cup {Inf}
  PROVE  /\ Micros(v, largest) \in Int64 \cup {None}
         /\ Micros(v, largest) = None <=> v = None
         /\ v \in Int64 /\ InMicroseconds(largest) => Micros(v, largest) = v
<1>1. CASE v = None
  <2>1. Micros(v, largest) = None
    <3>1. v \notin Specials
      BY <1>1, NoNumber
    <3> QED BY <1>1, <3>1 DEF Micros
  <2> QED BY <1>1, <2>1, NoNumber, Widths
<1>2. CASE v \in Specials
  <2>1. v # None /\ v \notin Int
    BY <1>2, NoNumber
  <2>2. Micros(v, largest) = ToInt64(v)
    BY <1>2, <2>1 DEF Micros
  <2>3. v \in Floats
    BY <1>2 DEF Floats
  <2>4. ToInt64(v) \in Int64
    BY <2>3, Saturated
  <2>5. Micros(v, largest) \in Int64 /\ Micros(v, largest) # None /\ v \notin Int64
    BY <2>1, <2>2, <2>4, NoNumber, Widths
  <2> QED BY <2>1, <2>5
<1>3. CASE v \in Int
  <2>1. v # None /\ v \notin Specials
    BY <1>3, NoNumber
  <2>2. Micros(v, largest) = ToInt64(InMicros(Guess(largest), v))
    BY <2>1 DEF Micros
  <2>3. InMicros(Guess(largest), v) \in Int
    <3>1. Thousandth(v) \in Int /\ Instant(Guess(largest), v) \in Int
      BY <1>3, SMT DEF Thousandth, Instant
    <3> QED BY <3>1 DEF InMicros
  <2>4. Micros(v, largest) \in Int64
    BY <2>2, <2>3, Saturated DEF Floats
  <2>5. ASSUME v \in Int64, InMicroseconds(largest)
        PROVE  Micros(v, largest) = v
    <3>1. Threshold \in Nat \ {0}
      BY ThresholdAssumption
    <3>2. ~(largest < Threshold) /\ ~(largest < Threshold * 1000) /\ largest # Inf
      BY <2>5, <3>1, NoNumber, SMT DEF InMicroseconds
    <3>3. Guess(largest) = "us"
      BY <2>5, <3>1, <3>2, SMT DEF Guess, InMicroseconds
    <3>4. InMicros(Guess(largest), v) = v
      BY <3>3, SMT DEF InMicros, Instant
    <3>5. v \in Floats
      BY <1>3 DEF Floats
    <3>6. ToInt64(v) = v
      BY <2>5, <3>5, Saturated
    <3> QED BY <2>2, <3>4, <3>6
  <2>6. Micros(v, largest) # None
    BY <2>4, NoNumber, Widths
  <2> QED BY <2>1, <2>4, <2>5, <2>6
<1> QED BY <1>1, <1>2, <1>3 DEF Floats

\* A finite set of integers that is not empty has a greatest member.
LEMMA GreatestNumber ==
  ASSUME NEW S \in SUBSET Int, IsFiniteSet(S), S # {}
  PROVE  Max(S) \in S /\ \A n \in S : n <= Max(S)
<1> DEFINE C == {T \in SUBSET S : T = {} \/ \E x \in T : \A y \in T : x >= y}
<1>1. {} \in C
  OBVIOUS
<1>2. ASSUME NEW T \in SUBSET S, NEW z \in S \ T, T \in C PROVE T \cup {z} \in C
  <2>1. CASE T = {}
    BY <2>1
  <2>2. CASE T # {}
    <3>1. PICK x \in T : \A y \in T : x >= y
      BY <1>2, <2>2
    <3>2. CASE x >= z
      BY <3>1, <3>2
    <3>3. CASE ~(x >= z)
      <4>1. \A y \in T \cup {z} : z >= y
        BY <3>1, <3>3
      <4> QED BY <4>1
    <3> QED BY <3>2, <3>3
  <2> QED BY <2>1, <2>2
<1>3. S \in C
  <2> HIDE DEF C
  <2> QED BY <1>1, <1>2, FiniteSetInduction
<1>4. \E x \in S : \A y \in S : x >= y
  BY <1>3
<1>5. Max(S) \in S /\ \A y \in S : Max(S) >= y
  BY <1>4 DEF Max
<1> QED BY <1>5

\* The largest number of a column is one, or 0, unless one is infinite.
LEMMA LargestType ==
  ASSUME NEW c, NEW k \in Nat, DOMAIN c.values = 1 .. k
  PROVE  Largest(c) \in Int \cup {Inf} /\ IsFiniteSet(Range(c.values))
<1>1. IsFiniteSet(1 .. k)
  <2>1. 1 \in Int /\ k \in Int
    OBVIOUS
  <2> QED BY <2>1, FS_Interval, Zenon
<1>2. Range(c.values) = {c.values[r] : r \in 1 .. k}
  BY DEF Range
<1>3. IsFiniteSet(Range(c.values))
  <2>1. IsFiniteSet({c.values[r] : r \in 1 .. k})
    <3> DEFINE R == {c.values[r] : r \in 1 .. k}
               g == [r \in 1 .. k |-> c.values[r]]
    <3>1. g \in Surjection(1 .. k, R)
      BY DEF Surjection
    <3> HIDE DEF g, R
    <3>2. IsFiniteSet(R)
      BY <1>1, <3>1, FS_Surjection
    <3> QED BY <3>2 DEF R
  <2> QED BY <1>2, <2>1
<1> DEFINE N == {v \in Range(c.values) : v \in Int}
<1>4. IsFiniteSet({0} \cup N)
  <2>1. IsFiniteSet(N)
    BY <1>3, FS_Subset
  <2>2. IsFiniteSet(N \cup {0})
    BY <2>1, FS_AddElement
  <2>3. N \cup {0} = {0} \cup N
    OBVIOUS
  <2> QED BY <2>2, <2>3
<1>5. {0} \cup N \in SUBSET Int /\ {0} \cup N # {}
  OBVIOUS
<1> HIDE DEF N
<1>6. Max({0} \cup N) \in Int
  BY <1>4, <1>5, GreatestNumber
<1> QED BY <1>3, <1>6 DEF Largest, N

\* What a field becomes of a cell of the column it comes from.
FieldValue(field, c, v) ==
  IF field = "timestamp"
  THEN IF c.type = "timestamp" THEN v
       ELSE IF c.type = "text"
            THEN DateOf(v)
            ELSE Micros(v, Largest(c))
  ELSE IF field \in {"src_ip", "dest_ip"} THEN ToText(c.type, v)
  ELSE IF field \in {"src_port", "dest_port"}
       THEN IF ToInt32(c.type, v) = None THEN 0 ELSE ToInt32(c.type, v)
  ELSE IF field \in {"fwd_bytes", "bwd_bytes", "fwd_pkts", "bwd_pkts"}
       THEN IF (IF c.type = "text" THEN ParseMagnitude(v) ELSE v) = None THEN None
            ELSE ToInt64(IF c.type = "text" THEN ParseMagnitude(v) ELSE v)
  ELSE IF field = "flow_dur"
       THEN IF ToFloat(c.type, v) \in Int THEN ToFloat(c.type, v) \div Divisor(c.name)
            ELSE ToFloat(c.type, v)
  ELSE IF c.type = "int" THEN ToInt32(c.type, v) ELSE ProtocolNumber(ToText(c.type, v))

\* A field is converted cell by cell.
LEMMA FieldByCell ==
  ASSUME NEW t, NEW field \in CanonicalFields, Resolved(t, field), NEW c, c = Source(t, field)
  PROVE  Values(t, field) = [r \in DOMAIN c.values |-> FieldValue(field, c, c.values[r])]
<1>1. field \in {"timestamp", "src_ip", "dest_ip", "src_port", "dest_port", "fwd_bytes",
                 "bwd_bytes", "fwd_pkts", "bwd_pkts", "flow_dur", "protocol"}
  BY TheSchema
<1>2. CASE field = "timestamp"
  BY <1>2 DEF Values, TimestampToMicros, Map, FieldValue
<1>3. CASE field \in {"src_ip", "dest_ip"}
  BY <1>3 DEF Values, Map, FieldValue
<1>4. CASE field \in {"src_port", "dest_port"}
  BY <1>4 DEF Values, PortToInt32, Map, FieldValue
<1>5. CASE field \in {"fwd_bytes", "bwd_bytes", "fwd_pkts", "bwd_pkts"}
  BY <1>5 DEF Values, ToRoundedI64, Map, FieldValue
<1>6. CASE field = "flow_dur"
  BY <1>6 DEF Values, DurationInSeconds, Map, FieldValue
<1>7. CASE field = "protocol"
  BY <1>7 DEF Values, ProtocolToNumber, Map, FieldValue
<1> QED BY <1>1, <1>2, <1>3, <1>4, <1>5, <1>6, <1>7

\* Units are not 0.
LEMMA DivisorType ==
  ASSUME NEW name
  PROVE  Divisor(name) \in Nat \ {0}
BY SchemaAssumption DEF Divisor

\* A cell of a column becomes what its field may hold.
LEMMA CellSettles ==
  ASSUME NEW field \in CanonicalFields, NEW c, NEW k \in Nat, DOMAIN c.values = 1 .. k,
         c.type \in Types, NEW v \in Cells(c.type)
  PROVE  Settled(field, FieldValue(field, c, v))
<1>1. field \in {"timestamp", "src_ip", "dest_ip", "src_port", "dest_port", "fwd_bytes",
                 "bwd_bytes", "fwd_pkts", "bwd_pkts", "flow_dur", "protocol"}
  BY TheSchema
<1>2. /\ c.type = "text" => v \in Texts \cup {None}
      /\ c.type = "float" => v \in Floats \cup {None}
      /\ c.type \in {"int", "timestamp"} => v \in Int64 \cup {None}
  BY DEF Cells
<1>3. /\ ToInt32(c.type, v) \in Int32 \cup {None}
      /\ ToFloat(c.type, v) \in Floats \cup {None}
      /\ ToText(c.type, v) \in Texts \cup {None}
  BY CastTypes
<1>4. CASE field = "timestamp"
  <2>1. FieldValue(field, c, v)
          = IF c.type = "timestamp" THEN v
            ELSE IF c.type = "text"
                 THEN DateOf(v)
                 ELSE Micros(v, Largest(c))
    BY <1>4 DEF FieldValue
  <2>2. FieldValue(field, c, v) \in Int64 \cup {None}
    <3>1. CASE c.type = "timestamp"
      BY <1>2, <2>1, <3>1
    <3>2. CASE c.type = "text"
      <4>1. v # None /\ v.form \in {"date", "slash"} => v.value \in Int64
        BY <1>2, <3>2 DEF Texts
      <4>2. DateOf(v) \in Int64 \cup {None}
        BY <4>1 DEF DateOf
      <4> QED BY <2>1, <3>2, <4>2
    <3>3. CASE c.type \notin {"timestamp", "text"}
      <4>1. Largest(c) \in Int \cup {Inf}
        BY LargestType
      <4>2. v \in Floats \cup {None}
        BY <1>2, <3>3, Widths DEF Types, Floats
      <4>3. Micros(v, Largest(c)) \in Int64 \cup {None}
        BY <4>1, <4>2, MicrosType
      <4> QED BY <2>1, <3>3, <4>3
    <3> QED BY <3>1, <3>2, <3>3
  <2> QED BY <1>4, <2>2 DEF Settled
<1>5. CASE field \in {"src_ip", "dest_ip"}
  BY <1>3, <1>5 DEF FieldValue, Settled
<1>6. CASE field \in {"src_port", "dest_port"}
  BY <1>3, <1>6, Widths DEF FieldValue, Settled
<1>7. CASE field \in {"fwd_bytes", "bwd_bytes", "fwd_pkts", "bwd_pkts"}
  <2> DEFINE x == IF c.type = "text" THEN ParseMagnitude(v) ELSE v
  <2>1. x \in Floats \cup {None}
    BY <1>2, TextNumbers, Widths DEF Types, Floats
  <2>2. FieldValue(field, c, v) = IF x = None THEN None ELSE ToInt64(x)
    BY <1>7 DEF FieldValue
  <2> HIDE DEF x
  <2>3. FieldValue(field, c, v) \in Int64 \cup {None}
    BY <2>1, <2>2, Saturated
  <2> QED BY <1>7, <2>3 DEF Settled
<1>8. CASE field = "flow_dur"
  <2> DEFINE x == ToFloat(c.type, v)
  <2>1. x \in Floats \cup {None} /\ Divisor(c.name) \in Nat \ {0}
    BY <1>3, DivisorType
  <2>2. FieldValue(field, c, v) = IF x \in Int THEN x \div Divisor(c.name) ELSE x
    BY <1>8 DEF FieldValue
  <2>3. FieldValue(field, c, v) \in Floats \cup {None}
    <3> HIDE DEF x
    <3>1. x \in Int => x \div Divisor(c.name) \in Int
      BY <2>1
    <3> QED BY <2>1, <2>2, <3>1 DEF Floats
  <2> QED BY <1>8, <2>3 DEF Settled
<1>9. CASE field = "protocol"
  <2>1. ProtocolNumber(ToText(c.type, v)) \in Int32 \cup {None}
    BY <1>3, TextNumbers
  <2>2. FieldValue(field, c, v)
          = IF c.type = "int" THEN ToInt32(c.type, v) ELSE ProtocolNumber(ToText(c.type, v))
    BY <1>9 DEF FieldValue
  <2>3. PICK w : w = FieldValue(field, c, v)
    OBVIOUS
  <2>4. w = ToInt32(c.type, v) \/ w = ProtocolNumber(ToText(c.type, v))
    BY <2>2, <2>3
  <2>5. w \in Int32 \cup {None}
    BY <1>3, <2>1, <2>4
  <2> QED BY <1>9, <2>3, <2>5 DEF Settled
<1> QED BY <1>1, <1>4, <1>5, <1>6, <1>7, <1>8, <1>9

\* Every canonical column has a cell for every row, of its type.
LEMMA FieldSettles ==
  ASSUME NEW t, IsTable(t), NEW field \in CanonicalFields, field \in RequiredFields => Resolved(t, field)
  PROVE  /\ DOMAIN Values(t, field) = Rows(t)
         /\ Values(t, field) = [r \in Rows(t) |-> Values(t, field)[r]]
         /\ \A r \in Rows(t) : Settled(field, Values(t, field)[r])
<1>1. CASE ~Resolved(t, field)
  <2>1. field \in {"bwd_bytes", "fwd_pkts", "bwd_pkts", "protocol"}
    BY <1>1, TheSchema DEF RequiredFields
  <2>2. Values(t, field) = [r \in Rows(t) |-> IF field = "bwd_bytes" THEN 0 ELSE None]
    BY <1>1 DEF Values, Absent
  <2>3. Settled("bwd_bytes", 0)
    BY Widths DEF Settled
  <2>4. field # "bwd_bytes" => Settled(field, None)
    BY <2>1 DEF Settled
  <2> QED BY <2>2, <2>3, <2>4
<1>2. CASE Resolved(t, field)
  <2>1. PICK n \in DOMAIN t : Source(t, field) = t[n]
    BY <1>2, SourceColumn
  <2>2. PICK c : c = t[n]
    OBVIOUS
  <2>3. /\ c.type \in Types /\ DOMAIN c.values = Rows(t)
        /\ \A r \in Rows(t) : c.values[r] \in Cells(c.type)
    BY <2>2, TableType DEF Types
  <2>4. PICK k \in Nat : Rows(t) = 1 .. k
    BY TableType
  <2>5. Values(t, field) = [r \in Rows(t) |-> FieldValue(field, c, c.values[r])]
    BY <1>2, <2>1, <2>2, <2>3, FieldByCell
  <2>6. \A r \in Rows(t) : Settled(field, FieldValue(field, c, c.values[r]))
    BY <2>3, <2>4, CellSettles
  <2> QED BY <2>5, <2>6
<1> QED BY <1>1, <1>2

-----------------------------------------------------------------------------
(* The labels *)

\* What the columns so far are to those before.
LabelStep(given, g, k) ==
  IF k = 0 THEN CanonicalColumns(given) ELSE WithLabel(given, g[k - 1], Passthrough[k])

IsLabelled(given, g) == g = [k \in 0 .. Len(Passthrough) |-> LabelStep(given, g, k)]

\* There are such columns after each label.
LEMMA LabelledExists ==
  ASSUME NEW given
  PROVE  \E g : IsLabelled(given, g)
<1> DEFINE L == Len(Passthrough)
           Good(g, n) == \A k \in 0 .. L : k < n => g[k] = LabelStep(given, g, k)
           N == {n \in Nat : \E g : g = [k \in 0 .. L |-> g[k]] /\ Good(g, n)}
<1>1. L \in Nat
  BY SchemaAssumption, LenProperties
<1>2. 0 \in N
  <2> DEFINE g == [k \in 0 .. L |-> 0]
  <2>1. g = [k \in 0 .. L |-> g[k]] /\ Good(g, 0)
    BY <1>1
  <2> HIDE DEF Good, g
  <2> QED BY <2>1
<1>3. ASSUME NEW n \in Nat, n \in N PROVE n + 1 \in N
  <2>1. PICK g : g = [k \in 0 .. L |-> g[k]] /\ Good(g, n)
    BY <1>3
  <2> DEFINE h == [k \in 0 .. L |-> LabelStep(given, g, k)]
  <2>2. h = [k \in 0 .. L |-> h[k]]
    OBVIOUS
  <2>3. ASSUME NEW k \in 0 .. L, k < n + 1 PROVE h[k] = LabelStep(given, h, k)
    <3>1. CASE k = 0
      BY <3>1 DEF LabelStep
    <3>2. CASE k # 0
      <4>1. k - 1 \in 0 .. L /\ k - 1 < n
        BY <1>1, <2>3, <3>2
      <4>2. g[k - 1] = LabelStep(given, g, k - 1)
        BY <2>1, <4>1
      <4>3. h[k - 1] = g[k - 1]
        BY <4>1, <4>2
      <4> QED BY <3>2, <4>3 DEF LabelStep
    <3> QED BY <3>1, <3>2
  <2> HIDE DEF h
  <2>4. h = [k \in 0 .. L |-> h[k]] /\ Good(h, n + 1)
    BY <2>2, <2>3
  <2>5. \E f : f = [k \in 0 .. L |-> f[k]] /\ Good(f, n + 1)
    <3> HIDE DEF Good
    <3> QED BY <2>4, Zenon
  <2>6. n + 1 \in Nat
    OBVIOUS
  <2> HIDE DEF Good
  <2> QED BY <2>5, <2>6
<1>4. Nat \subseteq N
  <2> HIDE DEF N
  <2> QED BY <1>2, <1>3, NatSetInduction
<1>5. PICK g : g = [k \in 0 .. L |-> g[k]] /\ Good(g, L + 1)
  <2>1. L + 1 \in N
    <3> HIDE DEF N
    <3> QED BY <1>1, <1>4
  <2> HIDE DEF Good
  <2> QED BY <2>1, Zenon
<1>6. \A k \in 0 .. L : g[k] = LabelStep(given, g, k)
  BY <1>1, <1>5
<1> QED BY <1>5, <1>6 DEF IsLabelled

\* The canonical columns are those after the last label.
LEMMA LabelsInTurn ==
  ASSUME NEW given
  PROVE  \E g : /\ g[0] = CanonicalColumns(given)
                /\ \A k \in 1 .. Len(Passthrough) :
                     g[k] = WithLabel(given, g[k - 1], Passthrough[k])
                /\ Canonical(given) = g[Len(Passthrough)]
<1> DEFINE g == CHOOSE h : IsLabelled(given, h)
<1>1. IsLabelled(given, g)
  BY LabelledExists
<1>2. Canonical(given) = g[Len(Passthrough)]
  BY DEF Canonical, IsLabelled, LabelStep
<1>3. Len(Passthrough) \in Nat
  BY SchemaAssumption, LenProperties
<1> HIDE DEF g
<1>4. \A k \in 0 .. Len(Passthrough) : g[k] = LabelStep(given, g, k)
  BY <1>1 DEF IsLabelled
<1>5. g[0] = CanonicalColumns(given)
  BY <1>3, <1>4 DEF LabelStep
<1>6. \A k \in 1 .. Len(Passthrough) : g[k] = WithLabel(given, g[k - 1], Passthrough[k])
  BY <1>3, <1>4 DEF LabelStep
<1> QED BY <1>2, <1>5, <1>6

\* The columns a canonical table is made of.
Made(t) ==
  {CanonicalColumns(t)[n] : n \in 1 .. 11} \cup {LabelColumn(t, label) : label \in Range(Passthrough)}

\* Fields, then the labels that are there, each once.
IsLaidOut(t, columns) ==
  /\ columns \in Seq(Made(t)) /\ Len(columns) >= 11
  /\ \A n \in 1 .. 11 : columns[n] = CanonicalColumns(t)[n]
  /\ \A n \in 12 .. Len(columns) : \E label \in Range(Passthrough) :
       HasColumn(t, label) /\ columns[n] = LabelColumn(t, label)
  /\ \A n, m \in 12 .. Len(columns) : columns[n].name.core = columns[m].name.core => n = m

\* The first eleven canonical columns are the schema's, in its order; a kept label keeps its name.
LEMMA ColumnNames ==
  ASSUME NEW t
  PROVE  /\ DOMAIN CanonicalColumns(t) = 1 .. 11
         /\ \A n \in 1 .. 11 :
              CanonicalColumns(t)[n] = Column(CanonicalSchema[n], CanonicalType(CanonicalSchema[n]),
                                              Values(t, CanonicalSchema[n]))
         /\ \A n \in 1 .. 11 : CanonicalColumns(t)[n].name.core = CanonicalSchema[n]
         /\ \A label : LabelColumn(t, label).name.core = label
<1>1. /\ DOMAIN CanonicalColumns(t) = 1 .. 11
      /\ \A n \in 1 .. 11 :
           CanonicalColumns(t)[n] = Column(CanonicalSchema[n], CanonicalType(CanonicalSchema[n]),
                                           Values(t, CanonicalSchema[n]))
  BY TheSchema DEF CanonicalColumns
<1>2. \A core, type, values : Column(core, type, values).name.core = core
  BY DEF Column
<1>3. \A label : LabelColumn(t, label).name.core = label
  BY <1>2 DEF LabelColumn
<1> QED BY <1>1, <1>2, <1>3

\* One more label does not disturb the layout.
LEMMA LabelIsAdded ==
  ASSUME NEW t, NEW columns, IsLaidOut(t, columns), NEW label \in Range(Passthrough)
  PROVE  /\ IsLaidOut(t, WithLabel(t, columns, label))
         /\ HasColumn(t, label) => HasColumn(WithLabel(t, columns, label), label)
         /\ \A name : HasColumn(columns, name) => HasColumn(WithLabel(t, columns, label), name)
<1>1. /\ columns \in Seq(Made(t)) /\ Len(columns) \in Nat /\ Len(columns) >= 11
      /\ DOMAIN columns = 1 .. Len(columns)
  BY LenProperties DEF IsLaidOut
<1>2. CASE HasColumn(t, label) /\ ~HasColumn(columns, label)
  <2> DEFINE added == LabelColumn(t, label)
             longer == Append(columns, added)
  <2>1. WithLabel(t, columns, label) = longer
    BY <1>2 DEF WithLabel
  <2>2. added \in Made(t) /\ added.name.core = label
    BY ColumnNames DEF Made
  <2> HIDE DEF added
  <2>3. /\ longer \in Seq(Made(t)) /\ Len(longer) = Len(columns) + 1
        /\ \A n \in 1 .. Len(columns) : longer[n] = columns[n]
        /\ longer[Len(columns) + 1] = added
    BY <1>1, <2>2, AppendProperties
  <2> HIDE DEF longer
  <2>4. DOMAIN longer = 1 .. Len(columns) + 1
    BY <2>3, LenProperties
  <2>5. \A n \in 1 .. Len(columns) : columns[n].name.core # label
    BY <1>1, <1>2 DEF HasColumn
  <2>6. \A n \in 1 .. 11 : longer[n] = CanonicalColumns(t)[n]
    BY <1>1, <2>3 DEF IsLaidOut
  <2>7. ASSUME NEW n \in 12 .. Len(longer)
        PROVE  \E l \in Range(Passthrough) : HasColumn(t, l) /\ longer[n] = LabelColumn(t, l)
    <3>1. CASE n = Len(columns) + 1
      BY <1>2, <2>3, <3>1 DEF added
    <3>2. CASE n # Len(columns) + 1
      <4>1. n \in 12 .. Len(columns) /\ longer[n] = columns[n]
        BY <1>1, <2>3, <3>2
      <4> QED BY <4>1 DEF IsLaidOut
    <3> QED BY <3>1, <3>2
  <2>8. ASSUME NEW n \in 12 .. Len(longer), NEW m \in 12 .. Len(longer),
               longer[n].name.core = longer[m].name.core
        PROVE  n = m
    <3>1. \A i \in 12 .. Len(longer) : i = Len(columns) + 1 \/ i \in 12 .. Len(columns)
      BY <1>1, <2>3
    <3>2. \A i \in 12 .. Len(columns) : i \in 1 .. Len(columns) /\ longer[i] = columns[i]
      BY <1>1, <2>3
    <3>3. CASE n \in 12 .. Len(columns) /\ m \in 12 .. Len(columns)
      <4>1. columns[n].name.core = columns[m].name.core
        BY <2>8, <3>2, <3>3
      <4> QED BY <3>3, <4>1 DEF IsLaidOut
    <3>4. CASE n = Len(columns) + 1 /\ m \in 12 .. Len(columns)
      <4>1. longer[m].name.core # label /\ longer[n].name.core = label
        BY <2>2, <2>3, <2>5, <3>2, <3>4
      <4> QED BY <2>8, <4>1
    <3>5. CASE m = Len(columns) + 1 /\ n \in 12 .. Len(columns)
      <4>1. longer[n].name.core # label /\ longer[m].name.core = label
        BY <2>2, <2>3, <2>5, <3>2, <3>5
      <4> QED BY <2>8, <4>1
    <3> QED BY <3>1, <3>3, <3>4, <3>5
  <2>9. IsLaidOut(t, longer)
    BY <1>1, <2>3, <2>6, <2>7, <2>8 DEF IsLaidOut
  <2>10. HasColumn(longer, label)
    <3>1. Len(columns) + 1 \in DOMAIN longer
      BY <1>1, <2>4
    <3> QED BY <2>2, <2>3, <3>1 DEF HasColumn
  <2>11. ASSUME NEW name, HasColumn(columns, name) PROVE HasColumn(longer, name)
    <3>1. PICK n \in 1 .. Len(columns) : columns[n].name.core = name
      BY <1>1, <2>11 DEF HasColumn
    <3>2. n \in DOMAIN longer /\ longer[n] = columns[n]
      BY <1>1, <2>3, <2>4
    <3> QED BY <3>1, <3>2 DEF HasColumn
  <2> QED BY <2>1, <2>9, <2>10, <2>11
<1>3. CASE ~(HasColumn(t, label) /\ ~HasColumn(columns, label))
  <2>1. WithLabel(t, columns, label) = columns
    BY <1>3 DEF WithLabel
  <2> QED BY <1>3, <2>1
<1> QED BY <1>2, <1>3

\* A canonical table holds the fields, and every label of the file once.
LEMMA CanonicalLayout ==
  ASSUME NEW t
  PROVE  /\ IsLaidOut(t, Canonical(t))
         /\ \A label \in Range(Passthrough) : HasColumn(t, label) => HasColumn(Canonical(t), label)
<1> DEFINE L == Len(Passthrough)
           P == Passthrough
<1>1. PICK g : /\ g[0] = CanonicalColumns(t)
               /\ \A k \in 1 .. L : g[k] = WithLabel(t, g[k - 1], P[k])
               /\ Canonical(t) = g[L]
  BY LabelsInTurn
<1>2. L \in Nat /\ Range(P) = {P[k] : k \in 1 .. L}
  BY SchemaAssumption, LenProperties DEF Range
<1> DEFINE Kept(k) == \A j \in 1 .. k : HasColumn(t, P[j]) => HasColumn(g[k], P[j])
           N == {k \in Nat : k <= L => IsLaidOut(t, g[k]) /\ Kept(k)}
<1>3. 0 \in N
  <2>1. IsLaidOut(t, CanonicalColumns(t))
    <3> DEFINE c == CanonicalColumns(t)
    <3>1. DOMAIN c = 1 .. 11 /\ c = [n \in 1 .. 11 |-> c[n]]
      BY TheSchema DEF CanonicalColumns
    <3>2. \A n \in 1 .. 11 : c[n] \in Made(t)
      BY DEF Made
    <3> HIDE DEF c
    <3>3. c \in [1 .. 11 -> Made(t)]
      BY <3>1, <3>2
    <3>4. c \in Seq(Made(t))
      BY <3>3, SeqDef
    <3>5. Len(c) = 11
      BY <3>1, <3>4, LenProperties
    <3> QED BY <3>4, <3>5 DEF c, IsLaidOut
  <2> QED BY <1>1, <2>1
<1>4. ASSUME NEW k \in Nat, k \in N PROVE k + 1 \in N
  <2> SUFFICES ASSUME k + 1 <= L PROVE IsLaidOut(t, g[k + 1]) /\ Kept(k + 1)
    OBVIOUS
  <2>1. k + 1 \in 1 .. L /\ k <= L /\ (k + 1) - 1 = k
    BY <1>2
  <2>2. IsLaidOut(t, g[k]) /\ Kept(k) /\ P[k + 1] \in Range(P)
    BY <1>2, <1>4, <2>1
  <2>3. g[k + 1] = WithLabel(t, g[k], P[k + 1])
    BY <1>1, <2>1
  <2>4. /\ IsLaidOut(t, g[k + 1])
        /\ HasColumn(t, P[k + 1]) => HasColumn(g[k + 1], P[k + 1])
        /\ \A name : HasColumn(g[k], name) => HasColumn(g[k + 1], name)
    <3> HIDE DEF P
    <3> QED BY <2>2, <2>3, LabelIsAdded DEF P
  <2>5. \A j \in 1 .. k + 1 : j = k + 1 \/ j \in 1 .. k
    OBVIOUS
  <2> QED BY <2>2, <2>4, <2>5
<1>5. Nat \subseteq N
  <2> HIDE DEF N
  <2> QED BY <1>3, <1>4, NatSetInduction
<1>6. IsLaidOut(t, g[L]) /\ Kept(L)
  BY <1>2, <1>5
<1> QED BY <1>1, <1>2, <1>6

\* The parts of a column.
LEMMA ColumnParts ==
  ASSUME NEW core, NEW type, NEW values
  PROVE  LET c == Column(core, type, values)
         IN /\ c.name = [core |-> core, spelling |-> ""] /\ c.type = type /\ c.values = values
            /\ c = [name |-> c.name, type |-> c.type, values |-> c.values]
BY DEF Column

\* The first column of a name.
FirstNamed(t, label) == Min({m \in DOMAIN t : t[m].name.core = label})

LabelCells(t, label) ==
  LET c == t[FirstNamed(t, label)] IN [r \in Rows(t) |-> ToText(c.type, c.values[r])]

\* A label is copied cell by cell, as text, from the first column of its name.
LEMMA LabelIsCopied ==
  ASSUME NEW t, IsTable(t), NEW label, HasColumn(t, label)
  PROVE  /\ FirstNamed(t, label) \in DOMAIN t /\ t[FirstNamed(t, label)].name.core = label
         /\ \A m \in DOMAIN t : t[m].name.core = label => FirstNamed(t, label) <= m
         /\ LabelColumn(t, label) = Column(label, "text", LabelCells(t, label))
         /\ \A r \in Rows(t) : LabelCells(t, label)[r] \in Texts \cup {None}
<1> DEFINE S == {m \in DOMAIN t : t[m].name.core = label}
           n == Min(S)
<1>1. DOMAIN t \subseteq Nat
  BY TableType
<1>2. S \in SUBSET Nat /\ S # {}
  BY <1>1 DEF HasColumn
<1>3. n \in S /\ \A m \in S : n <= m
  <2> HIDE DEF S
  <2> QED BY <1>2, LeastPlace
<1>4. n \in DOMAIN t /\ t[n].name.core = label
  BY <1>3
<1>5. LabelColumn(t, label) = Column(label, "text", Map(ToText, t[n]))
  BY DEF LabelColumn
<1>6. \A m \in DOMAIN t : t[m].name.core = label => n <= m
  BY <1>3
<1>7. n = FirstNamed(t, label)
  BY DEF FirstNamed
<1> HIDE DEF n
<1>8. Map(ToText, t[n]) = [r \in Rows(t) |-> ToText(t[n].type, t[n].values[r])]
  <2>1. DOMAIN t[n].values = Rows(t)
    BY <1>4, TableType
  <2> QED BY <2>1 DEF Map
<1>9. \A r \in Rows(t) : ToText(t[n].type, t[n].values[r]) \in Texts \cup {None}
  <2>1. t[n].type \in Types /\ \A r \in Rows(t) : t[n].values[r] \in Cells(t[n].type)
    BY <1>4, TableType DEF Types
  <2> QED BY <2>1, CastTypes
<1>10. LabelCells(t, label) = [r \in Rows(t) |-> ToText(t[n].type, t[n].values[r])]
  BY <1>7 DEF LabelCells
<1> QED BY <1>4, <1>5, <1>6, <1>7, <1>8, <1>9, <1>10

\* What a field may hold is what its type may.
LEMMA SettledType ==
  ASSUME NEW field \in CanonicalFields, NEW v, Settled(field, v)
  PROVE  /\ CanonicalType(field) \in {"text", "int", "float", "timestamp"}
         /\ v \in Cells(CanonicalType(field))
<1>1. field \in {"timestamp", "src_ip", "dest_ip", "src_port", "dest_port", "fwd_bytes",
                 "bwd_bytes", "fwd_pkts", "bwd_pkts", "flow_dur", "protocol"}
  BY TheSchema
<1>2. CASE field \in {"src_ip", "dest_ip"}
  BY <1>2 DEF CanonicalType, Cells, Settled
<1>3. CASE field = "flow_dur"
  BY <1>3 DEF CanonicalType, Cells, Settled
<1>4. CASE field \notin {"src_ip", "dest_ip", "flow_dur"}
  <2>1. CanonicalType(field) = "int"
    BY <1>4 DEF CanonicalType
  <2>2. v \in Int64 \cup {None}
    BY <1>1, <1>4, Widths DEF Settled
  <2>3. Cells("int") = Int64 \cup {None}
    BY DEF Cells
  <2> QED BY <2>1, <2>2, <2>3
<1> QED BY <1>2, <1>3, <1>4

\* Canonicalizing a table makes a table of it, with its rows.
LEMMA CanonicalIsATable ==
  ASSUME NEW t, IsTable(t), Resolves(t)
  PROVE  /\ IsTable(Canonical(t)) /\ Rows(Canonical(t)) = Rows(t)
         /\ \A n \in 1 .. 11 : Canonical(t)[n] = CanonicalColumns(t)[n]
<1> DEFINE c == Canonical(t)
<1>1. PICK k \in Nat : Rows(t) = 1 .. k
  BY TableType
<1>2. IsLaidOut(t, c)
  BY CanonicalLayout
<1>3. /\ c \in Seq(Made(t)) /\ Len(c) \in Nat /\ Len(c) >= 11
      /\ DOMAIN c = 1 .. Len(c) /\ c = [n \in 1 .. Len(c) |-> c[n]]
  <2> HIDE DEF c
  <2> QED BY <1>2, LenProperties DEF IsLaidOut
<1>4. ASSUME NEW n \in 1 .. Len(c)
      PROVE  /\ c[n] = [name |-> c[n].name, type |-> c[n].type, values |-> c[n].values]
             /\ c[n].type \in {"text", "int", "float", "timestamp"}
             /\ c[n].values = [r \in 1 .. k |-> c[n].values[r]]
             /\ \A r \in 1 .. k : c[n].values[r] \in Cells(c[n].type)
  <2>1. \E core, type, values :
          /\ c[n] = Column(core, type, values)
          /\ type \in {"text", "int", "float", "timestamp"}
          /\ values = [r \in 1 .. k |-> values[r]]
          /\ \A r \in 1 .. k : values[r] \in Cells(type)
    <3>1. CASE n \in 1 .. 11
      <4> DEFINE field == CanonicalSchema[n]
                 v == Values(t, field)
      <4>1. c[n] = Column(field, CanonicalType(field), v)
        BY <1>2, <3>1, ColumnNames DEF IsLaidOut
      <4>2. field \in CanonicalFields /\ (field \in RequiredFields => Resolved(t, field))
        BY <3>1, TheSchema DEF Resolves
      <4> HIDE DEF field
      <4>3. v = [r \in 1 .. k |-> v[r]] /\ \A r \in 1 .. k : Settled(field, v[r])
        BY <1>1, <4>2, FieldSettles
      <4> HIDE DEF v
      <4>4. CanonicalType(field) \in {"text", "int", "float", "timestamp"}
            /\ \A r \in 1 .. k : v[r] \in Cells(CanonicalType(field))
        <5>1. Settled(field, IF field = "bwd_bytes" THEN 0 ELSE
                               IF field \in {"src_port", "dest_port"} THEN 0 ELSE None)
          <6>1. 0 \in Int32 /\ 0 \in Int64
            BY Widths
          <6> QED BY <6>1 DEF Settled
        <5> QED BY <4>2, <4>3, <5>1, SettledType
      <4> HIDE DEF c
      <4> QED BY <4>1, <4>3, <4>4, Zenon
    <3>2. CASE n \in 12 .. Len(c)
      <4>1. PICK label \in Range(Passthrough) : HasColumn(t, label) /\ c[n] = LabelColumn(t, label)
        BY <1>2, <3>2 DEF IsLaidOut
      <4> DEFINE v == LabelCells(t, label)
      <4>2. v = [r \in 1 .. k |-> v[r]]
        BY <1>1 DEF LabelCells
      <4>3. \A r \in 1 .. k : v[r] \in Cells("text")
        BY <1>1, <4>1, LabelIsCopied DEF Cells
      <4>4. c[n] = Column(label, "text", v)
        BY <4>1, LabelIsCopied
      <4> HIDE DEF v, c
      <4> QED BY <4>2, <4>3, <4>4, Zenon
    <3> HIDE DEF c
    <3> QED BY <1>3, <3>1, <3>2
  <2>2. PICK core, type, values :
          /\ c[n] = Column(core, type, values)
          /\ type \in {"text", "int", "float", "timestamp"}
          /\ values = [r \in 1 .. k |-> values[r]]
          /\ \A r \in 1 .. k : values[r] \in Cells(type)
    BY <2>1
  <2> DEFINE d == Column(core, type, values)
  <2>3. /\ d = [name |-> d.name, type |-> d.type, values |-> d.values]
        /\ d.type = type /\ d.values = values
    BY DEF Column
  <2> HIDE DEF c, d
  <2>4. c[n] = d
    BY <2>2 DEF d
  <2> QED BY <2>2, <2>3, <2>4, Zenon
<1>5. \A n \in 1 .. 11 : c[n] = CanonicalColumns(t)[n]
  BY <1>2 DEF IsLaidOut
<1>6. IsTable(c) /\ Rows(c) = 1 .. k
  <2> HIDE DEF c
  <2>1. 1 <= Len(c) /\ Len(c) \in Nat
    BY <1>3
  <2>2. c = [n \in 1 .. Len(c) |-> c[n]]
    BY <1>3
  <2> QED BY <1>4, <2>1, <2>2, TableBuilt, Zenon
<1> QED BY <1>1, <1>5, <1>6

-----------------------------------------------------------------------------
(* Canonical tables are their own conversion *)

\* What a canonical column holds is left as it is.
LEMMA SettledStays ==
  ASSUME NEW field \in CanonicalFields, NEW d, d.type = CanonicalType(field), d.name.core = field,
         NEW v, Settled(field, v),
         field = "timestamp" => v # None /\ InMicroseconds(Largest(d))
  PROVE  FieldValue(field, d, v) = v
<1>1. field \in {"timestamp", "src_ip", "dest_ip", "src_port", "dest_port", "fwd_bytes",
                 "bwd_bytes", "fwd_pkts", "bwd_pkts", "flow_dur", "protocol"}
  BY TheSchema
<1>2. /\ field \in {"src_ip", "dest_ip"} => d.type = "text"
      /\ field = "flow_dur" => d.type = "float"
      /\ field \notin {"src_ip", "dest_ip", "flow_dur"} => d.type = "int"
  BY DEF CanonicalType
<1>3. \A n \in Int32 : ToInt32("int", n) = n
  BY NoNumber DEF ToInt32
<1>4. ToInt32("int", None) = None
  BY DEF ToInt32
<1>5. CASE field = "timestamp"
  <2>1. v \in Int64 /\ v \in Floats \cup {None}
    BY <1>5, Widths DEF Settled, Floats
  <2>2. FieldValue(field, d, v) = Micros(v, Largest(d))
    BY <1>2, <1>5 DEF FieldValue
  <2>3. Largest(d) \in Int \cup {Inf}
    BY <1>5 DEF InMicroseconds
  <2>4. Micros(v, Largest(d)) = v
    BY <1>5, <2>1, <2>3, MicrosType
  <2> QED BY <2>2, <2>4
<1>6. CASE field \in {"src_ip", "dest_ip"}
  <2>1. FieldValue(field, d, v) = ToText("text", v) /\ v \in Texts \cup {None}
    BY <1>2, <1>6 DEF FieldValue, Settled
  <2>2. ToText("text", v) = v
    BY <2>1, TextAsIs
  <2> QED BY <2>1, <2>2
<1>7. CASE field \in {"src_port", "dest_port"}
  <2>1. v \in Int32 /\ v # None
    BY <1>7, NoNumber DEF Settled, Int32
  <2>2. FieldValue(field, d, v) = IF ToInt32("int", v) = None THEN 0 ELSE ToInt32("int", v)
    BY <1>2, <1>7 DEF FieldValue
  <2> QED BY <1>3, <2>1, <2>2
<1>8. CASE field \in {"fwd_bytes", "bwd_bytes", "fwd_pkts", "bwd_pkts"}
  <2>1. v \in Int64 \cup {None}
    BY <1>8 DEF Settled
  <2>2. FieldValue(field, d, v) = IF v = None THEN None ELSE ToInt64(v)
    BY <1>2, <1>8 DEF FieldValue
  <2>3. v \in Int64 => ToInt64(v) = v
    BY Saturated, Widths DEF Floats
  <2> QED BY <2>1, <2>2, <2>3
<1>9. CASE field = "flow_dur"
  <2>2. Divisor(d.name) = 1
    BY <1>9, SchemaAssumption DEF Divisor
  <2>3. ToFloat("float", v) = v
    BY DEF ToFloat
  <2>4. FieldValue(field, d, v) = IF v \in Int THEN v \div 1 ELSE v
    BY <1>2, <1>9, <2>2, <2>3 DEF FieldValue
  <2> QED BY <2>4
<1>10. CASE field = "protocol"
  <2>1. v \in Int32 \cup {None}
    BY <1>10 DEF Settled
  <2>2. FieldValue(field, d, v) = ToInt32("int", v)
    BY <1>2, <1>10 DEF FieldValue
  <2> QED BY <1>3, <1>4, <2>1, <2>2
<1> QED BY <1>1, <1>5, <1>6, <1>7, <1>8, <1>9, <1>10

\* A field of a canonical table comes from its own column.
LEMMA CanonicalSource ==
  ASSUME NEW t, IsTable(t), Resolves(t), NEW n \in 1 .. 11
  PROVE  /\ Resolved(Canonical(t), CanonicalSchema[n])
         /\ Source(Canonical(t), CanonicalSchema[n]) = Canonical(t)[n]
<1> DEFINE c == Canonical(t)
           field == CanonicalSchema[n]
<1>1. IsTable(c) /\ IsLaidOut(t, c) /\ field \in CanonicalFields
  BY CanonicalIsATable, CanonicalLayout, TheSchema
<1>2. /\ Len(c) \in Nat /\ Len(c) >= 11 /\ DOMAIN c = 1 .. Len(c)
      /\ \A m \in 1 .. 11 : c[m].name.core = CanonicalSchema[m]
  <2>1. \A m \in 1 .. 11 : c[m] = CanonicalColumns(t)[m]
    BY <1>1 DEF IsLaidOut
  <2>2. \A m \in 1 .. 11 : c[m].name.core = CanonicalSchema[m]
    BY <2>1, ColumnNames
  <2> HIDE DEF c
  <2> QED BY <1>1, <2>2, TableType DEF IsLaidOut
<1>3. ASSUME NEW m \in DOMAIN c, c[m].name.core = field PROVE m = n
  <2>1. CASE m \in 1 .. 11
    BY <1>2, <1>3, <2>1, TheSchema
  <2>2. CASE m \in 12 .. Len(c)
    <3>1. PICK label \in Range(Passthrough) : c[m] = LabelColumn(t, label)
      BY <1>1, <2>2 DEF IsLaidOut
    <3>2. c[m].name.core = label
      BY <3>1, ColumnNames
    <3> QED BY <1>1, <1>3, <3>1, <3>2, SchemaAssumption
  <2> QED BY <1>2, <2>1, <2>2
<1>4. n \in DOMAIN c /\ c[n].name.core = field
  BY <1>2
<1>5. 1 \in Known(c, field) /\ Aliases[field][1] = field
  <2>1. Aliases[field] \in Seq(STRING) /\ Aliases[field] # <<>> /\ Head(Aliases[field]) = field
    BY <1>1, SchemaAssumption
  <2>2. 1 \in DOMAIN Aliases[field] /\ Aliases[field][1] = field
    BY <2>1
  <2>3. HasColumn(c, field)
    BY <1>4 DEF HasColumn
  <2> QED BY <2>2, <2>3 DEF Known
<1>6. Resolved(c, field)
  BY <1>5 DEF Resolved
<1> HIDE DEF c, field
<1>7. /\ Known(c, field) \in SUBSET (Nat \ {0}) /\ Min(Known(c, field)) \in Known(c, field)
      /\ \A k \in Known(c, field) : Min(Known(c, field)) <= k
      /\ \E m \in DOMAIN c : /\ c[m].name.core = Aliases[field][Min(Known(c, field))]
                             /\ Source(c, field) = c[m]
  BY <1>1, <1>6, SourceColumn
<1>8. Min(Known(c, field)) = 1
  BY <1>5, <1>7
<1>9. Source(c, field) = c[n]
  BY <1>3, <1>5, <1>7, <1>8
<1> QED BY <1>6, <1>9 DEF c, field

\* The fields of a canonical table of its time are converted to themselves.
LEMMA FieldsStay ==
  ASSUME NEW t, IsTable(t), Resolves(t), Buildable(Canonical(t)), IsOfItsTime(Canonical(t))
  PROVE  CanonicalColumns(Canonical(t)) = CanonicalColumns(t)
<1> DEFINE c == Canonical(t)
<1>1. PICK k \in Nat : Rows(t) = 1 .. k
  BY TableType
<1>2. \A n \in 1 .. 11 : c[n] = CanonicalColumns(t)[n]
  BY CanonicalIsATable
<1>3. ASSUME NEW n \in 1 .. 11
      PROVE  Values(c, CanonicalSchema[n]) = Values(t, CanonicalSchema[n])
  <2> DEFINE field == CanonicalSchema[n]
             w == Values(t, field)
             d == Column(field, CanonicalType(field), w)
  <2>1. field \in CanonicalFields /\ (field \in RequiredFields => Resolved(t, field))
    BY TheSchema DEF Resolves
  <2>2. c[n] = d /\ d.type = CanonicalType(field) /\ d.name.core = field /\ d.values = w
    <3>1. c[n] = d
      BY <1>2, ColumnNames
    <3>2. d.type = CanonicalType(field) /\ d.name.core = field /\ d.values = w
      BY DEF Column
    <3> QED BY <3>1, <3>2
  <2>3. /\ DOMAIN w = 1 .. k /\ w = [r \in 1 .. k |-> w[r]]
        /\ \A r \in 1 .. k : Settled(field, w[r])
    <3> HIDE DEF field
    <3> QED BY <1>1, <2>1, FieldSettles
  <2>4. Resolved(c, field) /\ Source(c, field) = d
    BY <2>2, CanonicalSource
  <2>5. ASSUME field = "timestamp"
        PROVE  /\ \A r \in 1 .. k : w[r] # None
               /\ InMicroseconds(Largest(d))
    <3>1. n = 1
      <4>1. CanonicalSchema[1] = "timestamp"
        BY DEF CanonicalSchema
      <4> QED BY <2>5, <4>1, TheSchema
    <3>2. ~HoldsNull(c[n])
      BY <2>5, TheSchema DEF Buildable, Nullable
    <3> HIDE DEF c, w, d, field
    <3>3. None \notin Range(w)
      BY <2>2, <3>2 DEF HoldsNull
    <3>4. \A r \in 1 .. k : w[r] # None
      BY <2>3, <3>3 DEF Range
    <3>5. Range(w) \subseteq Int /\ Inf \notin Range(w)
      <4>1. \A r \in 1 .. k : w[r] \in Int64
        BY <2>3, <2>5, <3>4, SMT DEF Settled
      <4>2. Range(w) \subseteq Int64
        BY <2>3, <4>1 DEF Range
      <4> QED BY <4>2, Widths, NoNumber
    <3>6. Largest(d) = Max({0} \cup Range(w))
      <4>1. {v \in Range(w) : v \in Int} = Range(w)
        BY <3>5
      <4> QED BY <2>2, <3>5, <4>1 DEF Largest
    <3>7. Largest(d) \in Int
      <4>1. Largest(d) \in Int \cup {Inf} /\ IsFiniteSet(Range(w))
        BY <2>2, <2>3, LargestType
      <4>2. IsFiniteSet({0} \cup Range(w))
        <5>1. IsFiniteSet(Range(w) \cup {0})
          BY <4>1, FS_AddElement
        <5>2. {0} \cup Range(w) = Range(w) \cup {0}
          OBVIOUS
        <5> QED BY <5>1, <5>2
      <4> QED BY <3>5, <3>6, <4>2, GreatestNumber
    <3>8. Threshold * 1000 <= Max({0} \cup Range(w)) /\ Max({0} \cup Range(w)) < Threshold * 1000000
      <4>1. c[1].values = w
        BY <2>2, <3>1
      <4>2. IsOfItsTime(c)
        BY DEF c
      <4> QED BY <4>1, <4>2 DEF IsOfItsTime
    <3> QED BY <3>4, <3>6, <3>7, <3>8, SMT DEF InMicroseconds
  <2>6. Values(c, field) = [r \in 1 .. k |-> FieldValue(field, d, w[r])]
    <3> HIDE DEF c, field, w, d
    <3> QED BY <2>1, <2>2, <2>3, <2>4, FieldByCell
  <2>7. \A r \in 1 .. k : FieldValue(field, d, w[r]) = w[r]
    <3> HIDE DEF c, field, w, d
    <3> QED BY <2>1, <2>2, <2>3, <2>5, SettledStays
  <2> HIDE DEF c, field, w, d
  <2>8. Values(c, field) = w
    BY <2>3, <2>6, <2>7
  <2> QED BY <2>8 DEF field, w
<1>4. \A u : CanonicalColumns(u)
               = [n \in 1 .. 11 |-> Column(CanonicalSchema[n], CanonicalType(CanonicalSchema[n]),
                                          Values(u, CanonicalSchema[n]))]
  BY TheSchema DEF CanonicalColumns
<1> HIDE DEF c
<1>5. CanonicalColumns(c) = CanonicalColumns(t)
  BY <1>3, <1>4
<1> QED BY <1>5 DEF c

\* So are its labels.
LEMMA LabelsStay ==
  ASSUME NEW t, IsTable(t), Resolves(t), NEW label \in Range(Passthrough)
  PROVE  /\ HasColumn(Canonical(t), label) <=> HasColumn(t, label)
         /\ HasColumn(t, label) => LabelColumn(Canonical(t), label) = LabelColumn(t, label)
<1> DEFINE c == Canonical(t)
<1>1. /\ IsTable(c) /\ IsLaidOut(t, c) /\ Rows(c) = Rows(t)
      /\ HasColumn(t, label) => HasColumn(c, label)
  BY CanonicalIsATable, CanonicalLayout
<1>2. ASSUME NEW n \in DOMAIN c, c[n].name.core = label
      PROVE  HasColumn(t, label) /\ c[n] = LabelColumn(t, label)
  <2>1. DOMAIN c = 1 .. Len(c) /\ Len(c) \in Nat
    BY <1>1, TableType
  <2>2. n \notin 1 .. 11
    <3> SUFFICES ASSUME n \in 1 .. 11 PROVE FALSE
      OBVIOUS
    <3>1. c[n] = CanonicalColumns(t)[n]
      BY <1>1 DEF IsLaidOut
    <3>2. label = CanonicalSchema[n] /\ label \in CanonicalFields
      BY <1>2, <3>1, ColumnNames, TheSchema
    <3> QED BY <3>2, SchemaAssumption
  <2>3. n \in 12 .. Len(c)
    BY <2>1, <2>2
  <2>4. PICK l \in Range(Passthrough) : HasColumn(t, l) /\ c[n] = LabelColumn(t, l)
    BY <1>1, <2>3 DEF IsLaidOut
  <2>5. l = label
    BY <1>2, <2>4, ColumnNames
  <2> QED BY <2>4, <2>5
<1>3. HasColumn(c, label) => HasColumn(t, label)
  BY <1>2 DEF HasColumn
<1>4. ASSUME HasColumn(t, label)
      PROVE  LabelColumn(c, label) = LabelColumn(t, label)
  <2> DEFINE v == LabelCells(t, label)
             n == FirstNamed(c, label)
             d == LabelColumn(t, label)
  <2> HIDE DEF c
  <2>1. n \in DOMAIN c /\ c[n].name.core = label /\ LabelColumn(c, label) = Column(label, "text", LabelCells(c, label))
    BY <1>1, <1>4, LabelIsCopied
  <2>2. c[n] = d /\ d = Column(label, "text", v)
    BY <1>2, <1>4, <2>1, LabelIsCopied
  <2>3. d.type = "text" /\ d.values = v
    <3>1. d = Column(label, "text", v)
      BY <2>2
    <3> HIDE DEF d, v
    <3> QED BY <3>1 DEF Column
  <2>4. \A r \in Rows(t) : v[r] \in Texts \cup {None}
    BY <1>4, LabelIsCopied
  <2>5. v = [r \in Rows(t) |-> v[r]]
    BY DEF LabelCells
  <2> HIDE DEF v, n, d
  <2>6. LabelCells(c, label) = [r \in Rows(c) |-> ToText(d.type, d.values[r])]
    BY <2>2 DEF LabelCells, n
  <2>7. \A r \in Rows(t) : ToText("text", v[r]) = v[r]
    BY <2>4, TextAsIs
  <2>8. LabelCells(c, label) = v
    BY <1>1, <2>3, <2>5, <2>6, <2>7
  <2> QED BY <2>1, <2>2, <2>8 DEF d
<1> QED BY <1>1, <1>3, <1>4

\* A canonical table of its time is converted to itself.
LEMMA CanonicalAgain ==
  ASSUME NEW t, IsTable(t), Resolves(t), Buildable(Canonical(t))
  PROVE  IsOfItsTime(Canonical(t)) =>
           IsConvertible(Canonical(t)) /\ Canonical(Canonical(t)) = Canonical(t)
<1> DEFINE c == Canonical(t)
           L == Len(Passthrough)
<1> SUFFICES ASSUME IsOfItsTime(c) PROVE IsConvertible(c) /\ Canonical(c) = c
  OBVIOUS
<1>1. CanonicalColumns(c) = CanonicalColumns(t)
  BY FieldsStay
<1>2. ASSUME NEW label \in Range(Passthrough), NEW columns
      PROVE  WithLabel(c, columns, label) = WithLabel(t, columns, label)
  <2>1. /\ HasColumn(c, label) <=> HasColumn(t, label)
        /\ HasColumn(t, label) => LabelColumn(c, label) = LabelColumn(t, label)
    BY LabelsStay
  <2> HIDE DEF c
  <2> QED BY <2>1 DEF WithLabel
<1>3. PICK g : /\ g[0] = CanonicalColumns(t)
               /\ \A k \in 1 .. L : g[k] = WithLabel(t, g[k - 1], Passthrough[k])
               /\ Canonical(t) = g[L]
  BY LabelsInTurn
<1>4. PICK h : /\ h[0] = CanonicalColumns(c)
               /\ \A k \in 1 .. L : h[k] = WithLabel(c, h[k - 1], Passthrough[k])
               /\ Canonical(c) = h[L]
  <2> HIDE DEF c
  <2> QED BY LabelsInTurn
<1>5. L \in Nat /\ \A k \in 1 .. L : Passthrough[k] \in Range(Passthrough)
  BY SchemaAssumption, LenProperties DEF Range
<1> DEFINE N == {k \in Nat : k <= L => h[k] = g[k]}
<1> HIDE DEF c
<1>6. 0 \in N
  BY <1>1, <1>3, <1>4
<1>7. ASSUME NEW k \in Nat, k \in N PROVE k + 1 \in N
  <2> SUFFICES ASSUME k + 1 <= L PROVE h[k + 1] = g[k + 1]
    OBVIOUS
  <2>1. k + 1 \in 1 .. L /\ (k + 1) - 1 = k /\ h[k] = g[k]
    BY <1>5, <1>7
  <2>2. g[k + 1] = WithLabel(t, g[k], Passthrough[k + 1])
        /\ h[k + 1] = WithLabel(c, h[k], Passthrough[k + 1])
    BY <1>3, <1>4, <2>1
  <2> QED BY <1>2, <1>5, <2>1, <2>2
<1>8. Nat \subseteq N
  <2> HIDE DEF N
  <2> QED BY <1>6, <1>7, NatSetInduction
<1>9. Canonical(c) = c
  <2>1. h[L] = g[L]
    BY <1>5, <1>8
  <2> QED BY <1>3, <1>4, <2>1 DEF c
<1>10. Resolves(c)
  <2> SUFFICES ASSUME NEW field \in RequiredFields PROVE Resolved(c, field)
    BY DEF Resolves
  <2>1. field \in CanonicalFields
    BY TheSchema DEF RequiredFields
  <2>2. PICK n \in 1 .. 11 : CanonicalSchema[n] = field
    BY <2>1, TheSchema
  <2> QED BY <2>2, CanonicalSource DEF c
<1>11. Buildable(c)
  BY DEF c
<1> QED BY <1>9, <1>10, <1>11 DEF IsConvertible

-----------------------------------------------------------------------------
(* The inductive invariant *)

\* A canonical table is a parquet file that can be read.
LEMMA ParquetIsLegible ==
  ASSUME NEW columns, IsTable(columns), Rows(columns) # {}
  PROVE  /\ IsFile(ParquetOf(columns)) /\ IsLegible(ParquetOf(columns))
         /\ ParquetOf(columns).format = "parquet" /\ ParquetOf(columns).columns = columns
<1> DEFINE g == ParquetOf(columns)
<1>1. g = [format |-> "parquet", magic |-> {"head", "tail"}, delimiter |-> "",
           preamble |-> <<>>, columns |-> columns]
  BY DEF ParquetOf
<1>2. /\ g.format = "parquet" /\ g.magic = {"head", "tail"} /\ g.delimiter = ""
      /\ g.preamble = <<>> /\ g.columns = columns
  BY DEF ParquetOf
<1> HIDE DEF g
<1>3. IsFile(g)
  BY <1>1, <1>2 DEF IsFile, IsParquet
<1>4. IsLegible(g)
  BY <1>2 DEF IsLegible, IsParquet, IsZeek
<1> QED BY <1>2, <1>3, <1>4 DEF g

\* A run starts from a file of the model with nothing read, so the invariant holds.
LEMMA InvInit ==
  ASSUME Init
  PROVE  IInv
BY FilesAssumption DEF Init, IInv

\* Every step of `convert` keeps the invariant, the steps that fail the file included.
LEMMA InvStep ==
  ASSUME IInv, [Next]_vars
  PROVE  IInv'
<1>1. CASE RefuseFile
  <2>1. ~IsLegible(file)
    BY <1>1 DEF RefuseFile, IsLegible
  <2>2. pc' = "failed" /\ UNCHANGED <<file, table, coerced, out, first>> /\ pc = "probe"
    BY <1>1 DEF RefuseFile, Fail
  <2> QED BY <2>1, <2>2 DEF IInv
<1>2. ASSUME NEW columns, Read(columns), columns = TableOf(file), IsLegible(file)
      PROVE  IInv'
  BY <1>2 DEF Read, IInv
<1>3. CASE ReadParquet
  <2>1. Read(file.columns) /\ IsParquet(file) /\ file.format = "parquet" /\ Rows(file.columns) # {}
    BY <1>3 DEF ReadParquet, Read
  <2>2. TableOf(file) = file.columns /\ IsLegible(file)
    BY <2>1 DEF TableOf, IsLegible, IsZeek
  <2> QED BY <1>2, <2>1, <2>2
<1>4. CASE ReadZeekTable
  <2> DEFINE columns == [n \in DOMAIN file.columns |-> ZeekColumn(file, n)]
  <2>1. /\ Read(columns) /\ IsZeek(file) /\ ~IsParquet(file) /\ Rows(file.columns) # {}
        /\ Len(ZeekFields(file)) = Len(file.columns)
    BY <1>4 DEF ReadZeekTable, Read, IsZeek
  <2>2. TableOf(file) = columns /\ IsLegible(file)
    BY <2>1 DEF TableOf, IsLegible
  <2> QED BY <1>2, <2>1, <2>2
<1>5. CASE ReadDelimited
  <2> DEFINE columns == [n \in DOMAIN file.columns |-> DelimitedColumn(file.columns[n])]
  <2>1. Read(columns) /\ ~IsZeek(file) /\ ~IsParquet(file) /\ Rows(file.columns) # {}
    BY <1>5 DEF ReadDelimited, Read
  <2>2. TableOf(file) = columns /\ IsLegible(file)
    BY <2>1 DEF TableOf, IsLegible
  <2> QED BY <1>2, <2>1, <2>2
<1>6. CASE RefuseMissing
  <2>1. ~IsConvertible(TableOf(file))
    BY <1>6 DEF RefuseMissing, IInv, IsConvertible
  <2>2. pc' = "failed" /\ UNCHANGED <<file, table, coerced, out, first>>
    BY <1>6 DEF RefuseMissing, Fail
  <2> QED BY <2>1, <2>2 DEF IInv
<1>7. CASE Convert
  BY <1>7 DEF Convert, IInv
<1>8. CASE RefuseNull
  <2>1. ~IsConvertible(TableOf(file))
    BY <1>8 DEF RefuseNull, IInv, IsConvertible
  <2>2. pc' = "failed" /\ UNCHANGED <<file, table, coerced, out, first>>
    BY <1>8 DEF RefuseNull, Fail
  <2> QED BY <2>1, <2>2 DEF IInv
<1>9. CASE WriteParquet
  BY <1>9 DEF WriteParquet, IInv
<1>10. CASE Again
  <2>1. /\ IsFile(file) /\ IsLegible(file) /\ table = TableOf(file) /\ Resolves(table)
        /\ out = Canonical(table) /\ Buildable(out)
    BY <1>10 DEF Again, IInv
  <2>2. IsTable(table) /\ Rows(table) # {}
    <3>1. IsTable(TableOf(file)) /\ Rows(TableOf(file)) = Rows(file.columns)
      BY <2>1, TableOfFile
    <3>2. Rows(file.columns) # {}
      BY <2>1 DEF IsLegible
    <3> QED BY <2>1, <3>1, <3>2
  <2>3. IsTable(out) /\ Rows(out) # {}
    BY <2>1, <2>2, CanonicalIsATable
  <2>4. IsFile(file') /\ file'.format = "parquet" /\ file'.columns = out /\ IsLegible(file')
    <3>1. file' = ParquetOf(out)
      BY <1>10 DEF Again
    <3> QED BY <2>3, <3>1, ParquetIsLegible
  <2>5. IsOfItsTime(out) => IsConvertible(out) /\ Canonical(out) = out
    BY <2>1, <2>2, CanonicalAgain
  <2>6. first' = out /\ pc' = "probe"
    BY <1>10 DEF Again
  <2> QED BY <2>4, <2>5, <2>6 DEF IInv
<1>11. CASE UNCHANGED vars
  BY <1>11 DEF vars, IInv
<1> QED BY <1>1, <1>3, <1>4, <1>5, <1>6, <1>7, <1>8, <1>9, <1>10, <1>11 DEF Next

\* Every stage of a conversion is a function of the file, in every reachable
\* state, and a canonical table of its time is its own conversion.
THEOREM ConversionInvariant == Spec => []IInv
<1>1. Init => IInv
  BY InvInit
<1>2. IInv /\ [Next]_vars => IInv'
  BY InvStep
<1> QED BY <1>1, <1>2, PTL DEF Spec

\* Canonicalizing a canonical table of its time changes nothing.
THEOREM FixedPoint == Spec => []CanonicalIsAFixedPoint
<1>1. IInv => CanonicalIsAFixedPoint
  <2> SUFFICES ASSUME IInv, first # <<>>, IsOfItsTime(first)
               PROVE  pc # "failed" /\ (pc = "converted" => out = first)
    BY DEF CanonicalIsAFixedPoint
  <2>1. /\ IsFile(file) /\ IsLegible(file) /\ file.format = "parquet" /\ first = file.columns
        /\ IsConvertible(first) /\ Canonical(first) = first
    BY DEF IInv
  <2>2. TableOf(file) = first
    BY <2>1, TableOfFile
  <2> QED BY <2>1, <2>2 DEF IInv
<1> QED BY <1>1, ConversionInvariant, PTL

-----------------------------------------------------------------------------
(* What is read of a cell *)

TextForms == FloatForms \cup {"magnitude"}

AsNull(n, r, type, v) == Cell(n, r) = None /\ v = None

AsTyped(n, r, type, v) ==
  /\ Cell(n, r) # None /\ IsTyped(n) /\ ~IsPadded(n, r)
  /\ type = file.columns[n].type /\ type # "text" /\ v = Cell(n, r)

AsDate(n, r, type, v) ==
  /\ Cell(n, r) \in Texts /\ IsDated(n) /\ Cell(n, r).form = "date" /\ ~IsPadded(n, r)
  /\ type = "timestamp" /\ v = Cell(n, r).value

AsMark(n, r, type, v) ==
  /\ Cell(n, r) \in Texts /\ IsMarked(n, r) /\ type = Declared(file, n) /\ type \in {"int", "float"}
  /\ v = 0 /\ ~IsPadded(n, r)

AsText(n, r, type, v) ==
  /\ Cell(n, r) \in Texts /\ IsText(n, r) /\ FormsOf(n) = TextForms /\ ~IsWhole(n)
  /\ type = "text" /\ (file.format = "zeek" => Declared(file, n) = "text")
  /\ v \in Texts /\ v.form = Cell(n, r).form /\ v.value = Cell(n, r).value
  /\ v.padded <=> IsPadded(n, r)

AsInferred(n, r, type, v) ==
  /\ Cell(n, r) \in Texts /\ IsText(n, r) /\ FormsOf(n) = TextForms /\ ~IsWhole(n)
  /\ file.format = "delimited" /\ type \in {"int", "float"} /\ ~IsPadded(n, r)
  /\ type = Inferred(file.columns[n].values)
  /\ Cell(n, r).form = "plain" \/ (type = "float" /\ Cell(n, r).form = "decimal")
  /\ v = Cell(n, r).value

AsDeclaredInt(n, r, type, v) ==
  /\ Cell(n, r) \in Texts /\ IsText(n, r) /\ FormsOf(n) = {"plain"} /\ ~IsPadded(n, r) /\ IsWhole(n)
  /\ file.format = "zeek" /\ Declared(file, n) = "int" /\ type = "int"
  /\ v = IF Cell(n, r).form = "plain" /\ Cell(n, r).value \in Int64 THEN Cell(n, r).value ELSE None

AsDeclaredFloat(n, r, type, v) ==
  /\ Cell(n, r) \in Texts /\ IsText(n, r) /\ FormsOf(n) = FloatForms /\ ~IsPadded(n, r) /\ ~IsWhole(n)
  /\ file.format = "zeek" /\ Declared(file, n) = "float" /\ type = "float"
  /\ v = ParsedFloat(Cell(n, r))

\* Every cell is read in one of these ways.
LEMMA WaysOfReading ==
  ASSUME IsFile(file), IsLegible(file), NEW n \in DOMAIN file.columns, NEW r \in FileRows,
         NEW type, NEW v, IsReading(file, n, r, type, v)
  PROVE  \/ AsNull(n, r, type, v) \/ AsTyped(n, r, type, v) \/ AsDate(n, r, type, v)
         \/ AsMark(n, r, type, v) \/ AsText(n, r, type, v) \/ AsInferred(n, r, type, v)
         \/ AsDeclaredInt(n, r, type, v) \/ AsDeclaredFloat(n, r, type, v)
<1> DEFINE c == Cell(n, r)
<1>1. /\ file.format \in {"parquet", "delimited", "zeek"}
      /\ file.columns[n].type \in Types
      /\ c \in Cells(file.columns[n].type)
      /\ file.format # "parquet" => file.columns[n].type = "text"
      /\ \A s \in FileRows : file.columns[n].values[s] \in Cells(file.columns[n].type)
      /\ DOMAIN file.columns[n].values = FileRows
  BY TableType DEF IsFile, FileRows, Cell, Types
<1>2. file.columns[n].type = "text" => c \in Texts \cup {None}
  BY <1>1 DEF Cells
<1>3. c # None /\ c \in Texts => Trimmed(c) = [form |-> c.form, value |-> c.value, padded |-> FALSE]
  BY TrimmedText
<1>4. Trimmed(None) = None
  BY DEF Trimmed
<1>5. CASE file.format = "parquet"
  <2>1. type = file.columns[n].type /\ v = c
    BY <1>5 DEF IsReading, Cell
  <2>2. ~IsDated(n) /\ ~IsMarked(n, r) /\ FormsOf(n) = TextForms /\ ~IsWhole(n)
    BY <1>5 DEF IsDated, IsMarked, FormsOf, IsWhole, TextForms
  <2>3. CASE c = None
    BY <2>1, <2>3 DEF AsNull
  <2>4. CASE c # None /\ type = "text"
    <3>1. c \in Texts /\ ~IsTyped(n)
      BY <1>2, <2>1, <2>4 DEF IsTyped
    <3>2. IsPadded(n, r) <=> c.padded
      BY <1>5, <2>4, <3>1 DEF IsPadded, Texts
    <3> QED BY <1>5, <2>1, <2>2, <2>4, <3>1, <3>2 DEF AsText, IsText
  <2>5. CASE c # None /\ type # "text"
    BY <1>5, <2>1, <2>5 DEF AsTyped, IsTyped, IsPadded
  <2> QED BY <2>3, <2>4, <2>5
<1>6. CASE file.format = "delimited"
  <2> DEFINE inferred == Inferred(file.columns[n].values)
  <2>1. type = inferred /\ v = IF c = None \/ type = "text" THEN Trimmed(c) ELSE c.value
    BY <1>6 DEF IsReading, Cell
  <2>2. /\ ~IsTyped(n) /\ ~IsMarked(n, r) /\ ~IsPadded(n, r)
        /\ FormsOf(n) = TextForms /\ ~IsWhole(n)
        /\ IsDated(n) <=> inferred = "timestamp"
    BY <1>6 DEF IsTyped, IsDated, IsMarked, IsPadded, FormsOf, IsWhole, TextForms
  <2>3. /\ inferred \in {"int", "float", "timestamp", "text"}
        /\ inferred # "text" =>
             \A s \in FileRows : file.columns[n].values[s] # None =>
               /\ ~file.columns[n].values[s].padded
               /\ file.columns[n].values[s].form \in {"plain", "decimal", "date"}
        /\ inferred = "int" =>
             \A s \in FileRows : file.columns[n].values[s] # None => file.columns[n].values[s].form = "plain"
        /\ inferred = "float" =>
             \A s \in FileRows : file.columns[n].values[s] # None =>
               file.columns[n].values[s].form \in {"plain", "decimal"}
        /\ inferred = "timestamp" =>
             \A s \in FileRows : file.columns[n].values[s] # None => file.columns[n].values[s].form = "date"
    <3>1. \A s \in FileRows : file.columns[n].values[s] \in Texts \cup {None}
      BY <1>1, <1>6 DEF Cells
    <3>2. DOMAIN file.columns[n].values = FileRows
      BY <1>1
    <3> QED BY <3>1, <3>2, InferredType
  <2>4. c # None => /\ c \in Texts
                    /\ inferred = "int" => c.form = "plain"
                    /\ inferred = "float" => c.form \in {"plain", "decimal"}
                    /\ inferred = "timestamp" => c.form = "date"
    BY <1>1, <1>2, <1>6, <2>3 DEF Cell
  <2> HIDE DEF inferred, c
  <2>5. CASE c = None
    BY <1>4, <2>1, <2>5 DEF AsNull, c
  <2>6. CASE c # None /\ type = "text"
    <3>1. v \in Texts /\ v.form = c.form /\ v.value = c.value /\ v.padded = FALSE
      <4>1. v = [form |-> c.form, value |-> c.value, padded |-> FALSE]
        BY <1>3, <2>1, <2>4, <2>6
      <4>2. v = Trimmed(c) /\ v \in Texts \cup {None} /\ v # None
        BY <2>1, <2>4, <2>6, TrimmedText
      <4> QED BY <4>1, <4>2
    <3>2. IsText(n, r)
      BY <2>1, <2>2, <2>6 DEF IsText, c
    <3> QED BY <1>6, <2>2, <2>4, <2>6, <3>1, <3>2 DEF AsText, c
  <2>7. CASE c # None /\ type = "timestamp"
    BY <2>1, <2>2, <2>4, <2>7 DEF AsDate, c
  <2>8. CASE c # None /\ type \in {"int", "float"}
    <3>1. IsText(n, r)
      BY <2>1, <2>2, <2>8 DEF IsText, c
    <3>2. /\ type = inferred /\ v = c.value /\ c \in Texts
          /\ c.form = "plain" \/ (type = "float" /\ c.form = "decimal")
      BY <2>1, <2>4, <2>8
    <3> QED BY <1>6, <2>2, <2>8, <3>1, <3>2 DEF AsInferred, c, inferred
  <2> QED BY <2>1, <2>3, <2>5, <2>6, <2>7, <2>8
<1>7. CASE file.format = "zeek"
  <2> DEFINE declared == Declared(file, n)
  <2>1. type = declared /\ v = ZeekCell(file, type, c)
    BY <1>7 DEF IsReading, Cell
  <2>2. ~IsTyped(n) /\ ~IsDated(n) /\ ~IsPadded(n, r)
    BY <1>7 DEF IsTyped, IsDated, IsPadded
  <2>3. /\ declared \in {"text", "int", "float"}
        /\ declared = "text" => FormsOf(n) = TextForms
        /\ declared = "int" => FormsOf(n) = {"plain"}
        /\ declared = "float" => FormsOf(n) = FloatForms
        /\ declared = "int" <=> IsWhole(n)
    BY <1>7, ZeekTypes DEF FormsOf, IsWhole, TextForms
  <2>4. c \in Texts \cup {None}
    BY <1>1, <1>2, <1>7
  <2>5. c # None => (IsMarked(n, r) <=> declared # "text" /\ c.form \in Marks(file))
    BY <1>7 DEF IsMarked
  <2>6. /\ declared = "text" => v = Trimmed(c)
        /\ declared = "int" => v = TextToInt(Fill(file, c))
        /\ declared = "float" => v = TextToFloat(Fill(file, c))
    BY <2>1 DEF ZeekCell
  <2>7. Fill(file, c) = IF c # None /\ c.form \in Marks(file) THEN Written("plain", 0) ELSE Trimmed(c)
    BY DEF Fill
  <2> HIDE DEF declared, c
  <2>8. CASE c = None
    <3>1. Fill(file, c) = None /\ Trimmed(c) = None
      BY <1>4, <2>7, <2>8
    <3>2. TextToInt(None) = None /\ TextToFloat(None) = None
      BY DEF TextToInt, TextToFloat
    <3> QED BY <2>3, <2>6, <2>8, <3>1, <3>2 DEF AsNull, c
  <2>9. CASE c # None /\ declared = "text"
    <3>1. v \in Texts /\ v.form = c.form /\ v.value = c.value /\ v.padded = FALSE
      <4>1. v = [form |-> c.form, value |-> c.value, padded |-> FALSE]
        BY <1>3, <2>4, <2>6, <2>9
      <4>2. v = Trimmed(c) /\ v \in Texts \cup {None} /\ v # None
        BY <2>4, <2>6, <2>9, TrimmedText
      <4> QED BY <4>1, <4>2
    <3>2. IsText(n, r)
      BY <2>2, <2>5, <2>9 DEF IsText, c
    <3> QED BY <1>7, <2>1, <2>2, <2>3, <2>4, <2>9, <3>1, <3>2 DEF AsText, c, declared
  <2>10. CASE c # None /\ declared # "text" /\ IsMarked(n, r)
    <3>1. Fill(file, c) = Written("plain", 0)
      BY <2>5, <2>7, <2>10
    <3>2. TextToInt(Written("plain", 0)) = 0 /\ TextToFloat(Written("plain", 0)) = 0
      <4>1. /\ Written("plain", 0) \in Texts /\ Written("plain", 0).form = "plain"
            /\ Written("plain", 0).value = 0 /\ ~Written("plain", 0).padded
        BY DEF Written, Texts, Forms
      <4>2. Written("plain", 0) # None
        BY <4>1, NoNumber
      <4>3. ParsedFloat(Written("plain", 0)) = 0
        BY <4>1, ParsedText
      <4>4. TextToFloat(Written("plain", 0)) = ParsedFloat(Written("plain", 0))
        BY <4>1, <4>2 DEF TextToFloat
      <4>5. TextToInt(Written("plain", 0)) = 0
        BY <4>1, <4>2, Widths DEF TextToInt
      <4> QED BY <4>3, <4>4, <4>5
    <3>3. v = 0
      BY <2>3, <2>6, <2>10, <3>1, <3>2
    <3> QED BY <2>1, <2>2, <2>3, <2>4, <2>10, <3>3 DEF AsMark, c, declared
  <2>11. CASE c # None /\ declared # "text" /\ ~IsMarked(n, r)
    <3> DEFINE w == Trimmed(c)
    <3>1. Fill(file, c) = w
      BY <2>5, <2>7, <2>11
    <3>2. c \in Texts /\ w = [form |-> c.form, value |-> c.value, padded |-> FALSE]
      BY <1>3, <2>4, <2>11
    <3>3. w \in Texts \cup {None} /\ w # None
      BY <2>4, <2>11, TrimmedText
    <3> HIDE DEF w
    <3>4. w.form = c.form /\ w.value = c.value /\ ~w.padded
      BY <3>2
    <3>5. /\ TextToInt(w) = IF c.form = "plain" /\ c.value \in Int64 THEN c.value ELSE None
          /\ TextToFloat(w) = ParsedFloat(c)
      BY <3>2, <3>3, <3>4, TextCasts, ParsedText
    <3>6. IsText(n, r)
      BY <2>2, <2>11 DEF IsText, c
    <3>7. CASE declared = "int"
      BY <1>7, <2>1, <2>2, <2>3, <2>6, <3>1, <3>2, <3>5, <3>6, <3>7 DEF AsDeclaredInt, c, declared
    <3>8. CASE declared = "float"
      BY <1>7, <2>1, <2>2, <2>3, <2>6, <3>1, <3>2, <3>5, <3>6, <3>8 DEF AsDeclaredFloat, c, declared
    <3> QED BY <2>3, <2>11, <3>7, <3>8
  <2> QED BY <2>8, <2>9, <2>10, <2>11
<1> QED BY <1>1, <1>5, <1>6, <1>7

\* The number that stands in a text, when it is written in one of the forms.
TextNumber(c, forms) ==
  IF c.form = "nan" /\ "nan" \in forms THEN NaN
  ELSE IF c.form = "inf" /\ "inf" \in forms THEN Inf
  ELSE IF c.form = "-inf" /\ "-inf" \in forms THEN NegInf
  ELSE IF c.form = "magnitude" /\ "magnitude" \in forms THEN c.value * 1000
  ELSE IF c.form \in forms \cap {"plain", "decimal"} THEN c.value
  ELSE None

\* It is what is parsed of it.
LEMMA NumberIsParsed ==
  ASSUME NEW c \in Texts
  PROVE  /\ TextNumber(c, FloatForms) = ParsedFloat(c)
         /\ TextNumber(c, TextForms) = ParseMagnitude(c)
<1>1. ParsedFloat(c) = IF c.form \in {"plain", "decimal"} THEN c.value
                       ELSE IF c.form = "nan" THEN NaN
                       ELSE IF c.form = "inf" THEN Inf
                       ELSE IF c.form = "-inf" THEN NegInf ELSE None
  BY ParsedText
<1>2. ParseMagnitude(c) = IF c.form = "magnitude" THEN c.value * 1000 ELSE ParsedFloat(c)
  BY TextNumbers, NoNumber
<1>3. TextNumber(c, FloatForms) = ParsedFloat(c)
  BY <1>1 DEF TextNumber, FloatForms
<1>4. TextNumber(c, TextForms) = IF c.form = "magnitude" THEN c.value * 1000
                                 ELSE TextNumber(c, FloatForms)
  BY DEF TextNumber, FloatForms, TextForms
<1> QED BY <1>2, <1>3, <1>4

\* The number of a cell, by what it is.
LEMMA NumberOfCell ==
  ASSUME NEW n, NEW r, NEW forms
  PROVE  /\ Cell(n, r) = None => NumberOf(n, r, forms) = None
         /\ Cell(n, r) # None /\ IsTyped(n) => NumberOf(n, r, forms) = Cell(n, r)
         /\ Cell(n, r) # None /\ IsDated(n) => NumberOf(n, r, forms) = Cell(n, r).value
         /\ IsMarked(n, r) => NumberOf(n, r, forms) = 0
         /\ IsText(n, r) =>
              NumberOf(n, r, forms)
                = IF /\ IsWhole(n) /\ Cell(n, r).form \in {"plain", "decimal"}
                     /\ Cell(n, r).value \notin Int64
                  THEN None ELSE TextNumber(Cell(n, r), forms)
<1>1. Cell(n, r) = None => NumberOf(n, r, forms) = None
  BY DEF NumberOf, IsMarked, IsText
<1>2. Cell(n, r) # None /\ IsTyped(n) => NumberOf(n, r, forms) = Cell(n, r)
  <2>1. IsTyped(n) => ~IsDated(n) /\ ~IsMarked(n, r) /\ ~IsText(n, r)
    BY DEF IsTyped, IsDated, IsMarked, IsText
  <2> QED BY <2>1 DEF NumberOf
<1>3. Cell(n, r) # None /\ IsDated(n) => NumberOf(n, r, forms) = Cell(n, r).value
  <2>1. IsDated(n) => ~IsTyped(n) /\ ~IsMarked(n, r) /\ ~IsText(n, r)
    BY DEF IsTyped, IsDated, IsMarked, IsText
  <2> QED BY <2>1 DEF NumberOf
<1>4. IsMarked(n, r) => NumberOf(n, r, forms) = 0
  <2>1. IsMarked(n, r) => ~IsTyped(n) /\ ~IsDated(n) /\ ~IsText(n, r)
    BY DEF IsTyped, IsDated, IsMarked, IsText
  <2> QED BY <2>1 DEF NumberOf
<1>5. ASSUME IsText(n, r)
      PROVE  NumberOf(n, r, forms)
               = IF /\ IsWhole(n) /\ Cell(n, r).form \in {"plain", "decimal"}
                    /\ Cell(n, r).value \notin Int64
                 THEN None ELSE TextNumber(Cell(n, r), forms)
  <2>1. ~IsTyped(n) /\ ~IsDated(n) /\ ~IsMarked(n, r)
    BY <1>5 DEF IsText
  <2>2. Cell(n, r).form \in forms \cap {"plain", "decimal"} <=>
          Cell(n, r).form \in forms /\ Cell(n, r).form \in {"plain", "decimal"}
    OBVIOUS
  <2> QED BY <1>5, <2>1, <2>2 DEF NumberOf, TextNumber
<1> QED BY <1>1, <1>2, <1>3, <1>4, <1>5

\* A count is what its cell says.
LEMMA CountOfCell ==
  ASSUME IsFile(file), IsLegible(file), NEW n \in DOMAIN file.columns, NEW r \in FileRows,
         NEW type, NEW v, IsReading(file, n, r, type, v)
  PROVE  (IF type = "text" THEN ParseMagnitude(v) ELSE v) = CountOf(n, r)
<1> DEFINE c == Cell(n, r)
           forms == FormsOf(n)
           x == IF type = "text" THEN ParseMagnitude(v) ELSE v
<1>1. CountOf(n, r) = NumberOf(n, r, forms)
  BY DEF CountOf
<1>2. CASE AsNull(n, r, type, v)
  <2>1. ParseMagnitude(None) = None
    BY DEF ParseMagnitude
  <2> QED BY <1>1, <1>2, <2>1, NumberOfCell DEF AsNull
<1>3. CASE AsTyped(n, r, type, v)
  BY <1>1, <1>3, NumberOfCell DEF AsTyped
<1>4. CASE AsDate(n, r, type, v)
  <2>1. c # None
    BY <1>4, NoNumber DEF AsDate
  <2> QED BY <1>1, <1>4, <2>1, NumberOfCell DEF AsDate
<1>5. CASE AsMark(n, r, type, v)
  BY <1>1, <1>5, NumberOfCell DEF AsMark
<1>6. CASE AsText(n, r, type, v)
  <2>1. v # None
    BY <1>6, NoNumber DEF AsText
  <2>2. v \in Texts /\ c \in Texts /\ v.form = c.form /\ v.value = c.value /\ type = "text"
        /\ IsText(n, r) /\ forms = TextForms /\ ~IsWhole(n)
    BY <1>6 DEF AsText
  <2>3. ParseMagnitude(v) = TextNumber(v, TextForms) /\ TextNumber(v, TextForms) = TextNumber(c, TextForms)
    <3>1. TextNumber(v, TextForms) = TextNumber(c, TextForms)
      BY <2>2 DEF TextNumber
    <3> QED BY <2>2, <3>1, NumberIsParsed
  <2>4. x = CountOf(n, r)
    <3>1. x = TextNumber(c, forms)
      BY <2>2, <2>3
    <3> HIDE DEF c, x, forms
    <3> QED BY <1>1, <2>2, <3>1, NumberOfCell DEF c
  <2> QED BY <2>4
<1>7. CASE AsInferred(n, r, type, v)
  <2>1. /\ IsText(n, r) /\ forms = TextForms /\ ~IsWhole(n)
        /\ c.form \in {"plain", "decimal"} /\ x = c.value
    BY <1>7 DEF AsInferred
  <2>4. x = CountOf(n, r)
    <3> HIDE DEF c, x, forms
    <3>1. TextNumber(c, forms) = x
      BY <2>1 DEF TextNumber, TextForms, FloatForms
    <3> QED BY <1>1, <2>1, <3>1, NumberOfCell DEF c
  <2> QED BY <2>4
<1>8. CASE AsDeclaredInt(n, r, type, v)
  <2>1. /\ IsText(n, r) /\ forms = {"plain"} /\ IsWhole(n)
        /\ x = IF c.form = "plain" /\ c.value \in Int64 THEN c.value ELSE None
    BY <1>8 DEF AsDeclaredInt
  <2>4. x = CountOf(n, r)
    <3> HIDE DEF c, x, forms
    <3>1. TextNumber(c, forms) = IF c.form = "plain" THEN c.value ELSE None
      BY <2>1 DEF TextNumber
    <3> QED BY <1>1, <2>1, <3>1, NumberOfCell DEF c
  <2> QED BY <2>4
<1>9. CASE AsDeclaredFloat(n, r, type, v)
  <2>1. IsText(n, r) /\ forms = FloatForms /\ ~IsWhole(n) /\ c \in Texts /\ x = ParsedFloat(c)
    BY <1>9 DEF AsDeclaredFloat
  <2>4. x = CountOf(n, r)
    <3> HIDE DEF c, x, forms
    <3>1. x = TextNumber(c, forms)
      BY <2>1, NumberIsParsed
    <3> QED BY <1>1, <2>1, <3>1, NumberOfCell DEF c
  <2> QED BY <2>4
<1> QED BY <1>2, <1>3, <1>4, <1>5, <1>6, <1>7, <1>8, <1>9, WaysOfReading

-----------------------------------------------------------------------------
(* What a canonical table says *)

\* What is read of a file, column by column and cell by cell.
LEMMA TableRead ==
  ASSUME IsFile(file), IsLegible(file), NEW t, t = TableOf(file)
  PROVE  /\ IsTable(t) /\ DOMAIN t = DOMAIN file.columns /\ Rows(t) = FileRows
         /\ \A n \in DOMAIN t :
              /\ t[n].name = file.columns[n].name
              /\ t[n].type \in Types /\ DOMAIN t[n].values = FileRows
              /\ \A r \in FileRows : /\ t[n].values[r] \in Cells(t[n].type)
                                     /\ IsReading(file, n, r, t[n].type, t[n].values[r])
<1>1. /\ IsTable(t) /\ DOMAIN t = DOMAIN file.columns /\ Rows(t) = Rows(file.columns)
      /\ \A n \in DOMAIN file.columns :
           /\ t[n].name = file.columns[n].name
           /\ \A r \in Rows(file.columns) :
                IsReading(file, n, r, t[n].type, t[n].values[r])
  BY TableOfFile
<1>2. \A n \in DOMAIN t :
        /\ t[n].type \in Types /\ DOMAIN t[n].values = Rows(t)
        /\ \A r \in Rows(t) : t[n].values[r] \in Cells(t[n].type)
  BY <1>1, TableType DEF Types
<1> QED BY <1>1, <1>2 DEF FileRows

\* What is known of a file that was converted.
LEMMA Converted ==
  ASSUME IInv, pc = "converted"
  PROVE  /\ IsFile(file) /\ IsLegible(file) /\ IsTable(TableOf(file)) /\ table = TableOf(file)
         /\ Resolves(table) /\ out = Canonical(table) /\ Buildable(out)
         /\ DOMAIN table = DOMAIN file.columns /\ Rows(table) = FileRows
         /\ \A n \in DOMAIN table :
              /\ table[n].name = file.columns[n].name
              /\ table[n].type \in Types /\ DOMAIN table[n].values = FileRows
              /\ \A r \in FileRows : /\ table[n].values[r] \in Cells(table[n].type)
                                     /\ IsReading(file, n, r, table[n].type, table[n].values[r])
<1>1. /\ IsFile(file) /\ IsLegible(file) /\ table = TableOf(file)
      /\ Resolves(table) /\ out = Canonical(table) /\ Buildable(out)
  BY DEF IInv
<1> QED BY <1>1, TableRead

\* What is written of a field.
LEMMA OutputIsValues ==
  ASSUME IInv, pc = "converted", NEW field \in CanonicalFields
  PROVE  Output(field) = Values(table, field)
<1> DEFINE n == CHOOSE m \in DOMAIN CanonicalSchema : CanonicalSchema[m] = field
<1>1. n \in 1 .. 11 /\ CanonicalSchema[n] = field
  BY TheSchema
<1>2. Output(field) = out[n].values
  BY DEF Output
<1> HIDE DEF n
<1>3. out[n] = Column(field, CanonicalType(field), Values(table, field))
  BY <1>1, Converted, CanonicalIsATable, ColumnNames
<1> DEFINE d == Column(field, CanonicalType(field), Values(table, field))
<1>4. d.values = Values(table, field)
  BY DEF Column
<1> QED BY <1>2, <1>3, <1>4

\* The candidates are the columns of the alias that is used.
LEMMA CandidateColumns ==
  ASSUME IsFile(file), IsLegible(file), NEW t, t = TableOf(file), NEW field \in CanonicalFields
  PROVE  /\ Candidates(field) = {} <=> ~Resolved(t, field)
         /\ Candidates(field) \subseteq DOMAIN file.columns
         /\ Resolved(t, field) =>
              \E n \in Candidates(field) : n \in DOMAIN t /\ Source(t, field) = t[n]
<1> DEFINE Of(k) == {n \in DOMAIN file.columns : file.columns[n].name.core = Aliases[field][k]}
           known == {k \in DOMAIN Aliases[field] : Of(k) # {}}
<1>1. /\ DOMAIN t = DOMAIN file.columns /\ IsTable(t)
      /\ \A n \in DOMAIN t : t[n].name = file.columns[n].name
  BY TableRead
<1>2. \A k \in DOMAIN Aliases[field] : HasColumn(t, Aliases[field][k]) <=> Of(k) # {}
  BY <1>1 DEF HasColumn
<1>3. Known(t, field) = known
  BY <1>2 DEF Known
<1>4. Candidates(field) = IF known = {} THEN {} ELSE Of(Min(known))
  BY DEF Candidates
<1>5. CASE ~Resolved(t, field)
  BY <1>3, <1>4, <1>5 DEF Resolved
<1>6. CASE Resolved(t, field)
  <2>1. known # {}
    BY <1>3, <1>6 DEF Resolved
  <2> HIDE DEF known
  <2>2. PICK n \in DOMAIN t :
          t[n].name.core = Aliases[field][Min(known)] /\ Source(t, field) = t[n]
    BY <1>1, <1>3, <1>6, SourceColumn
  <2>3. n \in Of(Min(known))
    BY <1>1, <2>2
  <2>4. Of(Min(known)) \subseteq DOMAIN file.columns
    OBVIOUS
  <2> HIDE DEF Of
  <2> QED BY <1>4, <1>6, <2>1, <2>2, <2>3, <2>4
<1> QED BY <1>5, <1>6

\* A field is read from one candidate, cell by cell, when there is one.
LEMMA ValuesAreRead ==
  ASSUME IsFile(file), IsLegible(file), NEW t, t = TableOf(file), NEW field \in CanonicalFields,
         Candidates(field) # {}
  PROVE  \E n \in Candidates(field) :
           /\ n \in DOMAIN file.columns /\ n \in DOMAIN t /\ Source(t, field) = t[n]
           /\ \A r \in FileRows :
                /\ IsReading(file, n, r, t[n].type, t[n].values[r])
                /\ Values(t, field)[r] = FieldValue(field, t[n], t[n].values[r])
<1>1. PICK n \in Candidates(field) :
        n \in DOMAIN t /\ Source(t, field) = t[n] /\ Resolved(t, field)
  BY CandidateColumns
<1>2. /\ n \in DOMAIN file.columns /\ DOMAIN t[n].values = FileRows
      /\ \A r \in FileRows : IsReading(file, n, r, t[n].type, t[n].values[r])
  BY <1>1, TableRead
<1>3. Values(t, field) = [r \in DOMAIN t[n].values |-> FieldValue(field, t[n], t[n].values[r])]
  BY <1>1, FieldByCell
<1> QED BY <1>1, <1>2, <1>3

\* A canonical field with a candidate column is read, cell by cell, from one of its candidates.
LEMMA FieldIsRead ==
  ASSUME IInv, pc = "converted", NEW field \in CanonicalFields, Candidates(field) # {}
  PROVE  \E n \in Candidates(field) :
           /\ n \in DOMAIN file.columns /\ Source(table, field) = table[n]
           /\ \A r \in FileRows :
                /\ IsReading(file, n, r, table[n].type, table[n].values[r])
                /\ Output(field)[r] = FieldValue(field, table[n], table[n].values[r])
BY Converted, OutputIsValues, ValuesAreRead

\* A counter whose cell stands for a number of 64 bits is that number, and one
\* whose cell says nothing is null, in every reachable state.
THEOREM CountersRead == Spec => []CountersAreRead
<1>1. IInv => CountersAreRead
  <2> SUFFICES ASSUME IInv, pc = "converted", NEW field \in Counters
               PROVE  IF Candidates(field) = {}
                      THEN \A r \in FileRows : Output(field)[r] = IF field = "bwd_bytes" THEN 0 ELSE None
                      ELSE \E n \in Candidates(field) : \A r \in FileRows :
                             CountOf(n, r) \in Int64 \cup {None} => Output(field)[r] = CountOf(n, r)
    BY DEF CountersAreRead
  <2>1. field \in CanonicalFields /\ field \in {"fwd_bytes", "bwd_bytes", "fwd_pkts", "bwd_pkts"}
    BY TheSchema DEF Counters
  <2>2. CASE Candidates(field) = {}
    <3>1. Output(field) = Absent(table, field) /\ Rows(table) = FileRows
      BY <2>1, <2>2, OutputIsValues, CandidateColumns, Converted DEF Values
    <3> QED BY <2>2, <3>1 DEF Absent
  <2>3. CASE Candidates(field) # {}
    <3>1. PICK n \in Candidates(field) :
            /\ n \in DOMAIN file.columns
            /\ \A r \in FileRows :
                 /\ IsReading(file, n, r, table[n].type, table[n].values[r])
                 /\ Output(field)[r] = FieldValue(field, table[n], table[n].values[r])
      BY <2>1, <2>3, FieldIsRead
    <3>2. ASSUME NEW r \in FileRows
          PROVE  CountOf(n, r) \in Int64 \cup {None} => Output(field)[r] = CountOf(n, r)
      <4> DEFINE v == table[n].values[r]
                 x == IF table[n].type = "text" THEN ParseMagnitude(v) ELSE v
      <4>1. x = CountOf(n, r)
        BY <3>1, CountOfCell, Converted
      <4>2. FieldValue(field, table[n], v) = IF x = None THEN None ELSE ToInt64(x)
        BY <2>1 DEF FieldValue
      <4> HIDE DEF x
      <4>3. x \in Int64 => ToInt64(x) = x
        BY Saturated, Widths DEF Floats
      <4> QED BY <3>1, <4>1, <4>2, <4>3
    <3> QED BY <2>3, <3>2
  <2> QED BY <2>2, <2>3
<1> QED BY <1>1, ConversionInvariant, PTL

\* A cell that is cast to a float is the number it stands for, and every number
\* that is written as one is cast, unless it is padded.
LEMMA FloatOfCell ==
  ASSUME IsFile(file), IsLegible(file), NEW n \in DOMAIN file.columns, NEW r \in FileRows,
         NEW type, NEW v, IsReading(file, n, r, type, v)
  PROVE  /\ ToFloat(type, v) # None => ToFloat(type, v) = NumberOf(n, r, FloatForms)
         /\ ~IsPadded(n, r) => ToFloat(type, v) = NumberOf(n, r, FormsOf(n) \ {"magnitude"})
<1> DEFINE c == Cell(n, r)
           x == ToFloat(type, v)
           wide == FloatForms
           forms == FormsOf(n) \ {"magnitude"}
<1>1. type # "text" => x = v
  BY DEF ToFloat
<1>2. CASE AsNull(n, r, type, v)
  <2>1. x = None
    BY <1>2 DEF AsNull, ToFloat, TextToFloat
  <2> QED BY <1>2, <2>1, NumberOfCell DEF AsNull
<1>3. CASE AsTyped(n, r, type, v)
  BY <1>1, <1>3, NumberOfCell DEF AsTyped
<1>4. CASE AsDate(n, r, type, v)
  <2>1. c # None
    BY <1>4, NoNumber DEF AsDate
  <2> QED BY <1>1, <1>4, <2>1, NumberOfCell DEF AsDate
<1>5. CASE AsMark(n, r, type, v)
  <2>1. x = 0
    BY <1>1, <1>5 DEF AsMark
  <2> QED BY <1>5, <2>1, NumberOfCell DEF AsMark
<1>6. CASE AsText(n, r, type, v)
  <2>1. v # None /\ v \in Texts \cup {None} /\ c \in Texts /\ v.form = c.form /\ v.value = c.value
    BY <1>6, NoNumber DEF AsText
  <2>2. ParsedFloat(v) = ParsedFloat(c)
    BY <2>1, ParsedText
  <2>3. x = IF IsPadded(n, r) THEN None ELSE ParsedFloat(c)
    BY <1>6, <2>1, <2>2, TextCasts DEF AsText, ToFloat
  <2>4. IsText(n, r) /\ ~IsWhole(n) /\ forms = wide
    BY <1>6 DEF AsText, TextForms, FloatForms
  <2>5. NumberOf(n, r, wide) = ParsedFloat(c)
    BY <2>1, <2>4, NumberIsParsed, NumberOfCell
  <2> HIDE DEF c, x, forms, wide
  <2>6. (x # None => x = NumberOf(n, r, wide)) /\ (~IsPadded(n, r) => x = NumberOf(n, r, forms))
    BY <2>3, <2>4, <2>5
  <2> QED BY <2>6 DEF x, forms, wide
<1>7. CASE AsInferred(n, r, type, v)
  <2>1. /\ IsText(n, r) /\ ~IsWhole(n) /\ forms = wide
        /\ c.form \in {"plain", "decimal"} /\ x = c.value
    BY <1>1, <1>7 DEF AsInferred, TextForms, FloatForms
  <2>2. TextNumber(c, wide) = c.value
    BY <2>1 DEF TextNumber, FloatForms
  <2> HIDE DEF c, x, forms, wide
  <2>3. NumberOf(n, r, wide) = c.value
    BY <2>1, <2>2, NumberOfCell DEF c
  <2> QED BY <2>1, <2>3 DEF x, forms, wide
<1>8. CASE AsDeclaredInt(n, r, type, v)
  <2>1. /\ IsText(n, r) /\ IsWhole(n) /\ forms = {"plain"}
        /\ x = IF c.form = "plain" /\ c.value \in Int64 THEN c.value ELSE None
    BY <1>1, <1>8 DEF AsDeclaredInt
  <2>2. /\ TextNumber(c, {"plain"}) = IF c.form = "plain" THEN c.value ELSE None
        /\ c.form = "plain" => TextNumber(c, wide) = c.value
    BY DEF TextNumber, FloatForms
  <2> HIDE DEF c, x, forms, wide
  <2>3. /\ NumberOf(n, r, forms) = x
        /\ x # None => NumberOf(n, r, wide) = x
    BY <2>1, <2>2, NumberOfCell DEF c
  <2> QED BY <2>3 DEF x, forms, wide
<1>9. CASE AsDeclaredFloat(n, r, type, v)
  <2>1. /\ IsText(n, r) /\ ~IsWhole(n) /\ forms = wide /\ c \in Texts /\ x = ParsedFloat(c)
    BY <1>1, <1>9 DEF AsDeclaredFloat, FloatForms
  <2>2. NumberOf(n, r, wide) = ParsedFloat(c)
    BY <2>1, NumberIsParsed, NumberOfCell
  <2> HIDE DEF c, x, forms, wide
  <2> QED BY <2>1, <2>2 DEF x, forms, wide
<1> QED BY <1>2, <1>3, <1>4, <1>5, <1>6, <1>7, <1>8, <1>9, WaysOfReading

\* What is written of a field that may not be null is not.
LEMMA OutputIsThere ==
  ASSUME IInv, pc = "converted", NEW field \in CanonicalFields \ Nullable, NEW r \in FileRows
  PROVE  Output(field)[r] # None
<1> DEFINE w == Values(table, field)
           d == Column(field, CanonicalType(field), w)
<1>1. PICK n \in 1 .. 11 : CanonicalSchema[n] = field
  BY TheSchema
<1>2. /\ IsTable(table) /\ Resolves(table) /\ out = Canonical(table) /\ Buildable(out)
      /\ Rows(table) = FileRows
  BY Converted
<1>3. Output(field) = w
  BY OutputIsValues
<1>4. out[n] = d
  BY <1>1, <1>2, CanonicalIsATable, ColumnNames
<1>5. d.values = w
  BY DEF Column
<1>6. ~HoldsNull(out[n])
  BY <1>1, <1>2, TheSchema DEF Buildable
<1>7. DOMAIN w = FileRows
  BY <1>2, FieldSettles DEF Resolves
<1> HIDE DEF d, w
<1>8. None \notin Range(w)
  BY <1>4, <1>5, <1>6 DEF HoldsNull
<1>9. w[r] # None
  BY <1>7, <1>8 DEF Range
<1> QED BY <1>3, <1>9

\* What is left of a division is less than the divisor.
LEMMA Quotient ==
  ASSUME NEW x \in Int, NEW d \in Nat \ {0}
  PROVE  x \div d \in Int /\ (x \div d) * d <= x /\ x < (x \div d + 1) * d
OBVIOUS

\* Durations are in seconds, in every reachable state.
THEOREM DurationsRead == Spec => []DurationsAreSeconds
<1>1. IInv => DurationsAreSeconds
  <2> SUFFICES ASSUME IInv, pc = "converted" PROVE DurationsAreSeconds
    BY DEF DurationsAreSeconds
  <2>1. "flow_dur" \in CanonicalFields /\ "flow_dur" \in RequiredFields /\ "flow_dur" \notin Nullable
    BY TheSchema DEF RequiredFields, Nullable
  <2>2. Candidates("flow_dur") # {}
    BY <2>1, Converted, CandidateColumns DEF Resolves
  <2>3. PICK n \in Candidates("flow_dur") :
          /\ n \in DOMAIN file.columns
          /\ \A r \in FileRows :
               /\ IsReading(file, n, r, table[n].type, table[n].values[r])
               /\ Output("flow_dur")[r] = FieldValue("flow_dur", table[n], table[n].values[r])
    BY <2>1, <2>2, FieldIsRead
  <2> DEFINE name == file.columns[n].name.core
             unit == IF name \in DOMAIN Divisors THEN Divisors[name] ELSE 1
             Number(r) == NumberOf(n, r, FloatForms)
             Seconds(r) == Output("flow_dur")[r]
  <2>4. Divisor(table[n].name) = unit /\ unit \in Nat \ {0}
    <3>1. table[n].name = file.columns[n].name
      BY <2>3, Converted
    <3> QED BY <3>1, SchemaAssumption DEF Divisor
  <2>5. ASSUME NEW r \in FileRows
        PROVE  IF Number(r) \in Int
               THEN Seconds(r) * unit <= Number(r) /\ Number(r) < (Seconds(r) + 1) * unit
               ELSE Number(r) \in Specials /\ Seconds(r) = Number(r)
    <3> DEFINE x == ToFloat(table[n].type, table[n].values[r])
               seconds == Seconds(r)
    <3>1. seconds = IF x \in Int THEN x \div unit ELSE x
      BY <2>3, <2>4 DEF FieldValue
    <3>2. seconds # None
      BY <2>1, OutputIsThere
    <3>3. IsReading(file, n, r, table[n].type, table[n].values[r])
      BY <2>3
    <3>4. x # None => x = Number(r)
      BY <2>3, <3>3, Converted, FloatOfCell
    <3>5. x \in Floats \cup {None}
      <4>1. /\ table[n].type \in Types /\ table[n].values[r] \in Cells(table[n].type)
        BY <2>3, Converted
      <4> QED BY <4>1, CastTypes
    <3> HIDE DEF x, seconds, unit, Number
    <3>6. CASE x \in Int
      <4>1. Number(r) = x
        BY <3>4, <3>6, NoNumber
      <4>2. seconds * unit <= x /\ x < (seconds + 1) * unit
        BY <2>4, <3>1, <3>6, Quotient
      <4> QED BY <3>6, <4>1, <4>2 DEF seconds
    <3>7. CASE x \notin Int
      <4>1. x = seconds /\ x \in Specials /\ Number(r) = x
        BY <3>1, <3>2, <3>4, <3>5, <3>7 DEF Floats
      <4> QED BY <3>7, <4>1 DEF seconds
    <3> QED BY <3>6, <3>7
  <2> QED BY <2>3, <2>5 DEF DurationsAreSeconds
<1> QED BY <1>1, ConversionInvariant, PTL

\* A number in 32 bits, when there is one.
LEMMA Int32Cast ==
  ASSUME NEW type, NEW v
  PROVE  /\ type # "text" => ToInt32(type, v) = InRange(v)
         /\ type = "text" => ToInt32(type, v) = InRange(TextToInt(v))
BY DEF ToInt32, InRange

\* A cell that is cast to an integer is the number it stands for, and a whole
\* number in range is cast.
LEMMA PortOfCell ==
  ASSUME IsFile(file), IsLegible(file), NEW n \in DOMAIN file.columns, NEW r \in FileRows,
         NEW type, NEW v, IsReading(file, n, r, type, v)
  PROVE  /\ ToInt32(type, v) # None => ToInt32(type, v) = PortOf(n, r)
         /\ IsPlainPort(n, r) => ToInt32(type, v) = PortOf(n, r) /\ ToInt32(type, v) # None
<1> DEFINE c == Cell(n, r)
           x == ToInt32(type, v)
           number == PortOf(n, r)
<1>1. number = NumberOf(n, r, {"plain", "decimal"})
  BY DEF PortOf
<1>2. type # "text" => x = InRange(v)
  BY Int32Cast
<1>3. None \notin Int32 /\ Int32 \subseteq Int64 /\ InRange(None) = None
      /\ \A k : InRange(k) # None => k \in Int32 /\ InRange(k) = k
  BY NoNumber, Widths DEF InRange
<1>4. IsPlainPort(n, r) =>
        /\ number \in Int32 /\ ~IsPadded(n, r)
        /\ IsTyped(n) \/ IsMarked(n, r) \/ c.form = "plain"
  BY DEF IsPlainPort
<1>5. SUFFICES /\ x # None => x = number
               /\ IsPlainPort(n, r) => x = InRange(number)
  BY <1>3, <1>4 DEF InRange
<1>6. CASE AsNull(n, r, type, v)
  <2>1. x = None /\ number = None
    BY <1>1, <1>2, <1>3, <1>6, Int32Cast, NumberOfCell DEF AsNull, TextToInt
  <2> QED BY <1>3, <2>1
<1>7. CASE AsTyped(n, r, type, v)
  <2>1. x = InRange(v) /\ number = v
    BY <1>1, <1>2, <1>7, NumberOfCell DEF AsTyped
  <2> QED BY <1>3, <2>1
<1>8. CASE AsDate(n, r, type, v)
  <2>1. c # None
    BY <1>8, NoNumber DEF AsDate
  <2>2. x = InRange(v) /\ number = v
    BY <1>1, <1>2, <1>8, <2>1, NumberOfCell DEF AsDate
  <2> QED BY <1>3, <2>2
<1>9. CASE AsMark(n, r, type, v)
  <2>1. x = InRange(v) /\ number = v
    BY <1>1, <1>2, <1>9, NumberOfCell DEF AsMark
  <2> QED BY <1>3, <2>1
<1>10. CASE AsText(n, r, type, v)
  <2>1. v # None /\ v \in Texts \cup {None}
    BY <1>10, NoNumber DEF AsText
  <2>2. TextToInt(v) = IF ~IsPadded(n, r) /\ c.form = "plain" /\ c.value \in Int64 THEN c.value ELSE None
    BY <1>10, <2>1, TextCasts DEF AsText
  <2>3. x = InRange(TextToInt(v))
    BY <1>10, Int32Cast DEF AsText
  <2>4. IsText(n, r) /\ ~IsTyped(n) /\ ~IsMarked(n, r) /\ ~IsWhole(n)
    BY <1>10 DEF AsText, IsText
  <2>5. c.form = "plain" => number = c.value
    BY <1>1, <2>4, NumberOfCell DEF TextNumber
  <2> HIDE DEF c, x, number
  <2> QED BY <1>3, <1>4, <2>2, <2>3, <2>4, <2>5
<1>11. CASE AsInferred(n, r, type, v)
  <2>1. /\ IsText(n, r) /\ ~IsWhole(n) /\ c.form \in {"plain", "decimal"}
        /\ v = c.value /\ x = InRange(v)
    BY <1>2, <1>11 DEF AsInferred
  <2>2. number = v
    BY <1>1, <2>1, NumberOfCell DEF TextNumber
  <2> QED BY <1>3, <2>1, <2>2
<1>12. CASE AsDeclaredInt(n, r, type, v)
  <2>1. /\ IsText(n, r) /\ ~IsTyped(n) /\ ~IsMarked(n, r) /\ x = InRange(v)
        /\ v = IF c.form = "plain" /\ c.value \in Int64 THEN c.value ELSE None
        /\ IsWhole(n)
    BY <1>2, <1>12 DEF AsDeclaredInt, IsText
  <2>2. c.form = "plain" => number = IF c.value \in Int64 THEN c.value ELSE None
    BY <1>1, <2>1, NumberOfCell DEF TextNumber
  <2> HIDE DEF c, x, number
  <2> QED BY <1>3, <1>4, <2>1, <2>2
<1>13. CASE AsDeclaredFloat(n, r, type, v)
  <2>1. /\ IsText(n, r) /\ ~IsTyped(n) /\ ~IsMarked(n, r) /\ x = InRange(v)
        /\ v = ParsedFloat(c) /\ c \in Texts /\ ~IsWhole(n)
    BY <1>2, <1>13 DEF AsDeclaredFloat, IsText
  <2>2. c.form \in {"plain", "decimal"} => number = c.value
    BY <1>1, <2>1, NumberOfCell DEF TextNumber
  <2>3. IF c.form \in {"plain", "decimal"} THEN v = c.value ELSE v \notin Int32
    <3>1. c.form \notin {"plain", "decimal"} => v \in {NaN, Inf, NegInf, None}
      BY <2>1, ParsedText
    <3>2. c.form \in {"plain", "decimal"} => v = c.value
      BY <2>1, ParsedText
    <3> QED BY <3>1, <3>2, NoNumber, Widths
  <2>4. v \notin Int32 => InRange(v) = None
    BY DEF InRange
  <2> HIDE DEF c, x, number
  <2> QED BY <1>3, <1>4, <2>1, <2>2, <2>3, <2>4
<1> QED BY <1>6, <1>7, <1>8, <1>9, <1>10, <1>11, <1>12, <1>13, WaysOfReading

\* The rows of a port that are not cast.
Lost(n) == {r \in FileRows : ToInt32(table[n].type, table[n].values[r]) = None}

\* One port.
LEMMA PortIsRead ==
  ASSUME IInv, pc = "converted", NEW port \in {"src_port", "dest_port"}
  PROVE  \E n \in Candidates(port) :
           /\ Coerced(Source(table, port)) = Cardinality(Lost(n))
           /\ \A r \in FileRows :
                /\ Output(port)[r] = PortOf(n, r) \/ Output(port)[r] = 0
                /\ IsPlainPort(n, r) => Output(port)[r] = PortOf(n, r)
           /\ Invented(port, n) \subseteq Lost(n) /\ Lost(n) \subseteq Doubtful(port, n)
           /\ IsFiniteSet(Invented(port, n)) /\ IsFiniteSet(Lost(n)) /\ IsFiniteSet(Doubtful(port, n))
<1>1. port \in CanonicalFields /\ port \in RequiredFields
  BY TheSchema DEF RequiredFields
<1>2. Candidates(port) # {}
  BY <1>1, Converted, CandidateColumns DEF Resolves
<1>3. PICK n \in Candidates(port) :
        /\ n \in DOMAIN file.columns /\ Source(table, port) = table[n]
        /\ \A r \in FileRows :
             /\ IsReading(file, n, r, table[n].type, table[n].values[r])
             /\ Output(port)[r] = FieldValue(port, table[n], table[n].values[r])
  BY <1>1, <1>2, FieldIsRead
<1> DEFINE x(r) == ToInt32(table[n].type, table[n].values[r])
<1>4. ASSUME NEW r \in FileRows
      PROVE  /\ x(r) # None => x(r) = PortOf(n, r)
             /\ IsPlainPort(n, r) => x(r) = PortOf(n, r) /\ x(r) # None
             /\ Output(port)[r] = IF x(r) = None THEN 0 ELSE x(r)
  <2>1. IsReading(file, n, r, table[n].type, table[n].values[r])
    BY <1>3
  <2>2. Output(port)[r] = IF x(r) = None THEN 0 ELSE x(r)
    BY <1>3 DEF FieldValue
  <2> QED BY <1>3, <2>1, <2>2, PortOfCell, Converted
<1>5. Lost(n) = {r \in FileRows : x(r) = None}
  BY DEF Lost
<1>6. Coerced(Source(table, port)) = Cardinality(Lost(n))
  BY <1>3, Converted DEF Coerced, Lost
<1>7. IsFiniteSet(FileRows)
  <2>1. PICK k \in Nat : FileRows = 1 .. k
    BY Converted, TableType
  <2> QED BY <2>1, FS_Interval
<1> HIDE DEF x
<1>8. Invented(port, n) \subseteq Lost(n) /\ Lost(n) \subseteq Doubtful(port, n)
  BY <1>4, <1>5 DEF Invented, Doubtful
<1>9. /\ IsFiniteSet(Invented(port, n)) /\ IsFiniteSet(Lost(n)) /\ IsFiniteSet(Doubtful(port, n))
  <2>1. /\ Invented(port, n) \subseteq FileRows /\ Lost(n) \subseteq FileRows
        /\ Doubtful(port, n) \subseteq FileRows
    BY DEF Invented, Lost, Doubtful
  <2> QED BY <1>7, <2>1, FS_Subset
<1> QED BY <1>3, <1>4, <1>6, <1>8, <1>9

\* Ports are what their cells say or 0, and invented zeros are counted, in every
\* reachable state.
THEOREM PortsRead == Spec => []PortsAreRead
<1>1. IInv => PortsAreRead
  <2> SUFFICES ASSUME IInv, pc = "converted" PROVE PortsAreRead
    BY DEF PortsAreRead
  <2>1. PICK s \in Candidates("src_port") :
          /\ Coerced(Source(table, "src_port")) = Cardinality(Lost(s))
          /\ \A r \in FileRows :
               /\ Output("src_port")[r] = PortOf(s, r) \/ Output("src_port")[r] = 0
               /\ IsPlainPort(s, r) => Output("src_port")[r] = PortOf(s, r)
          /\ Invented("src_port", s) \subseteq Lost(s) /\ Lost(s) \subseteq Doubtful("src_port", s)
          /\ IsFiniteSet(Invented("src_port", s)) /\ IsFiniteSet(Lost(s))
          /\ IsFiniteSet(Doubtful("src_port", s))
    BY PortIsRead
  <2>2. PICK d \in Candidates("dest_port") :
          /\ Coerced(Source(table, "dest_port")) = Cardinality(Lost(d))
          /\ \A r \in FileRows :
               /\ Output("dest_port")[r] = PortOf(d, r) \/ Output("dest_port")[r] = 0
               /\ IsPlainPort(d, r) => Output("dest_port")[r] = PortOf(d, r)
          /\ Invented("dest_port", d) \subseteq Lost(d) /\ Lost(d) \subseteq Doubtful("dest_port", d)
          /\ IsFiniteSet(Invented("dest_port", d)) /\ IsFiniteSet(Lost(d))
          /\ IsFiniteSet(Doubtful("dest_port", d))
    BY PortIsRead
  <2>3. coerced = Cardinality(Lost(s)) + Cardinality(Lost(d))
    BY <2>1, <2>2 DEF IInv
  <2>4. /\ Cardinality(Invented("src_port", s)) <= Cardinality(Lost(s))
        /\ Cardinality(Lost(s)) <= Cardinality(Doubtful("src_port", s))
        /\ Cardinality(Invented("dest_port", d)) <= Cardinality(Lost(d))
        /\ Cardinality(Lost(d)) <= Cardinality(Doubtful("dest_port", d))
    BY <2>1, <2>2, FS_Subset
  <2>5. /\ Cardinality(Lost(s)) \in Nat /\ Cardinality(Lost(d)) \in Nat
        /\ Cardinality(Invented("src_port", s)) \in Nat /\ Cardinality(Invented("dest_port", d)) \in Nat
        /\ Cardinality(Doubtful("src_port", s)) \in Nat /\ Cardinality(Doubtful("dest_port", d)) \in Nat
    BY <2>1, <2>2, FS_CardinalityType
  <2>6. /\ coerced >= Cardinality(Invented("src_port", s)) + Cardinality(Invented("dest_port", d))
        /\ coerced <= Cardinality(Doubtful("src_port", s)) + Cardinality(Doubtful("dest_port", d))
    BY <2>3, <2>4, <2>5
  <2> QED BY <2>1, <2>2, <2>6 DEF PortsAreRead
<1> QED BY <1>1, ConversionInvariant, PTL

ReadProtocol(type, v) == IF type = "int" THEN ToInt32(type, v) ELSE ProtocolNumber(ToText(type, v))

\* A number that is no integer, written down, names no protocol.
LEMMA NoProtocolInAFloat ==
  ASSUME NEW type \in {"float", "timestamp"}, NEW v
  PROVE  ReadProtocol(type, v) = None
<1>1. ProtocolNumber(None) = None
  BY DEF ProtocolNumber
<1>2. \A k : /\ ProtocolNumber(Written("nan", k)) = None
             /\ ProtocolNumber(Written("inf", k)) = None
             /\ ProtocolNumber(Written("-inf", k)) = None
             /\ ProtocolNumber(Written("date", k)) = None
             /\ ProtocolNumber(Written("decimal", k)) = None
  <2>1. \A form, k : Written(form, k).form = form
    BY DEF Written
  <2> QED BY <2>1 DEF ProtocolNumber
<1>3. \/ ToText(type, v) = None \/ ToText(type, v) = Written("nan", 0)
      \/ ToText(type, v) = Written("inf", 0) \/ ToText(type, v) = Written("-inf", 0)
      \/ ToText(type, v) = Written("date", v) \/ ToText(type, v) = Written("decimal", v)
  <2>1. CASE v = None
    <3>1. v # NaN /\ v # Inf /\ v # NegInf
      BY <2>1, NoNumber
    <3> QED BY <2>1, <3>1 DEF ToText
  <2>2. CASE v = NaN
    <3>1. v # None /\ v # Inf /\ v # NegInf /\ v # None
      BY <2>2, NoNumber
    <3> QED BY <2>2, <3>1 DEF ToText
  <2>3. CASE v # None /\ v # NaN /\ v # Inf /\ v # NegInf
    BY <2>3 DEF ToText
  <2>4. CASE v = Inf
    BY <2>4, NoNumber DEF ToText
  <2>5. CASE v = NegInf
    BY <2>5, NoNumber DEF ToText
  <2> QED BY <2>1, <2>2, <2>3, <2>4, <2>5
<1>4. ReadProtocol(type, v) = ProtocolNumber(ToText(type, v))
  BY DEF ReadProtocol
<1> QED BY <1>1, <1>2, <1>3, <1>4

\* The protocol of a cell, by what it is.
LEMMA ProtocolByText ==
  ASSUME NEW n, NEW r
  PROVE  /\ ~IsText(n, r) => ProtocolOf(n, r) = NumberOf(n, r, {"plain", "decimal"})
         /\ file.format = "zeek" /\ Declared(file, n) # "text" =>
              ProtocolOf(n, r) = NumberOf(n, r, {"plain", "decimal"})
         /\ IsText(n, r) /\ (file.format = "zeek" => Declared(file, n) = "text") =>
              ProtocolOf(n, r) = IF Cell(n, r).form = "tcp" THEN 6
                                 ELSE IF Cell(n, r).form = "ipv6-icmp" THEN 58
                                 ELSE NumberOf(n, r, {"plain", "decimal"})
<1>1. CASE IsText(n, r) /\ (file.format = "zeek" => Declared(file, n) = "text")
  <2>1. "tcp" # "ipv6-icmp"
    OBVIOUS
  <2> QED BY <1>1, <2>1 DEF ProtocolOf
<1>2. CASE ~(IsText(n, r) /\ (file.format = "zeek" => Declared(file, n) = "text"))
  BY <1>2 DEF ProtocolOf
<1> QED BY <1>1, <1>2

\* A protocol is read for what its cell stands for, or lost with its column's.
LEMMA ProtocolOfCell ==
  ASSUME IsFile(file), IsLegible(file), NEW n \in DOMAIN file.columns, NEW r \in FileRows,
         NEW type, NEW v, IsReading(file, n, r, type, v)
  PROVE  \/ ReadProtocol(type, v) = InRange(ProtocolOf(n, r))
         \/ ReadProtocol(type, v) = None /\ IsLossy(n)
<1> DEFINE c == Cell(n, r)
           x == ReadProtocol(type, v)
           number == NumberOf(n, r, {"plain", "decimal"})
<1>1. type = "int" => x = InRange(v)
  BY Int32Cast DEF ReadProtocol
<1>2. None \notin Int32 /\ InRange(None) = None
  BY NoNumber, Widths DEF InRange
<1>3. 0 \in Int32 /\ 6 \in Int32 /\ 58 \in Int32 /\ Int32 \subseteq Int64
  BY Widths
<1>4. InRange(0) = 0 /\ InRange(6) = 6 /\ InRange(58) = 58
  BY <1>3 DEF InRange
<1>5. type \in {"float", "timestamp"} => x = None
  BY NoProtocolInAFloat
<1>6. CASE AsNull(n, r, type, v)
  <2>1. ~IsText(n, r) /\ number = None
    BY <1>6, NumberOfCell DEF AsNull, IsText
  <2>2. InRange(ProtocolOf(n, r)) = None
    BY <1>2, <2>1, ProtocolByText
  <2>3. x = None
    <3>1. ToText(type, None) = None /\ ProtocolNumber(None) = None
      <4>1. ToText(type, None) = None
        <5>1. None # NaN /\ None # Inf /\ None # NegInf
          BY NoNumber
        <5> QED BY <5>1 DEF ToText
      <4>2. ProtocolNumber(None) = None
        BY DEF ProtocolNumber
      <4> QED BY <4>1, <4>2
    <3> QED BY <1>1, <1>2, <1>6, <3>1 DEF AsNull, ReadProtocol
  <2> QED BY <2>2, <2>3
<1>7. CASE AsTyped(n, r, type, v)
  <2>1. ~IsText(n, r) /\ number = v /\ IsTyped(n) /\ type = file.columns[n].type
    BY <1>7, NumberOfCell DEF AsTyped, IsText
  <2>2. ProtocolOf(n, r) = v
    BY <2>1, ProtocolByText
  <2>3. CASE type = "int"
    BY <1>1, <2>2, <2>3
  <2>4. CASE type # "int"
    <3>1. type \in {"float", "timestamp"}
      BY <1>7, <2>1, <2>4, TableType DEF AsTyped, IsFile
    <3> QED BY <1>5, <2>1, <2>4, <3>1 DEF IsLossy
  <2> QED BY <2>3, <2>4
<1>8. CASE AsDate(n, r, type, v)
  BY <1>5, <1>8 DEF AsDate, IsLossy
<1>9. CASE AsMark(n, r, type, v)
  <2>1. ~IsText(n, r) /\ number = 0 /\ v = 0 /\ type \in {"int", "float"} /\ type = Declared(file, n)
        /\ file.format = "zeek"
    BY <1>9, NumberOfCell DEF AsMark, IsText, IsMarked
  <2>2. ProtocolOf(n, r) = 0
    BY <2>1, ProtocolByText
  <2>3. CASE type = "int"
    BY <1>1, <2>1, <2>2, <2>3
  <2>4. CASE type = "float"
    BY <1>5, <2>1, <2>4 DEF IsLossy
  <2> QED BY <2>1, <2>3, <2>4
<1>10. CASE AsText(n, r, type, v)
  <2>1. /\ v # None /\ v \in Texts /\ c \in Texts /\ v.form = c.form /\ v.value = c.value
        /\ ~IsWhole(n)
        /\ type = "text" /\ IsText(n, r) /\ (file.format = "zeek" => Declared(file, n) = "text")
    BY <1>10, NoNumber DEF AsText
  <2>2. x = ProtocolNumber(v)
    <3>1. ToText(type, v) = v
      BY <2>1, CastTypes DEF Types, Cells
    <3> QED BY <2>1, <3>1 DEF ReadProtocol
  <2>3. ProtocolNumber(v) = IF c.form = "tcp" THEN 6
                            ELSE IF c.form = "ipv6-icmp" THEN 58
                            ELSE IF c.form = "plain" /\ c.value \in Int32 THEN c.value
                            ELSE None
    BY <2>1, TextNumbers
  <2>4. number = IF c.form \in {"plain", "decimal"} THEN c.value ELSE None
    BY <2>1, NumberOfCell DEF TextNumber
  <2>5. ProtocolOf(n, r) = IF c.form = "tcp" THEN 6
                           ELSE IF c.form = "ipv6-icmp" THEN 58 ELSE number
    BY <2>1, ProtocolByText
  <2>6. c.value \in Int /\ c # None
    BY <2>1, NoNumber DEF Texts
  <2>7. CASE c.form = "decimal"
    BY <2>1, <2>2, <2>3, <2>6, <2>7 DEF IsLossy, IsText
  <2>8. CASE c.form # "decimal"
    <3> HIDE DEF x, number, c
    <3>1. CASE c.form = "plain"
      BY <2>2, <2>3, <2>4, <2>5, <2>6, <3>1 DEF InRange, x
    <3>2. CASE c.form # "plain"
      BY <1>2, <1>4, <2>2, <2>3, <2>4, <2>5, <2>8, <3>2 DEF x
    <3> QED BY <3>1, <3>2
  <2> QED BY <2>7, <2>8
<1>11. CASE AsInferred(n, r, type, v)
  <2>1. /\ IsText(n, r) /\ file.format = "delimited" /\ type \in {"int", "float"}
        /\ type = Inferred(file.columns[n].values) /\ v = c.value
        /\ ~IsWhole(n)
        /\ c.form = "plain" \/ (type = "float" /\ c.form = "decimal")
    BY <1>11 DEF AsInferred
  <2>2. CASE type = "int"
    <3>1. c.form = "plain"
      BY <2>1, <2>2
    <3>2. number = v
      BY <2>1, <3>1, NumberOfCell DEF TextNumber
    <3>3. ProtocolOf(n, r) = number
      BY <2>1, <3>1, ProtocolByText
    <3> QED BY <1>1, <2>2, <3>2, <3>3
  <2>3. CASE type = "float"
    <3>1. /\ DOMAIN file.columns[n].values = FileRows /\ file.columns[n].type = "text"
          /\ \A s \in FileRows : file.columns[n].values[s] \in Cells(file.columns[n].type)
      BY <2>1, TableType DEF IsFile, FileRows
    <3>2. \A s \in FileRows : file.columns[n].values[s] \in Texts \cup {None}
      BY <3>1 DEF Cells
    <3>3. \E s \in FileRows : file.columns[n].values[s] # None /\ file.columns[n].values[s].form = "decimal"
      <4> DEFINE cells == file.columns[n].values
      <4>1. DOMAIN cells = FileRows /\ (\A s \in FileRows : cells[s] \in Texts \cup {None})
            /\ Inferred(cells) = "float"
        BY <2>1, <2>3, <3>1, <3>2
      <4> HIDE DEF cells
      <4>2. \E s \in FileRows : cells[s] # None /\ cells[s].form = "decimal"
        BY <4>1, InferredType
      <4> QED BY <4>2 DEF cells
    <3>4. IsLossy(n)
      BY <2>1, <3>3 DEF IsLossy, Cell, IsTyped
    <3> QED BY <1>5, <2>3, <3>4
  <2> QED BY <2>1, <2>2, <2>3
<1>12. CASE AsDeclaredInt(n, r, type, v)
  <2>1. /\ IsText(n, r) /\ type = "int" /\ file.format = "zeek" /\ Declared(file, n) # "text"
        /\ v = IF c.form = "plain" /\ c.value \in Int64 THEN c.value ELSE None
        /\ IsWhole(n)
    BY <1>12 DEF AsDeclaredInt
  <2>2. number = IF c.form \in {"plain", "decimal"} /\ c.value \in Int64 THEN c.value ELSE None
    BY <2>1, NumberOfCell DEF TextNumber
  <2>3. ProtocolOf(n, r) = number
    BY <2>1, ProtocolByText
  <2>4. CASE c.form = "decimal"
    <3>1. x = None
      BY <1>1, <1>2, <2>1, <2>4
    <3>2. IsLossy(n)
      BY <2>1, <2>4 DEF IsLossy, IsText
    <3> QED BY <3>1, <3>2
  <2>5. CASE c.form # "decimal"
    <3> HIDE DEF x, number, c
    <3> QED BY <1>1, <2>1, <2>2, <2>3, <2>5 DEF x
  <2> QED BY <2>4, <2>5
<1>13. CASE AsDeclaredFloat(n, r, type, v)
  BY <1>5, <1>13 DEF AsDeclaredFloat, IsLossy
<1> QED BY <1>6, <1>7, <1>8, <1>9, <1>10, <1>11, <1>12, <1>13, WaysOfReading

\* Protocols are what their cells stand for, but for the lossy columns, in
\* every reachable state.
THEOREM ProtocolsRead == Spec => []ProtocolsAreRead
<1>1. IInv => ProtocolsAreRead
  <2> SUFFICES ASSUME IInv, pc = "converted", Candidates("protocol") # {} PROVE ProtocolsAreRead
    BY DEF ProtocolsAreRead
  <2>1. "protocol" \in CanonicalFields
    BY TheSchema
  <2>2. PICK n \in Candidates("protocol") :
          /\ n \in DOMAIN file.columns /\ Source(table, "protocol") = table[n]
          /\ \A r \in FileRows :
               /\ IsReading(file, n, r, table[n].type, table[n].values[r])
               /\ Output("protocol")[r] = FieldValue("protocol", table[n], table[n].values[r])
    BY <2>1, FieldIsRead
  <2>3. ASSUME NEW r \in FileRows
        PROVE  \/ Output("protocol")[r] = InRange(ProtocolOf(n, r))
               \/ Output("protocol")[r] = None /\ IsLossy(n)
    <3>1. Output("protocol")[r] = ReadProtocol(table[n].type, table[n].values[r])
      BY <2>2 DEF FieldValue, ReadProtocol
    <3>2. IsReading(file, n, r, table[n].type, table[n].values[r])
      BY <2>2
    <3>3. n \in DOMAIN file.columns
      BY <2>2
    <3> QED BY <3>1, <3>2, <3>3, ProtocolOfCell, Converted
  <2> QED BY <2>2, <2>3 DEF ProtocolsAreRead
<1> QED BY <1>1, ConversionInvariant, PTL

-----------------------------------------------------------------------------
(* A sound file is converted *)

\* What makes a text of a cell of a column that is not of texts.
Dressed(type) == CASE type = "int" -> "plain" [] type = "timestamp" -> "date" [] OTHER -> "decimal"

\* What is written of a float that is no number.
Spelled(v) == IF v = NaN THEN "nan" ELSE IF v = Inf THEN "inf" ELSE "-inf"

\* A cell as text: itself, or the form of its type and its number.
LEMMA TextOfCell ==
  ASSUME NEW type \in Types, NEW v \in Cells(type)
  PROVE  /\ type = "text" => v \in Texts \cup {None}
         /\ type # "text" => v \in Floats \cup {None}
         /\ ToText(type, v) = IF v = None \/ type = "text" THEN v
                              ELSE IF v \in Specials THEN Written(Spelled(v), 0)
                              ELSE Written(Dressed(type), v)
         /\ ToText(type, v) = None <=> v = None
<1>1. CASE type = "text"
  <2>1. v \in Texts \cup {None}
    BY <1>1 DEF Cells
  <2> QED BY <1>1, <2>1, CastTypes
<1>2. CASE type # "text"
  <2>1. v \in Floats \cup {None} /\ (type # "float" => v \in Int64 \cup {None})
    BY <1>2, Widths DEF Cells, Types, Floats
  <2>2. ToText(type, v) = IF v = None THEN None
                          ELSE IF v \in Specials THEN Written(Spelled(v), 0)
                          ELSE Written(Dressed(type), v)
    <3>1. CASE v = None
      <4>1. v # NaN /\ v # Inf /\ v # NegInf
        BY <3>1, NoNumber
      <4> QED BY <3>1, <4>1 DEF ToText
    <3>2. CASE v \in Specials
      <4>1. v # None /\ v \notin Int64 /\ v \in {NaN, Inf, NegInf}
        BY <3>2, Widths, NoNumber
      <4>2. type # "int" /\ type # "timestamp"
        BY <2>1, <4>1
      <4>3. ToText(type, v) = Written(Spelled(v), 0)
        BY <1>2, <4>1, <4>2, NoNumber DEF ToText, Spelled
      <4> QED BY <3>2, <4>1, <4>3
    <3>3. CASE v \in Int
      <4>1. v # None /\ v # NaN /\ v # Inf /\ v # NegInf /\ v \notin Specials
        BY <3>3, NoNumber
      <4> QED BY <1>2, <3>3, <4>1 DEF ToText, Dressed, Types
    <3> QED BY <2>1, <3>1, <3>2, <3>3 DEF Floats
  <2>3. v # None => ToText(type, v) \in Texts
    <3>1. 0 \in Int64 /\ \A form \in {"plain", "decimal", "nan", "inf", "-inf"}, k \in Int :
            Written(form, k) \in Texts
      BY Widths DEF Written, Texts, Forms
    <3>2. \A k \in Int64 : Written("date", k) \in Texts
      BY Widths DEF Written, Texts, Forms
    <3>3. v \in Specials => Written(Spelled(v), 0) \in Texts
      BY <3>1 DEF Spelled
    <3>4. v \in Int => Written(Dressed(type), v) \in Texts
      BY <1>2, <2>1, <3>1, <3>2, NoNumber DEF Dressed, Types
    <3> QED BY <2>1, <2>2, <3>3, <3>4 DEF Floats
  <2>4. None \notin Texts
    BY NoNumber
  <2> QED BY <1>2, <2>1, <2>2, <2>3, <2>4
<1> QED BY <1>1, <1>2

\* A readable time is a time.
LEMMA TimeIsThere ==
  ASSUME IsFile(file), IsLegible(file), NEW n \in DOMAIN file.columns, NEW r \in FileRows,
         NEW c, c.type \in Types, NEW v \in Cells(c.type), IsReading(file, n, r, c.type, v),
         Largest(c) \in Int \cup {Inf}, IsReadable("timestamp", n, r)
  PROVE  FieldValue("timestamp", c, v) # None
<1> DEFINE x == FieldValue("timestamp", c, v)
<1>1. x = IF c.type = "timestamp" THEN v
          ELSE IF c.type = "text"
               THEN DateOf(v)
               ELSE Micros(v, Largest(c))
  BY DEF FieldValue
<1>2. None \notin Int /\ None \notin Texts /\ None \notin Int64
  BY NoNumber, Widths
<1>3. \/ /\ NumberOf(n, r, FormsOf(n) \ {"magnitude"}) # None /\ ~IsPadded(n, r)
         /\ \/ IsTyped(n) \/ IsMarked(n, r)
            \/ file.format = "zeek" /\ Declared(file, n) # "text"
            \/ /\ file.format = "delimited"
               /\ Inferred(file.columns[n].values) \in {"int", "float"}
      \/ /\ ~IsTyped(n) /\ Cell(n, r) # None
         /\ \/ Cell(n, r).form = "slash"
            \/ Cell(n, r).form = "date" /\ ~IsPadded(n, r)
         /\ file.format # "zeek" \/ Declared(file, n) = "text"
  BY DEF IsReadable
<1>4. c.type # "text" => v \in Floats \cup {None}
  BY TextOfCell
<1>5. c.type # "text" /\ v # None => x # None
  <2>1. c.type # "text" => (Micros(v, Largest(c)) = None <=> v = None)
    BY <1>4, MicrosType
  <2> QED BY <1>1, <2>1
<1>6. CASE AsNull(n, r, c.type, v)
  BY <1>3, <1>6, NumberOfCell DEF AsNull
<1>7. CASE AsTyped(n, r, c.type, v)
  BY <1>5, <1>7 DEF AsTyped
<1>8. CASE AsDate(n, r, c.type, v)
  <2>1. v \in Int
    BY <1>8 DEF AsDate, Texts
  <2> QED BY <1>2, <1>5, <1>8, <2>1 DEF AsDate
<1>9. CASE AsMark(n, r, c.type, v)
  BY <1>2, <1>5, <1>9 DEF AsMark
<1>10. CASE AsText(n, r, c.type, v)
  <2>1. /\ IsText(n, r) /\ c.type = "text" /\ (file.format = "zeek" => Declared(file, n) = "text")
        /\ v \in Texts /\ v.form = Cell(n, r).form /\ (v.padded <=> IsPadded(n, r))
    BY <1>10 DEF AsText
  <2>2. ~IsTyped(n) /\ ~IsMarked(n, r)
    BY <2>1 DEF IsText
  <2>3. file.format = "delimited" => Inferred(file.columns[n].values) = "text"
    BY <2>1 DEF IsReading
  <2>4. v.form = "slash" \/ (v.form = "date" /\ ~v.padded)
    BY <1>3, <2>1, <2>2, <2>3
  <2>5. v # None /\ v.value \in Int64
    BY <1>2, <2>1, <2>4 DEF Texts
  <2>6. DateOf(v) = v.value
    BY <2>4, <2>5 DEF DateOf
  <2> QED BY <1>1, <1>2, <2>1, <2>5, <2>6
<1>11. CASE AsInferred(n, r, c.type, v)
  <2>1. v \in Int
    BY <1>11 DEF AsInferred, Texts
  <2> QED BY <1>2, <1>5, <1>11, <2>1 DEF AsInferred
<1>12. CASE AsDeclaredInt(n, r, c.type, v) \/ AsDeclaredFloat(n, r, c.type, v)
  <2>1. c.type # "text" /\ file.format = "zeek" /\ Declared(file, n) # "text"
    BY <1>12 DEF AsDeclaredInt, AsDeclaredFloat
  <2>2. NumberOf(n, r, FormsOf(n) \ {"magnitude"}) # None /\ ~IsPadded(n, r)
    BY <1>3, <2>1
  <2>3. ToFloat(c.type, v) = NumberOf(n, r, FormsOf(n) \ {"magnitude"})
    BY <2>2, FloatOfCell
  <2>4. ToFloat(c.type, v) = v
    BY <2>1 DEF ToFloat
  <2> QED BY <1>5, <2>1, <2>2, <2>3, <2>4
<1> QED BY <1>6, <1>7, <1>8, <1>9, <1>10, <1>11, <1>12, WaysOfReading

\* A cell that is there, of no column of numbers of a log, is read.
LEMMA CellIsThere ==
  ASSUME IsFile(file), IsLegible(file), NEW n \in DOMAIN file.columns, NEW r \in FileRows,
         NEW type, NEW v, IsReading(file, n, r, type, v),
         Cell(n, r) # None, file.format = "zeek" => Declared(file, n) = "text"
  PROVE  v # None
<1>1. None \notin Int /\ None \notin Texts
  BY NoNumber
<1>2. ~AsNull(n, r, type, v)
  BY DEF AsNull
<1>3. AsTyped(n, r, type, v) => v # None
  BY DEF AsTyped
<1>4. AsDate(n, r, type, v) => v # None
  BY <1>1 DEF AsDate, Texts
<1>5. AsMark(n, r, type, v) => v # None
  BY <1>1 DEF AsMark
<1>6. AsText(n, r, type, v) => v # None
  BY <1>1 DEF AsText
<1>7. AsInferred(n, r, type, v) => v # None
  BY <1>1 DEF AsInferred, Texts
<1>8. ~AsDeclaredInt(n, r, type, v) /\ ~AsDeclaredFloat(n, r, type, v)
  BY DEF AsDeclaredInt, AsDeclaredFloat
<1> QED BY <1>2, <1>3, <1>4, <1>5, <1>6, <1>7, <1>8, WaysOfReading

\* What is readable is there in the canonical table.
LEMMA ReadableIsThere ==
  ASSUME IsFile(file), IsLegible(file), NEW n \in DOMAIN file.columns, NEW r \in FileRows,
         NEW c, c.type \in Types, NEW v \in Cells(c.type), IsReading(file, n, r, c.type, v),
         Largest(c) \in Int \cup {Inf}, NEW field \in RequiredFields \cup {"bwd_bytes"}, IsReadable(field, n, r)
  PROVE  FieldValue(field, c, v) # None
<1>1. None \notin Int /\ None \notin Int64
  BY NoNumber, Widths
<1>2. field \in {"timestamp", "src_ip", "dest_ip", "src_port", "dest_port", "fwd_bytes", "bwd_bytes",
                 "flow_dur"}
  BY DEF RequiredFields
<1>3. CASE field = "timestamp"
  BY <1>3, TimeIsThere
<1>4. CASE field \in {"src_ip", "dest_ip"}
  <2>1. Cell(n, r) # None /\ (file.format = "zeek" => Declared(file, n) = "text")
    BY <1>4 DEF IsReadable
  <2>2. v # None
    BY <2>1, CellIsThere
  <2>3. FieldValue(field, c, v) = ToText(c.type, v)
    BY <1>4 DEF FieldValue
  <2> QED BY <2>2, <2>3, TextOfCell
<1>5. CASE field \in {"src_port", "dest_port"}
  BY <1>1, <1>5 DEF FieldValue
<1>6. CASE field \in {"fwd_bytes", "bwd_bytes"}
  <2>1. CountOf(n, r) # None
    BY <1>6 DEF IsReadable
  <2>2. (IF c.type = "text" THEN ParseMagnitude(v) ELSE v) = CountOf(n, r)
    BY CountOfCell
  <2>3. FieldValue(field, c, v) = ToInt64(CountOf(n, r))
    BY <1>6, <2>1, <2>2 DEF FieldValue
  <2>4. CountOf(n, r) \in Floats
    <3>1. c.type = "text" => ParseMagnitude(v) \in Floats \cup {None}
      BY TextNumbers, TextOfCell
    <3>2. c.type # "text" => v \in Floats \cup {None}
      BY TextOfCell
    <3> QED BY <2>1, <2>2, <3>1, <3>2
  <2> QED BY <1>1, <2>3, <2>4, Saturated
<1>7. CASE field = "flow_dur"
  <2>1. NumberOf(n, r, FormsOf(n) \ {"magnitude"}) # None /\ ~IsPadded(n, r)
    BY <1>7 DEF IsReadable
  <2>2. ToFloat(c.type, v) # None /\ ToFloat(c.type, v) \in Floats \cup {None}
    BY <2>1, FloatOfCell, CastTypes
  <2>3. FieldValue(field, c, v) = IF ToFloat(c.type, v) \in Int
                                  THEN ToFloat(c.type, v) \div Divisor(c.name)
                                  ELSE ToFloat(c.type, v)
    BY <1>7 DEF FieldValue
  <2>4. ToFloat(c.type, v) \in Int => ToFloat(c.type, v) \div Divisor(c.name) \in Int
    BY DivisorType
  <2> QED BY <1>1, <2>2, <2>3, <2>4
<1> QED BY <1>2, <1>3, <1>4, <1>5, <1>6, <1>7

\* A sound file is never refused, in every reachable state.
THEOREM SoundTablesAlwaysConvert == Spec => []SoundTablesConvert
<1> DEFINE Sound ==
        /\ \A field \in RequiredFields : Candidates(field) # {}
        /\ FileRows # {}
        /\ \A field \in RequiredFields \cup {"bwd_bytes"}, r \in FileRows :
             \A n \in Candidates(field) : IsReadable(field, n, r)
        /\ file.format = "zeek" => Len(ZeekFields(file)) = Len(file.columns)
        /\ file.format # "parquet" => file.magic # {"head", "tail"}
<1>1. ASSUME IInv, Sound
      PROVE  IsLegible(file) /\ IsConvertible(TableOf(file))
  <2> DEFINE t == TableOf(file)
  <2>1. IsFile(file)
    BY <1>1 DEF IInv
  <2>2. IsLegible(file)
    <3>1. IsParquet(file) => file.format = "parquet"
      BY <1>1 DEF IsParquet
    <3>2. IsZeek(file) => file.format = "zeek"
      BY <2>1 DEF IsFile, IsZeek
    <3> QED BY <1>1, <3>1, <3>2 DEF IsLegible, FileRows
  <2>3. Resolves(t)
    <3>1. \A field \in RequiredFields : field \in CanonicalFields
      BY TheSchema DEF RequiredFields
    <3> QED BY <1>1, <2>1, <2>2, <3>1, CandidateColumns DEF Resolves
  <2>4. IsTable(t) /\ Rows(t) = FileRows
    BY <2>1, <2>2, TableRead
  <2>5. ASSUME NEW field \in CanonicalFields \ Nullable, NEW r \in FileRows
        PROVE  Values(t, field)[r] # None
    <3>1. field \in RequiredFields \cup {"bwd_bytes"}
      BY TheSchema DEF Nullable, RequiredFields
    <3>2. CASE Candidates(field) = {}
      <4>1. field = "bwd_bytes" /\ ~Resolved(t, field)
        BY <1>1, <2>1, <2>2, <3>1, <3>2, CandidateColumns
      <4>2. Values(t, field)[r] = 0
        BY <2>4, <4>1 DEF Values, Absent
      <4> QED BY <4>2, NoNumber
    <3>3. CASE Candidates(field) # {}
      <4>1. PICK n \in Candidates(field) :
              /\ n \in DOMAIN file.columns /\ n \in DOMAIN t
              /\ IsReading(file, n, r, t[n].type, t[n].values[r])
              /\ Values(t, field)[r] = FieldValue(field, t[n], t[n].values[r])
        BY <2>1, <2>2, <3>3, ValuesAreRead
      <4>2. t[n].type \in Types /\ DOMAIN t[n].values = FileRows /\ t[n].values[r] \in Cells(t[n].type)
        BY <2>1, <2>2, <4>1, TableRead
      <4>3. Largest(t[n]) \in Int \cup {Inf}
        <5>1. PICK k \in Nat : Rows(t) = 1 .. k
          BY <2>4, TableType
        <5>2. DOMAIN t[n].values = 1 .. k
          BY <2>4, <4>2, <5>1
        <5> QED BY <5>2, LargestType
      <4>4. IsReadable(field, n, r)
        BY <1>1, <3>1
      <4> QED BY <2>1, <2>2, <3>1, <4>1, <4>2, <4>3, <4>4, ReadableIsThere
    <3> QED BY <3>2, <3>3
  <2>6. Buildable(Canonical(t))
    <3> SUFFICES ASSUME NEW n \in 1 .. 11, CanonicalSchema[n] \notin Nullable
                 PROVE  ~HoldsNull(Canonical(t)[n])
      BY TheSchema DEF Buildable
    <3> DEFINE field == CanonicalSchema[n]
    <3>1. field \in CanonicalFields \ Nullable /\ (field \in RequiredFields => Resolved(t, field))
      BY <2>3, TheSchema DEF Resolves
    <3> HIDE DEF t
    <3>2. Canonical(t)[n].values = Values(t, field)
      <4>1. Canonical(t)[n] = Column(field, CanonicalType(field), Values(t, field))
        BY <2>3, <2>4, CanonicalIsATable, ColumnNames
      <4> DEFINE d == Column(field, CanonicalType(field), Values(t, field))
      <4>2. d.values = Values(t, field)
        BY DEF Column
      <4> QED BY <4>1, <4>2
    <3>3. DOMAIN Values(t, field) = FileRows
      BY <2>4, <3>1, FieldSettles
    <3>4. None \notin Range(Values(t, field))
      BY <2>5, <3>1, <3>3 DEF Range
    <3> QED BY <3>2, <3>4 DEF HoldsNull
  <2> QED BY <2>2, <2>3, <2>6 DEF IsConvertible
<1>2. IInv => (pc = "failed" => ~Sound)
  BY <1>1 DEF IInv
<1>3. IInv => SoundTablesConvert
  BY <1>2 DEF SoundTablesConvert
<1> QED BY <1>3, ConversionInvariant, PTL

-----------------------------------------------------------------------------
(* Labels *)

\* A number written as text says its type and the number.
LEMMA WrittenApart ==
  /\ \A form, v, w : Written(form, v) = Written(form, w) => v = w
  /\ \A type, v, w : Written(Dressed(type), v) # Written(Spelled(w), 0)
  /\ \A v, w \in Specials : Written(Spelled(v), 0) = Written(Spelled(w), 0) => v = w
<1>1. \A form, v : Written(form, v).form = form /\ Written(form, v).value = v
  BY DEF Written
<1>2. \A type : Dressed(type) \in {"plain", "date", "decimal"}
  BY DEF Dressed
<1>3. \A v : Spelled(v) \in {"nan", "inf", "-inf"}
  BY DEF Spelled
<1>4. \A v, w \in {NaN, Inf, NegInf} : Spelled(v) = Spelled(w) => v = w
  BY NoNumber DEF Spelled
<1>5. \A type, w : Dressed(type) # Spelled(w)
  <2> SUFFICES ASSUME NEW type, NEW w PROVE Dressed(type) # Spelled(w)
    OBVIOUS
  <2>1. Dressed(type) \in {"plain", "date", "decimal"} /\ Spelled(w) \in {"nan", "inf", "-inf"}
    BY <1>2, <1>3
  <2> QED BY <2>1
<1>6. \A type, v, w : Written(Dressed(type), v) # Written(Spelled(w), 0)
  BY <1>1, <1>5
<1>7. \A v, w \in Specials : Written(Spelled(v), 0) = Written(Spelled(w), 0) => v = w
  BY <1>1, <1>4, NoNumber
<1>8. \A form, v, w : Written(form, v) = Written(form, w) => v = w
  BY <1>1
<1> QED BY <1>6, <1>7, <1>8

\* Cells of one type are one text only when they are one cell.
LEMMA TextsApart ==
  ASSUME NEW type \in Types, NEW v \in Cells(type), NEW w \in Cells(type),
         ToText(type, v) = ToText(type, w)
  PROVE  v = w
<1>1. CASE type = "text"
  BY <1>1, CastTypes
<1>2. CASE type # "text"
  <2>1. CASE v = None \/ w = None
    BY <2>1, TextOfCell
  <2>2. CASE v # None /\ w # None
    <3>1. /\ ToText(type, v) = IF v \in Specials THEN Written(Spelled(v), 0) ELSE Written(Dressed(type), v)
          /\ ToText(type, w) = IF w \in Specials THEN Written(Spelled(w), 0) ELSE Written(Dressed(type), w)
      BY <1>2, <2>2, TextOfCell
    <3>2. CASE v \in Specials /\ w \in Specials
      BY <3>1, <3>2, WrittenApart
    <3>3. CASE v \notin Specials /\ w \notin Specials
      BY <3>1, <3>3, WrittenApart
    <3>4. CASE v \in Specials /\ w \notin Specials
      BY <3>1, <3>4, WrittenApart
    <3>5. CASE v \notin Specials /\ w \in Specials
      BY <3>1, <3>5, WrittenApart
    <3> QED BY <3>2, <3>3, <3>4, <3>5
  <2> QED BY <2>1, <2>2
<1> QED BY <1>1, <1>2

\* What a label says of a cell of a text: it, without its padding, or when its
\* column is one of numbers or dates, its number.
LEMMA LabelOfCell ==
  ASSUME IsFile(file), IsLegible(file), NEW n \in DOMAIN file.columns, NEW r \in FileRows,
         file.format # "parquet", file.format = "zeek" => Declared(file, n) = "text",
         NEW type, NEW v \in Cells(type), type \in Types, IsReading(file, n, r, type, v)
  PROVE  /\ Cell(n, r) \in Texts \cup {None} /\ (ToText(type, v) = None <=> Cell(n, r) = None)
         /\ type = "text" => ToText(type, v) = Trimmed(Cell(n, r))
         /\ type # "text" /\ Cell(n, r) # None =>
              /\ v = Cell(n, r).value /\ v \in Int /\ ~Cell(n, r).padded
              /\ ToText(type, v) = Written(Dressed(type), v)
              /\ type = "int" => Cell(n, r).form = "plain"
              /\ type = "float" => Cell(n, r).form \in {"plain", "decimal"}
              /\ type = "timestamp" => Cell(n, r).form = "date"
<1> DEFINE c == Cell(n, r)
<1>1. /\ c \in Texts \cup {None} /\ file.format \in {"delimited", "zeek"}
      /\ DOMAIN file.columns[n].values = FileRows
      /\ \A s \in FileRows : file.columns[n].values[s] \in Texts \cup {None}
  BY TableType DEF IsFile, FileRows, Cell, Cells
<1>2. Trimmed(c) = None <=> c = None
  BY <1>1, TrimmedText
<1>3. CASE file.format = "zeek"
  <2>1. type = "text" /\ v = Trimmed(c)
    BY <1>3 DEF IsReading, ZeekCell, Cell
  <2>2. ToText(type, v) = v
    BY <2>1, CastTypes
  <2> QED BY <1>1, <1>2, <2>1, <2>2
<1>4. CASE file.format = "delimited"
  <2> DEFINE cells == file.columns[n].values
  <2>1. type = Inferred(cells) /\ v = IF c = None \/ type = "text" THEN Trimmed(c) ELSE c.value
    BY <1>4 DEF IsReading, Cell
  <2>2. DOMAIN cells = FileRows /\ (\A s \in FileRows : cells[s] \in Texts \cup {None}) /\ c = cells[r]
    BY <1>1 DEF Cell
  <2> HIDE DEF cells, c
  <2>3. /\ type \in {"int", "float", "timestamp", "text"}
        /\ type # "text" /\ c # None => ~c.padded
        /\ type = "int" /\ c # None => c.form = "plain"
        /\ type = "float" /\ c # None => c.form \in {"plain", "decimal"}
        /\ type = "timestamp" /\ c # None => c.form = "date"
    BY <2>1, <2>2, InferredType
  <2>4. c # None => c.value \in Int /\ c \in Texts
    BY <1>1 DEF Texts
  <2>5. None \notin Int /\ \A k \in Specials : k \notin Int
    BY NoNumber
  <2>6. CASE type = "text"
    <3>1. v = Trimmed(c) /\ ToText(type, v) = v
      BY <2>1, <2>6, CastTypes
    <3> QED BY <1>1, <1>2, <2>6, <3>1 DEF c
  <2>7. CASE type # "text" /\ c = None
    <3>1. v = None /\ ToText(type, v) = None
      BY <1>2, <2>1, <2>7, TextOfCell
    <3> QED BY <1>1, <2>7, <3>1 DEF c
  <2>8. CASE type # "text" /\ c # None
    <3>1. v = c.value /\ v \in Int /\ v # None /\ v \notin Specials
      BY <2>1, <2>4, <2>5, <2>8
    <3>2. ToText(type, v) = Written(Dressed(type), v) /\ ToText(type, v) # None
      BY <2>8, <3>1, TextOfCell
    <3> QED BY <1>1, <2>3, <2>8, <3>1, <3>2 DEF c
  <2> QED BY <2>6, <2>7, <2>8
<1> QED BY <1>1, <1>3, <1>4

\* Two texts without padding are the same text when they look alike.
LEMMA TextsAlike ==
  ASSUME NEW c \in Texts, NEW d \in Texts
  PROVE  /\ c.form = d.form /\ c.value = d.value /\ ~c.padded /\ ~d.padded => c = d
         /\ Trimmed(c) = Trimmed(d) => c.form = d.form /\ c.value = d.value
BY NoNumber DEF Texts, Trimmed

\* A label tells two rows apart as the file does.
LEMMA LabelsTellApart ==
  ASSUME IsFile(file), IsLegible(file), NEW n \in DOMAIN file.columns,
         NEW r \in FileRows, NEW s \in FileRows,
         file.format = "zeek" => Declared(file, n) = "text", NEW type \in Types,
         NEW v \in Cells(type), IsReading(file, n, r, type, v),
         NEW w \in Cells(type), IsReading(file, n, s, type, w)
  PROVE  /\ SameLabel(n, r, s) => ToText(type, v) = ToText(type, w)
         /\ ToText(type, v) = ToText(type, w) => SameLabel(n, r, s) \/ SameNumber(n, r, s)
         /\ ToText(type, v) = None <=> Cell(n, r) = None
<1> DEFINE c == Cell(n, r)
           d == Cell(n, s)
<1>1. CASE file.format = "parquet"
  <2>1. v = c /\ w = d
    BY <1>1 DEF IsReading, Cell
  <2>2. v = w <=> ToText(type, v) = ToText(type, w)
    BY TextsApart
  <2>3. ToText(type, v) = None <=> v = None
    BY TextOfCell
  <2> QED BY <1>1, <2>1, <2>2, <2>3 DEF SameLabel
<1>2. CASE file.format # "parquet"
  <2> DEFINE Says(t, b, u) ==
               /\ t \in Texts \cup {None} /\ (ToText(type, u) = None <=> t = None)
               /\ type = "text" => ToText(type, u) = Trimmed(t)
               /\ type # "text" /\ t # None =>
                    /\ u = t.value /\ u \in Int /\ ~t.padded
                    /\ ToText(type, u) = Written(Dressed(type), u)
                    /\ type = "int" => t.form = "plain"
                    /\ type = "float" => t.form \in {"plain", "decimal"}
                    /\ type = "timestamp" => t.form = "date"
  <2>1. Says(c, r, v) /\ Says(d, s, w)
    BY <1>2, LabelOfCell
  <2>2. ~IsTyped(n)
    BY <1>2 DEF IsTyped
  <2>3. SameLabel(n, r, s) <=> Trimmed(c) = Trimmed(d)
    BY <1>2 DEF SameLabel
  <2>4. SameNumber(n, r, s) <=> /\ c # None /\ d # None
                                /\ {c.form, d.form} = {"plain", "decimal"} /\ c.value = d.value
    BY <2>2 DEF SameNumber
  <2>5. (Trimmed(c) = None <=> c = None) /\ (Trimmed(d) = None <=> d = None)
    BY <2>1, TrimmedText
  <2> HIDE DEF c, d
  <2>6. CASE type = "text"
    BY <2>1, <2>3, <2>6 DEF c
  <2>7. CASE type # "text" /\ (c = None \/ d = None)
    BY <2>1, <2>3, <2>5, <2>7 DEF c
  <2>8. CASE type # "text" /\ c # None /\ d # None
    <3>1. /\ c \in Texts /\ v = c.value /\ ~c.padded /\ ToText(type, v) = Written(Dressed(type), v)
          /\ d \in Texts /\ w = d.value /\ ~d.padded /\ ToText(type, w) = Written(Dressed(type), w)
          /\ type = "float" => c.form \in {"plain", "decimal"} /\ d.form \in {"plain", "decimal"}
          /\ type # "float" => c.form = d.form
      BY <2>1, <2>8 DEF Types
    <3>2. Trimmed(c) = Trimmed(d) => c.value = d.value
      BY <3>1, TextsAlike
    <3>3. c.form = d.form /\ c.value = d.value => Trimmed(c) = Trimmed(d)
      BY <3>1, TextsAlike
    <3>4. ToText(type, v) = ToText(type, w) <=> c.value = d.value
      BY <3>1, WrittenApart
    <3>5. c.form # d.form => {c.form, d.form} = {"plain", "decimal"}
      BY <3>1
    <3>6. ToText(type, v) = None <=> c = None
      BY <2>1
    <3> QED BY <2>3, <2>4, <2>8, <3>2, <3>3, <3>4, <3>5, <3>6 DEF c
  <2> QED BY <2>6, <2>7, <2>8
<1> QED BY <1>1, <1>2

\* A label is there once when the file has it, and then it is the file's first.
LEMMA LabelIsKept ==
  ASSUME NEW t, IsTable(t), NEW label \in Range(Passthrough)
  PROVE  LET kept == {m \in DOMAIN Canonical(t) : Canonical(t)[m].name.core = label}
         IN /\ Cardinality(kept) = IF HasColumn(t, label) THEN 1 ELSE 0
            /\ \A m \in kept : Canonical(t)[m] = LabelColumn(t, label)
<1> DEFINE columns == Canonical(t)
           kept == {m \in DOMAIN columns : columns[m].name.core = label}
<1>1. /\ columns \in Seq(Made(t)) /\ Len(columns) >= 11
      /\ \A n \in 1 .. 11 : columns[n] = CanonicalColumns(t)[n]
      /\ \A n \in 12 .. Len(columns) : \E l \in Range(Passthrough) :
           HasColumn(t, l) /\ columns[n] = LabelColumn(t, l)
      /\ \A n, m \in 12 .. Len(columns) : columns[n].name.core = columns[m].name.core => n = m
      /\ HasColumn(t, label) => HasColumn(columns, label)
  BY CanonicalLayout DEF IsLaidOut
<1>2. DOMAIN columns = 1 .. Len(columns) /\ Len(columns) \in Nat
  BY <1>1
<1> HIDE DEF columns
<1>3. \A m \in kept : m \in 12 .. Len(columns) /\ HasColumn(t, label) /\ columns[m] = LabelColumn(t, label)
  <2> TAKE m \in kept
  <2>1. m \in 1 .. Len(columns) /\ columns[m].name.core = label
    BY <1>2
  <2>2. m \notin 1 .. 11
    <3> SUFFICES ASSUME m \in 1 .. 11 PROVE FALSE
      OBVIOUS
    <3>1. columns[m].name.core = CanonicalSchema[m]
      BY <1>1, ColumnNames
    <3> QED BY <2>1, <3>1, TheSchema, SchemaAssumption
  <2>3. m \in 12 .. Len(columns)
    BY <1>2, <2>1, <2>2
  <2>4. PICK l \in Range(Passthrough) : HasColumn(t, l) /\ columns[m] = LabelColumn(t, l)
    BY <1>1, <2>3
  <2>5. l = label
    BY <2>1, <2>4, ColumnNames
  <2> QED BY <2>3, <2>4, <2>5
<1>4. CASE ~HasColumn(t, label)
  <2>1. kept = {}
    BY <1>3, <1>4
  <2> QED BY <1>3, <1>4, <2>1, FS_EmptySet DEF columns
<1>5. CASE HasColumn(t, label)
  <2>1. PICK m \in kept : TRUE
    BY <1>1, <1>5 DEF HasColumn
  <2>2. kept = {m}
    <3>1. \A k \in kept : k = m
      BY <1>1, <1>3, <2>1
    <3> QED BY <2>1, <3>1
  <2>3. Cardinality(kept) = 1
    BY <2>2, FS_Singleton
  <2> QED BY <1>3, <1>5, <2>3 DEF columns
<1> QED BY <1>4, <1>5

\* Labels survive, in every reachable state.
THEOREM LabelsKept == Spec => []LabelsSurvive
<1>1. IInv => LabelsSurvive
  <2> SUFFICES ASSUME IInv, pc = "converted", NEW k \in DOMAIN Passthrough
               PROVE  LET given == {n \in DOMAIN file.columns : file.columns[n].name.core = Passthrough[k]}
                          kept == {m \in DOMAIN out : out[m].name.core = Passthrough[k]}
                          n == Min(given)
                      IN /\ Cardinality(kept) = IF given = {} THEN 0 ELSE 1
                         /\ given # {} /\ (file.format = "zeek" => Declared(file, n) = "text") =>
                              \A m \in kept : \A r, s \in FileRows :
                                /\ SameLabel(n, r, s) => out[m].values[r] = out[m].values[s]
                                /\ out[m].values[r] = out[m].values[s] =>
                                     SameLabel(n, r, s) \/ SameNumber(n, r, s)
                                /\ out[m].values[r] = None <=> Cell(n, r) = None
    BY DEF LabelsSurvive
  <2> DEFINE label == Passthrough[k]
             given == {n \in DOMAIN file.columns : file.columns[n].name.core = label}
             kept == {m \in DOMAIN out : out[m].name.core = label}
             n == Min(given)
  <2>1. label \in Range(Passthrough)
    BY DEF Range
  <2>2. /\ IsFile(file) /\ IsLegible(file) /\ IsTable(table) /\ out = Canonical(table)
        /\ DOMAIN table = DOMAIN file.columns /\ Rows(table) = FileRows
        /\ \A m \in DOMAIN table :
             /\ table[m].name = file.columns[m].name
             /\ table[m].type \in Types /\ DOMAIN table[m].values = FileRows
             /\ \A r \in FileRows : /\ table[m].values[r] \in Cells(table[m].type)
                                    /\ IsReading(file, m, r, table[m].type, table[m].values[r])
    BY Converted
  <2>3. given = {m \in DOMAIN table : table[m].name.core = label}
    BY <2>2
  <2>4. given # {} <=> HasColumn(table, label)
    BY <2>3 DEF HasColumn
  <2>5. n = FirstNamed(table, label)
    BY <2>3 DEF FirstNamed
  <2> HIDE DEF label
  <2>6. /\ Cardinality(kept) = IF HasColumn(table, label) THEN 1 ELSE 0
        /\ \A m \in kept : out[m] = LabelColumn(table, label)
    <3> DEFINE copies == {m \in DOMAIN Canonical(table) : Canonical(table)[m].name.core = label}
    <3>1. kept = copies
      BY <2>2
    <3>2. /\ Cardinality(copies) = IF HasColumn(table, label) THEN 1 ELSE 0
          /\ \A m \in copies : Canonical(table)[m] = LabelColumn(table, label)
      BY <2>1, <2>2, LabelIsKept
    <3> HIDE DEF kept, copies
    <3> QED BY <2>2, <3>1, <3>2
  <2> HIDE DEF given, kept, n
  <2>7. ASSUME given # {}, file.format = "zeek" => Declared(file, n) = "text",
               NEW m \in kept, NEW r \in FileRows, NEW s \in FileRows
        PROVE  /\ SameLabel(n, r, s) => out[m].values[r] = out[m].values[s]
               /\ out[m].values[r] = out[m].values[s] => SameLabel(n, r, s) \/ SameNumber(n, r, s)
               /\ out[m].values[r] = None <=> Cell(n, r) = None
    <3>1. n \in DOMAIN table /\ LabelColumn(table, label) = Column(label, "text", LabelCells(table, label))
      BY <2>2, <2>4, <2>5, <2>7, LabelIsCopied
    <3>2. out[m].values = LabelCells(table, label)
      <4> DEFINE d == Column(label, "text", LabelCells(table, label))
      <4>1. d.values = LabelCells(table, label)
        BY DEF Column
      <4> QED BY <2>6, <3>1, <4>1
    <3> DEFINE c == table[n]
    <3>3. \A q \in FileRows : out[m].values[q] = ToText(c.type, c.values[q])
      BY <2>2, <2>5, <3>2 DEF LabelCells
    <3>4. /\ c.type \in Types /\ c.values[r] \in Cells(c.type) /\ c.values[s] \in Cells(c.type)
          /\ IsReading(file, n, r, c.type, c.values[r]) /\ IsReading(file, n, s, c.type, c.values[s])
          /\ n \in DOMAIN file.columns
      BY <2>2, <3>1
    <3> HIDE DEF c
    <3> QED BY <2>2, <2>7, <3>3, <3>4, LabelsTellApart
  <2> QED BY <2>4, <2>6, <2>7 DEF label, given, kept, n
<1> QED BY <1>1, ConversionInvariant, PTL

=============================================================================
