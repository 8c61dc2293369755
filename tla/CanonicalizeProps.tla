------------------------- MODULE CanonicalizeProps --------------------------
(***************************************************************************)
(* What a canonical table says about the cells of the file.  The meaning   *)
(* of a cell is stated for the cell as it stands in the file, without the  *)
(* types and the trimming of its column: what is read of a cell must not   *)
(* depend on its neighbours, and the exceptions are named.                 *)
(***************************************************************************)
EXTENDS Canonicalize

Counters == {"fwd_bytes", "bwd_bytes", "fwd_pkts", "bwd_pkts"}

Output(field) == out[CHOOSE n \in DOMAIN CanonicalSchema : CanonicalSchema[n] = field].values

\* The columns a field may come from: those of its first alias in the file.
Candidates(field) ==
  LET Of(k) == {n \in DOMAIN file.columns : file.columns[n].name.core = Aliases[field][k]}
      known == {k \in DOMAIN Aliases[field] : Of(k) # {}}
  IN IF known = {} THEN {} ELSE Of(Min(known))

FileRows == Rows(file.columns)

Cell(n, r) == file.columns[n].values[r]

IsTyped(n) == file.format = "parquet" /\ file.columns[n].type # "text"

\* A mark of a log in a column declared to hold numbers.
IsMarked(n, r) ==
  file.format = "zeek" /\ Declared(file, n) # "text" /\ Cell(n, r) # None /\ Cell(n, r).form \in Marks(file)

\* A text column of nothing but dates becomes one of instants, which are numbers
\* to the casts.
IsDated(n) == file.format = "delimited" /\ Inferred(file.columns[n].values) = "timestamp"

\* Arrow does not trim, and nobody does it for the texts of a parquet file.
IsPadded(n, r) ==
  ~IsTyped(n) /\ file.format = "parquet" /\ Cell(n, r) # None /\ Cell(n, r).padded

\* A text that is read for what it says.
IsText(n, r) == Cell(n, r) # None /\ ~IsTyped(n) /\ ~IsDated(n) /\ ~IsMarked(n, r)

\* A column that a log declares to hold whole numbers, which are 64 bits wide.
IsWhole(n) == file.format = "zeek" /\ Declared(file, n) = "int"

\* The number a cell stands for, its suffix expanded when it may have one.
NumberOf(n, r, forms) ==
  LET c == Cell(n, r)
  IN CASE c # None /\ IsTyped(n) -> c
       [] c # None /\ IsDated(n) -> c.value
       [] IsMarked(n, r) -> 0
       [] IsText(n, r) /\ c.form \in forms /\ c.form = "nan" -> NaN
       [] IsText(n, r) /\ c.form \in forms /\ c.form = "inf" -> Inf
       [] IsText(n, r) /\ c.form \in forms /\ c.form = "-inf" -> NegInf
       [] IsText(n, r) /\ c.form \in forms /\ c.form = "magnitude" -> c.value * 1000
       [] IsText(n, r) /\ c.form \in forms \cap {"plain", "decimal"}
          /\ (IsWhole(n) => c.value \in Int64) -> c.value
       [] OTHER -> None

FloatForms == {"plain", "decimal", "nan", "inf", "-inf"}

\* What is declared a number in a log is written as one.
FormsOf(n) ==
  CASE IsWhole(n) -> {"plain"}
    [] file.format = "zeek" /\ Declared(file, n) = "float" -> FloatForms
    [] OTHER -> FloatForms \cup {"magnitude"}

CountOf(n, r) == NumberOf(n, r, FormsOf(n))

-----------------------------------------------------------------------------
\* A counter is read from one column, the same for all rows: it is the number
\* its cell stands for, suffix expanded and padding ignored, whatever the type
\* of the column, when 64 bits hold that number (what Zeek marks as not measured
\* stands for 0), and null when its cell says nothing.  What becomes of the
\* other floats is CountersAreNotInvented.
CountersAreRead ==
  pc = "converted" =>
    \A field \in Counters :
      IF Candidates(field) = {}
      THEN \A r \in FileRows : Output(field)[r] = IF field = "bwd_bytes" THEN 0 ELSE None
      ELSE \E n \in Candidates(field) : \A r \in FileRows :
             CountOf(n, r) \in Int64 \cup {None} => Output(field)[r] = CountOf(n, r)

\* No counter is a number that no cell of its row stands for: what is no number,
\* infinite or too large stays null, as what cannot be parsed does
\* (canonicalize.rs:655-661).
CountersAreNotInvented ==
  pc = "converted" =>
    \A field \in Counters : Candidates(field) # {} =>
      \A r \in FileRows :
        \/ Output(field)[r] = None
        \/ \E n \in Candidates(field) : Output(field)[r] = CountOf(n, r)

\* What a port's cell stands for, and whether it is a whole number in range.
PortOf(n, r) == NumberOf(n, r, {"plain", "decimal"})

IsPlainPort(n, r) ==
  /\ PortOf(n, r) \in Int32 /\ ~IsPadded(n, r)
  /\ IsTyped(n) \/ IsMarked(n, r) \/ Cell(n, r).form = "plain"

\* The zeros of a port the file does not hold, and those it holds as no whole number.
Invented(port, n) == {r \in FileRows : Output(port)[r] = 0 /\ PortOf(n, r) # 0}

Doubtful(port, n) == {r \in FileRows : Output(port)[r] = 0 /\ ~IsPlainPort(n, r)}

\* A port is never a number its cell does not stand for, 0 apart; a whole
\* number in range is always kept, unless it is a padded text of a parquet
\* file; the zeros the file does not hold are counted, every one, and no zero
\* is that the file holds as a whole number.
PortsAreRead ==
  pc = "converted" =>
    \E s \in Candidates("src_port"), d \in Candidates("dest_port") :
      LET Right(port, n) == \A r \in FileRows :
            /\ Output(port)[r] = PortOf(n, r) \/ Output(port)[r] = 0
            /\ IsPlainPort(n, r) => Output(port)[r] = PortOf(n, r)
      IN /\ Right("src_port", s) /\ Right("dest_port", d)
         /\ coerced >= Cardinality(Invented("src_port", s)) + Cardinality(Invented("dest_port", d))
         /\ coerced <= Cardinality(Doubtful("src_port", s)) + Cardinality(Doubtful("dest_port", d))

\* A duration is in whole seconds by the unit its column's name stands for,
\* however the name is spelled.
DurationsAreSeconds ==
  pc = "converted" =>
    \E n \in Candidates("flow_dur") : \A r \in FileRows :
      LET x == NumberOf(n, r, FloatForms)
          seconds == Output("flow_dur")[r]
          name == file.columns[n].name.core
          unit == IF name \in DOMAIN Divisors THEN Divisors[name] ELSE 1
      IN IF x \in Int THEN seconds * unit <= x /\ x < (seconds + 1) * unit
                      ELSE x \in Specials /\ seconds = x

\* The protocol a cell stands for; in a log's column of numbers a name is none.
ProtocolOf(n, r) ==
  LET named == file.format = "zeek" => Declared(file, n) = "text"
  IN CASE IsText(n, r) /\ named /\ Cell(n, r).form = "tcp" -> 6
       [] IsText(n, r) /\ named /\ Cell(n, r).form = "ipv6-icmp" -> 58
       [] OTHER -> NumberOf(n, r, {"plain", "decimal"})

\* The columns of protocols that lose numbers: of instants, and those that hold
\* a decimal or are declared to.
IsLossy(n) ==
  \/ IsDated(n)
  \/ IsTyped(n) /\ file.columns[n].type # "int"
  \/ file.format = "zeek" /\ Declared(file, n) = "float"
  \/ ~IsTyped(n) /\ \E r \in FileRows : Cell(n, r) # None /\ Cell(n, r).form = "decimal"

InRange(number) == IF number \in Int32 THEN number ELSE None

\* A protocol is the number its cell stands for, names looked up, or null when
\* it stands for none; the exception are the columns that lose numbers, and
\* they never hold another number.
ProtocolsAreRead ==
  pc = "converted" /\ Candidates("protocol") # {} =>
    \E n \in Candidates("protocol") : \A r \in FileRows :
      \/ Output("protocol")[r] = InRange(ProtocolOf(n, r))
      \/ Output("protocol")[r] = None /\ IsLossy(n)

\* Two rows of a column are the same, padding aside but in a parquet file.
SameLabel(n, r, s) ==
  \/ Cell(n, r) = Cell(n, s)
  \/ file.format # "parquet" /\ Trimmed(Cell(n, r)) = Trimmed(Cell(n, s))

\* Two texts are one number, written with a point and without.
SameNumber(n, r, s) ==
  /\ None \notin {Cell(n, r), Cell(n, s)} /\ ~IsTyped(n)
  /\ {Cell(n, r).form, Cell(n, s).form} = {"plain", "decimal"}
  /\ Cell(n, r).value = Cell(n, s).value

\* A label column is in the canonical table, once, and tells the rows apart as
\* the file does: padding makes no class of its own in a text file.  The
\* exception: a label that a log declares a number.
LabelsSurvive ==
  pc = "converted" =>
    \A k \in DOMAIN Passthrough :
      LET given == {n \in DOMAIN file.columns : file.columns[n].name.core = Passthrough[k]}
          kept == {m \in DOMAIN out : out[m].name.core = Passthrough[k]}
          n == Min(given)
      IN /\ Cardinality(kept) = IF given = {} THEN 0 ELSE 1
         /\ given # {} /\ (file.format = "zeek" => Declared(file, n) = "text") =>
              \A m \in kept : \A r, s \in FileRows :
                /\ SameLabel(n, r, s) => out[m].values[r] = out[m].values[s]
                /\ out[m].values[r] = out[m].values[s] =>
                     SameLabel(n, r, s) \/ SameNumber(n, r, s)
                /\ out[m].values[r] = None <=> Cell(n, r) = None

\* The cells a field can be read from.
IsReadable(field, n, r) ==
  CASE field = "timestamp" ->
         \/ NumberOf(n, r, FormsOf(n) \ {"magnitude"}) # None /\ ~IsPadded(n, r)
            /\ \/ IsTyped(n) \/ IsMarked(n, r)
               \/ file.format = "zeek" /\ Declared(file, n) # "text"
               \/ file.format = "delimited"
                  /\ Inferred(file.columns[n].values) \in {"int", "float"}
         \/ /\ ~IsTyped(n) /\ Cell(n, r) # None
            /\ \/ Cell(n, r).form = "slash"
               \/ Cell(n, r).form = "date" /\ ~IsPadded(n, r)
            /\ file.format = "zeek" => Declared(file, n) = "text"
    [] field \in {"src_ip", "dest_ip"} ->
         Cell(n, r) # None /\ (file.format = "zeek" => Declared(file, n) = "text")
    [] field \in {"src_port", "dest_port"} -> TRUE
    [] field \in {"fwd_bytes", "bwd_bytes"} -> CountOf(n, r) # None
    [] OTHER -> NumberOf(n, r, FormsOf(n) \ {"magnitude"}) # None /\ ~IsPadded(n, r)

\* A file of rows whose required columns are there and readable is never
\* refused, whatever its format and whatever else stands in it.
SoundTablesConvert ==
  LET Sound ==
        /\ \A field \in RequiredFields : Candidates(field) # {}
        /\ FileRows # {}
        /\ \A field \in RequiredFields \cup {"bwd_bytes"}, r \in FileRows :
             \A n \in Candidates(field) : IsReadable(field, n, r)
        /\ file.format = "zeek" => Len(ZeekFields(file)) = Len(file.columns)
        /\ file.format # "parquet" => file.magic # {"head", "tail"}
  IN pc = "failed" => ~Sound

\* Whether the largest of a canonical table's times lies between 1973 and 5138.
IsOfItsTime(columns) ==
  LET largest == Max({0} \cup Range(columns[1].values))
  IN Threshold * 1000 <= largest /\ largest < Threshold * 1000000

\* Canonicalizing a canonical table of its time changes nothing: what the other
\* inputs are converted to can be taken through canonicalize without harm.
CanonicalIsAFixedPoint ==
  first # <<>> /\ IsOfItsTime(first) =>
    pc # "failed" /\ (pc = "converted" => out = first)

-----------------------------------------------------------------------------
(* The inductive invariant: every stage of a conversion is a function of the *)
(* file, and a canonical table of its time is its own conversion.            *)

TableOf(f) ==
  IF IsParquet(f) THEN f.columns
  ELSE IF IsZeek(f) THEN [n \in DOMAIN f.columns |-> ZeekColumn(f, n)]
  ELSE [n \in DOMAIN f.columns |-> DelimitedColumn(f.columns[n])]

IsLegible(f) ==
  /\ IsParquet(f) => f.format = "parquet"
  /\ IsZeek(f) => Len(ZeekFields(f)) = Len(f.columns)
  /\ Rows(f.columns) # {}

IsConvertible(given) == Resolves(given) /\ Buildable(Canonical(given))

IInv ==
  /\ IsFile(file)
  /\ pc \in {"probe", "resolve", "build", "converted", "failed"}
  /\ pc \in {"resolve", "build", "converted"} => IsLegible(file) /\ table = TableOf(file)
  /\ pc \in {"build", "converted"} =>
       /\ Resolves(table) /\ out = Canonical(table)
       /\ coerced = Coerced(Source(table, "src_port")) + Coerced(Source(table, "dest_port"))
  /\ pc = "converted" => Buildable(out)
  /\ pc = "failed" => ~(IsLegible(file) /\ IsConvertible(TableOf(file)))
  /\ first # <<>> =>
       /\ file.format = "parquet" /\ first = file.columns /\ IsLegible(file)
       /\ IsOfItsTime(first) => IsConvertible(first) /\ Canonical(first) = first

=============================================================================
