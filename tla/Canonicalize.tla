---------------------------- MODULE Canonicalize ----------------------------
(***************************************************************************)
(* The conversion of a flow table: delimited text, a Zeek log or parquet   *)
(* (canonicalize_file and what it calls, src/canonicalize.rs; alias        *)
(* resolution, src/schema.rs), and once more of its own output.            *)
(*                                                                         *)
(* A text is how it is written (its form), the number it stands for and    *)
(* whether it is padded; a float is an integer or none (module Epochs), so *)
(* that rounding is left out, and durations are whole seconds.  A name is  *)
(* what normalize_name leaves of it (core) and how it is spelled.  A date  *)
(* stands for its instant: how the order of a slash date is found is in    *)
(* module Timestamps.  The readers and casts of arrow are external.        *)
(***************************************************************************)
EXTENDS Epochs, FiniteSetsExt, SequencesExt

CONSTANTS
  Files,        \* the files that may be given
  Aliases,      \* field -> its names in source files, the first choice first
  Divisors,     \* name of a duration -> what a second is in its unit
  Passthrough,  \* the names of the label columns
  Words,        \* what else a text may say, the marks of a log among it
  MaxInt32

VARIABLES
  file,     \* its format, the magic at its ends, Zeek's preamble, its columns
  pc,
  table,    \* the columns read
  coerced,  \* ports that became 0
  out,      \* the canonical columns
  first     \* the canonical columns the file is made of, or <<>>

vars == <<file, pc, table, coerced, out, first>>

CanonicalSchema ==
  <<"timestamp", "src_ip", "dest_ip", "src_port", "dest_port", "fwd_bytes", "bwd_bytes",
    "fwd_pkts", "bwd_pkts", "flow_dur", "protocol">>

CanonicalFields == Range(CanonicalSchema)

\* A field is the first of its own names, its duration is in seconds then, and
\* no label is called like a field (schemas/netflow/v1/schema.json).  The numbers
\* of the protocols that are looked up (the largest is 58 here) are 32 bits wide.
ASSUME SchemaAssumption ==
  /\ \A field \in CanonicalFields :
       Aliases[field] \in Seq(STRING) /\ Aliases[field] # <<>> /\ Head(Aliases[field]) = field
  /\ \A name \in DOMAIN Divisors : Divisors[name] \in Nat \ {0}
  /\ "flow_dur" \in DOMAIN Divisors => Divisors["flow_dur"] = 1
  /\ Passthrough \in Seq(STRING) /\ Range(Passthrough) \cap CanonicalFields = {}
  /\ MaxInt32 \in Nat /\ MaxInt32 >= 58 /\ MaxInt32 <= MaxInt64

-----------------------------------------------------------------------------
(* Texts and numbers *)

\* A number without and with a point, no number, a number with a magnitude
\* behind it, a date, year first or last, a name.
Forms ==
  {"plain", "decimal", "nan", "inf", "-inf", "magnitude", "date", "slash", "tcp", "ipv6-icmp"}
    \cup Words

\* The instants of dates fit 64 bits.
Texts ==
  {c \in [form : Forms, value : Int, padded : BOOLEAN] :
    c.form \in {"date", "slash"} => c.value \in Int64}

\* What a column of a type may hold.
Cells(type) ==
  CASE type = "text" -> Texts \cup {None}
    [] type = "float" -> Floats \cup {None}
    [] OTHER -> Int64 \cup {None}

Int32 == {n \in Int : -(MaxInt32 + 1) <= n /\ n <= MaxInt32}

IsColumn(c) ==
  /\ c = [name |-> c.name, type |-> c.type, values |-> c.values]
  /\ c.type \in {"text", "int", "float", "timestamp"}
  /\ c.values \in Seq(Cells(c.type))

\* There is a column, and all are of one length.
IsTable(columns) ==
  /\ columns \in Seq(Range(columns)) /\ columns # <<>>
  /\ \A n \in DOMAIN columns :
       IsColumn(columns[n]) /\ DOMAIN columns[n].values = DOMAIN columns[1].values

\* What is no number is no text either.
ASSUME NullAssumption == \A c \in Specials \cup {None} : c \notin Texts

Written(form, value) == [form |-> form, value |-> value, padded |-> FALSE]

Trimmed(c) == IF c = None THEN None ELSE [c EXCEPT !.padded = FALSE]

\* Arrow's casts do not trim; what they cannot cast is null.
TextToInt(c) ==
  IF c # None /\ ~c.padded /\ c.form = "plain" /\ c.value \in Int64 THEN c.value ELSE None

\* A text parsed as a float, which takes the words of those that are no number.
ParsedFloat(c) ==
  CASE c.form \in {"plain", "decimal"} -> c.value
    [] c.form = "nan" -> NaN
    [] c.form = "inf" -> Inf
    [] c.form = "-inf" -> NegInf
    [] OTHER -> None

TextToFloat(c) == IF c = None \/ c.padded THEN None ELSE ParsedFloat(c)

ToInt32(type, v) ==
  LET n == IF type = "text" THEN TextToInt(v) ELSE v IN IF n \in Int32 THEN n ELSE None

ToFloat(type, v) == IF type = "text" THEN TextToFloat(v) ELSE v

ToText(type, v) ==
  CASE v = None \/ type = "text" -> v
    [] v = NaN -> Written("nan", 0)
    [] v = Inf -> Written("inf", 0)
    [] v = NegInf -> Written("-inf", 0)
    [] type = "int" /\ v # None -> Written("plain", v)
    [] type = "timestamp" /\ v # None -> Written("date", v)
    [] OTHER -> Written("decimal", v)

\* The type arrow infers for the cells of a column, all of them.
Inferred(cells) ==
  LET Form(c) == CASE c.padded -> "padded"
                   [] ~c.padded /\ c.form = "plain" /\ c.value \notin Int64 -> "long"
                   [] OTHER -> c.form
      forms == {Form(c) : c \in Range(cells) \ {None}}
  IN CASE forms = {"plain"} -> "int"
       [] "decimal" \in forms /\ forms \subseteq {"plain", "decimal"} -> "float"
       [] forms = {"date"} -> "timestamp"
       [] OTHER -> "text"

-----------------------------------------------------------------------------
(* Reading the file *)

\* Mutant: the first bytes are enough.
StartsLikeParquet(f) == "head" \in f.magic

IsParquet(f) == f.magic = {"head", "tail"}

IsZeek(f) == ~IsParquet(f) /\ f.preamble # <<>> /\ Head(f.preamble).key = "#separator"

\* An escape that does not decode, and no separator at all, are a tab.
DecodeZeekSeparator(spec) == IF spec \in {"bad escape", ""} THEN "tab" ELSE spec

\* What the last line of a key says.  Lines split at another separator have
\* keys that are not known; a mark without a value changes nothing.
Directive(f, key, default) ==
  LET separator == DecodeZeekSeparator(Head(Head(f.preamble).values))
      lines == SelectSeq(Tail(f.preamble), LAMBDA l :
                 /\ separator = f.delimiter /\ l.key = key
                 /\ key \in {"#unset_field", "#empty_field"} => l.values # <<>>)
  IN IF lines = <<>> THEN default ELSE Last(lines).values

ZeekFields(f) == Directive(f, "#fields", <<>>)

Marks(f) ==
  {Head(Directive(f, "#unset_field", <<"-">>)), Head(Directive(f, "#empty_field", <<"(empty)">>))}

ZeekArrowType(declared) ==
  CASE declared \in {"time", "interval", "double"} -> "float"
    [] declared \in {"count", "int", "port"} -> "int"
    [] OTHER -> "text"

\* The type declared for a column; the list of types may be short.
Declared(f, n) ==
  LET types == Directive(f, "#types", <<>>)
  IN IF n \in DOMAIN types THEN ZeekArrowType(types[n]) ELSE "text"

\* 0 stands in for what Zeek did not measure.
Fill(f, c) == IF c # None /\ c.form \in Marks(f) THEN Written("plain", 0) ELSE Trimmed(c)

\* apply_zeek_types
ZeekCell(f, type, c) ==
  CASE type = "float" -> TextToFloat(Fill(f, c))
    [] type = "int" -> TextToInt(Fill(f, c))
    [] OTHER -> Trimmed(c)

ZeekColumn(f, n) ==
  LET type == Declared(f, n)
  IN [name |-> ZeekFields(f)[n], type |-> type,
      values |-> [r \in DOMAIN f.columns[n].values |-> ZeekCell(f, type, f.columns[n].values[r])]]

DelimitedColumn(column) ==
  LET type == Inferred(column.values)
      Cell(c) == IF c = None \/ type = "text" THEN Trimmed(c) ELSE c.value
  IN [column EXCEPT !.type = type, !.values = [r \in DOMAIN column.values |-> Cell(column.values[r])]]

\* A log is known by its first line and has its columns' names from the line of
\* the fields; but for parquet, columns hold text.
IsFile(f) ==
  /\ f = [format |-> f.format, magic |-> f.magic, delimiter |-> f.delimiter,
          preamble |-> f.preamble, columns |-> f.columns]
  /\ f.format \in {"parquet", "delimited", "zeek"} /\ IsTable(f.columns)
  /\ f.format = "parquet" => IsParquet(f)
  /\ f.format = "zeek" <=> f.preamble # <<>> /\ Head(f.preamble).key = "#separator"
  /\ f.format = "zeek" /\ Len(ZeekFields(f)) = Len(f.columns) =>
       \A n \in DOMAIN f.columns : ZeekFields(f)[n] = f.columns[n].name
  /\ f.format # "parquet" => \A n \in DOMAIN f.columns : f.columns[n].type = "text"

ASSUME FilesAssumption == \A f \in Files : IsFile(f)

Rows(columns) == DOMAIN columns[1].values

Fail ==
  /\ pc' = "failed"
  /\ UNCHANGED <<file, table, coerced, out, first>>

\* What is taken for parquet is none, a log names no fields or others than it
\* has, or nothing stands below the header.
RefuseFile ==
  /\ pc = "probe"
  /\ \/ IsParquet(file) /\ file.format # "parquet"
     \/ IsZeek(file) /\ Len(ZeekFields(file)) # Len(file.columns)
     \/ Rows(file.columns) = {}
  /\ Fail

Read(columns) ==
  /\ pc = "probe" /\ Rows(file.columns) # {}
  /\ table' = columns
  /\ pc' = "resolve"
  /\ UNCHANGED <<file, coerced, out, first>>

ReadParquet == IsParquet(file) /\ file.format = "parquet" /\ Read(file.columns)

ReadZeekTable ==
  /\ IsZeek(file) /\ Len(ZeekFields(file)) = Len(file.columns)
  /\ Read([n \in DOMAIN file.columns |-> ZeekColumn(file, n)])

ReadDelimited ==
  /\ ~IsParquet(file) /\ ~IsZeek(file)
  /\ Read([n \in DOMAIN file.columns |-> DelimitedColumn(file.columns[n])])

-----------------------------------------------------------------------------
(* Which column a field comes from *)

RequiredFields == {"timestamp", "src_ip", "dest_ip", "src_port", "dest_port", "fwd_bytes", "flow_dur"}

Nullable == {"fwd_pkts", "bwd_pkts", "protocol"}

HasColumn(given, name) == \E n \in DOMAIN given : given[n].name.core = name

\* Of columns with one normalized name the last, and of columns with the very
\* same name the first.
Named(given, core) ==
  LET last == given[Max({n \in DOMAIN given : given[n].name.core = core})]
  IN given[Min({n \in DOMAIN given : given[n].name = last.name})]

\* The aliases of a field that are there.
Known(given, field) == {k \in DOMAIN Aliases[field] : HasColumn(given, Aliases[field][k])}

Resolved(given, field) == Known(given, field) # {}

Source(given, field) == Named(given, Aliases[field][Min(Known(given, field))])

Resolves(given) == \A field \in RequiredFields : Resolved(given, field)

RefuseMissing ==
  /\ pc = "resolve" /\ ~Resolves(table)
  /\ Fail

-----------------------------------------------------------------------------
(* The fields *)

Map(Op(_, _), column) ==
  [r \in DOMAIN column.values |-> Op(column.type, column.values[r])]

Largest(column) ==
  IF Inf \in Range(column.values) THEN Inf
  ELSE Max({0} \cup {v \in Range(column.values) : v \in Int})

\* slash_date_parts trims, arrow does not.
DateOf(c) ==
  IF c # None /\ (c.form = "slash" \/ (c.form = "date" /\ ~c.padded)) THEN c.value ELSE None

TimestampToMicros(column) ==
  LET Micro(type, v) ==
        CASE type = "timestamp" -> v
          [] type = "text" -> DateOf(v)
          [] OTHER -> Micros(v, Largest(column))
  IN Map(Micro, column)

PortToInt32(column) ==
  LET OrZero(type, v) == IF ToInt32(type, v) = None THEN 0 ELSE ToInt32(type, v)
  IN Map(OrZero, column)

\* Mutant: a substituted 0 is counted when the text is there.
CountedWhenPresent(column) ==
  Cardinality({r \in DOMAIN column.values :
    column.values[r] # None /\ ToInt32(column.type, column.values[r]) = None})

Coerced(column) ==
  Cardinality({r \in DOMAIN column.values : ToInt32(column.type, column.values[r]) = None})

\* Mutant: what cannot be parsed is 0.
CountOrZero(c) ==
  CASE c = None -> None
    [] c # None /\ c.form = "magnitude" -> c.value * 1000
    [] OTHER -> IF ParsedFloat(c) = None THEN 0 ELSE ParsedFloat(c)

ParseMagnitude(c) ==
  CASE c = None -> None
    [] c # None /\ c.form = "magnitude" -> c.value * 1000
    [] OTHER -> ParsedFloat(c)

ToRoundedI64(column) ==
  LET Rounded(type, v) ==
        LET x == IF type = "text" THEN ParseMagnitude(v) ELSE v
        IN IF x = None THEN None ELSE ToInt64(x)
  IN Map(Rounded, column)

ProtocolNumber(c) ==
  IF c = None THEN None
  ELSE CASE c.form = "tcp" -> 6
         [] c.form = "ipv6-icmp" -> 58
         [] c.form = "plain" /\ c.value \in Int32 -> c.value
         [] OTHER -> None

\* Mutant: a name is looked up in a column of texts only as it stands.
ProtocolUntrimmed(column) ==
  LET Number(type, v) ==
        CASE type = "int" -> ToInt32(type, v)
          [] type = "text" /\ v # None /\ v.padded -> None
          [] OTHER -> ProtocolNumber(ToText(type, v))
  IN Map(Number, column)

\* A column of floats is read as text.
ProtocolToNumber(column) ==
  LET Number(type, v) ==
        IF type = "int" THEN ToInt32(type, v) ELSE ProtocolNumber(ToText(type, v))
  IN Map(Number, column)

\* Mutant: the unit is looked up as the column is spelled.
DivisorAsSpelled(name) ==
  IF name.spelling = "" /\ name.core \in DOMAIN Divisors THEN Divisors[name.core] ELSE 1

\* Seconds, when nothing is known of the name.
Divisor(name) == IF name.core \in DOMAIN Divisors THEN Divisors[name.core] ELSE 1

DurationInSeconds(column) ==
  LET Seconds(type, v) ==
        LET x == ToFloat(type, v) IN IF x \in Int THEN x \div Divisor(column.name) ELSE x
  IN Map(Seconds, column)

\* What becomes of a field without a column: all zeros, or all nulls.
Absent(given, field) ==
  [r \in Rows(given) |-> IF field = "bwd_bytes" THEN 0 ELSE None]

Values(given, field) ==
  LET source == Source(given, field)
  IN IF ~Resolved(given, field) THEN Absent(given, field)
     ELSE CASE field = "timestamp" -> TimestampToMicros(source)
            [] field \in {"src_ip", "dest_ip"} -> Map(ToText, source)
            [] field \in {"src_port", "dest_port"} -> PortToInt32(source)
            [] field \in {"fwd_bytes", "bwd_bytes", "fwd_pkts", "bwd_pkts"} -> ToRoundedI64(source)
            [] field = "flow_dur" -> DurationInSeconds(source)
            [] OTHER -> ProtocolToNumber(source)

Column(core, type, values) ==
  [name |-> [core |-> core, spelling |-> ""], type |-> type, values |-> values]

CanonicalType(field) ==
  CASE field \in {"src_ip", "dest_ip"} -> "text" [] field = "flow_dur" -> "float" [] OTHER -> "int"

CanonicalColumns(given) ==
  [n \in DOMAIN CanonicalSchema |->
     Column(CanonicalSchema[n], CanonicalType(CanonicalSchema[n]),
            Values(given, CanonicalSchema[n]))]

\* The first column of a label's name, as text.
LabelColumn(given, label) ==
  Column(label, "text",
         Map(ToText, given[Min({n \in DOMAIN given : given[n].name.core = label})]))

\* Mutant: labels are looked for in the file, not among the columns so far.
WithLabelAgain(given, columns, label) ==
  IF HasColumn(given, label) THEN Append(columns, LabelColumn(given, label)) ELSE columns

\* A label is added when there is one, unless the table has it by now.
WithLabel(given, columns, label) ==
  IF HasColumn(given, label) /\ ~HasColumn(columns, label)
  THEN Append(columns, LabelColumn(given, label))
  ELSE columns

\* The canonical columns, and the labels one after the other.
Canonical(given) ==
  LET labelled[k \in 0 .. Len(Passthrough)] ==
        IF k = 0 THEN CanonicalColumns(given)
        ELSE WithLabel(given, labelled[k - 1], Passthrough[k])
  IN labelled[Len(Passthrough)]

Convert ==
  /\ pc = "resolve" /\ Resolves(table)
  /\ coerced' = Coerced(Source(table, "src_port")) + Coerced(Source(table, "dest_port"))
  /\ out' = Canonical(table)
  /\ pc' = "build"
  /\ UNCHANGED <<file, table, first>>

HoldsNull(column) == None \in Range(column.values)

\* The batch does not take a null in a column that is not nullable.
Buildable(columns) ==
  \A n \in DOMAIN CanonicalSchema : CanonicalSchema[n] \in Nullable \/ ~HoldsNull(columns[n])

RefuseNull ==
  /\ pc = "build" /\ ~Buildable(out)
  /\ Fail

WriteParquet ==
  /\ pc = "build" /\ Buildable(out)
  /\ pc' = "converted"
  /\ UNCHANGED <<file, table, coerced, out, first>>

-----------------------------------------------------------------------------
\* The file a table is written to.
ParquetOf(columns) ==
  [format |-> "parquet", magic |-> {"head", "tail"}, delimiter |-> "", preamble |-> <<>>,
   columns |-> columns]

\* The canonical file is given to canonicalize once more.
Again ==
  /\ pc = "converted" /\ first = <<>>
  /\ file' = ParquetOf(out)
  /\ first' = out
  /\ pc' = "probe" /\ table' = <<>> /\ coerced' = 0 /\ out' = <<>>

Init ==
  /\ file \in Files
  /\ pc = "probe" /\ table = <<>> /\ coerced = 0 /\ out = <<>> /\ first = <<>>

Next ==
  \/ RefuseFile \/ ReadParquet \/ ReadZeekTable \/ ReadDelimited
  \/ RefuseMissing \/ Convert
  \/ RefuseNull \/ WriteParquet
  \/ Again

Spec == Init /\ [][Next]_vars

=============================================================================
