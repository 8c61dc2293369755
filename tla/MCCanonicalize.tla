--------------------------- MODULE MCCanonicalize ---------------------------
(***************************************************************************)
(* Files of two rows in every format: one column at a time holds every     *)
(* pair of the cells it may hold, the others a plain one.  Then columns    *)
(* that are missing, repeated, or known by another alias, and preambles    *)
(* that are broken.                                                        *)
(***************************************************************************)
EXTENDS CanonicalizeProps

SmallAliases ==
  [field \in Range(CanonicalSchema) |->
    CASE field = "fwd_bytes" -> <<"fwd_bytes", "in_bytes">>
      [] field = "flow_dur" -> <<"flow_dur", "duration_ms", "lasted">>
      [] OTHER -> <<field>>]

SmallDivisors == [name \in {"flow_dur", "duration_ms"} |-> IF name = "duration_ms" THEN 10 ELSE 1]

SmallPassthrough == <<"attack", "class", "attack">>

SmallWords == {"junk", "-", "NA"}

Padded(c) == [c EXCEPT !.padded = TRUE]

Of(core, spelling, type, values) ==
  [name |-> [core |-> core, spelling |-> spelling], type |-> type, values |-> values]

-----------------------------------------------------------------------------
(* Cells *)

Usual(core) == IF core = "timestamp" THEN Written("plain", 2500) ELSE Written("plain", 20)

Numbers == <<Written("plain", 0), Written("plain", 20), Written("decimal", 20)>>

NoNumbers == <<Written("nan", 0), Written("inf", 0), Written("-inf", 0)>>

TooLong == Written("plain", MaxInt64 + 1)

Kinds(core) ==
  LET own ==
        CASE core = "timestamp" ->
               <<Written("nan", 0), Written("inf", 0), Written("plain", 1), Written("plain", 30),
                 Written("plain", 2500), TooLong, Written("decimal", 2000000), Written("date", 2500),
                 Padded(Written("date", 2500)), Written("slash", 7), Padded(Written("slash", 7))>>
          [] core \in {"fwd_bytes", "bwd_bytes", "fwd_pkts"} ->
               Numbers \o NoNumbers \o
               <<Written("magnitude", 2), Padded(Written("magnitude", 2)),
                 Written("magnitude", 4000), TooLong, Written("date", 7)>>
          [] core \in {"src_port", "dest_port"} ->
               Numbers \o
               <<Written("plain", -MaxInt32 - 1), Written("plain", -MaxInt32 - 2),
                 Written("plain", MaxInt32 + 1), TooLong,
                 Padded(Written("plain", 0)), Written("decimal", 0), Written("date", 7)>>
          [] core = "flow_dur" ->
               Numbers \o NoNumbers \o <<Written("plain", 25), Written("date", 7)>>
          [] core = "protocol" ->
               Numbers \o
               <<Written("tcp", 0), Padded(Written("ipv6-icmp", 0)), Written("plain", MaxInt32 + 1),
                 Written("plain", -MaxInt32 - 2), Written("date", 7)>>
          [] core = "attack" -> Numbers \o <<Padded(Written("junk", 0)), Written("date", 7)>>
          [] OTHER -> <<>>
  IN <<None, Written("junk", 0), Written("-", 0), Padded(Written("-", 0)),
       Padded(Written("plain", 20))>> \o own

\* The order of two rows does not matter.
Pairs(cells) ==
  UNION {{<<cells[j], cells[k]>> : k \in j .. Len(cells)} : j \in DOMAIN cells}

\* What the typed columns of a parquet file hold; no negative times, of which
\* TLC's integers cannot count the microseconds.
TypedColumns(core) ==
  LET ints == <<0, 20, MaxInt32 + 1, None>>
      floats == <<20, MaxInt64 + 1, None, NaN, Inf>>
      Columns(type, cells) == {Of(core, "", type, pair) : pair \in Pairs(cells)}
  IN IF core = "timestamp"
     THEN Columns("int", ints) \cup Columns("float", floats) \cup Columns("timestamp", <<7, 2500, None>>)
     ELSE Columns("int", Append(ints, -MaxInt32 - 2)) \cup Columns("float", Append(floats, NegInf))

-----------------------------------------------------------------------------
(* Files *)

Names == CanonicalSchema \o <<"attack">>

UsualColumns == [n \in DOMAIN Names |-> Of(Names[n], "", "text", <<Usual(Names[n]), Usual(Names[n])>>)]

ZeekType(core) ==
  CASE core = "timestamp" -> "time"
    [] core \in {"flow_dur", "duration_ms"} -> "interval"
    [] core \in {"src_port", "dest_port"} -> "port"
    [] core \in Counters -> "count"
    [] OTHER -> "string"

Line(key, values) == [key |-> key, values |-> values]

Log(columns) ==
  <<Line("#separator", <<"tab">>), Line("#unset_field", <<"-">>), Line("#path", <<"conn">>),
    Line("#fields", [n \in DOMAIN columns |-> columns[n].name]),
    Line("#types", [n \in DOMAIN columns |-> ZeekType(columns[n].name.core)])>>

File(format, magic, delimiter, preamble, columns) ==
  [format |-> format, magic |-> magic, delimiter |-> delimiter, preamble |-> preamble, columns |-> columns]

\* Times in a parquet file are numbers, unless it is about them.
Parquet(columns) ==
  File("parquet", {"head", "tail"}, "", <<>>,
       [n \in DOMAIN columns |->
          IF columns[n] = UsualColumns[1] THEN Of("timestamp", "", "int", <<2500, 2500>>) ELSE columns[n]])

Delimited(columns) == File("delimited", {}, "comma", <<>>, columns)
Zeek(columns) == File("zeek", {}, "tab", Log(columns), columns)

InEveryFormat(columns) == {Parquet(columns), Delimited(columns), Zeek(columns)}

\* Every pair of cells of a column, and every typed column.
Varied(n) ==
  UNION {InEveryFormat([UsualColumns EXCEPT ![n].values = pair]) : pair \in Pairs(Kinds(Names[n]))}
    \cup {Parquet([UsualColumns EXCEPT ![n] = c]) : c \in TypedColumns(Names[n])}

\* Columns that are missing, repeated or called something else.
Renamed ==
  UNION {InEveryFormat(RemoveAt(UsualColumns, n)) : n \in DOMAIN Names}
    \cup UNION {InEveryFormat([UsualColumns EXCEPT ![10].name = [core |-> core, spelling |-> spelling]]) :
                core \in {"flow_dur", "duration_ms", "lasted", "unknown"}, spelling \in {"", "#10"}}
    \cup UNION {UNION {InEveryFormat(c \o UsualColumns), InEveryFormat(UsualColumns \o c)} :
                c \in {<<Of(core, spelling, "text", <<Written("plain", 0), Written(form, 10)>>)>> :
                       core \in {"fwd_bytes", "in_bytes", "attack", "class", "duration_ms"},
                       spelling \in {"", "#10"}, form \in {"plain", "junk"}}}

\* Logs whose preamble is short, odd or broken, files without rows, and texts
\* that look like parquet at one end, or at both.
Odd ==
  LET marked == [UsualColumns EXCEPT ![4].values = <<Written("NA", 0), Written("-", 0)>>]
      WithPreamble(preamble) == File("zeek", {}, "tab", preamble, marked)
      log == Log(marked)
      empty == [n \in DOMAIN Names |-> [UsualColumns[n] EXCEPT !.values = <<>>]]
  IN {WithPreamble(preamble) : preamble \in
       {[log EXCEPT ![1].values = <<spec>>] : spec \in {"bad escape", "", "comma"}}
         \cup {[log EXCEPT ![2].values = mark] : mark \in {<<>>, <<"NA">>}}
         \cup {Append(log, Line("#unset_field", <<"NA">>)), Append(log, Line("#empty_field", <<"NA">>)),
               Append(log, Line("#types", <<"time">>)), Append(log, Line("#fields", <<>>)),
               SubSeq(log, 1, 3)}}
     \cup InEveryFormat(empty)
     \cup {[Delimited(UsualColumns) EXCEPT !.magic = magic] :
           magic \in {{"head"}, {"tail"}, {"head", "tail"}}}

\* Logs that declare one column otherwise than usual.
Redeclared(n) ==
  {[Zeek([UsualColumns EXCEPT ![n].values = <<x, Usual(Names[n])>>])
      EXCEPT !.preamble[5].values[n] = type] :
   x \in Range(Kinds(Names[n])), type \in {"string", "count", "double"}}

SmallFiles == UNION {Varied(n) \cup Redeclared(n) : n \in DOMAIN Names} \cup Renamed \cup Odd

\* A counter that is no number, and one that is infinite.
NotANumberFiles ==
  {Delimited([UsualColumns EXCEPT ![6].values = <<Written("plain", 20), c>>]) : c \in Range(NoNumbers)}

=============================================================================
