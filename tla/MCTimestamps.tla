---------------------------- MODULE MCTimestamps ----------------------------
(***************************************************************************)
(* Columns of up to three values: texts of every shape with components on  *)
(* both sides of 12, and numbers of every unit on both sides of every      *)
(* threshold, which here is 2.                                             *)
(***************************************************************************)
EXTENDS TimestampsProps, SequencesExt

DateText(shape, a, b, time) ==
  [shape |-> shape, a |-> a, b |-> b, year |-> 2017, time |-> time]

Texts ==
  {DateText("slash", a, b, "ok") : a, b \in {0, 5, 12, 13}}
    \cup {DateText("slash", 13, 5, "bad"), DateText("ymd", 5, 13, "ok"), DateText("iso", 13, 5, "ok"),
          DateText("other", 5, 5, "ok"), None}

Numbers(unit) ==
  CASE unit = "s" -> {0, 1, 2, 3}
    [] unit = "ms" -> {0, 1, 2, 1999, 2000, 2001}
    [] unit = "us" -> {0, 1, 1999, 2000, 1999999, 2000000, 2000001}
    [] unit = "ns" -> {0, 1500, 1999999, 2000000, 2000001, 1999999999, 2000000000}

Column(type, unit, values) == [type |-> type, unit |-> unit, values |-> values]

SmallColumns ==
  {Column("text", None, s) : s \in SeqOf(Texts, 3) \ {<<>>}}
    \cup UNION {{Column("number", unit, s) :
                  s \in SeqOf(Numbers(unit) \cup ({-1, None} \cup Specials), 3) \ {<<>>}} :
                unit \in {"s", "ms", "us", "ns"}}
    \cup {Column("typed", "ms", s) : s \in SeqOf({None, 0, 1000, 2001, -2001}, 2)}

=============================================================================
