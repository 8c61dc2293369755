----------------------------- MODULE Timestamps -----------------------------
(***************************************************************************)
(* The timestamp column of a canonicalized table (timestamp_to_micros and  *)
(* its helpers, src/canonicalize.rs).  What one value means is decided by  *)
(* the whole column: slash dates are read month first or day first by the  *)
(* evidence found anywhere in it, and the unit of epoch numbers by the     *)
(* largest of them.                                                        *)
(*                                                                         *)
(* A text is the shape its leading date has, the three numbers of it, and  *)
(* whether the time of day behind it can be read; an instant is a day for  *)
(* texts and microseconds for numbers.  Arrow's casts are external: a date *)
(* that no month has is null, the length of the months is left out.        *)
(* Module Epochs is about one number of a column.                          *)
(***************************************************************************)
EXTENDS Epochs, Sequences

CONSTANT Columns  \* the timestamp columns that may be given

Date == [year : Nat, month : Nat, day : Nat]

ASSUME NullAssumption == None \notin {"MonthFirst", "DayFirst"} /\ None \notin Date

Text ==
  [shape : {"slash", "ymd", "iso", "other"}, a : Nat, b : Nat, year : Nat, time : {"ok", "bad"}]

IsColumn(c) ==
  \/ c.type = "text" /\ c.values \in Seq(Text \cup {None})
  \/ c.type = "number" /\ c.unit \in Units /\ c.values \in Seq(Floats \cup {None})
  \/ c.type = "typed" /\ c.unit \in Units /\ c.values \in Seq(Int64 \cup {None})

ASSUME ColumnsAssumption == \A c \in Columns : IsColumn(c)

VARIABLES
  column,                        \* its type, its unit and its values
  pc,
  i,                             \* values of the column looked at
  seen, day_first, month_first,  \* infer_slash_date_order
  order,                         \* None, "MonthFirst" or "DayFirst"
  max,                           \* the largest epoch number so far
  out                            \* the canonical column

vars == <<column, pc, i, seen, day_first, month_first, order, max, out>>

Values == column.values

-----------------------------------------------------------------------------
(* Texts *)

Orders == {"MonthFirst", "DayFirst"}

\* "A/B/YYYY"; "YYYY/MM/DD" and "YYYY-MM-DD" are shapes of their own.
IsSlashDate(v) == v # None /\ v.shape = "slash"

\* The date when some calendar has it.
Cast(date) == IF date.month \in 1 .. 12 /\ date.day \in 1 .. 31 THEN date ELSE None

MonthThenDay(v) == [year |-> v.year, month |-> v.a, day |-> v.b]
DayThenMonth(v) == [year |-> v.year, month |-> v.b, day |-> v.a]

DateIn(v, o) == IF o = "DayFirst" THEN DayThenMonth(v) ELSE MonthThenDay(v)

\* Mutant: every value is read by its own evidence.
ReadTextAlone(v, o) ==
  IF v = None \/ v.time = "bad" THEN None
  ELSE CASE v.shape = "slash" ->
              Cast(DateIn(v, IF v.a > 12 THEN "DayFirst" ELSE "MonthFirst"))
         [] v.shape \in {"ymd", "iso"} -> Cast(MonthThenDay(v))
         [] OTHER -> None

\* rewrite_slash_date or normalize_slash_date, and the cast of the result.
ReadText(v, o) ==
  IF v = None \/ v.time = "bad" THEN None
  ELSE CASE v.shape = "slash" -> Cast(DateIn(v, o))
         [] v.shape \in {"ymd", "iso"} -> Cast(MonthThenDay(v))
         [] OTHER -> None

-----------------------------------------------------------------------------
(* Steps of timestamp_to_micros *)

\* A typed column; arrow knows its unit, and what overflows is null.
CastTyped ==
  /\ pc = "start" /\ column.type = "typed"
  /\ out' = [n \in DOMAIN Values |->
              IF Values[n] # None /\ InMicros(column.unit, Values[n]) \in Int64
              THEN InMicros(column.unit, Values[n]) ELSE None]
  /\ pc' = "build"
  /\ UNCHANGED <<column, i, seen, day_first, month_first, order, max>>

Begin ==
  /\ pc = "start" /\ column.type # "typed"
  /\ pc' = IF column.type = "text" THEN "infer" ELSE "max"
  /\ UNCHANGED <<column, i, seen, day_first, month_first, order, max, out>>

\* Mutant: the twelfth of a month proves an order.
TooLargeForAMonthInclusive(n) == n >= 12

TooLargeForAMonth(n) == n > 12

LookAtText ==
  /\ pc = "infer" /\ i < Len(Values)
  /\ LET v == Values[i + 1]
     IN IF IsSlashDate(v)
        THEN /\ seen' = TRUE
             /\ day_first' = (day_first \/ TooLargeForAMonth(v.a))
             /\ month_first' = (month_first \/ TooLargeForAMonth(v.b))
        ELSE UNCHANGED <<seen, day_first, month_first>>
  /\ i' = i + 1
  /\ UNCHANGED <<column, pc, order, max, out>>

\* Dates that prove both orders: no single one can be correct.
RefuseMixture ==
  /\ pc = "infer" /\ i = Len(Values) /\ day_first /\ month_first
  /\ pc' = "failed"
  /\ UNCHANGED <<column, i, seen, day_first, month_first, order, max, out>>

\* Proven by a day over 12, or assumed.
DecideOrder ==
  /\ pc = "infer" /\ i = Len(Values) /\ ~(day_first /\ month_first)
  /\ order' = IF ~seen THEN None ELSE IF day_first THEN "DayFirst" ELSE "MonthFirst"
  /\ pc' = "rewrite"
  /\ UNCHANGED <<column, i, seen, day_first, month_first, max, out>>

Rewrite ==
  /\ pc = "rewrite"
  /\ out' = [n \in DOMAIN Values |-> ReadText(Values[n], order)]
  /\ pc' = "build"
  /\ UNCHANGED <<column, i, seen, day_first, month_first, order, max>>

\* f64::max leaves a NaN out.
LookAtNumber ==
  /\ pc = "max" /\ i < Len(Values)
  /\ LET v == Values[i + 1]
     IN max' = IF v = Inf \/ (v \in Int /\ max # Inf /\ v > max) THEN v ELSE max
  /\ i' = i + 1
  /\ UNCHANGED <<column, pc, seen, day_first, month_first, order, out>>

Scale ==
  /\ pc = "max" /\ i = Len(Values)
  /\ out' = [n \in DOMAIN Values |-> Micros(Values[n], max)]
  /\ pc' = "build"
  /\ UNCHANGED <<column, i, seen, day_first, month_first, order, max>>

\* The batch is built: the canonical timestamp is not nullable.
Build ==
  /\ pc = "build"
  /\ pc' = IF \E n \in DOMAIN out : out[n] = None THEN "failed" ELSE "converted"
  /\ UNCHANGED <<column, i, seen, day_first, month_first, order, max, out>>

-----------------------------------------------------------------------------
Init ==
  /\ column \in Columns
  /\ pc = "start" /\ i = 0
  /\ seen = FALSE /\ day_first = FALSE /\ month_first = FALSE
  /\ order = None /\ max = 0 /\ out = <<>>

Next ==
  \/ CastTyped \/ Begin
  \/ LookAtText \/ RefuseMixture \/ DecideOrder \/ Rewrite
  \/ LookAtNumber \/ Scale
  \/ Build

Spec == Init /\ [][Next]_vars

=============================================================================
