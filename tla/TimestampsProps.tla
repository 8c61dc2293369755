-------------------------- MODULE TimestampsProps ---------------------------
(***************************************************************************)
(* What a canonical timestamp column says about the column it came from.   *)
(* The unit a column of numbers was written in (column.unit) is known to   *)
(* the properties only: timestamp_to_micros guesses it.                    *)
(***************************************************************************)
EXTENDS Timestamps

\* Every value of a text column is a date of some calendar when the slash
\* dates are read in one order.
Sound(o) ==
  \A n \in DOMAIN Values :
    /\ Values[n] # None /\ Values[n].time = "ok"
    /\ Values[n].shape \in {"slash", "ymd", "iso"}
    /\ Cast(IF IsSlashDate(Values[n]) THEN DateIn(Values[n], o)
            ELSE MonthThenDay(Values[n])) # None

\* The unit's instants of the largest number lie between 1973 and 5138.
InTheEra(m) ==
  /\ m \in DOMAIN Values /\ Values[m] \in Int
  /\ \A n \in DOMAIN Values :
       Values[n] # Inf /\ (Values[n] \in Int => Values[n] <= Values[m])
  /\ LET t == Instant(column.unit, Values[m])
     IN Threshold * 1000 <= t /\ t < Threshold * 1000000

-----------------------------------------------------------------------------
\* A column that converts was read in one order from its first to its last
\* row, under which all its dates exist: a day over 12 anywhere in the column
\* decides about the ambiguous dates before and after it.
OneOrderForAll ==
  pc = "converted" /\ column.type = "text" =>
    \E o \in Orders :
      /\ Sound(o)
      /\ out = [n \in DOMAIN Values |->
                 IF IsSlashDate(Values[n]) THEN DateIn(Values[n], o)
                 ELSE MonthThenDay(Values[n])]

\* A column whose dates all exist under some order is never refused.
SoundDatesConvert ==
  column.type = "text" /\ (\E o \in Orders : Sound(o)) => pc # "failed"

\* Numbers of one unit, the largest of them between 1973 and 5138, become the
\* instants they stand for, whatever the unit, and however small the others.
EpochsAreRight ==
  pc = "converted" /\ column.type = "number" /\ (\E m \in DOMAIN Values : InTheEra(m)) =>
    \A n \in DOMAIN Values :
      Values[n] \in Nat => out[n] = Instant(column.unit, Values[n])

-----------------------------------------------------------------------------
(* The inductive invariant *)

TypeOK ==
  /\ IsColumn(column)
  /\ pc \in {"start", "infer", "rewrite", "max", "build", "converted", "failed"}
  /\ i \in 0 .. Len(Values)
  /\ seen \in BOOLEAN /\ day_first \in BOOLEAN /\ month_first \in BOOLEAN
  /\ order \in Orders \cup {None}
  /\ max \in Nat \cup {Inf}
  /\ pc = "start" => i = 0 /\ ~seen /\ ~day_first /\ ~month_first /\ max = 0
  /\ pc \in {"infer", "rewrite"} => column.type = "text"
  /\ pc = "max" => column.type = "number"

\* The flags say what stands in the rows looked at.
Evidence ==
  pc = "infer" =>
    /\ \A n \in 1 .. i : IsSlashDate(Values[n]) =>
         /\ seen
         /\ Values[n].a > 12 => day_first
         /\ Values[n].b > 12 => month_first
    /\ day_first => \E n \in 1 .. i : IsSlashDate(Values[n]) /\ Values[n].a > 12
    /\ month_first => \E n \in 1 .. i : IsSlashDate(Values[n]) /\ Values[n].b > 12

\* No month of the column is over 12 in the order decided.
OrderFits ==
  \A n \in DOMAIN Values : IsSlashDate(Values[n]) =>
    IF order = "DayFirst" THEN Values[n].b <= 12 ELSE Values[n].a <= 12

TextsAreRead ==
  /\ pc = "rewrite" => OrderFits
  /\ pc \in {"build", "converted"} /\ column.type = "text" =>
       /\ OrderFits
       /\ out = [n \in DOMAIN Values |-> ReadText(Values[n], order)]

\* max is the largest of 0 and the numbers looked at.
LargestSoFar ==
  /\ \A n \in 1 .. i : Values[n] \in Int => max = Inf \/ Values[n] <= max
  /\ max = 0 \/ \E n \in 1 .. i : Values[n] = max

NumbersAreScaled ==
  /\ pc = "max" => LargestSoFar
  /\ pc \in {"build", "converted"} /\ column.type = "number" =>
       /\ LargestSoFar /\ i = Len(Values)
       /\ out = [n \in DOMAIN Values |-> Micros(Values[n], max)]

NoNulls == pc = "converted" => \A n \in DOMAIN out : out[n] # None

IInv ==
  /\ TypeOK /\ Evidence /\ TextsAreRead /\ NumbersAreScaled /\ NoNulls
  /\ SoundDatesConvert

=============================================================================
