------------------------- MODULE Timestamps_proofs --------------------------
(***************************************************************************)
(* For every column of timestamps, of any length: the order of its dates   *)
(* and the unit of its numbers.  The invariant says what the two loops     *)
(* have learnt of the rows they looked at; the properties follow when the  *)
(* loops have seen all of them.                                            *)
(***************************************************************************)
EXTENDS TimestampsProps, TLAPS

-----------------------------------------------------------------------------
(* One value *)

\* A date is cast to itself exactly when its month and its day exist.
LEMMA CastOfADate ==
  ASSUME NEW date \in Date
  PROVE  /\ Cast(date) # None => date.month \in 1 .. 12 /\ date.day \in 1 .. 31
         /\ Cast(date) # None => Cast(date) = date
         /\ date.month \in 1 .. 12 /\ date.day \in 1 .. 31 => Cast(date) # None
BY NullAssumption DEF Cast

\* The month and the day of a text under each order.
LEMMA DatesOfAText ==
  ASSUME NEW v \in Text, NEW o
  PROVE  /\ DateIn(v, o) \in Date
         /\ MonthThenDay(v) \in Date
         /\ o = "DayFirst" => DateIn(v, o).month = v.b /\ DateIn(v, o).day = v.a
         /\ o # "DayFirst" => DateIn(v, o).month = v.a /\ DateIn(v, o).day = v.b
BY DEF Text, Date, DateIn, MonthThenDay, DayThenMonth

\* A date that exists in one order exists in every order its months fit.
LEMMA FittingOrderReads ==
  ASSUME NEW v \in Text, NEW o, NEW p,
         Cast(DateIn(v, o)) # None,
         IF p = "DayFirst" THEN v.b <= 12 ELSE v.a <= 12
  PROVE  Cast(DateIn(v, p)) # None
<1>1. v.a \in Nat /\ v.b \in Nat
  BY DEF Text
<1>2. v.a \in 1 .. 31 /\ v.b \in 1 .. 31
  <2>1. DateIn(v, o).month \in 1 .. 12 /\ DateIn(v, o).day \in 1 .. 31
    BY CastOfADate, DatesOfAText
  <2> QED BY <1>1, <2>1, DatesOfAText
<1>3. DateIn(v, p).month \in 1 .. 12 /\ DateIn(v, p).day \in 1 .. 31
  <2>1. CASE p = "DayFirst"
    BY <1>1, <1>2, <2>1, DatesOfAText
  <2>2. CASE p # "DayFirst"
    BY <1>1, <1>2, <2>2, DatesOfAText
  <2> QED BY <2>1, <2>2
<1> QED BY <1>3, CastOfADate, DatesOfAText

\* Between 1973 and 5138 the largest number of a column tells its unit.
LEMMA GuessIsRight ==
  ASSUME NEW unit \in Units, NEW largest \in Nat,
         Threshold * 1000 <= Instant(unit, largest),
         Instant(unit, largest) < Threshold * 1000000
  PROVE  Guess(largest) = unit
<1>1. Threshold \in Nat /\ Threshold > 0 /\ largest # Inf
  BY ThresholdAssumption, SpecialAssumption DEF Specials
<1>2. CASE unit = "s"
  BY <1>1, <1>2 DEF Guess, Instant
<1>3. CASE unit = "ms"
  BY <1>1, <1>3 DEF Guess, Instant
<1>4. CASE unit = "us"
  BY <1>1, <1>4 DEF Guess, Instant
<1>5. CASE unit = "ns"
  BY <1>1, <1>5 DEF Guess, Instant
<1> QED BY <1>2, <1>3, <1>4, <1>5 DEF Units

\* A number that is not the largest of its column is scaled by the unit guessed,
\* and what it stands for fits 64 bits when what the largest stands for does.
LEMMA GuessedMicros ==
  ASSUME NEW unit \in Units, NEW v \in Nat, NEW largest \in Nat, v <= largest,
         Guess(largest) = unit, Instant(unit, largest) < Threshold * 1000000
  PROVE  Micros(v, largest) = Instant(unit, v)
<1>1. v \notin Specials /\ v # None
  BY SpecialAssumption
<1>2. Micros(v, largest) = ToInt64(InMicros(unit, v))
  BY <1>1 DEF Micros
<1>3. InMicros(unit, v) = Instant(unit, v)
  BY DEF InMicros, Instant, Thousandth
<1>4. /\ Instant(unit, v) \in Int /\ 0 <= Instant(unit, v)
      /\ Instant(unit, v) <= Instant(unit, largest) /\ Instant(unit, largest) \in Int
  <2>1. CASE unit = "s"
    BY <2>1 DEF Instant
  <2>2. CASE unit = "ms"
    BY <2>2 DEF Instant
  <2>3. CASE unit = "us"
    BY <2>3 DEF Instant
  <2>4. CASE unit = "ns"
    <3>1. v \div 1000 \in Int /\ 0 <= v \div 1000 /\ v \div 1000 <= largest \div 1000
      BY SMT
    <3>2. largest \div 1000 \in Int
      BY SMT
    <3> QED BY <2>4, <3>1, <3>2 DEF Instant
  <2> QED BY <2>1, <2>2, <2>3, <2>4 DEF Units
<1>5. ToInt64(Instant(unit, v)) = Instant(unit, v)
  <2>1. Instant(unit, v) \notin Specials
    BY <1>4, SpecialAssumption
  <2>2. PICK x \in Int : x = Instant(unit, v)
    BY <1>4
  <2>3. 0 <= x /\ x <= MaxInt64 /\ MaxInt64 \in Nat
    <3>1. PICK top \in Int : top = Instant(unit, largest)
      BY <1>4
    <3>2. PICK bound \in Int : bound = Threshold * 1000000 /\ bound <= MaxInt64 /\ MaxInt64 \in Nat
      BY ThresholdAssumption, SMT
    <3>3. top < bound /\ x <= top /\ 0 <= x
      BY <1>4, <2>2, <3>1, <3>2
    <3> QED BY <3>2, <3>3, SMT
  <2>4. ToInt64(x) = x
    BY <2>1, <2>2, <2>3, SMT DEF ToInt64, Specials
  <2> QED BY <2>2, <2>4
<1> QED BY <1>2, <1>3, <1>5

-----------------------------------------------------------------------------
(* The invariant *)

\* A column is handed over unread, and the invariant holds of it.
LEMMA InitInvariant == Init => IInv
<1> SUFFICES ASSUME Init PROVE IInv
  OBVIOUS
<1>1. IsColumn(column)
  BY ColumnsAssumption DEF Init
<1>2. Len(Values) \in Nat
  BY <1>1 DEF IsColumn, Values
<1>3. TypeOK
  <2>1. seen = FALSE /\ day_first = FALSE /\ month_first = FALSE
    BY DEF Init
  <2>2. i = 0 /\ max = 0 /\ order = None /\ pc = "start"
    BY DEF Init
  <2>3. i \in 0 .. Len(Values) /\ max \in Nat \cup {Inf}
    BY <1>2, <2>2
  <2> QED BY <1>1, <2>1, <2>2, <2>3 DEF TypeOK
<1>4. pc = "start"
  BY DEF Init
<1> QED
  BY <1>3, <1>4 DEF IInv, Evidence, TextsAreRead, NumbersAreScaled, NoNulls, SoundDatesConvert

\* Values are what the type of the column says.
LEMMA ColumnValues ==
  ASSUME IsColumn(column)
  PROVE  /\ Len(Values) \in Nat /\ DOMAIN Values = 1 .. Len(Values)
         /\ column.type \in {"text", "number", "typed"}
         /\ column.type = "text" => \A n \in DOMAIN Values : Values[n] \in Text \cup {None}
         /\ column.type = "number" =>
              column.unit \in Units /\ \A n \in DOMAIN Values : Values[n] \in Floats \cup {None}
BY DEF IsColumn, Values

\* One text more has been looked at.
LEMMA LookAtTextStep ==
  ASSUME IInv, LookAtText
  PROVE  IInv'
<1> USE DEF LookAtText
<1>1. TypeOK /\ Evidence /\ IsColumn(column) /\ column.type = "text"
  BY DEF IInv, TypeOK
<1>2. /\ Len(Values) \in Nat /\ DOMAIN Values = 1 .. Len(Values)
      /\ i \in Nat /\ i + 1 \in DOMAIN Values /\ Values' = Values
  BY <1>1, ColumnValues DEF TypeOK, Values
<1> DEFINE v == Values[i + 1]
<1>3. IsSlashDate(v) => v.a \in Nat /\ v.b \in Nat
  BY <1>1, <1>2, ColumnValues DEF IsSlashDate, Text
<1>4. TypeOK'
  <2>1. seen' \in BOOLEAN /\ day_first' \in BOOLEAN /\ month_first' \in BOOLEAN
    BY <1>1, Zenon DEF TypeOK
  <2>2. i' \in 0 .. Len(Values)
    BY <1>2
  <2>3. UNCHANGED <<column, pc, order, max>> /\ pc = "infer"
    OBVIOUS
  <2> HIDE DEF LookAtText
  <2> QED BY <1>1, <1>2, <2>1, <2>2, <2>3 DEF TypeOK
<1>5. Evidence'
  <2>1. CASE IsSlashDate(v)
    <3>1. /\ seen' /\ day_first' = (day_first \/ v.a > 12)
          /\ month_first' = (month_first \/ v.b > 12) /\ i' = i + 1 /\ pc' = "infer"
      BY <2>1 DEF TooLargeForAMonth
    <3>2. \A n \in 1 .. i' : n \in 1 .. i \/ n = i + 1
      BY <1>2, <3>1
    <3>3. \A n \in 1 .. i : n \in 1 .. i'
      BY <1>2, <3>1
    <3>4. i + 1 \in 1 .. i'
      BY <1>2, <3>1
    <3> QED BY <1>1, <1>2, <2>1, <3>1, <3>2, <3>3, <3>4 DEF Evidence
  <2>2. CASE ~IsSlashDate(v)
    <3>1. /\ UNCHANGED <<seen, day_first, month_first>> /\ i' = i + 1 /\ pc' = "infer"
      BY <2>2
    <3>2. \A n \in 1 .. i' : n \in 1 .. i \/ n = i + 1
      BY <1>2, <3>1
    <3>3. \A n \in 1 .. i : n \in 1 .. i'
      BY <1>2, <3>1
    <3> QED BY <1>1, <1>2, <2>2, <3>1, <3>2, <3>3 DEF Evidence
  <2> QED BY <2>1, <2>2
<1>6. pc' = "infer"
  OBVIOUS
<1> QED
  BY <1>4, <1>5, <1>6 DEF IInv, TextsAreRead, NumbersAreScaled, NoNulls, SoundDatesConvert

\* A column that proves both orders is sound in neither.
LEMMA RefuseMixtureStep ==
  ASSUME IInv, RefuseMixture
  PROVE  IInv'
<1> USE DEF RefuseMixture
<1>1. TypeOK /\ Evidence /\ IsColumn(column) /\ column.type = "text"
  BY DEF IInv, TypeOK
<1>2. DOMAIN Values = 1 .. i /\ Values' = Values /\ column' = column
  BY <1>1, ColumnValues DEF Values
<1>3. PICK m \in DOMAIN Values : IsSlashDate(Values[m]) /\ Values[m].a > 12
  BY <1>1, <1>2 DEF Evidence
<1>4. PICK n \in DOMAIN Values : IsSlashDate(Values[n]) /\ Values[n].b > 12
  BY <1>1, <1>2 DEF Evidence
<1>5. Values[m] \in Text /\ Values[n] \in Text
  BY <1>1, <1>3, <1>4, ColumnValues DEF IsSlashDate
<1>6. ASSUME NEW o \in Orders, Sound(o) PROVE FALSE
  <2>1. ASSUME NEW k \in DOMAIN Values, IsSlashDate(Values[k])
        PROVE  Cast(DateIn(Values[k], o)) # None
    <3>1. Cast(IF IsSlashDate(Values[k]) THEN DateIn(Values[k], o)
               ELSE MonthThenDay(Values[k])) # None
      BY <1>6 DEF Sound
    <3>2. (IF IsSlashDate(Values[k]) THEN DateIn(Values[k], o)
           ELSE MonthThenDay(Values[k])) = DateIn(Values[k], o)
      BY <2>1
    <3> QED BY <3>1, <3>2
  <2>2. DateIn(Values[m], o).month <= 12 /\ DateIn(Values[n], o).month <= 12
    <3>1. Cast(DateIn(Values[m], o)) # None /\ Cast(DateIn(Values[n], o)) # None
      BY <1>3, <1>4, <2>1
    <3>2. DateIn(Values[m], o) \in Date /\ DateIn(Values[n], o) \in Date
      BY <1>5, DatesOfAText
    <3>3. DateIn(Values[m], o).month \in 1 .. 12 /\ DateIn(Values[n], o).month \in 1 .. 12
      BY <3>1, <3>2, CastOfADate
    <3> QED BY <3>3
  <2>3. Values[m].a \in Nat /\ Values[n].b \in Nat
    BY <1>5 DEF Text
  <2> QED BY <1>3, <1>4, <1>5, <2>2, <2>3, DatesOfAText DEF Orders
<1>7. SoundDatesConvert'
  BY <1>2, <1>6 DEF SoundDatesConvert, Sound
<1>8. TypeOK'
  BY <1>1, <1>2 DEF TypeOK
<1> QED
  BY <1>7, <1>8 DEF IInv, Evidence, TextsAreRead, NumbersAreScaled, NoNulls

\* The order decided fits every date.
LEMMA DecideOrderStep ==
  ASSUME IInv, DecideOrder
  PROVE  IInv'
<1> USE DEF DecideOrder
<1>1. TypeOK /\ Evidence /\ IsColumn(column) /\ column.type = "text"
  BY DEF IInv, TypeOK
<1>2. DOMAIN Values = 1 .. i /\ Values' = Values /\ column' = column
  BY <1>1, ColumnValues DEF Values
<1>3. None # "DayFirst"
  BY NullAssumption
<1>4. \A n \in DOMAIN Values : IsSlashDate(Values[n]) =>
        Values[n].a \in Nat /\ Values[n].b \in Nat
  BY <1>1, ColumnValues DEF IsSlashDate, Text
<1>5. OrderFits'
  <2> SUFFICES ASSUME NEW n \in DOMAIN Values, IsSlashDate(Values[n])
               PROVE  IF order' = "DayFirst" THEN Values[n].b <= 12 ELSE Values[n].a <= 12
    BY <1>2 DEF OrderFits, IsSlashDate
  <2>1. /\ seen
        /\ Values[n].a > 12 => day_first
        /\ Values[n].b > 12 => month_first
    BY <1>1, <1>2 DEF Evidence
  <2>2. order' = IF day_first THEN "DayFirst" ELSE "MonthFirst"
    BY <2>1
  <2>3. CASE day_first
    BY <1>4, <2>1, <2>2, <2>3
  <2>4. CASE ~day_first
    BY <1>4, <2>1, <2>2, <2>4
  <2> QED BY <2>3, <2>4
<1>6. TypeOK'
  BY <1>1, <1>2 DEF TypeOK, Orders
<1> QED
  BY <1>5, <1>6 DEF IInv, Evidence, TextsAreRead, NumbersAreScaled, NoNulls, SoundDatesConvert

\* Rewriting the next text keeps the invariant: the order it is read in fits the texts looked at.
LEMMA RewriteStep ==
  ASSUME IInv, Rewrite
  PROVE  IInv'
<1> USE DEF Rewrite
<1>1. TypeOK /\ OrderFits /\ column.type = "text"
  BY DEF IInv, TypeOK, TextsAreRead
<1>2. Values' = Values /\ column' = column /\ order' = order
  BY DEF Values
<1>3. OrderFits'
  BY <1>1, <1>2 DEF OrderFits
<1>4. TextsAreRead'
  BY <1>2, <1>3 DEF TextsAreRead
<1>5. TypeOK'
  BY <1>1, <1>2 DEF TypeOK
<1> QED
  BY <1>1, <1>2, <1>4, <1>5 DEF IInv, Evidence, NumbersAreScaled, NoNulls, SoundDatesConvert

\* Looking at one more number keeps the largest of those looked at.
LEMMA LookAtNumberStep ==
  ASSUME IInv, LookAtNumber
  PROVE  IInv'
<1> USE DEF LookAtNumber
<1>1. TypeOK /\ LargestSoFar /\ IsColumn(column) /\ column.type = "number"
  BY DEF IInv, TypeOK, NumbersAreScaled
<1>2. /\ Len(Values) \in Nat /\ DOMAIN Values = 1 .. Len(Values)
      /\ i \in Nat /\ i + 1 \in DOMAIN Values /\ Values' = Values /\ max \in Nat \cup {Inf}
  BY <1>1, ColumnValues DEF TypeOK, Values
<1> DEFINE v == Values[i + 1]
<1>3. Inf \notin Int
  BY SpecialAssumption DEF Specials
<1>4. max' = IF v = Inf \/ (v \in Int /\ max # Inf /\ v > max) THEN v ELSE max
  OBVIOUS
<1> HIDE DEF v, LookAtNumber
<1>5. /\ max' \in Nat \cup {Inf} /\ (max' = max \/ max' = v)
      /\ v \in Int => max' = Inf \/ v <= max'
      /\ \A n \in Int : (max = Inf \/ n <= max) => (max' = Inf \/ n <= max')
  <2>1. CASE v = Inf
    BY <1>3, <1>4, <2>1
  <2>2. CASE v # Inf /\ v \in Int /\ max # Inf /\ v > max
    BY <1>2, <1>3, <1>4, <2>2
  <2>3. CASE v # Inf /\ ~(v \in Int /\ max # Inf /\ v > max)
    BY <1>2, <1>3, <1>4, <2>3
  <2> QED BY <2>1, <2>2, <2>3
<1> USE DEF v, LookAtNumber
<1>6. \A n \in 1 .. i' : n \in 1 .. i \/ n = i + 1
  BY <1>2
<1>7. (1 .. i) \subseteq (1 .. i') /\ i + 1 \in 1 .. i'
  BY <1>2
<1>8. LargestSoFar'
  <2>1. \A n \in 1 .. i' : Values[n] \in Int => max' = Inf \/ Values[n] <= max'
    BY <1>1, <1>2, <1>5, <1>6 DEF LargestSoFar
  <2>2. max' = 0 \/ \E n \in 1 .. i' : Values[n] = max'
    BY <1>1, <1>5, <1>7 DEF LargestSoFar
  <2> QED BY <1>2, <2>1, <2>2 DEF LargestSoFar
<1>9. TypeOK'
  BY <1>1, <1>2, <1>5 DEF TypeOK
<1> QED
  BY <1>8, <1>9 DEF IInv, Evidence, TextsAreRead, NumbersAreScaled, NoNulls, SoundDatesConvert

\* Scaling the column, whose largest number is then known, establishes what is said of numbers.
LEMMA ScaleStep ==
  ASSUME IInv, Scale
  PROVE  IInv'
<1> USE DEF Scale
<1>1. TypeOK /\ LargestSoFar /\ column.type = "number"
  BY DEF IInv, TypeOK, NumbersAreScaled
<1>2. Values' = Values /\ column' = column /\ max' = max /\ i' = i
  BY DEF Values
<1>3. LargestSoFar'
  BY <1>1, <1>2 DEF LargestSoFar
<1>4. NumbersAreScaled'
  BY <1>2, <1>3 DEF NumbersAreScaled
<1>5. TypeOK'
  BY <1>1, <1>2 DEF TypeOK
<1> QED
  BY <1>1, <1>2, <1>4, <1>5 DEF IInv, Evidence, TextsAreRead, NoNulls, SoundDatesConvert

\* A sound text column has no null when it is built.
LEMMA BuildStep ==
  ASSUME IInv, Build
  PROVE  IInv'
<1> USE DEF Build
<1>1. TypeOK /\ IsColumn(column) /\ TextsAreRead /\ NumbersAreScaled /\ pc = "build"
  BY DEF IInv, TypeOK
<1>2. UNCHANGED <<column, i, order, max, out>> /\ Values' = Values
  BY DEF Values
<1>3. pc' \in {"converted", "failed"}
  OBVIOUS
<1>4. TypeOK'
  BY <1>1, <1>2, <1>3 DEF TypeOK
<1>5. TextsAreRead'
  BY <1>1, <1>2, <1>3 DEF TextsAreRead, OrderFits
<1>6. NumbersAreScaled'
  BY <1>1, <1>2, <1>3 DEF NumbersAreScaled, LargestSoFar
<1>7. NoNulls'
  BY <1>2 DEF NoNulls
<1>8. SoundDatesConvert'
  <2> SUFFICES ASSUME column.type = "text", NEW o \in Orders, Sound(o), pc' = "failed"
               PROVE  FALSE
    BY <1>2 DEF SoundDatesConvert, Sound
  <2>1. /\ OrderFits
        /\ out = [n \in DOMAIN Values |-> ReadText(Values[n], order)]
    BY <1>1 DEF TextsAreRead
  <2>2. PICK n \in DOMAIN Values : ReadText(Values[n], order) = None
    BY <2>1
  <2> DEFINE v == Values[n]
  <2>3. /\ v # None /\ v.time = "ok" /\ v.shape \in {"slash", "ymd", "iso"} /\ v \in Text
        /\ Cast(IF IsSlashDate(v) THEN DateIn(v, o) ELSE MonthThenDay(v)) # None
    BY <1>1, ColumnValues DEF Sound
  <2>4. CASE v.shape = "slash"
    <3>1. ReadText(v, order) = Cast(DateIn(v, order))
      BY <2>3, <2>4 DEF ReadText
    <3>2. Cast(DateIn(v, o)) # None
      BY <2>3, <2>4 DEF IsSlashDate
    <3>3. IF order = "DayFirst" THEN v.b <= 12 ELSE v.a <= 12
      BY <2>1, <2>3, <2>4 DEF OrderFits, IsSlashDate
    <3> QED BY <2>2, <2>3, <3>1, <3>2, <3>3, FittingOrderReads
  <2>5. CASE v.shape # "slash"
    <3>1. ReadText(v, order) = Cast(MonthThenDay(v))
      BY <2>3, <2>5 DEF ReadText
    <3> QED BY <2>2, <2>3, <2>5, <3>1 DEF IsSlashDate
  <2> QED BY <2>4, <2>5
<1> QED
  BY <1>3, <1>4, <1>5, <1>6, <1>7, <1>8 DEF IInv, Evidence

\* The two steps that leave "start".
LEMMA FirstSteps ==
  ASSUME IInv, CastTyped \/ Begin
  PROVE  IInv'
<1>1. TypeOK /\ IsColumn(column) /\ pc = "start"
  BY DEF IInv, TypeOK, CastTyped, Begin
<1>2. i = 0 /\ max = 0 /\ ~seen /\ ~day_first /\ ~month_first
  BY <1>1 DEF TypeOK
<1>3. UNCHANGED <<column, i, seen, day_first, month_first, order, max>>
  BY DEF CastTyped, Begin
<1>4. Values' = Values
  BY <1>3 DEF Values
<1>5. CASE CastTyped
  <2>1. pc' = "build" /\ column.type = "typed"
    BY <1>5 DEF CastTyped
  <2>2. TypeOK'
    BY <1>1, <1>3, <1>4, <2>1 DEF TypeOK
  <2> QED
    BY <1>3, <2>1, <2>2 DEF IInv, Evidence, TextsAreRead, NumbersAreScaled, NoNulls, SoundDatesConvert
<1>6. CASE Begin
  <2>1. /\ column.type = "text" => pc' = "infer"
        /\ column.type # "text" => column.type = "number" /\ pc' = "max"
    BY <1>1, <1>6, ColumnValues DEF Begin
  <2>2. TypeOK'
    BY <1>1, <1>3, <1>4, <2>1 DEF TypeOK
  <2>3. Evidence'
    BY <1>2, <1>3 DEF Evidence
  <2>4. LargestSoFar'
    BY <1>2, <1>3 DEF LargestSoFar
  <2> QED
    BY <2>1, <2>2, <2>3, <2>4 DEF IInv, TextsAreRead, NumbersAreScaled, NoNulls, SoundDatesConvert
<1> QED BY <1>5, <1>6

\* A step that changes nothing keeps the invariant.
LEMMA StutteringStep ==
  ASSUME IInv, UNCHANGED vars
  PROVE  IInv'
<1>1. Values' = Values
  BY DEF vars, Values
<1> QED
  BY <1>1 DEF vars, IInv, TypeOK, Evidence, TextsAreRead, OrderFits, NumbersAreScaled,
              LargestSoFar, NoNulls, SoundDatesConvert, Sound

\* The inductive invariant of a timestamp column.
THEOREM InductiveInvariant == Spec => []IInv
<1>1. Init => IInv
  BY InitInvariant
<1>2. IInv /\ [Next]_vars => IInv'
  BY FirstSteps, LookAtTextStep, RefuseMixtureStep, DecideOrderStep, RewriteStep,
     LookAtNumberStep, ScaleStep, BuildStep, StutteringStep DEF Next
<1> QED BY <1>1, <1>2, PTL DEF Spec

-----------------------------------------------------------------------------
(* The properties *)

\* infer_slash_date_order never refuses a column that some order explains, and
\* the order it decides leaves no date of such a column null.
THEOREM SoundColumnsConvert == Spec => []SoundDatesConvert
<1>1. IInv => SoundDatesConvert
  BY DEF IInv
<1> QED BY <1>1, InductiveInvariant, PTL

\* A text column that converts was read in one order, in which every date of
\* it exists (canonicalize.rs:489-555).
THEOREM ReadInOneOrder == Spec => []OneOrderForAll
<1>1. ASSUME IInv PROVE OneOrderForAll
  <2> SUFFICES ASSUME pc = "converted", column.type = "text"
               PROVE  \E o \in Orders :
                        /\ Sound(o)
                        /\ out = [n \in DOMAIN Values |->
                                   IF IsSlashDate(Values[n]) THEN DateIn(Values[n], o)
                                   ELSE MonthThenDay(Values[n])]
    BY DEF OneOrderForAll
  <2>1. IsColumn(column) /\ order \in Orders \cup {None}
    BY <1>1 DEF IInv, TypeOK
  <2>2. /\ out = [n \in DOMAIN Values |-> ReadText(Values[n], order)]
        /\ \A n \in DOMAIN out : out[n] # None
    BY <1>1 DEF IInv, TextsAreRead, NoNulls
  <2> DEFINE o == IF order = "DayFirst" THEN "DayFirst" ELSE "MonthFirst"
             date(n) == IF IsSlashDate(Values[n]) THEN DateIn(Values[n], o)
                        ELSE MonthThenDay(Values[n])
  <2>3. ASSUME NEW n \in DOMAIN Values
        PROVE  /\ Values[n] # None /\ Values[n].time = "ok"
               /\ Values[n].shape \in {"slash", "ymd", "iso"}
               /\ Cast(date(n)) # None /\ out[n] = date(n)
    <3> DEFINE v == Values[n]
    <3>1. ReadText(v, order) # None /\ out[n] = ReadText(v, order)
      BY <2>2
    <3>2. v # None
      BY <3>1 DEF ReadText
    <3>3. v \in Text
      BY <2>1, <3>2, ColumnValues
    <3>4. v.time = "ok"
      BY <3>1, <3>3 DEF ReadText, Text
    <3>5. v.shape \in {"slash", "ymd", "iso"}
      BY <3>1, <3>2, <3>4 DEF ReadText
    <3>6. DateIn(v, order) = DateIn(v, o)
      <4>1. o = "DayFirst" <=> order = "DayFirst"
        OBVIOUS
      <4> HIDE DEF o
      <4> QED BY <4>1 DEF DateIn
    <3>7. ReadText(v, order) = Cast(date(n))
      <4>1. CASE v.shape = "slash"
        BY <3>2, <3>4, <3>6, <4>1 DEF ReadText, IsSlashDate
      <4>2. CASE v.shape \in {"ymd", "iso"}
        BY <3>2, <3>4, <4>2 DEF ReadText, IsSlashDate
      <4> QED BY <3>5, <4>1, <4>2
    <3>8. Cast(date(n)) = date(n)
      BY <3>1, <3>3, <3>7, CastOfADate, DatesOfAText
    <3> QED BY <3>1, <3>2, <3>4, <3>5, <3>7, <3>8
  <2>4. o \in Orders
    BY DEF Orders
  <2>5. Sound(o)
    BY <2>3 DEF Sound
  <2>6. out = [n \in DOMAIN Values |-> date(n)]
    BY <2>2, <2>3
  <2> QED BY <2>4, <2>5, <2>6
<1> QED BY <1>1, InductiveInvariant, PTL

\* Epoch numbers become the instants they stand for, whatever their unit, when
\* the largest lies between 1973 and 5138 (canonicalize.rs:585-602).
THEOREM EpochsAreConverted == Spec => []EpochsAreRight
<1>1. ASSUME IInv PROVE EpochsAreRight
  <2> SUFFICES ASSUME pc = "converted", column.type = "number",
                      NEW m \in DOMAIN Values, InTheEra(m),
                      NEW n \in DOMAIN Values, Values[n] \in Nat
               PROVE  out[n] = Instant(column.unit, Values[n])
    BY DEF EpochsAreRight
  <2>1. /\ LargestSoFar /\ i = Len(Values) /\ max \in Nat \cup {Inf} /\ IsColumn(column)
        /\ out = [k \in DOMAIN Values |-> Micros(Values[k], max)]
    BY <1>1 DEF IInv, TypeOK, NumbersAreScaled
  <2>2. DOMAIN Values = 1 .. i /\ column.unit \in Units
    BY <2>1, ColumnValues
  <2>3. /\ Values[m] \in Int /\ Values[m] <= max /\ Values[n] <= Values[m] /\ max \in Nat
        /\ max = 0 \/ max <= Values[m]
    <3>1. /\ Values[m] \in Int
          /\ \A k \in DOMAIN Values :
               Values[k] # Inf /\ (Values[k] \in Int => Values[k] <= Values[m])
      BY DEF InTheEra
    <3>2. max = 0 \/ \E k \in DOMAIN Values : Values[k] = max
      BY <2>1, <2>2 DEF LargestSoFar
    <3>3. max # Inf
      BY <3>1, <3>2, SpecialAssumption DEF Specials
    <3>4. max \in Nat
      BY <2>1, <3>3
    <3> QED BY <2>1, <2>2, <3>1, <3>2, <3>3, <3>4 DEF LargestSoFar
  <2>4. max = Values[m]
    BY <2>1, <2>3
  <2>5. Guess(max) = column.unit /\ Instant(column.unit, max) < Threshold * 1000000
    BY <2>2, <2>3, <2>4, GuessIsRight DEF InTheEra
  <2>6. Micros(Values[n], max) = Instant(column.unit, Values[n])
    BY <2>2, <2>3, <2>4, <2>5, GuessedMicros
  <2> QED BY <2>1, <2>6
<1> QED BY <1>1, InductiveInvariant, PTL

=============================================================================
