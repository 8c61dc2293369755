----------------------------- MODULE Ocsf_proofs -----------------------------
(***************************************************************************)
(* Proofs about the OCSF reader, for every set of texts and every          *)
(* threshold: a text that parses is read as a whole, the loop keeps the    *)
(* flows of the close events up to its index, and every event is counted.  *)
(***************************************************************************)
EXTENDS OcsfProps, FiniteSetTheorems, SequenceTheorems, TLAPS

\* A text is a finite sequence of items.
LEMMA TextType ==
  ASSUME text \in Texts
  PROVE  /\ text.items \in Seq(ToSet(text.items)) /\ Len(text.items) \in Nat
         /\ DOMAIN text.items = 1 .. Len(text.items)
         /\ IsFiniteSet(Closes) /\ Closes \subseteq 1 .. Len(text.items)
<1>1. /\ text.items \in Seq(ToSet(text.items)) /\ Len(text.items) \in Nat
      /\ DOMAIN text.items = 1 .. Len(text.items)
  BY TextAssumption, LenProperties
<1>2. Closes \subseteq 1 .. Len(text.items)
  BY <1>1 DEF Closes
<1>3. 1 \in Int /\ Len(text.items) \in Int
  BY <1>1
<1>4. IsFiniteSet(1 .. Len(text.items))
  BY <1>3, FS_Interval
<1>5. IsFiniteSet(Closes)
  BY <1>2, <1>4, FS_Subset
<1> QED BY <1>1, <1>2, <1>5

\* The rank of an index is the number of flows so far, and grows with each.
LEMMA RankStep ==
  ASSUME text \in Texts, NEW n \in Nat
  PROVE  /\ Rank(n) \in Nat
         /\ n + 1 \in Closes => /\ ClosesUpTo(n + 1) = ClosesUpTo(n) \cup {n + 1}
                                /\ Rank(n + 1) = Rank(n) + 1
         /\ n + 1 \notin Closes => ClosesUpTo(n + 1) = ClosesUpTo(n)
<1>1. IsFiniteSet(Closes) /\ \A m \in Closes : m \in Nat
  BY TextType
<1>2. IsFiniteSet(ClosesUpTo(n))
  BY <1>1, FS_Subset DEF ClosesUpTo
<1>3. Rank(n) \in Nat
  BY <1>2, FS_CardinalityType DEF Rank
<1>4. n + 1 \notin ClosesUpTo(n)
  BY DEF ClosesUpTo
<1>5. n + 1 \in Closes => ClosesUpTo(n + 1) = ClosesUpTo(n) \cup {n + 1}
  BY <1>1 DEF ClosesUpTo
<1>6. n + 1 \in Closes => Rank(n + 1) = Rank(n) + 1
  BY <1>2, <1>4, <1>5, FS_AddElement DEF Rank
<1>7. n + 1 \notin Closes => ClosesUpTo(n + 1) = ClosesUpTo(n)
  BY <1>1 DEF ClosesUpTo
<1> QED BY <1>3, <1>5, <1>6, <1>7

\* The place of a close event is among those of the close events before n.
LEMMA RankBound ==
  ASSUME text \in Texts, NEW n \in Nat, NEW m \in ClosesUpTo(n)
  PROVE  Rank(m) \in 1 .. Rank(n)
<1>1. /\ IsFiniteSet(Closes) /\ \A k \in Closes : k \in Nat
      /\ m \in Closes /\ m \in Nat /\ m <= n
  BY TextType DEF ClosesUpTo
<1>2. ClosesUpTo(m) \subseteq ClosesUpTo(n) /\ m \in ClosesUpTo(m)
  <2>1. ASSUME NEW k \in ClosesUpTo(m) PROVE k \in ClosesUpTo(n)
    <3>1. k \in Closes /\ k <= m
      BY DEF ClosesUpTo
    <3>2. k \in Nat /\ k <= n
      BY <1>1, <3>1
    <3> QED BY <3>1, <3>2 DEF ClosesUpTo
  <2>2. m \in ClosesUpTo(m)
    BY <1>1 DEF ClosesUpTo
  <2> QED BY <2>1, <2>2
<1>3. IsFiniteSet(ClosesUpTo(n)) /\ IsFiniteSet(ClosesUpTo(m))
  BY <1>1, FS_Subset DEF ClosesUpTo
<1>4. Rank(m) <= Rank(n) /\ Rank(m) \in Nat /\ Rank(n) \in Nat
  BY <1>2, <1>3, FS_Subset, FS_CardinalityType DEF Rank
<1>5. Rank(m) # 0
  BY <1>2, <1>3, FS_EmptySet DEF Rank
<1> QED BY <1>4, <1>5

\* At the end of the text nothing is left out.
LEMMA RankOfAll ==
  ASSUME text \in Texts
  PROVE  /\ ClosesUpTo(Len(text.items)) = Closes
         /\ Rank(Len(text.items)) = Cardinality(Closes)
         /\ Cardinality(Closes) \in Nat
         /\ Cardinality(Closes) = 0 <=> Closes = {}
<1>1. ClosesUpTo(Len(text.items)) = Closes
  BY TextType DEF ClosesUpTo
<1>2. Cardinality(Closes) \in Nat /\ (Cardinality(Closes) = 0 <=> Closes = {})
  BY TextType, FS_CardinalityType, FS_EmptySet
<1> QED BY <1>1, <1>2 DEF Rank

-----------------------------------------------------------------------------
\* A text is parsed as a whole or refused, and refused only for a damaged item
\* or for having none.
LEMMA ParsedMeansWhole ==
  ASSUME text \in Texts
  PROVE  /\ ParseEvents # None => ParseEvents = text.items /\ Bad \notin ToSet(text.items)
         /\ ParseEvents = None => ~Intact
<1>1. /\ text.items \in Seq(ToSet(text.items)) /\ Len(text.items) \in Nat
      /\ DOMAIN text.items = 1 .. Len(text.items) /\ text.items # None
      /\ text.layout \in Layouts
      /\ text.layout = "blank" => text.items = <<>>
      /\ text.layout = "object" => Len(text.items) = 1
      /\ text.layout = "lines" => text.items # <<>>
  BY TextType, TextAssumption
<1>2. \A n \in 1 .. Len(text.items) : text.items[n] \in ToSet(text.items)
  BY <1>1 DEF ToSet
<1>3. Len(text.items) = 1 => /\ text.items = <<text.items[1]>>
                             /\ ToSet(text.items) = {text.items[1]}
  BY <1>1 DEF ToSet
<1>4. CASE text.layout = "blank"
  <2>1. Closes = {}
    BY <1>1, <1>4 DEF Closes
  <2> QED BY <1>4, <2>1 DEF ParseEvents, IsBlank, Intact
<1>5. CASE text.layout = "array"
  BY <1>1, <1>5 DEF ParseEvents, IsBlank, StartsWithBracket, Intact
<1>6. CASE text.layout = "object"
  <2>1. Whole = text.items[1] /\ Bad \in ToSet(Lines)
    BY <1>1, <1>6 DEF Whole, Lines, ToSet
  <2> QED BY <1>1, <1>3, <1>6, <2>1
          DEF ParseEvents, IsBlank, StartsWithBracket, Intact
<1>7. CASE text.layout = "lines"
  <2>1. Lines = text.items /\ Lines # <<>>
    BY <1>1, <1>7 DEF Lines
  <2>2. CASE Whole # Bad
    <3>1. Len(text.items) = 1 /\ Whole = text.items[1]
      BY <2>2 DEF Whole
    <3> QED BY <1>1, <1>3, <1>7, <2>2, <3>1
            DEF ParseEvents, IsBlank, StartsWithBracket, Intact
  <2>3. CASE Whole = Bad
    BY <1>1, <1>7, <2>1, <2>3 DEF ParseEvents, IsBlank, StartsWithBracket, Intact
  <2> QED BY <2>2, <2>3
<1> QED BY <1>1, <1>4, <1>5, <1>6, <1>7 DEF Layouts

\* What the loop takes for a close event is one, and what it refuses lacks data.
LEMMA EventIsItem ==
  ASSUME IInv, AtEvent
  PROVE  /\ i \in Nat /\ i + 1 \in 1 .. Len(events)
         /\ events = text.items /\ text \in Texts
         /\ Event = text.items[i + 1] /\ Event # Bad
         /\ IsWanted <=> i + 1 \in Closes
         /\ MissingData(Event) <=> ~IsComplete(text.items[i + 1])
<1>1. /\ events = text.items /\ text \in Texts /\ Bad \notin ToSet(text.items)
      /\ i \in 0 .. Len(events) /\ i < Len(events)
  BY DEF IInv, AtEvent
<1>2. /\ Len(text.items) \in Nat /\ DOMAIN text.items = 1 .. Len(text.items)
  BY <1>1, TextType
<1>3. i \in Nat /\ i + 1 \in 1 .. Len(events)
  BY <1>1, <1>2
<1>4. Event = text.items[i + 1] /\ Event \in ToSet(text.items) /\ Event # Bad
  BY <1>1, <1>2, <1>3 DEF Event, ToSet
<1>5. IsWanted <=> i + 1 \in Closes
  BY <1>1, <1>2, <1>3, <1>4, Zenon
     DEF IsWanted, IsNetworkActivity, IsFlowClose, Closes, IsClose, IsActivity
<1>6. MissingData(Event) <=> ~IsComplete(text.items[i + 1])
  BY <1>4, Zenon DEF MissingData, IsComplete
<1> QED BY <1>1, <1>3, <1>4, <1>5, <1>6

\* Every event is of one kind, and the events skipped grow with those that are.
LEMMA SkippedStep ==
  ASSUME NEW n \in Nat
  PROVE  /\ ~IsActivity(events[n + 1]) =>
              /\ Cardinality(NonActivities(n + 1)) = Cardinality(NonActivities(n)) + 1
              /\ Cardinality(NonCloses(n + 1)) = Cardinality(NonCloses(n))
         /\ IsActivity(events[n + 1]) /\ ~IsClose(events[n + 1]) =>
              /\ Cardinality(NonActivities(n + 1)) = Cardinality(NonActivities(n))
              /\ Cardinality(NonCloses(n + 1)) = Cardinality(NonCloses(n)) + 1
         /\ IsClose(events[n + 1]) =>
              /\ Cardinality(NonActivities(n + 1)) = Cardinality(NonActivities(n))
              /\ Cardinality(NonCloses(n + 1)) = Cardinality(NonCloses(n))
<1>1. IsFiniteSet(1 .. n) /\ n + 1 \notin 1 .. n /\ 1 .. (n + 1) = (1 .. n) \cup {n + 1}
  BY FS_Interval
<1>2. IsFiniteSet(NonActivities(n)) /\ IsFiniteSet(NonCloses(n))
  BY <1>1, FS_Subset DEF NonActivities, NonCloses
<1>3. n + 1 \notin NonActivities(n) /\ n + 1 \notin NonCloses(n)
  BY <1>1 DEF NonActivities, NonCloses
<1>4. NonActivities(n + 1)
        = IF IsActivity(events[n + 1]) THEN NonActivities(n) ELSE NonActivities(n) \cup {n + 1}
  BY <1>1 DEF NonActivities
<1>5. NonCloses(n + 1)
        = IF IsActivity(events[n + 1]) /\ ~IsClose(events[n + 1])
          THEN NonCloses(n) \cup {n + 1} ELSE NonCloses(n)
  BY <1>1 DEF NonCloses
<1>6. /\ Cardinality(NonActivities(n) \cup {n + 1}) = Cardinality(NonActivities(n)) + 1
      /\ Cardinality(NonCloses(n) \cup {n + 1}) = Cardinality(NonCloses(n)) + 1
  BY <1>2, <1>3, FS_AddElement
<1>7. IsClose(events[n + 1]) => IsActivity(events[n + 1])
  BY DEF IsClose
<1> QED BY <1>4, <1>5, <1>6, <1>7

\* Before the loop there are none.
LEMMA NoneSkipped == Cardinality(NonActivities(0)) = 0 /\ Cardinality(NonCloses(0)) = 0
<1>1. NonActivities(0) = {} /\ NonCloses(0) = {}
  BY DEF NonActivities, NonCloses
<1> QED BY <1>1, FS_EmptySet

-----------------------------------------------------------------------------
(* The inductive invariant *)

\* Nothing is read of the text but what is in it.
LEMMA InitIInv == Init => IInv
<1> SUFFICES ASSUME Init PROVE IInv
  OBVIOUS
<1>1. summary \in Counts
  BY DEF Init, Counts
<1>2. flows \in Seq(Flows)
  BY EmptySeq DEF Init
<1>3. SummaryAddsUp
  <2>1. Len(<<>>) = 0
    OBVIOUS
  <2> QED BY <2>1, NoneSkipped DEF Init, SummaryAddsUp
<1> QED BY <1>1, <1>2, <1>3 DEF Init, IInv, IntactTextsConvert

\* Parsing takes the whole text or refuses a damaged one.
LEMMA ParseIInv ==
  ASSUME IInv, Parse
  PROVE  IInv'
<1>1. /\ text' = text /\ i' = i /\ flows' = flows /\ text \in Texts
      /\ i = 0 /\ flows = <<>> /\ flows \in Seq(Flows) /\ events = <<>>
      /\ summary \in Counts /\ pc = "parse" /\ SummaryAddsUp
  BY DEF IInv, Parse
<1>2. UNCHANGED <<Closes, Flows, Intact>>
  BY <1>1 DEF Closes, Flows, Intact
<1>3. CASE ParseEvents = None
  <2>1. pc' = "failed" /\ events' = events /\ summary' = summary
    BY <1>3 DEF Parse
  <2>2. ~Intact
    BY <1>1, <1>3, ParsedMeansWhole
  <2>3. SummaryAddsUp'
    BY <1>1, <2>1 DEF SummaryAddsUp, NonActivities, NonCloses
  <2> QED BY <1>1, <1>2, <2>1, <2>2, <2>3 DEF IInv, IntactTextsConvert, Counts
<1>4. CASE ParseEvents # None
  <2>1. /\ pc' = "loop" /\ events' = text.items
        /\ summary' = [summary EXCEPT !.total = Len(text.items)]
        /\ Bad \notin ToSet(text.items) /\ Len(text.items) \in Nat
    BY <1>1, <1>4, ParsedMeansWhole, TextType DEF Parse
  <2>2. summary' \in Counts
    BY <1>1, <2>1 DEF Counts
  <2>3. SummaryAddsUp'
    <3>1. /\ summary.skipped_non_activity + summary.skipped_non_close + Len(flows) = i
          /\ summary.skipped_non_activity = 0 /\ summary.skipped_non_close = 0
      BY <1>1, NoneSkipped DEF SummaryAddsUp
    <3>2. /\ summary'.total = Len(events')
          /\ summary'.skipped_non_activity = summary.skipped_non_activity
          /\ summary'.skipped_non_close = summary.skipped_non_close
      BY <1>1, <2>1 DEF Counts
    <3>3. NonActivities(0)' = {} /\ NonCloses(0)' = {}
      BY DEF NonActivities, NonCloses
    <3>4. NonActivities(i)' = {} /\ NonCloses(i)' = {}
      BY <1>1, <3>3 DEF NonActivities, NonCloses
    <3> QED BY <1>1, <2>1, <3>1, <3>2, <3>4, FS_EmptySet DEF SummaryAddsUp
  <2>4. ClosesUpTo(0) = {} /\ Rank(0) = 0
    <3>1. \A m \in Closes : m \in Nat /\ m >= 1
      BY <1>1, TextType
    <3>2. ClosesUpTo(0) = {}
      BY <3>1 DEF ClosesUpTo
    <3> QED BY <3>2, FS_EmptySet DEF Rank
  <2>5. ClosesUpTo(i)' = {} /\ Rank(i)' = 0 /\ Len(flows') = 0
    BY <1>1, <1>2, <2>4 DEF ClosesUpTo, Rank
  <2> QED BY <1>1, <1>2, <2>1, <2>2, <2>3, <2>5 DEF IInv, IntactTextsConvert, Counts
<1> QED BY <1>3, <1>4

\* A skipped event is counted and is no close event.
LEMMA SkipIInv ==
  ASSUME IInv, SkipNonActivity \/ SkipNonClose
  PROVE  IInv'
<1>1. AtEvent /\ UNCHANGED <<text, pc, events, flows>> /\ i' = i + 1 /\ ~IsWanted
  BY DEF SkipNonActivity, SkipNonClose, IsWanted
<1>2. /\ i \in Nat /\ i + 1 \in 1 .. Len(events) /\ text \in Texts
      /\ i + 1 \notin Closes
  BY <1>1, EventIsItem
<1>3. UNCHANGED <<Closes, Flows, Intact>>
  BY <1>1 DEF Closes, Flows, Intact
<1>4. ClosesUpTo(i + 1) = ClosesUpTo(i) /\ Rank(i + 1) = Rank(i)
  BY <1>2, RankStep DEF Rank
<1>5. ClosesUpTo(i)' = ClosesUpTo(i) /\ Rank(i)' = Rank(i)
  BY <1>1, <1>3, <1>4 DEF ClosesUpTo, Rank
<1>6. \A n : Rank(n)' = Rank(n)
  BY <1>3 DEF Rank, ClosesUpTo
<1>7. summary' \in Counts /\ SummaryAddsUp'
  <2>1. summary \in Counts /\ SummaryAddsUp /\ pc = "loop" /\ pc' = "loop"
    BY <1>1 DEF IInv, AtEvent
  <2>2. flows \in Seq(Flows) /\ Len(flows) \in Nat
    BY LenProperties DEF IInv
  <2>0. /\ NonActivities(i)' = NonActivities(i + 1) /\ NonCloses(i)' = NonCloses(i + 1)
        /\ Event = events[i + 1]
    BY <1>1 DEF NonActivities, NonCloses, Event
  <2>3. CASE SkipNonActivity
    <3>1. summary' = [summary EXCEPT !.skipped_non_activity = @ + 1]
      BY <2>3 DEF SkipNonActivity
    <3>2. ~IsActivity(events[i + 1])
      BY <2>0, <2>3 DEF SkipNonActivity, IsActivity, IsNetworkActivity
    <3>3. /\ Cardinality(NonActivities(i)') = Cardinality(NonActivities(i)) + 1
          /\ Cardinality(NonCloses(i)') = Cardinality(NonCloses(i))
      BY <1>2, <2>0, <3>2, SkippedStep
    <3> QED BY <1>1, <1>2, <2>1, <2>2, <3>1, <3>3 DEF Counts, SummaryAddsUp
  <2>4. CASE SkipNonClose
    <3>1. summary' = [summary EXCEPT !.skipped_non_close = @ + 1]
      BY <2>4 DEF SkipNonClose
    <3>2. IsActivity(events[i + 1]) /\ ~IsClose(events[i + 1])
      BY <2>0, <2>4, Zenon DEF SkipNonClose, IsActivity, IsNetworkActivity, IsFlowClose, IsClose
    <3>3. /\ Cardinality(NonActivities(i)') = Cardinality(NonActivities(i))
          /\ Cardinality(NonCloses(i)') = Cardinality(NonCloses(i)) + 1
      BY <1>2, <2>0, <3>2, SkippedStep
    <3> QED BY <1>1, <1>2, <2>1, <2>2, <3>1, <3>3 DEF Counts, SummaryAddsUp
  <2> QED BY <2>3, <2>4
<1>8. /\ pc = "loop" /\ events = text.items /\ Bad \notin ToSet(events)
      /\ i' \in 0 .. Len(events)
  BY <1>1, <1>2 DEF AtEvent, IInv
<1> QED BY <1>1, <1>2, <1>3, <1>5, <1>6, <1>7, <1>8 DEF IInv, IntactTextsConvert

\* The flow of a close event takes the place of its rank.
LEMMA ConvertIInv ==
  ASSUME IInv, Convert
  PROVE  IInv'
<1> DEFINE new == ToCanonical(text.items[i + 1])
<1>1. AtEvent /\ UNCHANGED <<text, pc, events, summary>> /\ i' = i + 1 /\ pc = "loop"
  BY DEF Convert, AtEvent
<1>2. /\ i \in Nat /\ i + 1 \in 1 .. Len(events) /\ text \in Texts
      /\ events = text.items /\ Bad \notin ToSet(events)
      /\ i + 1 \in Closes /\ IsComplete(text.items[i + 1]) /\ flows' = Append(flows, new)
  BY <1>1, EventIsItem DEF Convert, IInv
<1>3. UNCHANGED <<Closes, Flows, Intact>> /\ new \in Flows
  BY <1>1, <1>2 DEF Closes, Flows, Intact
<1>4. flows \in Seq(Flows) /\ Len(flows) = Rank(i) /\ Rank(i) \in Nat
  BY <1>1, <1>2, RankStep DEF IInv
<1> HIDE DEF new
<1>5. /\ flows' \in Seq(Flows) /\ Len(flows') = Len(flows) + 1
      /\ \A k \in 1 .. Len(flows) : flows'[k] = flows[k]
      /\ flows'[Len(flows) + 1] = new
  BY <1>2, <1>3, <1>4, AppendProperties
<1>6. /\ ClosesUpTo(i + 1) = ClosesUpTo(i) \cup {i + 1}
      /\ Rank(i + 1) = Rank(i) + 1
  BY <1>2, RankStep
<1>7. /\ \A n : Rank(n)' = Rank(n)
      /\ ClosesUpTo(i)' = ClosesUpTo(i + 1) /\ Rank(i)' = Rank(i + 1)
  BY <1>1, <1>3 DEF Rank, ClosesUpTo
<1>8. ASSUME NEW n \in ClosesUpTo(i + 1)
      PROVE  IsComplete(text.items[n]) /\ flows'[Rank(n)] = ToCanonical(text.items[n])
  <2>1. CASE n \in ClosesUpTo(i)
    <3>1. Rank(n) \in 1 .. Len(flows)
      BY <1>2, <1>4, <2>1, RankBound
    <3>2. IsComplete(text.items[n]) /\ flows[Rank(n)] = ToCanonical(text.items[n])
      BY <1>1, <2>1 DEF IInv
    <3> QED BY <1>5, <3>1, <3>2
  <2>2. CASE n = i + 1
    BY <1>2, <1>4, <1>5, <1>6, <2>2 DEF new
  <2> QED BY <1>6, <1>8, <2>1, <2>2
<1>9. SummaryAddsUp'
  <2>1. /\ summary.total = Len(events)
        /\ summary.skipped_non_activity + summary.skipped_non_close + Len(flows) = i
        /\ summary.skipped_non_activity \in Nat /\ summary.skipped_non_close \in Nat
        /\ Len(flows) \in Nat
    BY <1>4 DEF IInv, SummaryAddsUp, Counts
  <2>2. summary' = summary /\ events' = events /\ pc' # "converted"
    BY <1>1
  <2> DEFINE skipped == summary.skipped_non_activity + summary.skipped_non_close
             length == Len(flows)
  <2>3. skipped \in Nat /\ length \in Nat /\ skipped + length = i
    BY <2>1
  <2>4. Len(flows') = length + 1 /\ i' = i + 1
    BY <1>1, <1>5
  <2> HIDE DEF skipped, length
  <2>5. skipped + Len(flows') = i'
    BY <2>3, <2>4
  <2>6. /\ NonActivities(i)' = NonActivities(i + 1) /\ NonCloses(i)' = NonCloses(i + 1)
        /\ IsClose(events[i + 1])
    BY <1>1, <1>2 DEF NonActivities, NonCloses, Closes
  <2>7. /\ summary.skipped_non_activity = Cardinality(NonActivities(i)')
        /\ summary.skipped_non_close = Cardinality(NonCloses(i)')
    BY <1>2, <2>6, SkippedStep DEF IInv, SummaryAddsUp
  <2> USE DEF skipped
  <2> QED BY <2>1, <2>2, <2>5, <2>7 DEF SummaryAddsUp
<1>10. i' \in 0 .. Len(events)
  BY <1>1, <1>2
<1> QED BY <1>1, <1>2, <1>3, <1>4, <1>5, <1>6, <1>7, <1>8, <1>9, <1>10
        DEF IInv, IntactTextsConvert

\* A close event that lacks data refutes the text.
LEMMA RefuseIInv ==
  ASSUME IInv, RefuseMissing
  PROVE  IInv'
<1>1. /\ AtEvent /\ IsWanted /\ MissingData(Event) /\ pc' = "failed"
      /\ UNCHANGED <<text, events, i, flows, summary>>
  BY DEF RefuseMissing
<1>2. ~Intact
  BY <1>1, EventIsItem DEF Intact
<1>3. UNCHANGED <<Flows, Intact>> /\ SummaryAddsUp'
  BY <1>1 DEF Flows, Intact, Closes, SummaryAddsUp, NonActivities, NonCloses, IInv
<1> QED BY <1>1, <1>2, <1>3 DEF IInv, IntactTextsConvert, Counts

\* The end of the loop: there are flows exactly when there are close events.
LEMMA FinishIInv ==
  ASSUME IInv, Finish
  PROVE  IInv'
<1>1. /\ pc = "loop" /\ i = Len(events) /\ text \in Texts
      /\ UNCHANGED <<text, events, i, flows>>
      /\ summary' = [summary EXCEPT !.converted = Len(flows)]
      /\ pc' = IF SomeFlows THEN "converted" ELSE "failed"
      /\ events = text.items /\ summary \in Counts /\ SummaryAddsUp
  BY DEF IInv, Finish
<1>2. flows \in Seq(Flows) /\ Len(flows) = Cardinality(Closes) /\ Len(flows) \in Nat
  BY <1>1, RankOfAll DEF IInv
<1>3. SomeFlows <=> Closes # {}
  <2>1. flows = <<>> <=> Len(flows) = 0
    BY <1>2, EmptySeq
  <2> QED BY <1>1, <1>2, <2>1, RankOfAll DEF SomeFlows
<1>4. UNCHANGED <<Closes, Flows, Intact>>
  BY <1>1 DEF Closes, Flows, Intact
<1>5. ClosesUpTo(i)' = ClosesUpTo(i) /\ \A n : Rank(n)' = Rank(n)
  BY <1>1, <1>4 DEF Rank, ClosesUpTo
<1>6. Rank(i)' = Rank(i)
  BY <1>1, <1>5
<1>7. summary' \in Counts /\ SummaryAddsUp'
  BY <1>1, <1>2 DEF Counts, SummaryAddsUp, NonActivities, NonCloses
<1>8. IntactTextsConvert'
  BY <1>1, <1>3, <1>4 DEF IntactTextsConvert, Intact
<1>9. pc' \in {"converted", "failed"} /\ (pc' = "converted" => Closes # {})
  BY <1>1, <1>3
<1> QED BY <1>1, <1>2, <1>4, <1>5, <1>6, <1>7, <1>8, <1>9 DEF IInv

\* The inductive invariant holds in every reachable state.
THEOREM InductiveInvariant == Spec => []IInv
<1>1. IInv /\ [Next]_vars => IInv'
  <2> SUFFICES ASSUME IInv, [Next]_vars PROVE IInv'
    OBVIOUS
  <2>1. CASE UNCHANGED vars
    BY <2>1 DEF vars, IInv, Flows, Closes, ClosesUpTo, Rank, IntactTextsConvert, Intact,
                SummaryAddsUp, NonActivities, NonCloses
  <2> QED BY <2>1, ParseIInv, SkipIInv, ConvertIInv, RefuseIInv, FinishIInv DEF Next
<1> QED BY InitIInv, <1>1, PTL DEF Spec

-----------------------------------------------------------------------------
(* Theorems *)

\* Success means that the text was whole and every close event is in the output.
THEOREM NothingIsLost == Spec => []ConvertedMeansEverything
<1>1. IInv => ConvertedMeansEverything
  <2> SUFFICES ASSUME IInv, pc = "converted"
               PROVE  /\ Intact /\ Len(flows) = Cardinality(Closes)
                      /\ \A n \in Closes : flows[Rank(n)] = ToCanonical(text.items[n])
    BY DEF ConvertedMeansEverything
  <2>1. /\ text \in Texts /\ events = text.items /\ i = Len(events) /\ Closes # {}
        /\ Bad \notin ToSet(events)
    BY DEF IInv
  <2>2. ClosesUpTo(i) = Closes /\ Rank(i) = Cardinality(Closes)
    BY <2>1, RankOfAll
  <2> QED BY <2>1, <2>2 DEF IInv, Intact
<1> QED BY <1>1, InductiveInvariant, PTL

\* No intact text is refused.
THEOREM IntactTextsAlwaysConvert == Spec => []IntactTextsConvert
<1>1. IInv => IntactTextsConvert
  BY DEF IInv
<1> QED BY <1>1, InductiveInvariant, PTL

\* Every event is accounted for once and under its own kind, and the counts of a
\* conversion are those of all its events.
THEOREM SummariesAddUp == Spec => []SummaryAddsUp
<1>1. IInv => SummaryAddsUp
  BY DEF IInv
<1> QED BY <1>1, InductiveInvariant, PTL

\* On its side of the threshold a time is the instant it counts, in either unit.
THEOREM EitherUnitIsRight == Spec => []TimesAreRight
<1>1. ConvertedMeansEverything /\ text \in Texts => TimesAreRight
  <2> SUFFICES ASSUME ConvertedMeansEverything, text \in Texts, pc = "converted",
                      NEW n \in Closes
               PROVE  LET e == text.items[n]
                      IN \/ flows[Rank(n)].timestamp = e.at
                         \/ e.time = e.at /\ e.at < Threshold
                         \/ e.time # e.at /\ e.at >= Threshold * 1000
    BY DEF TimesAreRight
  <2> DEFINE e == text.items[n]
  <2>1. flows[Rank(n)].timestamp = ToMicros(e.time)
    <3>1. flows[Rank(n)] = ToCanonical(e)
      BY DEF ConvertedMeansEverything
    <3> HIDE DEF e
    <3>2. ToCanonical(e).timestamp = ToMicros(e.time)
      BY DEF ToCanonical
    <3> QED BY <3>1, <3>2
  <2>2. e \in ToSet(text.items) /\ e # Bad /\ e.time # None
    BY DEF Closes, IsClose, ToSet, ConvertedMeansEverything, Intact, IsComplete
  <2>3. /\ e.at \in Int /\ e.time \in Int
        /\ e.time = e.at \/ e.time * 1000 = e.at
        /\ Threshold \in Nat \ {0}
    BY <2>2, InstantAssumption
  <2> HIDE DEF e
  <2>4. \/ ToMicros(e.time) = e.at
        \/ e.time = e.at /\ e.at < Threshold
        \/ e.time # e.at /\ e.at >= Threshold * 1000
    BY <2>3 DEF ToMicros
  <2> QED BY <2>1, <2>4 DEF e
<1>2. IInv => text \in Texts
  BY DEF IInv
<1> QED BY <1>1, <1>2, InductiveInvariant, NothingIsLost, PTL

=============================================================================
