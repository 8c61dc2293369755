----------------------------- MODULE OcsfProps ------------------------------
(***************************************************************************)
(* "Partial or empty output must never look like success" (ocsf.rs:11-13), *)
(* over what a text holds.  Each event carries, as history, the instant in *)
(* microseconds it happened at (`at`); no step reads it.                   *)
(***************************************************************************)
EXTENDS Ocsf

\* An event that does not say otherwise is network activity.
IsActivity(e) == e.class_uid \in {None, NetworkActivity}

\* The close events of the text, however it is laid out.
IsClose(e) ==
  /\ e # Bad
  /\ IsActivity(e)
  /\ e.activity_id = Close \/ e.activity_name \in {"close", "closed"}

Closes == {n \in DOMAIN text.items : IsClose(text.items[n])}

ClosesUpTo(n) == {m \in Closes : m <= n}

\* The place of the n-th item's flow, when it has one.
Rank(n) == Cardinality(ClosesUpTo(n))

IsComplete(e) == e.src_ip # None /\ e.dest_ip # None /\ e.time # None

\* No item is damaged, some are close events, and all of those are complete.
Intact ==
  /\ Bad \notin ToSet(text.items)
  /\ Closes # {}
  /\ \A n \in Closes : IsComplete(text.items[n])

-----------------------------------------------------------------------------
\* Success says that every item of the text was read and every close event of
\* it is in the output, in order and once: one damaged item or incomplete
\* close event anywhere, in any layout, and there is no output.
ConvertedMeansEverything ==
  pc = "converted" =>
    /\ Intact
    /\ Len(flows) = Cardinality(Closes)
    /\ \A n \in Closes : flows[Rank(n)] = ToCanonical(text.items[n])

\* An intact text converts in each of the three layouts.
IntactTextsConvert == Intact => pc # "failed"

\* A time in milliseconds and one in microseconds give the same instant, as
\* long as each lies on its side of the threshold of 10^15: microseconds from
\* September 2001 on, milliseconds for as long as there are calendars.
TimesAreRight ==
  pc = "converted" =>
    \A n \in Closes :
      LET e == text.items[n]
      IN \/ flows[Rank(n)].timestamp = e.at
         \/ e.time = e.at /\ e.at < Threshold
         \/ e.time # e.at /\ e.at >= Threshold * 1000

\* The first n events by what they are skipped for.
NonActivities(n) == {m \in 1 .. n : ~IsActivity(events[m])}
NonCloses(n) == {m \in 1 .. n : IsActivity(events[m]) /\ ~IsClose(events[m])}

\* The summary accounts for every event exactly once and under its own kind, at
\* any time; and what is printed at the end adds up to all events of the text
\* (ocsf.rs:90-129).
SummaryAddsUp ==
  /\ summary.total = Len(events)
  /\ summary.skipped_non_activity = Cardinality(NonActivities(i))
  /\ summary.skipped_non_close = Cardinality(NonCloses(i))
  /\ summary.skipped_non_activity + summary.skipped_non_close + Len(flows) = i
  /\ pc = "converted" =>
       /\ i = summary.total /\ summary.total = Len(text.items)
       /\ summary.converted = Len(flows)

\* The inductive invariant behind all of the above: what was parsed is the
\* whole text, and the flows are those of the close events up to the i-th.
Flows == {ToCanonical(text.items[n]) : n \in {m \in Closes : IsComplete(text.items[m])}}

Counts == [{"total", "skipped_non_activity", "skipped_non_close", "converted"} -> Nat]

IInv ==
  /\ text \in Texts /\ pc \in {"parse", "loop", "converted", "failed"}
  /\ flows \in Seq(Flows) /\ summary \in Counts
  /\ pc = "parse" => events = <<>> /\ i = 0 /\ flows = <<>> /\ summary.total = 0
  /\ pc \in {"loop", "converted"} =>
       /\ events = text.items /\ Bad \notin ToSet(events) /\ i \in 0 .. Len(events)
       /\ Len(flows) = Rank(i)
       /\ \A n \in ClosesUpTo(i) :
            /\ IsComplete(text.items[n])
            /\ flows[Rank(n)] = ToCanonical(text.items[n])
  /\ pc = "converted" => i = Len(events) /\ Closes # {}
  /\ IntactTextsConvert /\ SummaryAddsUp

=============================================================================
