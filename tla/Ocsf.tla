-------------------------------- MODULE Ocsf --------------------------------
(***************************************************************************)
(* The OCSF reader (src/ocsf.rs): a text is read as an array, as one       *)
(* object or line by line, its events are classified one after another,    *)
(* and the flow-close events become canonical flows.                       *)
(*                                                                         *)
(* A text is its layout and its items, an item being the event that serde  *)
(* deserializes from it, or Bad: not JSON, or a field of another type than *)
(* OcsfEvent wants.  Which of the three readings succeeds on which layout  *)
(* is serde's answer, external.  A duration is counted in thousandths of a *)
(* second, so that milliseconds and seconds are the same number.           *)
(***************************************************************************)
EXTENDS Integers, SequencesExt

CONSTANTS
  Texts,      \* the inputs
  Threshold,  \* MICROSECOND_THRESHOLD
  MaxInt32,
  Bad,        \* an item that does not deserialize
  None        \* an absent field, an error

VARIABLES text, pc, events, i, flows, summary

vars == <<text, pc, events, i, flows, summary>>

NetworkActivity == 4001
Close == 2

-----------------------------------------------------------------------------
(* The three readings *)

\* What stands in a text: "lines" may have blank ones between the items, an
\* "object" goes over several lines, none of which is JSON by itself.
Layouts == {"blank", "array", "object", "lines"}

ASSUME TextAssumption ==
  \A t \in Texts :
    /\ t.layout \in Layouts /\ t.items \in Seq(ToSet(t.items)) /\ t.items # None
    /\ t.layout = "blank" => t.items = <<>>
    /\ t.layout = "object" => Len(t.items) = 1
    /\ t.layout = "lines" => t.items # <<>>

\* A source counts the instant `at` in microseconds or in milliseconds.
ASSUME InstantAssumption ==
  /\ Threshold \in Nat \ {0} /\ MaxInt32 \in Nat
  /\ \A t \in Texts : \A e \in ToSet(t.items) :
       e # Bad /\ e.time # None =>
         /\ e.at \in Int /\ e.time \in Int
         /\ e.time = e.at \/ e.time * 1000 = e.at

IsBlank == text.layout = "blank"
StartsWithBracket == text.layout = "array"

\* serde on the whole text, as one event.
Whole ==
  IF Len(text.items) = 1 /\ text.layout \in {"object", "lines"}
  THEN text.items[1] ELSE Bad

\* serde on each line that is not blank.
Lines ==
  CASE text.layout = "lines" -> text.items
    [] text.layout = "object" -> <<Bad, Bad>>
    [] OTHER -> <<>>

\* Mutant: lines that do not parse are left out.
ParseEventsLeniently ==
  CASE IsBlank -> None
    [] StartsWithBracket -> IF Bad \in ToSet(text.items) THEN None ELSE text.items
    [] OTHER -> IF Whole # Bad THEN <<Whole>>
                ELSE SelectSeq(Lines, LAMBDA e : e # Bad)

\* Mutant: after the array only the line by line reading is tried.
ParseEventsByLine ==
  CASE IsBlank -> None
    [] StartsWithBracket -> IF Bad \in ToSet(text.items) THEN None ELSE text.items
    [] OTHER -> IF Bad \in ToSet(Lines) \/ Lines = <<>> THEN None ELSE Lines

ParseEvents ==
  CASE IsBlank -> None
    [] StartsWithBracket -> IF Bad \in ToSet(text.items) THEN None ELSE text.items
    [] OTHER -> IF Whole # Bad THEN <<Whole>>
                ELSE IF Bad \in ToSet(Lines) \/ Lines = <<>> THEN None ELSE Lines

-----------------------------------------------------------------------------
(* One event *)

IsNetworkActivity(e) == e.class_uid \in {None, NetworkActivity}

\* The number or the name says so, whatever the other says.
IsFlowClose(e) == e.activity_id = Close \/ e.activity_name \in {"close", "closed"}

OrElse(value, other) == IF value # None THEN value ELSE other

Counter(e, field) == IF e.traffic = None THEN None ELSE e.traffic[field]

\* protocol_number: the names that have one, and the numbers that are an i32.
ProtocolNumbers ==
  [tcp |-> 6, udp |-> 17, icmp |-> 1, igmp |-> 2, ipv6 |-> 41, pim |-> 103, gre |-> 47,
   esp |-> 50, icmpv6 |-> 58, icmp6 |-> 58]
    @@ ("ipv6-icmp" :> 58)

\* A name is its word and, when that is a number, which one.
ProtocolNumber(name) ==
  IF name = None THEN None
  ELSE IF name.word \in DOMAIN ProtocolNumbers THEN ProtocolNumbers[name.word]
  ELSE IF name.number \in -MaxInt32 - 1 .. MaxInt32 THEN name.number
  ELSE None

\* Mutant: a time on the threshold is taken for milliseconds.
ToMicrosInclusive(time) == IF time <= Threshold THEN time * 1000 ELSE time

ToMicros(time) == IF time < Threshold THEN time * 1000 ELSE time

MissingData(e) == None \in {e.src_ip, e.dest_ip, e.time}

ToCanonical(e) ==
  [timestamp |-> ToMicros(e.time),
   src_ip |-> e.src_ip, dest_ip |-> e.dest_ip,
   src_port |-> OrElse(e.src_port, 0), dest_port |-> OrElse(e.dest_port, 0),
   fwd_bytes |-> OrElse(OrElse(Counter(e, "bytes_in"), e.bytes_from_client), 0),
   bwd_bytes |-> OrElse(OrElse(Counter(e, "bytes_out"), e.bytes_from_server), 0),
   fwd_pkts |-> Counter(e, "packets_in"), bwd_pkts |-> Counter(e, "packets_out"),
   flow_dur |-> OrElse(e.duration, 0),
   protocol |-> OrElse(e.protocol_num, ProtocolNumber(e.protocol_name))]

-----------------------------------------------------------------------------
(* Steps of ocsf_to_parquet *)

Parse ==
  /\ pc = "parse"
  /\ IF ParseEvents = None
     THEN pc' = "failed" /\ UNCHANGED <<events, summary>>
     ELSE /\ pc' = "loop"
          /\ events' = ParseEvents
          /\ summary' = [summary EXCEPT !.total = Len(ParseEvents)]
  /\ UNCHANGED <<text, i, flows>>

AtEvent == pc = "loop" /\ i < Len(events)
Event == events[i + 1]

SkipNonActivity ==
  /\ AtEvent /\ ~IsNetworkActivity(Event)
  /\ summary' = [summary EXCEPT !.skipped_non_activity = @ + 1]
  /\ i' = i + 1
  /\ UNCHANGED <<text, pc, events, flows>>

SkipNonClose ==
  /\ AtEvent /\ IsNetworkActivity(Event) /\ ~IsFlowClose(Event)
  /\ summary' = [summary EXCEPT !.skipped_non_close = @ + 1]
  /\ i' = i + 1
  /\ UNCHANGED <<text, pc, events, flows>>

IsWanted == IsNetworkActivity(Event) /\ IsFlowClose(Event)

Convert ==
  /\ AtEvent /\ IsWanted /\ ~MissingData(Event)
  /\ flows' = Append(flows, ToCanonical(Event))
  /\ i' = i + 1
  /\ UNCHANGED <<text, pc, events, summary>>

\* Mutant: a close event that lacks data is skipped.
SkipMissing ==
  /\ AtEvent /\ IsWanted /\ MissingData(Event)
  /\ i' = i + 1
  /\ UNCHANGED <<text, pc, events, flows, summary>>

\* A close event that lacks data ends the conversion.
RefuseMissing ==
  /\ AtEvent /\ IsWanted /\ MissingData(Event)
  /\ pc' = "failed"
  /\ UNCHANGED <<text, events, i, flows, summary>>

SomeFlows == flows # <<>>

\* After the loop; the batch and the file are written when there are flows.
Finish ==
  /\ pc = "loop" /\ i = Len(events)
  /\ summary' = [summary EXCEPT !.converted = Len(flows)]
  /\ pc' = IF SomeFlows THEN "converted" ELSE "failed"
  /\ UNCHANGED <<text, events, i, flows>>

-----------------------------------------------------------------------------
Init ==
  /\ text \in Texts
  /\ pc = "parse"
  /\ events = <<>> /\ i = 0 /\ flows = <<>>
  /\ summary = [total |-> 0, skipped_non_activity |-> 0, skipped_non_close |-> 0,
                converted |-> 0]

Next ==
  \/ Parse \/ SkipNonActivity \/ SkipNonClose \/ Convert \/ RefuseMissing \/ Finish

Spec == Init /\ [][Next]_vars

=============================================================================
