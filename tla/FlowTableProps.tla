-------------------------- MODULE FlowTableProps ---------------------------
(***************************************************************************)
(* What the flow aggregator of src/pcap.rs promises: statements about the  *)
(* variables of FlowTable and the history of ingested packets.             *)
(***************************************************************************)
EXTENDS FlowTable

\* Every key maps to a well-formed state and every record is well formed.
TypeOK ==
  /\ DOMAIN active \subseteq FlowKey /\ IsFiniteSet(DOMAIN active)
  /\ active \in [DOMAIN active -> FlowState]
  /\ flows \in Seq(FlowRecord)
  /\ phase \in {"reading", "done"}
  /\ trace \in Seq(Packets)

-----------------------------------------------------------------------------
HeldKeys == DOMAIN active \cup {flows[i].key : i \in DOMAIN flows}

\* The records of a key, and every state it went through: theirs, then that of
\* its open flow.
ClosedOf(k) == {i \in DOMAIN flows : flows[i].key = k}

States(k) ==
  {flows[i].state : i \in ClosedOf(k)} \cup {active[l] : l \in DOMAIN active \cap {k}}

\* Packets sent from a key's first endpoint to its second, and the answers.
Sent(k) ==
  {n \in DOMAIN trace : /\ Source(trace[n]) = <<k[1], k[3]>>
                        /\ Destination(trace[n]) = <<k[2], k[4]>>
                        /\ trace[n].protocol = k[5]}

Answered(k) ==
  {n \in DOMAIN trace : /\ Source(trace[n]) = <<k[2], k[4]>>
                        /\ Destination(trace[n]) = <<k[1], k[3]>>
                        /\ trace[n].protocol = k[5]} \ Sent(k)

Exchanged(k) == Sent(k) \cup Answered(k)

TotalSize(indices) ==
  SumFunctionOnSet([n \in DOMAIN trace |-> trace[n].packet_bytes], indices)

\* A counter of a key, summed over its records and its open flow.
Total(field, k) ==
  SumFunctionOnSet([i \in DOMAIN flows |-> flows[i].state[field]], ClosedOf(k))
    + (IF k \in DOMAIN active THEN active[k][field] ELSE 0)

InOrder == \A m, n \in DOMAIN trace : m < n => trace[m].timestamp <= trace[n].timestamp

-----------------------------------------------------------------------------
(* Safety *)

SpanOK(s) == /\ s.first_timestamp <= s.last_timestamp
             /\ s.last_timestamp - s.first_timestamp <= ActiveTimeout

\* The active timeout bounds every record, open or closed: no record spans
\* more than ActiveTimeout, or runs backwards, whatever the order of the
\* packets' timestamps (pcap.rs:245-255 and the max() of :267).
SpanBounded ==
  /\ \A i \in DOMAIN flows : SpanOK(flows[i].state)
  /\ \A k \in DOMAIN active : SpanOK(active[k])

\* Two records of one conversation never overlap in time, even when packets
\* arrive out of order: a late packet joins the open record and can never
\* open one that reaches back into a record already closed.
RecordsOfAKeyDisjoint ==
  /\ \A i, j \in DOMAIN flows :
       i < j /\ flows[i].key = flows[j].key
         => flows[i].state.last_timestamp < flows[j].state.first_timestamp
  /\ \A i \in DOMAIN flows :
       flows[i].key \in DOMAIN active
         => flows[i].state.last_timestamp < active[flows[i].key].first_timestamp

\* A timeout separates what came before from what starts after: an idle gap,
\* or a record that was too old to go on.
CutByTimeout(before, after) ==
  \/ after.first_timestamp - before.last_timestamp > InactiveTimeout
  \/ after.first_timestamp - before.first_timestamp > ActiveTimeout

\* A conversation is cut in two only when a timeout asks for it, and stays cut
\* where it asked: between any two records of a key, and between a record and
\* the key's open flow, one of the two timeouts has run out (pcap.rs:245-255).
SplitsAreJustified ==
  /\ \A i, j \in DOMAIN flows :
       i < j /\ flows[i].key = flows[j].key
         => CutByTimeout(flows[i].state, flows[j].state)
  /\ \A i \in DOMAIN flows :
       flows[i].key \in DOMAIN active
         => CutByTimeout(flows[i].state, active[flows[i].key])

\* While the capture is read, a key that has a closed record has an open flow:
\* closing happens only to make room for the packet that caused it.
ClosedKeysHaveOpenFlows ==
  phase = "reading" => \A i \in DOMAIN flows : flows[i].key \in DOMAIN active

\* The inductive invariant behind SpanBounded, RecordsOfAKeyDisjoint and
\* SplitsAreJustified: the second needs the first (a packet that closes a record
\* is later than all of it only because the record is not older than the active
\* timeout), the third needs the second (or the next record could start before
\* the one that was cut), and all need the last, or a new flow could reach back
\* into a closed record of its key.
IInv == TypeOK /\ SpanBounded /\ RecordsOfAKeyDisjoint /\ SplitsAreJustified
          /\ ClosedKeysHaveOpenFlows

\* Every packet belongs to exactly one of the conversations held.
InOneConversation ==
  \A n \in DOMAIN trace : \E k \in HeldKeys :
    n \in Exchanged(k) /\ \A l \in HeldKeys \ {k} : n \notin Exchanged(l)

AddUp(k) ==
  /\ Total("fwd_pkts", k) = Cardinality(Sent(k))
  /\ Total("bwd_pkts", k) = Cardinality(Answered(k))
  /\ Total("fwd_bytes", k) = TotalSize(Sent(k))
  /\ Total("bwd_bytes", k) = TotalSize(Answered(k))

\* Every packet is counted once, in one conversation, under the direction it
\* was sent in, and no packet or byte is lost when flows are closed, drained
\* and sorted: per key the four counters add up to the packets ingested.
CountersConserved == InOneConversation /\ \A k \in HeldKeys : AddUp(k)

\* A state of key k holds the packets of its interval and nothing else.
PacketsWithin(s, k) ==
  {n \in Exchanged(k) : trace[n].timestamp \in s.first_timestamp .. s.last_timestamp}

TimesOf(indices) == {trace[n].timestamp : n \in indices}

\* A burst starts and ends with a packet, and no gap in it outlives the timeout.
IsBurst(s, k) ==
  LET times == TimesOf(PacketsWithin(s, k))
  IN /\ Cardinality(PacketsWithin(s, k)) = s.fwd_pkts + s.bwd_pkts
     /\ {s.first_timestamp, s.last_timestamp} \subseteq times
     /\ \A t \in times \ {s.last_timestamp} :
          \E u \in times : t < u /\ u - t <= InactiveTimeout

\* In a capture whose packets are in time order a record is exactly a burst
\* of its conversation: it starts and ends with a packet, counts the packets
\* in its interval and nothing else, and has no idle gap above the timeout.
InOrderRecordsAreBursts ==
  InOrder => \A k \in HeldKeys : \A s \in States(k) : IsBurst(s, k)

\* Behind CountersConserved: the keys held are those of the packets, so that a
\* key met for the first time has no packet in the past.
KeysAreTraced == HeldKeys = {MakeFlowKey(trace[n]) : n \in DOMAIN trace}

\* Behind InOrderRecordsAreBursts: while the capture is read the open flow of a
\* packet's key reaches to the packet, so that the next packet of the key extends
\* the open flow over all of them or starts after all of them.
OpenFlowsReachTheirPackets ==
  phase = "reading" =>
    \A n \in DOMAIN trace :
      /\ MakeFlowKey(trace[n]) \in DOMAIN active
      /\ trace[n].timestamp <= active[MakeFlowKey(trace[n])].last_timestamp

\* What is inductive together with IInv.
HistoryInv == /\ KeysAreTraced /\ OpenFlowsReachTheirPackets
              /\ CountersConserved /\ InOrderRecordsAreBursts

\* The records written do not depend on the order in which the hash map is
\* drained (the comment at pcap.rs:142): no two records share a sort key.
DrainOrderIrrelevant ==
  phase = "reading" =>
    \A one, other \in SetToSeqs(DOMAIN active) :
      StableSort(Drained(one)) = StableSort(Drained(other))

-----------------------------------------------------------------------------
(* What the documentation says and the code does not do *)

\* The schema documents `timestamp` as the start of the flow: no packet counted
\* in a conversation is older than every record of it.
NoPacketBeforeItsFlow ==
  \A n \in DOMAIN trace : \E k \in HeldKeys : \E s \in States(k) :
    n \in Exchanged(k) /\ s.first_timestamp <= trace[n].timestamp

=============================================================================
