----------------------------- MODULE FlowTable -----------------------------
(***************************************************************************)
(* The bidirectional flow aggregator of src/pcap.rs: the map `active` of   *)
(* open flows, the vector `flows` of closed records, and what one parsed   *)
(* packet (ingest_packet) and the end of the capture (the drain and the    *)
(* sort of pcap_to_parquet) do to them.                                    *)
(*                                                                         *)
(* An IP address is the rank of its text form in the order of strings,     *)
(* because the code compares the text and not the number; nothing else of  *)
(* the address is observed.  Timestamps are microseconds of an arbitrary   *)
(* epoch; the aggregator never looks at a clock.                           *)
(***************************************************************************)
EXTENDS Integers, SequencesExt

CONSTANTS
  Packets,          \* the parsed packets a capture may hold
  ActiveTimeout,    \* FlowTimeouts.active_usec
  InactiveTimeout,  \* FlowTimeouts.inactive_usec
  MaxPackets        \* bound: packets ingested in one run

Packet == [timestamp : Int, src_ip : Int, dest_ip : Int,
           src_port : Nat, dest_port : Nat, protocol : Nat, packet_bytes : Nat]

ASSUME PacketAssumption == Packets \subseteq Packet /\ MaxPackets \in Nat

\* What FlowTimeouts::from_secs accepts, as long as the conversion to
\* microseconds does not wrap (module Conversion is about that).
ASSUME TimeoutAssumption ==
  /\ ActiveTimeout \in Int
  /\ InactiveTimeout \in Int
  /\ 0 < InactiveTimeout
  /\ InactiveTimeout <= ActiveTimeout

VARIABLES
  active,  \* open flows: a function from a finite set of keys to FlowState
  flows,   \* Vec<FlowRecord>: closed records, and at the end the output
  phase,   \* "reading" until the capture ends, then "done"
  trace    \* history: the packets ingested so far, in order

vars == <<active, flows, phase, trace>>

FlowKey == Int \X Int \X Nat \X Nat \X Nat

FlowState == [first_timestamp : Int, last_timestamp : Int,
              fwd_bytes : Nat, fwd_pkts : Nat, bwd_bytes : Nat, bwd_pkts : Nat]

FlowRecord == [key : FlowKey, state : FlowState]

-----------------------------------------------------------------------------
(* Keys *)

Source(p) == <<p.src_ip, p.src_port>>
Destination(p) == <<p.dest_ip, p.dest_port>>

\* The order Rust derives for (ip, port).
EndpointLeq(a, b) == a[1] < b[1] \/ (a[1] = b[1] /\ a[2] <= b[2])

MakeFlowKey(p) ==
  IF EndpointLeq(Source(p), Destination(p))
  THEN <<p.src_ip, p.dest_ip, p.src_port, p.dest_port, p.protocol>>
  ELSE <<p.dest_ip, p.src_ip, p.dest_port, p.src_port, p.protocol>>

\* Mutant: the direction is decided by the address alone.
IsForwardByIp(p) == p.src_ip = MakeFlowKey(p)[1]

IsForward(p) == Source(p) = <<MakeFlowKey(p)[1], MakeFlowKey(p)[3]>>

\* Strict lexicographic order, first difference decides.
TupleLess(a, b) ==
  \E i \in DOMAIN a : a[i] < b[i] /\ \A j \in 1 .. (i - 1) : a[j] = b[j]

-----------------------------------------------------------------------------
(* One packet *)

Greater(a, b) == IF a >= b THEN a ELSE b

\* Mutants: the active timeout forgotten; the inactive timeout forgotten; an
\* idle gap in either direction; a gap of exactly the timeout.
ExpiredByGapOnly(state, ts) == ts - state.last_timestamp > InactiveTimeout
ExpiredByAgeOnly(state, ts) == ts - state.first_timestamp > ActiveTimeout
ExpiredEitherWay(state, ts) ==
  \/ ts - state.last_timestamp > InactiveTimeout
  \/ state.last_timestamp - ts > InactiveTimeout
  \/ ts - state.first_timestamp > ActiveTimeout
ExpiredAtTimeout(state, ts) ==
  \/ ts - state.last_timestamp >= InactiveTimeout
  \/ ts - state.first_timestamp >= ActiveTimeout

Expired(state, ts) ==
  \/ ts - state.last_timestamp > InactiveTimeout
  \/ ts - state.first_timestamp > ActiveTimeout

Fresh(ts) == [first_timestamp |-> ts, last_timestamp |-> ts,
              fwd_bytes |-> 0, fwd_pkts |-> 0, bwd_bytes |-> 0, bwd_pkts |-> 0]

\* Mutant: the Ethernet header is taken off the length.
CountPayload(state, p) ==
  [state EXCEPT !.last_timestamp = Greater(@, p.timestamp),
                !.fwd_bytes = @ + p.packet_bytes - 14, !.fwd_pkts = @ + 1]

\* The packet is always counted; only last_timestamp follows its time.
Count(state, p) ==
  LET seen == [state EXCEPT !.last_timestamp = Greater(@, p.timestamp)]
  IN IF IsForward(p)
     THEN [seen EXCEPT !.fwd_bytes = @ + p.packet_bytes, !.fwd_pkts = @ + 1]
     ELSE [seen EXCEPT !.bwd_bytes = @ + p.packet_bytes, !.bwd_pkts = @ + 1]

Closes(p) ==
  LET key == MakeFlowKey(p)
  IN key \in DOMAIN active /\ Expired(active[key], p.timestamp)

\* The state the packet is counted into: the open flow's, or a new one.
Target(p) ==
  IF MakeFlowKey(p) \in DOMAIN active /\ ~Closes(p)
  THEN active[MakeFlowKey(p)]
  ELSE Fresh(p.timestamp)

Ingest(p) ==
  LET key == MakeFlowKey(p)
  IN /\ phase = "reading"
     /\ Len(trace) < MaxPackets
     /\ flows' = IF Closes(p)
                 THEN Append(flows, [key |-> key, state |-> active[key]])
                 ELSE flows
     /\ active' = [k \in DOMAIN active \cup {key} |->
                     IF k = key THEN Count(Target(p), p) ELSE active[k]]
     /\ trace' = Append(trace, p)
     /\ UNCHANGED phase

-----------------------------------------------------------------------------
(* End of capture *)

\* Mutant: the key left out of the sort key.
SortKeyTime(record) == <<record.state.first_timestamp>>

SortKey(record) ==
  <<record.state.first_timestamp, record.key[1], record.key[2], record.key[3],
    record.key[4], record.key[5]>>

\* A stable sort: a record's place is the number of records that come first.
Precedes(records, i, j) ==
  \/ TupleLess(SortKey(records[i]), SortKey(records[j]))
  \/ SortKey(records[i]) = SortKey(records[j]) /\ i < j

Place(records, j) ==
  1 + Cardinality({i \in DOMAIN records : Precedes(records, i, j)})

StableSort(records) ==
  [n \in DOMAIN records |->
     records[CHOOSE j \in DOMAIN records : Place(records, j) = n]]

\* `order` is the order in which the hash map happens to yield its keys.
Drained(order) ==
  flows \o [n \in DOMAIN order |-> [key |-> order[n], state |-> active[order[n]]]]

\* The drain and the sort that follows it, with no failure in between.
Finish ==
  /\ phase = "reading"
  /\ \E order \in SetToSeqs(DOMAIN active) : flows' = StableSort(Drained(order))
  /\ active' = <<>>
  /\ phase' = "done"
  /\ UNCHANGED trace

-----------------------------------------------------------------------------
Init ==
  /\ active = <<>>
  /\ flows = <<>>
  /\ phase = "reading"
  /\ trace = <<>>

Next == (\E p \in Packets : Ingest(p)) \/ Finish

Spec == Init /\ [][Next]_vars

=============================================================================
