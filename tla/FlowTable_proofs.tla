------------------------- MODULE FlowTable_proofs --------------------------
(***************************************************************************)
(* Proofs about the flow aggregator, for every set of packets and every    *)
(* pair of timeouts.  First the sort: TupleLess is a strict total order on *)
(* sort keys, so the places of StableSort are a permutation.  Then the     *)
(* inductive invariant, one lemma per action; the order of the hash map;   *)
(* and what the history of packets adds: the counters add up to it, and in *)
(* time order the records are its bursts.                                  *)
(***************************************************************************)
EXTENDS FlowTableProps, FiniteSums, SequenceTheorems, TLAPS

Key6 == [1 .. 6 -> Int]

\* The sort key of a well-formed record is a tuple of six integers.
LEMMA SortKeyType ==
  ASSUME NEW r \in FlowRecord
  PROVE  /\ SortKey(r) \in Key6
         /\ SortKey(r)[1] = r.state.first_timestamp
BY DEF SortKey, FlowRecord, FlowKey, FlowState, Key6

\* No sort key precedes itself.
LEMMA TupleLessIrreflexive ==
  ASSUME NEW a \in Key6
  PROVE  ~TupleLess(a, a)
BY DEF TupleLess, Key6

\* The order of sort keys is transitive: the smaller first difference decides.
LEMMA TupleLessTransitive ==
  ASSUME NEW a \in Key6, NEW b \in Key6, NEW c \in Key6,
         TupleLess(a, b), TupleLess(b, c)
  PROVE  TupleLess(a, c)
<1>1. PICK i \in 1 .. 6 : a[i] < b[i] /\ \A j \in 1 .. (i - 1) : a[j] = b[j]
  BY DEF TupleLess, Key6
<1>2. PICK k \in 1 .. 6 : b[k] < c[k] /\ \A j \in 1 .. (k - 1) : b[j] = c[j]
  BY DEF TupleLess, Key6
<1>3. CASE i <= k
  <2>1. a[i] < c[i]
    <3>1. CASE i = k
      BY <1>1, <1>2, <3>1 DEF Key6
    <3>2. CASE i < k
      BY <1>1, <1>2, <3>2 DEF Key6
    <3> QED BY <1>3, <3>1, <3>2
  <2>2. \A j \in 1 .. (i - 1) : a[j] = c[j]
    BY <1>1, <1>2, <1>3 DEF Key6
  <2> QED BY <2>1, <2>2 DEF TupleLess, Key6
<1>4. CASE k < i
  <2>1. a[k] < c[k]
    BY <1>1, <1>2, <1>4 DEF Key6
  <2>2. \A j \in 1 .. (k - 1) : a[j] = c[j]
    BY <1>1, <1>2, <1>4 DEF Key6
  <2> QED BY <2>1, <2>2 DEF TupleLess, Key6
<1> QED BY <1>3, <1>4

\* The first component, the start of the record, never decreases.
LEMMA TupleLessFirst ==
  ASSUME NEW a \in Key6, NEW b \in Key6, TupleLess(a, b)
  PROVE  a[1] <= b[1]
<1>1. PICK i \in 1 .. 6 : a[i] < b[i] /\ \A j \in 1 .. (i - 1) : a[j] = b[j]
  BY DEF TupleLess, Key6
<1>2. CASE i = 1
  BY <1>1, <1>2 DEF Key6
<1>3. CASE i > 1
  BY <1>1, <1>3 DEF Key6
<1> QED BY <1>2, <1>3

\* Any two different sort keys are ordered.
LEMMA TupleLessTotal ==
  ASSUME NEW a \in Key6, NEW b \in Key6
  PROVE  TupleLess(a, b) \/ TupleLess(b, a) \/ a = b
<1> SUFFICES ASSUME ~TupleLess(a, b), ~TupleLess(b, a)
             PROVE  a = b
  OBVIOUS
<1>0. \A i \in 1 .. 6 : (\A j \in 1 .. (i - 1) : a[j] = b[j]) => a[i] = b[i]
  BY DEF TupleLess, Key6
<1>1. a[1] = b[1]  BY <1>0
<1>2. a[2] = b[2]  BY <1>0, <1>1
<1>3. a[3] = b[3]  BY <1>0, <1>1, <1>2
<1>4. a[4] = b[4]  BY <1>0, <1>1, <1>2, <1>3
<1>5. a[5] = b[5]  BY <1>0, <1>1, <1>2, <1>3, <1>4
<1>6. a[6] = b[6]  BY <1>0, <1>1, <1>2, <1>3, <1>4, <1>5
<1> QED BY <1>1, <1>2, <1>3, <1>4, <1>5, <1>6 DEF Key6

-----------------------------------------------------------------------------
\* The number of indices of a sequence.
LEMMA IntervalCardinality ==
  ASSUME NEW n \in Nat
  PROVE  IsFiniteSet(1 .. n) /\ Cardinality(1 .. n) = n
<1>1. 1 \in Int /\ n \in Int
  OBVIOUS
<1>2. IsFiniteSet(1 .. n) /\ Cardinality(1 .. n) = IF 1 > n THEN 0 ELSE n - 1 + 1
  BY <1>1, FS_Interval
<1>3. (IF 1 > n THEN 0 ELSE n - 1 + 1) = n
  OBVIOUS
<1> QED BY <1>2, <1>3

\* Precedes is a strict total order on the indices of a sequence of records.
LEMMA PrecedesOrder ==
  ASSUME NEW records \in Seq(FlowRecord),
         NEW i \in DOMAIN records, NEW j \in DOMAIN records
  PROVE  /\ ~Precedes(records, i, i)
         /\ i # j => Precedes(records, i, j) \/ Precedes(records, j, i)
         /\ \A h \in DOMAIN records :
              Precedes(records, h, i) /\ Precedes(records, i, j) => Precedes(records, h, j)
<1>1. \A h \in DOMAIN records : h \in Nat /\ records[h] \in FlowRecord
  BY LenProperties, ElementOfSeq
<1>2. \A h \in DOMAIN records : SortKey(records[h]) \in Key6
  BY <1>1, SortKeyType
<1>3. ~Precedes(records, i, i)
  BY <1>1, <1>2, TupleLessIrreflexive DEF Precedes
<1>4. i # j => Precedes(records, i, j) \/ Precedes(records, j, i)
  BY <1>1, <1>2, TupleLessTotal DEF Precedes
<1>5. ASSUME NEW h \in DOMAIN records,
             Precedes(records, h, i), Precedes(records, i, j)
      PROVE  Precedes(records, h, j)
  <2>1. CASE SortKey(records[h]) = SortKey(records[i])
    BY <1>1, <1>2, <1>5, <2>1, TupleLessIrreflexive DEF Precedes
  <2>2. CASE SortKey(records[i]) = SortKey(records[j])
    BY <1>1, <1>2, <1>5, <2>2, TupleLessIrreflexive DEF Precedes
  <2>3. CASE /\ SortKey(records[h]) # SortKey(records[i])
             /\ SortKey(records[i]) # SortKey(records[j])
    BY <1>2, <1>5, <2>3, TupleLessTransitive DEF Precedes
  <2> QED BY <2>1, <2>2, <2>3
<1> QED BY <1>3, <1>4, <1>5

\* A record that comes first has the smaller place, and conversely.
LEMMA PlaceMonotone ==
  ASSUME NEW records \in Seq(FlowRecord),
         NEW i \in DOMAIN records, NEW j \in DOMAIN records
  PROVE  /\ Place(records, j) \in DOMAIN records
         /\ Precedes(records, i, j) <=> Place(records, i) < Place(records, j)
<1> DEFINE D == DOMAIN records
           Before(h) == {g \in D : Precedes(records, g, h)}
           count(h) == Cardinality(Before(h))
<1>1. D = 1 .. Len(records) /\ Len(records) \in Nat
  BY LenProperties
<1>2. IsFiniteSet(D) /\ Cardinality(D) = Len(records)
  <2>1. /\ IsFiniteSet(1 .. Len(records))
        /\ Cardinality(1 .. Len(records)) = Len(records)
    BY <1>1, IntervalCardinality
  <2> QED BY <1>1, <2>1
<1>3. \A h \in D : IsFiniteSet(Before(h))
  BY <1>2, FS_Subset
<1>4. \A h \in D : count(h) \in Nat
  BY <1>3, FS_CardinalityType
<1>5. \A h \in D : Place(records, h) = 1 + count(h)
  BY DEF Place
<1>6. ASSUME NEW g \in D, NEW h \in D, Precedes(records, g, h)
      PROVE  count(g) < count(h)
  <2>1. Before(g) \in SUBSET Before(h)
    BY <1>6, PrecedesOrder
  <2>2. Before(g) # Before(h)
    BY <1>6, PrecedesOrder
  <2>3. IsFiniteSet(Before(h))
    BY <1>3
  <2>4. count(g) <= count(h)
    BY <2>1, <2>3, FS_Subset
  <2>5. count(g) # count(h)
    BY <2>1, <2>2, <2>3, FS_Subset
  <2>6. count(g) \in Nat /\ count(h) \in Nat
    BY <1>4
  <2> HIDE DEF count
  <2> QED BY <2>4, <2>5, <2>6
<1>7. count(j) < Len(records)
  <2>1. Before(j) \in SUBSET D /\ Before(j) # D
    BY PrecedesOrder
  <2>2. count(j) <= Cardinality(D) /\ count(j) # Cardinality(D)
    BY <1>2, <2>1, FS_Subset
  <2>3. count(j) \in Nat
    BY <1>4
  <2> HIDE DEF count
  <2> QED BY <1>1, <1>2, <2>2, <2>3
<1> HIDE DEF count
<1>8. Place(records, j) \in DOMAIN records
  <2>1. Place(records, j) = 1 + count(j) /\ count(j) \in Nat
    BY <1>4, <1>5
  <2> QED BY <1>1, <1>7, <2>1
<1>9. Place(records, i) = 1 + count(i) /\ Place(records, j) = 1 + count(j)
      /\ count(i) \in Nat /\ count(j) \in Nat
  BY <1>4, <1>5
<1>10. Precedes(records, i, j) => count(i) < count(j)
  BY <1>6
<1>11. Precedes(records, j, i) => count(j) < count(i)
  BY <1>6
<1>12. Precedes(records, i, j) \/ Precedes(records, j, i) \/ i = j
  BY PrecedesOrder
<1>13. Precedes(records, i, j) <=> count(i) < count(j)
  BY <1>9, <1>10, <1>11, <1>12
<1> QED BY <1>8, <1>9, <1>13

\* StableSort permutes: place n is taken by exactly one record, and a smaller
\* place in the result belongs to a record that comes first.
LEMMA StableSortPermutes ==
  ASSUME NEW records \in Seq(FlowRecord)
  PROVE  \E from \in [DOMAIN records -> DOMAIN records] :
           /\ \A n \in DOMAIN records : StableSort(records)[n] = records[from[n]]
           /\ \A m, n \in DOMAIN records :
                m < n => Precedes(records, from[m], from[n])
           /\ \A n \in DOMAIN records : Place(records, from[n]) = n
           /\ StableSort(records) \in Seq(FlowRecord)
           /\ DOMAIN StableSort(records) = DOMAIN records
<1> DEFINE D == DOMAIN records
           place == [j \in D |-> Place(records, j)]
           from == [n \in D |-> CHOOSE j \in D : Place(records, j) = n]
<1>1. D = 1 .. Len(records) /\ Len(records) \in Nat /\ IsFiniteSet(D)
      /\ \A j \in D : records[j] \in FlowRecord
  BY LenProperties, IntervalCardinality, ElementOfSeq
<1>2. place \in [D -> D]
  BY PlaceMonotone
<1>3. \A i, j \in D : place[i] = place[j] => i = j
  BY <1>1, <1>2, PlaceMonotone, PrecedesOrder
<1>4. place \in Injection(D, D)
  BY <1>2, <1>3 DEF Injection, IsInjective
<1>5. place \in Surjection(D, D)
  BY <1>1, <1>4, FS_Injection
<1>6. \A n \in D : \E j \in D : Place(records, j) = n
  BY <1>5 DEF Surjection
<1>7. \A n \in D : from[n] \in D /\ Place(records, from[n]) = n
  BY <1>6
<1>8. \A n \in D : StableSort(records)[n] = records[from[n]]
  BY DEF StableSort
<1>9. \A m, n \in D : m < n => Precedes(records, from[m], from[n])
  BY <1>7, PlaceMonotone
<1>10. StableSort(records) \in Seq(FlowRecord) /\ DOMAIN StableSort(records) = D
  <2>1. StableSort(records) \in [1 .. Len(records) -> FlowRecord]
    BY <1>1, <1>7, <1>8 DEF StableSort
  <2> QED BY <1>1, <2>1, SeqDef
<1> HIDE DEF from
<1>11. from \in [D -> D]
  BY <1>7 DEF from
<1> QED BY <1>7, <1>8, <1>9, <1>10, <1>11

-----------------------------------------------------------------------------
(* Keys *)

\* The packet that answers p: the endpoints swapped, all else arbitrary.
Answers(q, p) ==
  /\ Source(q) = Destination(p) /\ Destination(q) = Source(p)
  /\ q.protocol = p.protocol

\* Both directions of a conversation have one key, and between different
\* endpoints exactly one of the two directions is forward (pcap.rs:216-234, 269).
THEOREM KeyIsBidirectional ==
  ASSUME NEW p \in Packet, NEW q \in Packet, Answers(q, p)
  PROVE  /\ MakeFlowKey(q) = MakeFlowKey(p)
         /\ Source(p) # Destination(p) => (IsForward(q) <=> ~IsForward(p))
<1>1. /\ q.src_ip = p.dest_ip /\ q.src_port = p.dest_port
      /\ q.dest_ip = p.src_ip /\ q.dest_port = p.src_port
      /\ q.protocol = p.protocol
  BY DEF Answers, Source, Destination
<1>2. /\ p.src_ip \in Int /\ p.dest_ip \in Int
      /\ p.src_port \in Int /\ p.dest_port \in Int
  BY DEF Packet
<1>3. CASE Source(p) = Destination(p)
  BY <1>1, <1>3 DEF MakeFlowKey, Source, Destination
<1>4. CASE Source(p) # Destination(p) /\ EndpointLeq(Source(p), Destination(p))
  <2>1. ~EndpointLeq(Source(q), Destination(q))
    BY <1>1, <1>2, <1>4 DEF EndpointLeq, Source, Destination
  <2> QED BY <1>1, <1>4, <2>1 DEF MakeFlowKey, IsForward, Source, Destination
<1>5. CASE Source(p) # Destination(p) /\ ~EndpointLeq(Source(p), Destination(p))
  <2>1. EndpointLeq(Source(q), Destination(q))
    BY <1>1, <1>2, <1>5 DEF EndpointLeq, Source, Destination
  <2> QED BY <1>1, <1>5, <2>1 DEF MakeFlowKey, IsForward, Source, Destination
<1> QED BY <1>3, <1>4, <1>5

-----------------------------------------------------------------------------
(* The inductive invariant *)

\* The key of a packet is a flow key.
LEMMA MakeFlowKeyType ==
  ASSUME NEW p \in Packets
  PROVE  p \in Packet /\ MakeFlowKey(p) \in FlowKey
BY PacketAssumption DEF Packet, FlowKey, MakeFlowKey

\* Counting a packet keeps the start of a state and moves its end forward.
LEMMA CountState ==
  ASSUME NEW s \in FlowState, NEW p \in Packets
  PROVE  /\ Count(s, p) \in FlowState
         /\ Count(s, p).first_timestamp = s.first_timestamp
         /\ Count(s, p).last_timestamp = Greater(s.last_timestamp, p.timestamp)
<1> DEFINE seen == [s EXCEPT !.last_timestamp = Greater(@, p.timestamp)]
<1>1. p.timestamp \in Int /\ p.packet_bytes \in Nat
  BY MakeFlowKeyType DEF Packet
<1>2. Greater(s.last_timestamp, p.timestamp) \in Int
  BY <1>1 DEF Greater, FlowState
<1>3. /\ seen \in FlowState
      /\ seen.first_timestamp = s.first_timestamp
      /\ seen.last_timestamp = Greater(s.last_timestamp, p.timestamp)
  BY <1>2 DEF FlowState
<1> HIDE DEF seen
<1>4. CASE IsForward(p)
  <2> DEFINE sized == [seen EXCEPT !.fwd_bytes = @ + p.packet_bytes]
  <2>1. Count(s, p) = [sized EXCEPT !.fwd_pkts = @ + 1]
    BY <1>4 DEF Count, seen
  <2>2. /\ sized \in FlowState
        /\ sized.first_timestamp = seen.first_timestamp
        /\ sized.last_timestamp = seen.last_timestamp
    BY <1>1, <1>3 DEF FlowState
  <2> HIDE DEF sized
  <2>3. /\ Count(s, p) \in FlowState
        /\ Count(s, p).first_timestamp = sized.first_timestamp
        /\ Count(s, p).last_timestamp = sized.last_timestamp
    BY <2>1, <2>2 DEF FlowState
  <2> QED BY <1>3, <2>2, <2>3
<1>5. CASE ~IsForward(p)
  <2> DEFINE sized == [seen EXCEPT !.bwd_bytes = @ + p.packet_bytes]
  <2>1. Count(s, p) = [sized EXCEPT !.bwd_pkts = @ + 1]
    BY <1>5 DEF Count, seen
  <2>2. /\ sized \in FlowState
        /\ sized.first_timestamp = seen.first_timestamp
        /\ sized.last_timestamp = seen.last_timestamp
    BY <1>1, <1>3 DEF FlowState
  <2> HIDE DEF sized
  <2>3. /\ Count(s, p) \in FlowState
        /\ Count(s, p).first_timestamp = sized.first_timestamp
        /\ Count(s, p).last_timestamp = sized.last_timestamp
    BY <2>1, <2>2 DEF FlowState
  <2> QED BY <1>3, <2>2, <2>3
<1> QED BY <1>4, <1>5

\* A fresh state starts and ends at the packet that opens it.
LEMMA FreshState ==
  ASSUME NEW t \in Int
  PROVE  /\ Fresh(t) \in FlowState
         /\ Fresh(t).first_timestamp = t /\ Fresh(t).last_timestamp = t
BY DEF Fresh, FlowState

\* What the invariant says of two states of one key, the first before the second.
Separate(s, r) == s.last_timestamp < r.first_timestamp /\ CutByTimeout(s, r)

\* What starts later still is still separate.
LEMMA SeparateFromLater ==
  ASSUME NEW s \in FlowState, NEW r \in FlowState, NEW q \in FlowState,
         Separate(s, r), r.first_timestamp <= q.first_timestamp
  PROVE  Separate(s, q)
BY TimeoutAssumption DEF Separate, CutByTimeout, FlowState

\* The invariant says it of every two records of a key and of its open flow.
LEMMA RecordsAreSeparate ==
  ASSUME IInv
  PROVE  /\ \A i, j \in DOMAIN flows :
              i < j /\ flows[i].key = flows[j].key
                => Separate(flows[i].state, flows[j].state)
         /\ \A i \in DOMAIN flows :
              flows[i].key \in DOMAIN active
                => Separate(flows[i].state, active[flows[i].key])
BY DEF IInv, RecordsOfAKeyDisjoint, SplitsAreJustified, Separate

\* The initial state satisfies the invariant.
LEMMA InitIInv == Init => IInv
<1> SUFFICES ASSUME Init PROVE IInv
  OBVIOUS
<1> USE DEF Init
<1>1. DOMAIN active = {} /\ DOMAIN flows = {}
  OBVIOUS
<1>2. TypeOK
  BY <1>1, FS_EmptySet, EmptySeq DEF TypeOK
<1> QED BY <1>1, <1>2 DEF IInv, SpanBounded, RecordsOfAKeyDisjoint, SplitsAreJustified,
                     ClosedKeysHaveOpenFlows

\* What a packet does to the flow of its key: the new state, and what is closed.
LEMMA IngestKey ==
  ASSUME IInv, NEW p \in Packets, Ingest(p)
  PROVE  LET key == MakeFlowKey(p) IN
         /\ key \in FlowKey
         /\ DOMAIN active' = DOMAIN active \cup {key}
         /\ \A k \in DOMAIN active \ {key} : active'[k] = active[k]
         /\ active'[key] \in FlowState /\ SpanOK(active'[key])
         /\ IF Closes(p)
            THEN /\ key \in DOMAIN active
                 /\ flows' = Append(flows, [key |-> key, state |-> active[key]])
                 /\ Separate(active[key], active'[key])
            ELSE /\ flows' = flows
                 /\ key \in DOMAIN active =>
                      active'[key].first_timestamp = active[key].first_timestamp
<1> DEFINE key == MakeFlowKey(p)
           t == p.timestamp
<1> USE DEF IInv
<1>1. key \in FlowKey /\ t \in Int /\ phase = "reading"
  BY MakeFlowKeyType DEF Packet, Ingest
<1>2. /\ active' = [k \in DOMAIN active \cup {key} |->
                     IF k = key THEN Count(Target(p), p) ELSE active[k]]
      /\ flows' = IF Closes(p)
                  THEN Append(flows, [key |-> key, state |-> active[key]])
                  ELSE flows
  BY DEF Ingest
<1>3. \A k \in DOMAIN active : active[k] \in FlowState /\ SpanOK(active[k])
  BY DEF TypeOK, SpanBounded
<1>4. active'[key] = Count(Target(p), p)
  BY <1>2
<1>5. CASE Closes(p)
  <2>1. key \in DOMAIN active /\ Expired(active[key], t)
    BY <1>5 DEF Closes
  <2>2. Target(p) = Fresh(t)
    BY <1>5 DEF Target
  <2>3. /\ active'[key] \in FlowState
        /\ active'[key].first_timestamp = t /\ active'[key].last_timestamp = t
    BY <1>1, <1>4, <2>2, CountState, FreshState DEF Greater
  <2>4. SpanOK(active'[key])
    BY <1>1, <2>3, TimeoutAssumption DEF SpanOK
  <2>5. Separate(active[key], active'[key])
    BY <1>1, <1>3, <2>1, <2>3, TimeoutAssumption
       DEF Expired, SpanOK, FlowState, Separate, CutByTimeout
  <2> QED BY <1>1, <1>2, <1>5, <2>1, <2>3, <2>4, <2>5
<1>6. CASE ~Closes(p) /\ key \in DOMAIN active
  <2>1. Target(p) = active[key] /\ ~Expired(active[key], t)
    BY <1>6 DEF Target, Closes
  <2>2. active[key] \in FlowState /\ SpanOK(active[key])
    BY <1>3, <1>6
  <2>3. /\ active'[key] \in FlowState
        /\ active'[key].first_timestamp = active[key].first_timestamp
        /\ active'[key].last_timestamp = Greater(active[key].last_timestamp, t)
    BY <1>4, <2>1, <2>2, CountState
  <2>4. SpanOK(active'[key])
    BY <1>1, <2>1, <2>2, <2>3, TimeoutAssumption
       DEF Expired, SpanOK, Greater, FlowState
  <2> QED BY <1>1, <1>2, <1>6, <2>3, <2>4
<1>7. CASE ~Closes(p) /\ key \notin DOMAIN active
  <2>1. Target(p) = Fresh(t)
    BY <1>7 DEF Target
  <2>2. /\ active'[key] \in FlowState
        /\ active'[key].first_timestamp = t /\ active'[key].last_timestamp = t
    BY <1>1, <1>4, <2>1, CountState, FreshState DEF Greater
  <2>3. SpanOK(active'[key])
    BY <1>1, <2>2, TimeoutAssumption DEF SpanOK
  <2> QED BY <1>1, <1>2, <1>7, <2>2, <2>3
<1> QED BY <1>5, <1>6, <1>7

\* A packet preserves the invariant.
LEMMA IngestIInv ==
  ASSUME IInv, NEW p \in Packets, Ingest(p)
  PROVE  IInv'
<1> DEFINE key == MakeFlowKey(p)
           new == [key |-> key, state |-> active[key]]
<1> USE DEF IInv
<1>1. /\ key \in FlowKey
      /\ DOMAIN active' = DOMAIN active \cup {key}
      /\ \A k \in DOMAIN active \ {key} : active'[k] = active[k]
      /\ active'[key] \in FlowState /\ SpanOK(active'[key])
      /\ Closes(p) => /\ key \in DOMAIN active
                      /\ flows' = Append(flows, new)
                      /\ Separate(active[key], active'[key])
      /\ ~Closes(p) => /\ flows' = flows
                       /\ key \in DOMAIN active =>
                            active'[key].first_timestamp = active[key].first_timestamp
  BY IngestKey
<1>2. /\ \A k \in DOMAIN active : active[k] \in FlowState /\ SpanOK(active[k])
      /\ DOMAIN active \subseteq FlowKey /\ IsFiniteSet(DOMAIN active)
      /\ flows \in Seq(FlowRecord)
      /\ \A i \in DOMAIN flows : flows[i] \in FlowRecord /\ SpanOK(flows[i].state)
      /\ DOMAIN flows = 1 .. Len(flows) /\ Len(flows) \in Nat
  BY LenProperties, ElementOfSeq DEF TypeOK, SpanBounded
<1>3. /\ phase = "reading" /\ phase' = "reading"
      /\ trace' = Append(trace, p) /\ trace \in Seq(Packets)
      /\ active' = [k \in DOMAIN active' |-> active'[k]]
  BY <1>1 DEF Ingest, TypeOK
<1>4. /\ \A k \in DOMAIN active' : active'[k] \in FlowState /\ SpanOK(active'[k])
      /\ DOMAIN active' \subseteq FlowKey /\ IsFiniteSet(DOMAIN active')
  BY <1>1, <1>2, FS_AddElement
<1>5. CASE Closes(p)
  <2>1. /\ key \in DOMAIN active /\ flows' = Append(flows, new)
        /\ Separate(active[key], active'[key])
        /\ new \in FlowRecord
    BY <1>1, <1>2, <1>5 DEF FlowRecord
  <2>2. /\ flows' \in Seq(FlowRecord)
        /\ DOMAIN flows' = 1 .. (Len(flows) + 1)
        /\ \A i \in DOMAIN flows : flows'[i] = flows[i]
        /\ flows'[Len(flows) + 1] = new
    BY <1>2, <2>1, AppendProperties, LenProperties
  <2>3. TypeOK'
    BY <1>3, <1>4, <2>2, AppendProperties DEF TypeOK
  <2>4. SpanBounded'
    BY <1>2, <1>4, <2>1, <2>2 DEF SpanBounded
  <2>5. RecordsOfAKeyDisjoint' /\ SplitsAreJustified'
    <3>1. ASSUME NEW i \in DOMAIN flows', NEW j \in DOMAIN flows',
                 i < j, flows'[i].key = flows'[j].key
          PROVE  Separate(flows'[i].state, flows'[j].state)
      <4>1. CASE j \in DOMAIN flows
        BY <1>2, <2>2, <3>1, <4>1, RecordsAreSeparate
      <4>2. CASE j = Len(flows) + 1
        BY <1>2, <2>1, <2>2, <3>1, <4>2, RecordsAreSeparate
      <4> QED BY <1>2, <2>2, <4>1, <4>2
    <3>2. ASSUME NEW i \in DOMAIN flows', flows'[i].key \in DOMAIN active'
          PROVE  Separate(flows'[i].state, active'[flows'[i].key])
      <4>1. CASE i \in DOMAIN flows /\ flows[i].key # key
        BY <1>1, <2>2, <3>2, <4>1, RecordsAreSeparate
      <4>2. CASE i \in DOMAIN flows /\ flows[i].key = key
        <5>1. Separate(flows[i].state, active[key])
          BY <2>1, <4>2, RecordsAreSeparate
        <5>2. /\ flows[i].state \in FlowState
              /\ active[key] \in FlowState /\ active'[key] \in FlowState
          BY <1>1, <1>2, <2>1, <4>2 DEF FlowRecord
        <5>3. active[key].first_timestamp <= active'[key].first_timestamp
          <6>1. SpanOK(active[key])
            BY <1>2, <2>1, Zenon
          <6> QED BY <2>1, <5>2, <6>1 DEF SpanOK, Separate, FlowState
        <5>4. Separate(flows[i].state, active'[key])
          BY <5>1, <5>2, <5>3, SeparateFromLater
        <5> QED BY <2>2, <4>2, <5>4
      <4>3. CASE i = Len(flows) + 1
        BY <2>1, <2>2, <4>3
      <4> QED BY <1>2, <2>2, <4>1, <4>2, <4>3
    <3> QED BY <3>1, <3>2 DEF RecordsOfAKeyDisjoint, SplitsAreJustified, Separate
  <2>6. ClosedKeysHaveOpenFlows'
    <3>1. \A i \in DOMAIN flows : flows[i].key \in DOMAIN active'
      BY <1>1, <1>3 DEF ClosedKeysHaveOpenFlows
    <3>2. \A i \in DOMAIN flows' : i \in DOMAIN flows \/ i = Len(flows) + 1
      BY <1>2, <2>2
    <3>3. new.key \in DOMAIN active'
      BY <1>1
    <3>4. \A i \in DOMAIN flows' : flows'[i].key \in DOMAIN active'
      BY <2>2, <3>1, <3>2, <3>3
    <3> QED BY <3>4 DEF ClosedKeysHaveOpenFlows
  <2> QED BY <2>3, <2>4, <2>5, <2>6
<1>6. CASE ~Closes(p)
  <2>1. flows' = flows
    BY <1>1, <1>6
  <2>2. TypeOK'
    BY <1>2, <1>3, <1>4, <2>1, AppendProperties DEF TypeOK
  <2>3. SpanBounded'
    BY <1>2, <1>4, <2>1 DEF SpanBounded
  <2>4. RecordsOfAKeyDisjoint' /\ SplitsAreJustified'
    <3>1. ASSUME NEW i \in DOMAIN flows
          PROVE  Separate(flows[i].state, active'[flows[i].key])
      <4>1. flows[i].key \in DOMAIN active
        BY <1>3 DEF ClosedKeysHaveOpenFlows
      <4>2. Separate(flows[i].state, active[flows[i].key])
        BY <4>1, RecordsAreSeparate
      <4>3. CASE flows[i].key = key
        <5>1. active'[key].first_timestamp = active[key].first_timestamp
          BY <1>1, <1>6, <4>1, <4>3
        <5> QED BY <4>2, <4>3, <5>1 DEF Separate, CutByTimeout
      <4>4. CASE flows[i].key # key
        BY <1>1, <4>1, <4>2, <4>4
      <4> QED BY <4>3, <4>4
    <3>2. \A i, j \in DOMAIN flows :
            i < j /\ flows[i].key = flows[j].key
              => Separate(flows[i].state, flows[j].state)
      BY RecordsAreSeparate
    <3> QED BY <2>1, <3>1, <3>2 DEF RecordsOfAKeyDisjoint, SplitsAreJustified, Separate
  <2>5. ClosedKeysHaveOpenFlows'
    BY <1>1, <1>3, <2>1 DEF ClosedKeysHaveOpenFlows
  <2> QED BY <2>2, <2>3, <2>4, <2>5
<1> QED BY <1>5, <1>6

-----------------------------------------------------------------------------
(* The end of the capture *)

\* The drain appends the open flows: well-formed records whose spans are
\* bounded, and two records of one key are separate.
LEMMA DrainedRecords ==
  ASSUME IInv, phase = "reading", NEW order \in SetToSeqs(DOMAIN active)
  PROVE  LET records == Drained(order) IN
         /\ records \in Seq(FlowRecord)
         /\ Len(records) = Len(flows) + Cardinality(DOMAIN active)
         /\ \A i \in 1 .. Len(flows) : records[i] = flows[i]
         /\ \A n \in 1 .. Cardinality(DOMAIN active) :
              records[Len(flows) + n] = [key |-> order[n], state |-> active[order[n]]]
         /\ \A i \in DOMAIN records : SpanOK(records[i].state)
         /\ \A i, j \in DOMAIN records :
              i < j /\ records[i].key = records[j].key
                => Separate(records[i].state, records[j].state)
<1> DEFINE records == Drained(order)
           count == Cardinality(DOMAIN active)
           open == [n \in DOMAIN order |-> [key |-> order[n], state |-> active[order[n]]]]
<1>1. /\ \A k \in DOMAIN active : active[k] \in FlowState /\ SpanOK(active[k])
      /\ DOMAIN active \subseteq FlowKey /\ IsFiniteSet(DOMAIN active)
      /\ flows \in Seq(FlowRecord)
      /\ \A i \in DOMAIN flows : flows[i] \in FlowRecord /\ SpanOK(flows[i].state)
      /\ DOMAIN flows = 1 .. Len(flows) /\ Len(flows) \in Nat
  BY LenProperties, ElementOfSeq DEF IInv, TypeOK, SpanBounded
<1>2. count \in Nat
  BY <1>1, FS_CardinalityType
<1>3. /\ order \in [1 .. count -> DOMAIN active]
      /\ \A m, n \in 1 .. count : m # n => order[m] # order[n]
  BY DEF SetToSeqs
<1>4. open \in [1 .. count -> FlowRecord]
  BY <1>1, <1>3 DEF FlowRecord
<1>5. open \in Seq(FlowRecord) /\ Len(open) = count
  BY <1>2, <1>4, SeqDef
<1>6. records = flows \o open
  BY DEF Drained
<1>7. /\ records \in Seq(FlowRecord)
      /\ Len(records) = Len(flows) + count
      /\ DOMAIN records = 1 .. (Len(flows) + count)
      /\ \A i \in DOMAIN records :
           records[i] = IF i <= Len(flows) THEN flows[i] ELSE open[i - Len(flows)]
  BY <1>1, <1>5, <1>6, ConcatProperties, LenProperties
<1>8. \A n \in 1 .. count : open[n] = [key |-> order[n], state |-> active[order[n]]]
  BY <1>3
<1> HIDE DEF records, count, open
<1>9. \A i \in 1 .. Len(flows) : i \in DOMAIN records /\ records[i] = flows[i]
  BY <1>1, <1>2, <1>7
<1>10. ASSUME NEW n \in 1 .. count
       PROVE  records[Len(flows) + n] = [key |-> order[n], state |-> active[order[n]]]
  <2>1. /\ Len(flows) + n \in DOMAIN records
        /\ ~(Len(flows) + n <= Len(flows))
        /\ (Len(flows) + n) - Len(flows) = n
    BY <1>1, <1>2, <1>7
  <2>2. records[Len(flows) + n] = open[n]
    BY <1>7, <2>1
  <2> QED BY <1>8, <2>2
<1>11. \A i \in DOMAIN records :
         \/ i \in 1 .. Len(flows) /\ records[i] = flows[i]
         \/ \E n \in 1 .. count : /\ i = Len(flows) + n
                                 /\ records[i].key = order[n]
                                 /\ records[i].state = active[order[n]]
  <2> TAKE i \in DOMAIN records
  <2>1. CASE i <= Len(flows)
    BY <1>1, <1>7, <1>9, <2>1
  <2>2. CASE i > Len(flows)
    <3>1. PICK n \in 1 .. count : i = Len(flows) + n
      <4>1. i - Len(flows) \in 1 .. count /\ i = Len(flows) + (i - Len(flows))
        BY <1>1, <1>2, <1>7, <2>2
      <4> QED BY <4>1
    <3>2. records[i] = [key |-> order[n], state |-> active[order[n]]]
      BY <1>10, <3>1
    <3> QED BY <3>1, <3>2
  <2> QED BY <1>1, <1>7, <2>1, <2>2
<1>12. \A i \in DOMAIN records : SpanOK(records[i].state)
  BY <1>1, <1>3, <1>11
<1>13. ASSUME NEW i \in DOMAIN records, NEW j \in DOMAIN records,
              i < j, records[i].key = records[j].key
       PROVE  Separate(records[i].state, records[j].state)
  <2>1. CASE j \in 1 .. Len(flows)
    BY <1>1, <1>7, <1>9, <1>13, <2>1, RecordsAreSeparate
  <2>2. CASE j \notin 1 .. Len(flows)
    <3>1. PICK n \in 1 .. count : /\ j = Len(flows) + n
                                  /\ records[j].key = order[n]
                                  /\ records[j].state = active[order[n]]
      BY <1>11, <2>2
    <3>2. CASE i \in 1 .. Len(flows)
      BY <1>1, <1>3, <1>9, <1>13, <3>1, <3>2, RecordsAreSeparate
    <3>3. CASE i \notin 1 .. Len(flows)
      <4>1. PICK m \in 1 .. count : i = Len(flows) + m /\ records[i].key = order[m]
        BY <1>11, <3>3
      <4>2. m = n
        BY <1>3, <1>13, <3>1, <4>1
      <4> QED BY <1>1, <1>2, <1>13, <3>1, <4>1, <4>2
    <3> QED BY <3>2, <3>3
  <2> QED BY <2>1, <2>2
<1> QED BY <1>7, <1>9, <1>10, <1>12, <1>13 DEF records, count

\* The drain and the sort preserve the invariant: sorting by start time keeps
\* the records of one key in their order, because they do not overlap.
LEMMA FinishIInv ==
  ASSUME IInv, Finish
  PROVE  IInv'
<1>1. PICK order \in SetToSeqs(DOMAIN active) : flows' = StableSort(Drained(order))
  BY DEF Finish
<1> DEFINE records == Drained(order)
           D == DOMAIN records
<1>2. /\ phase = "reading" /\ phase' = "done" /\ active' = <<>> /\ DOMAIN active' = {}
      /\ trace' = trace /\ trace \in Seq(Packets)
  BY DEF Finish, IInv, TypeOK
<1>3. /\ records \in Seq(FlowRecord)
      /\ \A i \in D : SpanOK(records[i].state)
      /\ \A i, j \in D :
           i < j /\ records[i].key = records[j].key
             => Separate(records[i].state, records[j].state)
  BY <1>2, DrainedRecords
<1> HIDE DEF records
<1>4. \A i \in D : records[i] \in FlowRecord /\ i \in Nat
  BY <1>3, LenProperties, ElementOfSeq
<1>5. PICK from \in [D -> D] :
           /\ \A n \in D : flows'[n] = records[from[n]]
           /\ \A m, n \in D : m < n => Precedes(records, from[m], from[n])
           /\ flows' \in Seq(FlowRecord)
           /\ DOMAIN flows' = D
  BY <1>1, <1>3, StableSortPermutes DEF records
<1>6. TypeOK'
  BY <1>2, <1>5, FS_EmptySet DEF TypeOK
<1>7. SpanBounded'
  BY <1>2, <1>3, <1>5 DEF SpanBounded
<1>8. ASSUME NEW a \in D, NEW b \in D, Precedes(records, a, b),
             records[a].key = records[b].key
      PROVE  Separate(records[a].state, records[b].state)
  <2>1. records[a].state.first_timestamp <= records[b].state.first_timestamp
    <3>1. /\ SortKey(records[a]) \in Key6 /\ SortKey(records[b]) \in Key6
          /\ SortKey(records[a])[1] = records[a].state.first_timestamp
          /\ SortKey(records[b])[1] = records[b].state.first_timestamp
      BY <1>4, SortKeyType
    <3>2. SortKey(records[a])[1] <= SortKey(records[b])[1]
      BY <1>8, <3>1, TupleLessFirst DEF Precedes, Key6
    <3> QED BY <3>1, <3>2
  <2>2. a # b
    BY <1>3, <1>8, PrecedesOrder
  <2>3. ~(b < a)
    <3>1. SUFFICES ASSUME b < a PROVE FALSE
      OBVIOUS
    <3>2. records[b].state.last_timestamp < records[a].state.first_timestamp
      BY <1>3, <1>8, <3>1 DEF Separate
    <3>3. records[b].state.first_timestamp <= records[b].state.last_timestamp
      BY <1>3 DEF SpanOK
    <3>4. /\ records[a].state.first_timestamp \in Int
          /\ records[b].state.first_timestamp \in Int
          /\ records[b].state.last_timestamp \in Int
      BY <1>4 DEF FlowRecord, FlowState
    <3> QED BY <2>1, <3>2, <3>3, <3>4
  <2>4. a < b
    BY <1>4, <2>2, <2>3
  <2> QED BY <1>3, <1>8, <2>4
<1>9. RecordsOfAKeyDisjoint' /\ SplitsAreJustified'
  <2>1. ASSUME NEW m \in D, NEW n \in D, m < n, flows'[m].key = flows'[n].key
        PROVE  Separate(flows'[m].state, flows'[n].state)
    BY <1>5, <1>8, <2>1
  <2> QED BY <1>2, <1>5, <2>1 DEF RecordsOfAKeyDisjoint, SplitsAreJustified, Separate
<1>10. ClosedKeysHaveOpenFlows'
  BY <1>2 DEF ClosedKeysHaveOpenFlows
<1> QED BY <1>6, <1>7, <1>9, <1>10 DEF IInv

-----------------------------------------------------------------------------
(* The order of the hash map *)

\* Two sequences that hold the same records at places a bijection relates,
\* all with different sort keys, sort to the same sequence.
LEMMA SameSort ==
  ASSUME NEW r \in Seq(FlowRecord), NEW s \in Seq(FlowRecord),
         NEW pi \in Bijection(DOMAIN r, DOMAIN s), Len(r) = Len(s),
         \A i \in DOMAIN r : r[i] = s[pi[i]],
         \A i, j \in DOMAIN r : i # j => SortKey(r[i]) # SortKey(r[j])
  PROVE  StableSort(r) = StableSort(s)
<1> DEFINE D == DOMAIN r
           beforeR(i) == {g \in D : Precedes(r, g, i)}
           beforeS(i) == {h \in DOMAIN s : Precedes(s, h, i)}
<1>1. /\ D = 1 .. Len(r) /\ DOMAIN s = D /\ Len(r) \in Nat
      /\ IsFiniteSet(D)
  BY LenProperties, IntervalCardinality
<1>2. /\ pi \in [D -> D]
      /\ \A i, j \in D : pi[i] = pi[j] => i = j
      /\ \A h \in D : \E g \in D : pi[g] = h
  BY <1>1 DEF Bijection, Injection, Surjection, IsInjective
<1>3. \A g, i \in D : Precedes(r, g, i) <=> Precedes(s, pi[g], pi[i])
  <2> TAKE g, i \in D
  <2>1. CASE g = i
    <3>1. pi[i] \in DOMAIN s
      BY <1>1, <1>2
    <3>2. ~Precedes(r, i, i) /\ ~Precedes(s, pi[i], pi[i])
      BY <3>1, PrecedesOrder
    <3> QED BY <2>1, <3>2
  <2>2. CASE g # i
    <3>1. /\ SortKey(r[g]) # SortKey(r[i])
          /\ r[g] = s[pi[g]] /\ r[i] = s[pi[i]]
      BY <2>2
    <3>2. Precedes(r, g, i) <=> TupleLess(SortKey(r[g]), SortKey(r[i]))
      BY <3>1 DEF Precedes
    <3>3. Precedes(s, pi[g], pi[i]) <=> TupleLess(SortKey(r[g]), SortKey(r[i]))
      BY <3>1 DEF Precedes
    <3> QED BY <3>2, <3>3
  <2> QED BY <2>1, <2>2
<1>4. \A i \in D : Place(r, i) = Place(s, pi[i])
  <2> TAKE i \in D
  <2> DEFINE A == beforeR(i)
             B == beforeS(pi[i])
             move == [g \in A |-> pi[g]]
  <2>1. move \in [A -> B]
    BY <1>1, <1>2, <1>3
  <2>2. \A g, h \in A : move[g] = move[h] => g = h
    BY <1>2
  <2>3. \A h \in B : \E g \in A : move[g] = h
    BY <1>1, <1>2, <1>3
  <2>4. move \in Bijection(A, B)
    BY <2>1, <2>2, <2>3 DEF Bijection, Injection, Surjection, IsInjective
  <2>5. IsFiniteSet(A)
    BY <1>1, FS_Subset
  <2>6. Cardinality(A) = Cardinality(B)
    BY <2>4, <2>5, FS_Bijection DEF ExistsBijection
  <2> QED BY <2>6 DEF Place
<1>5. PICK fromR \in [D -> D] : \A n \in D : /\ StableSort(r)[n] = r[fromR[n]]
                                           /\ Place(r, fromR[n]) = n
  BY StableSortPermutes
<1>6. PICK fromS \in [DOMAIN s -> DOMAIN s] :
        \A n \in DOMAIN s : /\ StableSort(s)[n] = s[fromS[n]]
                            /\ Place(s, fromS[n]) = n
  BY StableSortPermutes, Zenon
<1>7. \A n \in D : StableSort(r)[n] = StableSort(s)[n]
  <2> TAKE n \in D
  <2>1. Place(s, pi[fromR[n]]) = Place(s, fromS[n])
    BY <1>4, <1>5, <1>6
  <2>2. pi[fromR[n]] \in DOMAIN s /\ fromS[n] \in DOMAIN s
    BY <1>1, <1>2, <1>5, <1>6
  <2>3. pi[fromR[n]] = fromS[n]
    <3> DEFINE x == pi[fromR[n]]
               y == fromS[n]
    <3>1. x \in DOMAIN s /\ y \in DOMAIN s /\ Place(s, x) = Place(s, y)
      BY <2>1, <2>2
    <3> HIDE DEF x, y
    <3>2. Place(s, x) \in Nat
      <4>1. Place(s, x) \in DOMAIN s
        BY <3>1, PlaceMonotone
      <4> QED BY <1>1, <4>1
    <3>3. ~(Place(s, x) < Place(s, y)) /\ ~(Place(s, y) < Place(s, x))
      BY <3>1, <3>2
    <3>4. ~Precedes(s, x, y) /\ ~Precedes(s, y, x)
      BY <3>1, <3>3, PlaceMonotone
    <3>5. x = y
      BY <3>1, <3>4, PrecedesOrder
    <3> QED BY <3>5 DEF x, y
  <2>4. s[fromS[n]] = r[fromR[n]]
    BY <1>5, <2>3
  <2> QED BY <1>5, <1>6, <2>4
<1>8. /\ StableSort(r) \in [D -> FlowRecord] /\ StableSort(s) \in [D -> FlowRecord]
  BY <1>1, StableSortPermutes, LenProperties
<1> QED BY <1>7, <1>8

\* No two records of the drained sequence have the same sort key.
LEMMA SortKeysDistinct ==
  ASSUME IInv, phase = "reading", NEW order \in SetToSeqs(DOMAIN active),
         NEW i \in DOMAIN Drained(order), NEW j \in DOMAIN Drained(order), i # j
  PROVE  SortKey(Drained(order)[i]) # SortKey(Drained(order)[j])
<1> DEFINE records == Drained(order)
<1>1. /\ records \in Seq(FlowRecord)
      /\ \A m \in DOMAIN records : SpanOK(records[m].state)
      /\ \A m, n \in DOMAIN records :
           m < n /\ records[m].key = records[n].key
             => Separate(records[m].state, records[n].state)
  BY DrainedRecords
<1> HIDE DEF records
<1>2. SUFFICES ASSUME NEW m \in DOMAIN records, NEW n \in DOMAIN records, m < n,
                      SortKey(records[m]) = SortKey(records[n])
               PROVE  FALSE
  BY <1>1, LenProperties DEF records
<1>3. records[m] \in FlowRecord /\ records[n] \in FlowRecord
  BY <1>1, LenProperties, ElementOfSeq
<1>4. /\ records[m].key = records[n].key
      /\ records[m].state.first_timestamp = records[n].state.first_timestamp
  BY <1>2, <1>3 DEF SortKey, FlowRecord, FlowKey
<1>5. records[m].state.last_timestamp < records[m].state.first_timestamp
  BY <1>1, <1>2, <1>4 DEF Separate
<1>6. records[m].state.first_timestamp <= records[m].state.last_timestamp
  BY <1>1 DEF SpanOK
<1> QED BY <1>3, <1>5, <1>6 DEF FlowRecord, FlowState

\* An order of the drain lists every open key once.
LEMMA DrainOrder ==
  ASSUME NEW S, IsFiniteSet(S), NEW order \in SetToSeqs(S)
  PROVE  /\ order \in [1 .. Cardinality(S) -> S]
         /\ \A m, n \in 1 .. Cardinality(S) : order[m] = order[n] => m = n
         /\ \A x \in S : \E n \in 1 .. Cardinality(S) : order[n] = x
<1> DEFINE C == 1 .. Cardinality(S)
<1>1. order \in [C -> S] /\ \A m, n \in C : order[m] = order[n] => m = n
  BY DEF SetToSeqs
<1>2. IsFiniteSet(C) /\ Cardinality(C) = Cardinality(S)
  BY FS_CardinalityType, IntervalCardinality
<1>3. order \in Injection(C, S)
  BY <1>1 DEF Injection, IsInjective
<1>4. order \in Surjection(C, S)
  BY <1>2, <1>3, FS_Injection
<1> QED BY <1>1, <1>4 DEF Surjection

\* Two drain orders are related by a bijection of the places of the records.
LEMMA DrainsArePermutations ==
  ASSUME IInv, phase = "reading",
         NEW one \in SetToSeqs(DOMAIN active), NEW other \in SetToSeqs(DOMAIN active)
  PROVE  \E pi \in Bijection(DOMAIN Drained(one), DOMAIN Drained(other)) :
           \A i \in DOMAIN Drained(one) : Drained(one)[i] = Drained(other)[pi[i]]
<1> DEFINE count == Cardinality(DOMAIN active)
           C == 1 .. count
           L == Len(flows)
           D == 1 .. (L + count)
<1>1. L \in Nat /\ IsFiniteSet(DOMAIN active)
  BY LenProperties DEF IInv, TypeOK
<1>2. count \in Nat
  BY <1>1, FS_CardinalityType
<1> HIDE DEF L, count
<1>3. /\ one \in [C -> DOMAIN active] /\ \A m, n \in C : m # n => one[m] # one[n]
      /\ other \in [C -> DOMAIN active] /\ \A m, n \in C : m # n => other[m] # other[n]
  BY <1>1, DrainOrder DEF count
<1>4. \A k \in DOMAIN active : (\E m \in C : one[m] = k) /\ (\E n \in C : other[n] = k)
  BY <1>1, DrainOrder DEF count
<1> DEFINE match == [m \in C |-> CHOOSE n \in C : other[n] = one[m]]
           pi == [i \in D |-> IF i <= L THEN i ELSE L + match[i - L]]
<1>5. \A m \in C : match[m] \in C /\ other[match[m]] = one[m]
  BY <1>3, <1>4
<1>6. \A n \in C : \E m \in C : match[m] = n
  BY <1>3, <1>4, <1>5
<1>7. \A m, n \in C : match[m] = match[n] => m = n
  BY <1>3, <1>5
<1> HIDE DEF match
<1>8. \A i \in D : i \in Int /\ (~(i <= L) => i - L \in C /\ match[i - L] \in C)
  BY <1>1, <1>2, <1>5
<1>9. \A i \in D : pi[i] \in D /\ (i <= L <=> pi[i] <= L)
  BY <1>1, <1>2, <1>8
<1>10. \A i, j \in D : pi[i] = pi[j] => i = j
  <2> TAKE i, j \in D
  <2>1. CASE i <= L \/ j <= L
    BY <1>1, <1>9, <2>1
  <2>2. CASE ~(i <= L) /\ ~(j <= L)
    BY <1>1, <1>2, <1>7, <1>8, <2>2
  <2> QED BY <2>1, <2>2
<1>11. \A h \in D : \E g \in D : pi[g] = h
  <2> TAKE h \in D
  <2>1. CASE h <= L
    BY <1>1, <2>1
  <2>2. CASE ~(h <= L)
    <3>1. PICK m \in C : match[m] = h - L
      BY <1>6, <1>8, <2>2
    <3>2. L + m \in D /\ pi[L + m] = h
      BY <1>1, <1>2, <1>8, <2>2, <3>1
    <3> QED BY <3>2
  <2> QED BY <2>1, <2>2
<1>12. pi \in Bijection(D, D)
  BY <1>9, <1>10, <1>11 DEF Bijection, Injection, Surjection, IsInjective
<1>13. /\ DOMAIN Drained(one) = D /\ DOMAIN Drained(other) = D
       /\ \A i \in 1 .. L : Drained(one)[i] = flows[i] /\ Drained(other)[i] = flows[i]
       /\ \A n \in C :
            /\ Drained(one)[L + n] = [key |-> one[n], state |-> active[one[n]]]
            /\ Drained(other)[L + n] = [key |-> other[n], state |-> active[other[n]]]
  BY DrainedRecords, LenProperties DEF L, count
<1>14. \A i \in D : Drained(one)[i] = Drained(other)[pi[i]]
  <2> TAKE i \in D
  <2>1. CASE i <= L
    BY <1>1, <1>2, <1>13, <2>1
  <2>2. CASE ~(i <= L)
    <3> DEFINE m == i - L
    <3>1. m \in C /\ i = L + m /\ pi[i] = L + match[m]
      BY <1>1, <1>2, <1>8, <2>2
    <3>2. match[m] \in C /\ other[match[m]] = one[m]
      BY <1>5, <3>1
    <3> HIDE DEF m, pi
    <3>3. Drained(one)[L + m] = [key |-> one[m], state |-> active[one[m]]]
      BY <1>13, <3>1
    <3>4. Drained(other)[L + match[m]]
            = [key |-> other[match[m]], state |-> active[other[match[m]]]]
      BY <1>13, <3>2
    <3> QED BY <3>1, <3>2, <3>3, <3>4
  <2> QED BY <2>1, <2>2
<1> HIDE DEF pi
<1> QED BY <1>12, <1>13, <1>14

-----------------------------------------------------------------------------
(* Conservation of the counters *)

Counters == {"fwd_pkts", "bwd_pkts", "fwd_bytes", "bwd_bytes"}

\* What a packet adds to a counter of the state it is counted into.
Share(field, p) ==
  CASE field = "fwd_pkts"  -> IF IsForward(p) THEN 1 ELSE 0
    [] field = "bwd_pkts"  -> IF IsForward(p) THEN 0 ELSE 1
    [] field = "fwd_bytes" -> IF IsForward(p) THEN p.packet_bytes ELSE 0
    [] field = "bwd_bytes" -> IF IsForward(p) THEN 0 ELSE p.packet_bytes

\* A counter is a natural number, zero in a fresh state, and moves by the share.
LEMMA CountAddsShare ==
  ASSUME NEW s \in FlowState, NEW p \in Packets, NEW field \in Counters
  PROVE  /\ s[field] \in Nat /\ Share(field, p) \in Nat
         /\ Count(s, p)[field] = s[field] + Share(field, p)
         /\ \A t \in Int : Fresh(t)[field] = 0
<1>1. p.timestamp \in Int /\ p.packet_bytes \in Nat
  BY MakeFlowKeyType DEF Packet
<1>2. /\ s.fwd_pkts \in Nat /\ s.bwd_pkts \in Nat
      /\ s.fwd_bytes \in Nat /\ s.bwd_bytes \in Nat
  BY DEF FlowState
<1>3. /\ Count(s, p).fwd_pkts = s.fwd_pkts + (IF IsForward(p) THEN 1 ELSE 0)
      /\ Count(s, p).bwd_pkts = s.bwd_pkts + (IF IsForward(p) THEN 0 ELSE 1)
      /\ Count(s, p).fwd_bytes = s.fwd_bytes + (IF IsForward(p) THEN p.packet_bytes ELSE 0)
      /\ Count(s, p).bwd_bytes = s.bwd_bytes + (IF IsForward(p) THEN 0 ELSE p.packet_bytes)
  BY <1>1, <1>2 DEF Count, FlowState
<1>4. CASE field = "fwd_pkts"
  BY <1>1, <1>2, <1>3, <1>4 DEF Share, Fresh
<1>5. CASE field = "bwd_pkts"
  BY <1>1, <1>2, <1>3, <1>5 DEF Share, Fresh
<1>6. CASE field = "fwd_bytes"
  BY <1>1, <1>2, <1>3, <1>6 DEF Share, Fresh
<1>7. CASE field = "bwd_bytes"
  BY <1>1, <1>2, <1>3, <1>7 DEF Share, Fresh
<1> QED BY <1>4, <1>5, <1>6, <1>7 DEF Counters

\* A counter summed over the records of a key in any vector of records.
OfKey(records, k) == {i \in DOMAIN records : records[i].key = k}

RecordsTotal(records, field, k) ==
  SumFunctionOnSet([i \in DOMAIN records |-> records[i].state[field]], OfKey(records, k))

\* The records of one key are finitely many, and their counters add up to a number.
LEMMA RecordsTotalType ==
  ASSUME NEW records \in Seq(FlowRecord), NEW field \in Counters, NEW k
  PROVE  /\ IsFiniteSet(OfKey(records, k))
         /\ \A i \in DOMAIN records : records[i].state[field] \in Nat
         /\ RecordsTotal(records, field, k) \in Nat
<1>1. DOMAIN records = 1 .. Len(records) /\ Len(records) \in Nat
  BY LenProperties
<1>2. IsFiniteSet(DOMAIN records)
  BY <1>1, IntervalCardinality
<1>3. IsFiniteSet(OfKey(records, k))
  BY <1>2, FS_Subset DEF OfKey
<1>4. \A i \in DOMAIN records : records[i].state[field] \in Nat
  <2>1. \A i \in DOMAIN records : records[i] \in FlowRecord
    BY <1>1, ElementOfSeq
  <2>2. \A s \in FlowState : s[field] \in Nat
    BY DEF Counters, FlowState
  <2> QED BY <2>1, <2>2 DEF FlowRecord
<1>5. RecordsTotal(records, field, k) \in Nat
  BY <1>3, <1>4, SumType DEF RecordsTotal, OfKey
<1> QED BY <1>3, <1>4, <1>5

\* A record at the end adds its counter to the total of its key.
LEMMA RecordsTotalAppend ==
  ASSUME NEW records \in Seq(FlowRecord), NEW r \in FlowRecord,
         NEW field \in Counters, NEW k
  PROVE  RecordsTotal(Append(records, r), field, k)
           = RecordsTotal(records, field, k) + (IF r.key = k THEN r.state[field] ELSE 0)
<1> DEFINE longer == Append(records, r)
           f == [i \in DOMAIN records |-> records[i].state[field]]
           g == [i \in DOMAIN longer |-> longer[i].state[field]]
           S == OfKey(records, k)
           last == Len(records) + 1
<1>1. /\ longer \in Seq(FlowRecord) /\ Len(records) \in Nat
      /\ DOMAIN records = 1 .. Len(records) /\ DOMAIN longer = 1 .. last
      /\ longer[last] = r /\ \A i \in DOMAIN records : longer[i] = records[i]
  BY LenProperties, AppendProperties
<1>2. DOMAIN longer = DOMAIN records \cup {last} /\ last \notin DOMAIN records
  BY <1>1
<1>3. /\ IsFiniteSet(S) /\ S \subseteq DOMAIN records
      /\ \A i \in DOMAIN records : f[i] \in Nat /\ f[i] = g[i]
      /\ \A i \in DOMAIN longer : g[i] \in Nat
      /\ g[last] = r.state[field]
      /\ RecordsTotal(records, field, k) \in Nat
  BY <1>1, <1>2, RecordsTotalType DEF OfKey
<1>4. OfKey(longer, k) = IF r.key = k THEN S \cup {last} ELSE S
  BY <1>1, <1>2 DEF OfKey
<1>5. /\ RecordsTotal(records, field, k) = SumFunctionOnSet(f, S)
      /\ RecordsTotal(longer, field, k) = SumFunctionOnSet(g, OfKey(longer, k))
  BY DEF RecordsTotal
<1> HIDE DEF longer, f, g, S, last
<1>6. SumFunctionOnSet(g, S) = SumFunctionOnSet(f, S)
  <2>1. \A i \in S : f[i] \in Nat /\ f[i] = g[i]
    BY <1>3
  <2> QED BY <1>3, <2>1, SumSame
<1>7. CASE r.key = k
  <2>1. last \notin S /\ \A i \in S \cup {last} : g[i] \in Nat
    BY <1>2, <1>3
  <2>2. SumFunctionOnSet(g, S \cup {last}) = SumFunctionOnSet(g, S) + g[last]
    BY <1>3, <2>1, SumAdd
  <2> QED BY <1>3, <1>4, <1>5, <1>6, <1>7, <2>2 DEF longer
<1>8. CASE r.key # k
  BY <1>3, <1>4, <1>5, <1>6, <1>8 DEF longer
<1> QED BY <1>7, <1>8

\* Every record has its place in the sorted vector, and no other.
LEMMA StableSortBijects ==
  ASSUME NEW records \in Seq(FlowRecord)
  PROVE  /\ StableSort(records) \in Seq(FlowRecord)
         /\ DOMAIN StableSort(records) = DOMAIN records
         /\ \E from \in [DOMAIN records -> DOMAIN records] :
              /\ \A n \in DOMAIN records : StableSort(records)[n] = records[from[n]]
              /\ \A m, n \in DOMAIN records : from[m] = from[n] => m = n
              /\ \A n \in DOMAIN records : \E m \in DOMAIN records : from[m] = n
<1> DEFINE D == DOMAIN records
           sorted == StableSort(records)
<1>1. PICK from \in [D -> D] :
        /\ \A n \in D : sorted[n] = records[from[n]]
        /\ \A n \in D : Place(records, from[n]) = n
        /\ sorted \in Seq(FlowRecord) /\ DOMAIN sorted = D
  BY StableSortPermutes
<1>2. \A m, n \in D : from[m] = from[n] => m = n
  BY <1>1
<1>3. IsFiniteSet(D)
  BY LenProperties, IntervalCardinality
<1>4. from \in Injection(D, D)
  BY <1>2 DEF Injection, IsInjective
<1>5. from \in Surjection(D, D)
  BY <1>3, <1>4, FS_Injection
<1>6. \A n \in D : \E m \in D : from[m] = n
  BY <1>5 DEF Surjection
<1> HIDE DEF sorted
<1> QED BY <1>1, <1>2, <1>6 DEF sorted

\* Sorting keeps the total of every key.
LEMMA RecordsTotalSorted ==
  ASSUME NEW records \in Seq(FlowRecord), NEW field \in Counters, NEW k
  PROVE  RecordsTotal(StableSort(records), field, k) = RecordsTotal(records, field, k)
<1> DEFINE D == DOMAIN records
           sorted == StableSort(records)
           f == [i \in DOMAIN sorted |-> sorted[i].state[field]]
           g == [i \in D |-> records[i].state[field]]
           S == OfKey(sorted, k)
           T == OfKey(records, k)
<1>1. PICK from \in [D -> D] :
        /\ \A n \in D : sorted[n] = records[from[n]]
        /\ \A m, n \in D : from[m] = from[n] => m = n
        /\ \A n \in D : \E m \in D : from[m] = n
        /\ sorted \in Seq(FlowRecord) /\ DOMAIN sorted = D
  BY StableSortBijects
<1> DEFINE pi == [n \in S |-> from[n]]
<1>3. pi \in Bijection(S, T)
  <2>1. \A n \in S : n \in D /\ from[n] \in T
    BY <1>1 DEF OfKey
  <2>2. \A m \in T : \E n \in S : from[n] = m
    BY <1>1 DEF OfKey
  <2>3. \A m, n \in S : from[m] = from[n] => m = n
    BY <1>1, <2>1
  <2> HIDE DEF S, T
  <2> QED BY <2>1, <2>2, <2>3 DEF Bijection, Injection, Surjection, IsInjective
<1>4. \A n \in S : f[n] \in Nat /\ f[n] = g[pi[n]]
  <2>1. \A n \in S : n \in D /\ from[n] \in D
    BY <1>1 DEF OfKey
  <2>2. \A n \in D : records[n].state[field] \in Nat
    BY RecordsTotalType
  <2> QED BY <1>1, <2>1, <2>2
<1>5. IsFiniteSet(S)
  BY <1>1, RecordsTotalType
<1> HIDE DEF f, g, S, T, pi
<1>6. SumFunctionOnSet(f, S) = SumFunctionOnSet(g, T)
  BY <1>3, <1>4, <1>5, SumRenamed
<1> QED BY <1>6 DEF RecordsTotal, f, g, S, T

\* Draining the map adds to every key what its open flow counted.
LEMMA RecordsTotalDrained ==
  ASSUME IInv, phase = "reading", NEW order \in SetToSeqs(DOMAIN active),
         NEW field \in Counters, NEW k
  PROVE  RecordsTotal(Drained(order), field, k) = Total(field, k)
<1> DEFINE records == Drained(order)
           count == Cardinality(DOMAIN active)
           L == Len(flows)
           f == [i \in DOMAIN flows |-> flows[i].state[field]]
           g == [i \in DOMAIN records |-> records[i].state[field]]
           S == ClosedOf(k)
<1>1. /\ records \in Seq(FlowRecord) /\ Len(records) = L + count
      /\ \A i \in 1 .. L : records[i] = flows[i]
      /\ \A n \in 1 .. count :
           records[L + n] = [key |-> order[n], state |-> active[order[n]]]
  BY DrainedRecords
<1>2. /\ flows \in Seq(FlowRecord) /\ L \in Nat /\ DOMAIN flows = 1 .. L
      /\ count \in Nat /\ DOMAIN records = 1 .. (L + count)
      /\ IsFiniteSet(DOMAIN active)
  BY <1>1, LenProperties, FS_CardinalityType DEF IInv, TypeOK
<1>3. /\ \A n \in 1 .. count : order[n] \in DOMAIN active
      /\ \A l \in DOMAIN active : \E n \in 1 .. count : order[n] = l
      /\ \A m, n \in 1 .. count : order[m] = order[n] => m = n
  BY <1>2, DrainOrder
<1> HIDE DEF records, L, count
<1>10. /\ \A i \in 1 .. L : i \in DOMAIN records
       /\ \A n \in 1 .. count : L + n \in DOMAIN records /\ L + n \notin 1 .. L
       /\ \A i \in DOMAIN records : i \in 1 .. L \/ \E n \in 1 .. count : i = L + n
  <2>1. \A i \in DOMAIN records : i \notin 1 .. L => i - L \in 1 .. count /\ i = L + (i - L)
    BY <1>2
  <2> QED BY <1>2, <2>1
<1>11. \A n \in 1 .. count : /\ records[L + n].key = order[n]
                             /\ records[L + n].state = active[order[n]]
  <2> TAKE n \in 1 .. count
  <2>1. records[L + n] = [key |-> order[n], state |-> active[order[n]]]
    BY <1>1
  <2> QED BY <2>1
<1>4. /\ IsFiniteSet(S) /\ S \subseteq DOMAIN flows
      /\ \A i \in S : f[i] \in Nat /\ f[i] = g[i]
      /\ \A i \in DOMAIN records : g[i] \in Nat
  <2>1. /\ \A i \in DOMAIN records : records[i].state[field] \in Nat
        /\ \A i \in DOMAIN flows : flows[i].state[field] \in Nat
        /\ IsFiniteSet(OfKey(flows, k))
    BY <1>1, <1>2, RecordsTotalType
  <2> QED BY <1>1, <1>2, <2>1 DEF OfKey, ClosedOf
<1>5. Total(field, k) = SumFunctionOnSet(f, S) + (IF k \in DOMAIN active THEN active[k][field] ELSE 0)
  BY DEF Total
<1>6. RecordsTotal(records, field, k) = SumFunctionOnSet(g, OfKey(records, k))
  BY DEF RecordsTotal
<1>7. SumFunctionOnSet(g, S) = SumFunctionOnSet(f, S) /\ SumFunctionOnSet(f, S) \in Nat
  <2> HIDE DEF f, g, S
  <2> QED BY <1>4, SumSame, SumType
<1>8. CASE k \in DOMAIN active
  <2>1. PICK n \in 1 .. count : order[n] = k
    BY <1>3, <1>8
  <2>2. OfKey(records, k) = S \cup {L + n}
    <3>1. \A i \in S \cup {L + n} : i \in DOMAIN records /\ records[i].key = k
      BY <1>1, <1>2, <1>10, <1>11, <2>1 DEF ClosedOf
    <3>2. ASSUME NEW i \in DOMAIN records, records[i].key = k PROVE i \in S \cup {L + n}
      <4>1. CASE i \in 1 .. L
        BY <1>1, <1>2, <3>2, <4>1 DEF ClosedOf
      <4>2. CASE i \notin 1 .. L
        <5>1. PICK m \in 1 .. count : i = L + m
          BY <1>10, <4>2
        <5>2. order[m] = order[n]
          BY <1>11, <2>1, <3>2, <5>1
        <5> QED BY <1>3, <5>1, <5>2
      <4> QED BY <4>1, <4>2
    <3> QED BY <3>1, <3>2 DEF OfKey
  <2>3. L + n \notin S /\ \A i \in S \cup {L + n} : g[i] \in Nat
    BY <1>2, <1>4, <1>10
  <2>4. g[L + n] = active[k][field]
    BY <1>10, <1>11, <2>1
  <2> HIDE DEF f, g, S
  <2>5. SumFunctionOnSet(g, S \cup {L + n}) = SumFunctionOnSet(g, S) + g[L + n]
    BY <1>4, <2>3, SumAdd
  <2> QED BY <1>5, <1>6, <1>7, <1>8, <2>2, <2>4, <2>5 DEF records
<1>9. CASE k \notin DOMAIN active
  <2>1. OfKey(records, k) = S
    <3>1. \A i \in S : i \in DOMAIN records /\ records[i].key = k
      BY <1>1, <1>2, <1>10 DEF ClosedOf
    <3>2. ASSUME NEW i \in DOMAIN records, records[i].key = k PROVE i \in S
      <4>1. CASE i \in 1 .. L
        BY <1>1, <1>2, <3>2, <4>1 DEF ClosedOf
      <4>2. CASE i \notin 1 .. L
        <5>1. PICK m \in 1 .. count : i = L + m
          BY <1>10, <4>2
        <5> QED BY <1>3, <1>9, <1>11, <3>2, <5>1
      <4> QED BY <4>1, <4>2
    <3> QED BY <3>1, <3>2 DEF OfKey
  <2> HIDE DEF f, g, S
  <2> QED BY <1>5, <1>6, <1>7, <1>9, <2>1 DEF records
<1> QED BY <1>8, <1>9

\* A packet is of a key that some packet has when it is sent from the key's first
\* endpoint to its second, or back; the first is what the code calls forward.
LEMMA PacketOfKey ==
  ASSUME NEW q \in Packets, NEW k, k = MakeFlowKey(q), NEW p \in Packets
  PROVE  LET sends == /\ Source(p) = <<k[1], k[3]>> /\ Destination(p) = <<k[2], k[4]>>
                      /\ p.protocol = k[5]
             answers == /\ Source(p) = <<k[2], k[4]>> /\ Destination(p) = <<k[1], k[3]>>
                        /\ p.protocol = k[5]
         IN  /\ sends <=> MakeFlowKey(p) = k /\ IsForward(p)
             /\ answers /\ ~sends <=> MakeFlowKey(p) = k /\ ~IsForward(p)
<1> DEFINE sends == /\ Source(p) = <<k[1], k[3]>> /\ Destination(p) = <<k[2], k[4]>>
                    /\ p.protocol = k[5]
           answers == /\ Source(p) = <<k[2], k[4]>> /\ Destination(p) = <<k[1], k[3]>>
                      /\ p.protocol = k[5]
<1>1. /\ q.src_ip \in Int /\ q.dest_ip \in Int /\ q.src_port \in Int /\ q.dest_port \in Int
      /\ p.src_ip \in Int /\ p.dest_ip \in Int /\ p.src_port \in Int /\ p.dest_port \in Int
  BY MakeFlowKeyType DEF Packet
<1>2. /\ k[1] \in Int /\ k[2] \in Int /\ k[3] \in Int /\ k[4] \in Int
      /\ k[1] < k[2] \/ (k[1] = k[2] /\ k[3] <= k[4])
      /\ k = <<k[1], k[2], k[3], k[4], k[5]>>
  BY <1>1 DEF MakeFlowKey, EndpointLeq, Source, Destination
<1>3. CASE EndpointLeq(Source(p), Destination(p))
  <2>1. MakeFlowKey(p) = <<p.src_ip, p.dest_ip, p.src_port, p.dest_port, p.protocol>>
    BY <1>3 DEF MakeFlowKey
  <2>2. IsForward(p)
    BY <2>1 DEF IsForward, Source
  <2>3. sends <=> MakeFlowKey(p) = k
    BY <1>2, <2>1 DEF Source, Destination
  <2>4. answers => sends
    BY <1>1, <1>2, <1>3 DEF EndpointLeq, Source, Destination
  <2> QED BY <2>2, <2>3, <2>4
<1>4. CASE ~EndpointLeq(Source(p), Destination(p))
  <2>1. MakeFlowKey(p) = <<p.dest_ip, p.src_ip, p.dest_port, p.src_port, p.protocol>>
    BY <1>4 DEF MakeFlowKey
  <2>2. ~IsForward(p)
    BY <1>1, <1>4, <2>1 DEF IsForward, EndpointLeq, Source, Destination
  <2>3. answers <=> MakeFlowKey(p) = k
    BY <1>2, <2>1 DEF Source, Destination
  <2>4. ~sends
    BY <1>1, <1>2, <1>4 DEF EndpointLeq, Source, Destination
  <2> QED BY <2>2, <2>3, <2>4
<1> QED BY <1>3, <1>4

\* So the packets of such a key are the packets that have it.
LEMMA ExchangedByKey ==
  ASSUME trace \in Seq(Packets), NEW q \in Packets, NEW k, k = MakeFlowKey(q)
  PROVE  /\ Sent(k) = {n \in DOMAIN trace : MakeFlowKey(trace[n]) = k /\ IsForward(trace[n])}
         /\ Answered(k) = {n \in DOMAIN trace : MakeFlowKey(trace[n]) = k /\ ~IsForward(trace[n])}
         /\ Exchanged(k) = {n \in DOMAIN trace : MakeFlowKey(trace[n]) = k}
<1>1. \A n \in DOMAIN trace : trace[n] \in Packets
  BY LenProperties, ElementOfSeq
<1>2. /\ Sent(k) = {n \in DOMAIN trace : MakeFlowKey(trace[n]) = k /\ IsForward(trace[n])}
      /\ Answered(k) = {n \in DOMAIN trace : MakeFlowKey(trace[n]) = k /\ ~IsForward(trace[n])}
  BY <1>1, PacketOfKey DEF Sent, Answered
<1> QED BY <1>2 DEF Exchanged

\* What a packet does to the history: one more index, of its own key.
LEMMA TraceGrows ==
  ASSUME trace \in Seq(Packets), NEW p \in Packets, trace' = Append(trace, p)
  PROVE  LET last == Len(trace) + 1 IN
         /\ trace' \in Seq(Packets)
         /\ DOMAIN trace' = DOMAIN trace \cup {last} /\ last \notin DOMAIN trace
         /\ trace'[last] = p
         /\ \A n \in DOMAIN trace : trace'[n] = trace[n] /\ trace[n] \in Packets
         /\ \A q \in Packets : LET k == MakeFlowKey(q) IN
              /\ Sent(k)' = Sent(k) \cup
                   (IF k = MakeFlowKey(p) /\ IsForward(p) THEN {last} ELSE {})
              /\ Answered(k)' = Answered(k) \cup
                   (IF k = MakeFlowKey(p) /\ ~IsForward(p) THEN {last} ELSE {})
              /\ Exchanged(k)' = Exchanged(k) \cup
                   (IF k = MakeFlowKey(p) THEN {last} ELSE {})
              /\ Exchanged(k)' = {n \in DOMAIN trace' : MakeFlowKey(trace'[n]) = k}
<1> DEFINE last == Len(trace) + 1
<1>1. /\ trace' \in Seq(Packets) /\ Len(trace) \in Nat
      /\ DOMAIN trace = 1 .. Len(trace) /\ DOMAIN trace' = 1 .. last
      /\ trace'[last] = p /\ \A n \in DOMAIN trace : trace'[n] = trace[n]
  BY LenProperties, AppendProperties
<1>2. \A n \in DOMAIN trace : trace[n] \in Packets
  BY <1>1, ElementOfSeq
<1>3. DOMAIN trace' = DOMAIN trace \cup {last} /\ last \notin DOMAIN trace
  BY <1>1
<1>4. ASSUME NEW q \in Packets, NEW k, k = MakeFlowKey(q)
      PROVE  /\ Sent(k)' = Sent(k) \cup
                  (IF k = MakeFlowKey(p) /\ IsForward(p) THEN {last} ELSE {})
             /\ Answered(k)' = Answered(k) \cup
                  (IF k = MakeFlowKey(p) /\ ~IsForward(p) THEN {last} ELSE {})
             /\ Exchanged(k)' = {n \in DOMAIN trace' : MakeFlowKey(trace'[n]) = k}
  <2>1. \A n \in DOMAIN trace' : trace'[n] \in Packets
    BY <1>1, <1>2, <1>3
  <2>2. /\ Sent(k)' = {n \in DOMAIN trace' : MakeFlowKey(trace'[n]) = k /\ IsForward(trace'[n])}
        /\ Answered(k)' = {n \in DOMAIN trace' : MakeFlowKey(trace'[n]) = k /\ ~IsForward(trace'[n])}
    BY <1>4, <2>1, PacketOfKey DEF Sent, Answered
  <2>3. /\ Sent(k) = {n \in DOMAIN trace : MakeFlowKey(trace[n]) = k /\ IsForward(trace[n])}
        /\ Answered(k) = {n \in DOMAIN trace : MakeFlowKey(trace[n]) = k /\ ~IsForward(trace[n])}
    BY <1>4, ExchangedByKey
  <2>4. Exchanged(k)' = {n \in DOMAIN trace' : MakeFlowKey(trace'[n]) = k}
    BY <2>2 DEF Exchanged
  <2> HIDE DEF last
  <2> QED BY <1>1, <1>3, <2>2, <2>3, <2>4
<1>5. \A q \in Packets : LET k == MakeFlowKey(q) IN
        Exchanged(k)' = Exchanged(k) \cup (IF k = MakeFlowKey(p) THEN {last} ELSE {})
  BY <1>4 DEF Exchanged
<1> QED BY <1>1, <1>2, <1>3, <1>4, <1>5

\* The bytes of a set of packets of any history.
SizeOf(tr, S) == SumFunctionOnSet([n \in DOMAIN tr |-> tr[n].packet_bytes], S)

\* One more packet adds its bytes to the sets that hold it and to no other.
LEMMA SizeGrows ==
  ASSUME NEW tr \in Seq(Packets), NEW p \in Packets, NEW S \in SUBSET (DOMAIN tr)
  PROVE  /\ IsFiniteSet(S)
         /\ SizeOf(Append(tr, p), S) = SizeOf(tr, S)
         /\ SizeOf(Append(tr, p), S \cup {Len(tr) + 1}) = SizeOf(tr, S) + p.packet_bytes
<1> DEFINE longer == Append(tr, p)
           f == [n \in DOMAIN tr |-> tr[n].packet_bytes]
           g == [n \in DOMAIN longer |-> longer[n].packet_bytes]
           last == Len(tr) + 1
<1>1. /\ longer \in Seq(Packets) /\ Len(tr) \in Nat
      /\ DOMAIN tr = 1 .. Len(tr) /\ DOMAIN longer = 1 .. last
      /\ longer[last] = p /\ \A n \in DOMAIN tr : longer[n] = tr[n]
  BY LenProperties, AppendProperties
<1>2. IsFiniteSet(S)
  BY <1>1, IntervalCardinality, FS_Subset
<1>3. \A n \in DOMAIN longer : longer[n] \in Packets /\ longer[n].packet_bytes \in Nat
  BY <1>1, ElementOfSeq, MakeFlowKeyType DEF Packet
<1>4. /\ \A n \in S : f[n] \in Nat /\ f[n] = g[n]
      /\ last \notin S /\ \A n \in S \cup {last} : g[n] \in Nat
      /\ g[last] = p.packet_bytes
  BY <1>1, <1>3
<1> HIDE DEF f, g, longer, last
<1>5. SumFunctionOnSet(f, S) = SumFunctionOnSet(g, S)
  BY <1>2, <1>4, SumSame
<1>6. SumFunctionOnSet(g, S \cup {last}) = SumFunctionOnSet(g, S) + g[last]
  BY <1>2, <1>4, SumAdd
<1> QED BY <1>2, <1>4, <1>5, <1>6 DEF SizeOf, f, g, longer, last

\* A packet adds its share to the counters of its key, and to no other.
LEMMA TotalGrows ==
  ASSUME IInv, NEW p \in Packets, Ingest(p), NEW field \in Counters, NEW k
  PROVE  /\ Total(field, k) \in Nat
         /\ Total(field, k)' = Total(field, k)
                                 + (IF k = MakeFlowKey(p) THEN Share(field, p) ELSE 0)
<1> DEFINE key == MakeFlowKey(p)
           open(table) == IF k \in DOMAIN table THEN table[k][field] ELSE 0
<1>1. /\ flows \in Seq(FlowRecord) /\ key \in FlowKey
      /\ \A l \in DOMAIN active : active[l] \in FlowState
      /\ p.timestamp \in Int
  BY MakeFlowKeyType DEF IInv, TypeOK, Packet
<1>2. /\ active' = [l \in DOMAIN active \cup {key} |->
                      IF l = key THEN Count(Target(p), p) ELSE active[l]]
      /\ flows' = IF Closes(p)
                  THEN Append(flows, [key |-> key, state |-> active[key]])
                  ELSE flows
      /\ Closes(p) => key \in DOMAIN active
      /\ Target(p) = IF key \in DOMAIN active /\ ~Closes(p)
                     THEN active[key] ELSE Fresh(p.timestamp)
  BY DEF Ingest, Target, Closes
<1>3. /\ Total(field, k) = RecordsTotal(flows, field, k) + open(active)
      /\ Total(field, k)' = RecordsTotal(flows', field, k) + open(active')
  BY DEF Total, RecordsTotal, OfKey, ClosedOf
<1>4. RecordsTotal(flows, field, k) \in Nat
  BY <1>1, RecordsTotalType
<1>5. /\ Share(field, p) \in Nat
      /\ \A l \in DOMAIN active : active[l][field] \in Nat
      /\ open(active) \in Nat
  <2>1. \A l \in DOMAIN active : active[l][field] \in Nat
    BY <1>1, CountAddsShare
  <2>2. Share(field, p) \in Nat
    BY <1>1, FreshState, CountAddsShare
  <2> QED BY <2>1, <2>2
<1>6. Closes(p) =>
        RecordsTotal(flows', field, k)
          = RecordsTotal(flows, field, k) + (IF key = k THEN active[key][field] ELSE 0)
  <2> SUFFICES ASSUME Closes(p)
               PROVE  RecordsTotal(flows', field, k) = RecordsTotal(flows, field, k)
                        + (IF key = k THEN active[key][field] ELSE 0)
    OBVIOUS
  <2> DEFINE new == [key |-> key, state |-> active[key]]
  <2>1. new \in FlowRecord /\ new.key = key /\ new.state = active[key]
    BY <1>1, <1>2 DEF FlowRecord
  <2>2. flows' = Append(flows, new)
    BY <1>2
  <2> HIDE DEF new
  <2>3. RecordsTotal(Append(flows, new), field, k)
          = RecordsTotal(flows, field, k) + (IF new.key = k THEN new.state[field] ELSE 0)
    BY <1>1, <2>1, RecordsTotalAppend
  <2> QED BY <2>1, <2>2, <2>3
<1>7. /\ Count(Target(p), p)[field] = Target(p)[field] + Share(field, p)
      /\ Fresh(p.timestamp)[field] = 0
  BY <1>1, <1>2, FreshState, CountAddsShare
<1>8. open(active') = IF k = key THEN Target(p)[field] + Share(field, p) ELSE open(active)
  BY <1>2, <1>7
<1> HIDE DEF key
<1>9. CASE k = key
  <2>1. CASE Closes(p)
    BY <1>2, <1>3, <1>4, <1>5, <1>6, <1>7, <1>8, <1>9, <2>1 DEF key
  <2>2. CASE ~Closes(p) /\ key \in DOMAIN active
    BY <1>2, <1>3, <1>4, <1>5, <1>8, <1>9, <2>2 DEF key
  <2>3. CASE key \notin DOMAIN active
    BY <1>2, <1>3, <1>4, <1>5, <1>7, <1>8, <1>9, <2>3 DEF key
  <2> QED BY <2>1, <2>2, <2>3
<1>10. CASE k # key
  BY <1>2, <1>3, <1>4, <1>5, <1>6, <1>8, <1>10 DEF key
<1> QED BY <1>9, <1>10

\* A key of the packets that is not held yet adds up too: it counted nothing.
LEMMA UnheldAddsUp ==
  ASSUME IInv, KeysAreTraced, NEW q \in Packets, MakeFlowKey(q) \notin HeldKeys
  PROVE  AddUp(MakeFlowKey(q))
<1> DEFINE k == MakeFlowKey(q)
<1>1. k \notin DOMAIN active /\ ClosedOf(k) = {}
  BY DEF HeldKeys, ClosedOf
<1>2. \A field : Total(field, k) = 0
  BY <1>1, SumEmpty DEF Total
<1>3. Sent(k) = {} /\ Answered(k) = {}
  BY ExchangedByKey DEF IInv, TypeOK, KeysAreTraced
<1>4. TotalSize({}) = 0 /\ Cardinality({}) = 0
  BY SumEmpty, FS_EmptySet DEF TotalSize
<1> QED BY <1>2, <1>3, <1>4 DEF AddUp

\* After a packet the keys held are those held before and its own.
LEMMA KeysGrow ==
  ASSUME IInv, KeysAreTraced, NEW p \in Packets, Ingest(p)
  PROVE  KeysAreTraced' /\ HeldKeys' = HeldKeys \cup {MakeFlowKey(p)}
<1> DEFINE key == MakeFlowKey(p)
           new == [key |-> key, state |-> active[key]]
<1>1. /\ flows \in Seq(FlowRecord) /\ trace \in Seq(Packets)
      /\ trace' = Append(trace, p)
  BY DEF IInv, TypeOK, Ingest
<1>2. /\ DOMAIN active' = DOMAIN active \cup {key}
      /\ IF Closes(p) THEN key \in DOMAIN active /\ flows' = Append(flows, new)
                      ELSE flows' = flows
  BY IngestKey
<1>3. HeldKeys' = HeldKeys \cup {key}
  <2>1. CASE Closes(p)
    <3>1. /\ flows' = Append(flows, new)
          /\ DOMAIN flows' = DOMAIN flows \cup {Len(flows) + 1}
          /\ flows'[Len(flows) + 1].key = key
          /\ \A i \in DOMAIN flows : flows'[i] = flows[i]
      <4>1. new \in FlowRecord
        BY <1>2, <2>1, MakeFlowKeyType DEF IInv, TypeOK, FlowRecord
      <4>2. flows' = Append(flows, new)
        BY <1>2, <2>1
      <4>3. /\ DOMAIN flows = 1 .. Len(flows) /\ Len(flows) \in Nat
            /\ DOMAIN flows' = 1 .. (Len(flows) + 1)
            /\ flows'[Len(flows) + 1] = new
            /\ \A i \in DOMAIN flows : flows'[i] = flows[i]
        BY <1>1, <4>1, <4>2, LenProperties, AppendProperties
      <4> QED BY <4>2, <4>3
    <3> QED BY <1>2, <3>1 DEF HeldKeys
  <2>2. CASE ~Closes(p)
    BY <1>2, <2>2 DEF HeldKeys
  <2> QED BY <2>1, <2>2
<1>4. /\ DOMAIN trace' = DOMAIN trace \cup {Len(trace) + 1}
      /\ trace'[Len(trace) + 1] = p /\ \A n \in DOMAIN trace : trace'[n] = trace[n]
  BY <1>1, TraceGrows
<1>5. {MakeFlowKey(trace'[n]) : n \in DOMAIN trace'}
        = {MakeFlowKey(trace[n]) : n \in DOMAIN trace} \cup {key}
  BY <1>4
<1> QED BY <1>3, <1>5 DEF KeysAreTraced

\* A packet preserves conservation.
LEMMA IngestConserves ==
  ASSUME IInv, KeysAreTraced, CountersConserved, NEW p \in Packets, Ingest(p)
  PROVE  CountersConserved'
<1> DEFINE key == MakeFlowKey(p)
           last == Len(trace) + 1
<1>1. /\ trace \in Seq(Packets) /\ trace' = Append(trace, p)
  BY DEF IInv, TypeOK, Ingest
<1>2. /\ HeldKeys' = {MakeFlowKey(trace'[n]) : n \in DOMAIN trace'}
      /\ HeldKeys' = HeldKeys \cup {key}
  BY KeysGrow DEF KeysAreTraced
<1>3. /\ \A n \in DOMAIN trace' : trace'[n] \in Packets
      /\ \A q \in Packets : LET k == MakeFlowKey(q) IN
           Exchanged(k)' = {n \in DOMAIN trace' : MakeFlowKey(trace'[n]) = k}
  BY <1>1, TraceGrows
<1>4. \A k \in HeldKeys' : Exchanged(k)' = {n \in DOMAIN trace' : MakeFlowKey(trace'[n]) = k}
  BY <1>2, <1>3
<1>5. InOneConversation'
  BY <1>2, <1>4 DEF InOneConversation
<1>6. ASSUME NEW k \in HeldKeys' PROVE AddUp(k)'
  <2>1. PICK q \in Packets : k = MakeFlowKey(q)
    BY <1>2, <1>3
  <2>2. AddUp(k)
    <3>1. CASE k \in HeldKeys
      BY <3>1 DEF CountersConserved
    <3>2. CASE k \notin HeldKeys
      BY <2>1, <3>2, UnheldAddsUp
    <3> QED BY <3>1, <3>2
  <2>3. /\ Sent(k)' = Sent(k) \cup (IF k = key /\ IsForward(p) THEN {last} ELSE {})
        /\ Answered(k)' = Answered(k) \cup (IF k = key /\ ~IsForward(p) THEN {last} ELSE {})
        /\ last \notin DOMAIN trace
    BY <1>1, <2>1, TraceGrows
  <2>4. Sent(k) \subseteq DOMAIN trace /\ Answered(k) \subseteq DOMAIN trace
    BY DEF Sent, Answered
  <2>5. \A field \in Counters :
          /\ Total(field, k) \in Nat
          /\ Total(field, k)' = Total(field, k) + (IF k = key THEN Share(field, p) ELSE 0)
    BY TotalGrows
  <2>6. \A S \in SUBSET (DOMAIN trace) :
          /\ Cardinality(S) \in Nat
          /\ Cardinality(S \cup {last}) = Cardinality(S) + 1
          /\ SizeOf(trace', S) = SizeOf(trace, S)
          /\ SizeOf(trace', S \cup {last}) = SizeOf(trace, S) + p.packet_bytes
    <3> TAKE S \in SUBSET (DOMAIN trace)
    <3>1. /\ IsFiniteSet(S) /\ last \notin S
          /\ SizeOf(trace', S) = SizeOf(trace, S)
          /\ SizeOf(trace', S \cup {last}) = SizeOf(trace, S) + p.packet_bytes
      BY <1>1, <2>3, SizeGrows
    <3> HIDE DEF last
    <3>2. Cardinality(S) \in Nat /\ Cardinality(S \cup {last}) = Cardinality(S) + 1
      BY <3>1, FS_CardinalityType, FS_AddElement
    <3> QED BY <3>1, <3>2
  <2>7. /\ TotalSize(Sent(k)) = SizeOf(trace, Sent(k))
        /\ TotalSize(Answered(k)) = SizeOf(trace, Answered(k))
        /\ TotalSize(Sent(k))' = SizeOf(trace', Sent(k)')
        /\ TotalSize(Answered(k))' = SizeOf(trace', Answered(k)')
    BY DEF TotalSize, SizeOf
  <2>8. /\ SizeOf(trace, Sent(k)) \in Nat /\ SizeOf(trace, Answered(k)) \in Nat
    BY <2>2, <2>5, <2>7 DEF AddUp, Counters
  <2> HIDE DEF last, key
  <2>9. CASE k = key /\ IsForward(p)
    <3>1. Sent(k)' = Sent(k) \cup {last} /\ Answered(k)' = Answered(k)
      BY <2>3, <2>9
    <3>2. /\ Total("fwd_pkts", k)' = Total("fwd_pkts", k) + 1
          /\ Total("bwd_pkts", k)' = Total("bwd_pkts", k)
          /\ Total("fwd_bytes", k)' = Total("fwd_bytes", k) + p.packet_bytes
          /\ Total("bwd_bytes", k)' = Total("bwd_bytes", k)
      BY <2>5, <2>9 DEF Share, Counters
    <3>3. /\ Cardinality(Sent(k)') = Cardinality(Sent(k)) + 1
          /\ SizeOf(trace', Sent(k)') = SizeOf(trace, Sent(k)) + p.packet_bytes
      BY <2>4, <2>6, <3>1
    <3>4. /\ Cardinality(Answered(k)') = Cardinality(Answered(k))
          /\ SizeOf(trace', Answered(k)') = SizeOf(trace, Answered(k))
      BY <2>4, <2>6, <2>8, <3>1
    <3> QED BY <2>2, <2>7, <3>2, <3>3, <3>4 DEF AddUp
  <2>10. CASE k = key /\ ~IsForward(p)
    BY <2>2, <2>3, <2>4, <2>5, <2>6, <2>7, <2>8, <2>10 DEF AddUp, Share, Counters
  <2>11. CASE k # key
    BY <2>2, <2>3, <2>4, <2>5, <2>6, <2>7, <2>8, <2>11 DEF AddUp, Share, Counters
  <2> QED BY <2>9, <2>10, <2>11
<1> QED BY <1>5, <1>6 DEF CountersConserved

-----------------------------------------------------------------------------
(* Bursts *)

\* The open flow of a packet's key after it: extended to the packet, or new.
LEMMA IngestOpenFlow ==
  ASSUME IInv, NEW p \in Packets, Ingest(p)
  PROVE  LET key == MakeFlowKey(p)
             new == active'[key]
             pkts(s) == s.fwd_pkts + s.bwd_pkts
         IN  IF key \in DOMAIN active /\ ~Closes(p)
             THEN /\ new.first_timestamp = active[key].first_timestamp
                  /\ new.last_timestamp = Greater(active[key].last_timestamp, p.timestamp)
                  /\ p.timestamp - active[key].last_timestamp <= InactiveTimeout
                  /\ pkts(new) = pkts(active[key]) + 1
             ELSE /\ new.first_timestamp = p.timestamp
                  /\ new.last_timestamp = p.timestamp
                  /\ pkts(new) = 1
<1> DEFINE key == MakeFlowKey(p)
           t == p.timestamp
           pkts(s) == s.fwd_pkts + s.bwd_pkts
<1>1. t \in Int /\ \A l \in DOMAIN active : active[l] \in FlowState
  BY MakeFlowKeyType DEF Packet, IInv, TypeOK
<1>2. active'[key] = Count(Target(p), p)
  BY DEF Ingest
<1>3. \A s \in FlowState : pkts(Count(s, p)) = pkts(s) + 1
  <2> TAKE s \in FlowState
  <2>1. /\ s.fwd_pkts \in Nat /\ s.bwd_pkts \in Nat
        /\ Count(s, p).fwd_pkts = s.fwd_pkts + (IF IsForward(p) THEN 1 ELSE 0)
        /\ Count(s, p).bwd_pkts = s.bwd_pkts + (IF IsForward(p) THEN 0 ELSE 1)
    BY CountAddsShare DEF Counters, Share
  <2> QED BY <2>1
<1>4. CASE key \in DOMAIN active /\ ~Closes(p)
  <2>1. Target(p) = active[key] /\ ~Expired(active[key], t)
    BY <1>4 DEF Target, Closes
  <2>2. active[key] \in FlowState
    BY <1>1, <1>4
  <2>3. t - active[key].last_timestamp <= InactiveTimeout
    BY <1>1, <2>1, <2>2, TimeoutAssumption DEF Expired, FlowState
  <2>4. pkts(active'[key]) = pkts(active[key]) + 1
    BY <1>2, <1>3, <2>1, <2>2
  <2>5. /\ active'[key].first_timestamp = active[key].first_timestamp
        /\ active'[key].last_timestamp = Greater(active[key].last_timestamp, t)
    BY <1>2, <2>1, <2>2, CountState
  <2> QED BY <1>4, <2>3, <2>4, <2>5
<1>5. CASE ~(key \in DOMAIN active /\ ~Closes(p))
  <2>1. Target(p) = Fresh(t)
    BY <1>5 DEF Target
  <2>2. Fresh(t) \in FlowState /\ pkts(Fresh(t)) = 0
    BY <1>1, FreshState DEF Fresh
  <2>3. /\ active'[key].first_timestamp = t
        /\ active'[key].last_timestamp = t
    BY <1>1, <1>2, <2>1, CountState, FreshState DEF Greater
  <2>4. pkts(active'[key]) = 1
    BY <1>2, <1>3, <2>1, <2>2
  <2> QED BY <1>5, <2>3, <2>4
<1> QED BY <1>4, <1>5

\* The states a key went through, after a packet of that key: its open flow, and
\* states it had before that end before the open flow starts.
LEMMA StatesAfter ==
  ASSUME IInv, IInv', NEW p \in Packets, Ingest(p), NEW k, NEW s \in States(k)'
  PROVE  LET key == MakeFlowKey(p) IN
         \/ k # key /\ s \in States(k)
         \/ k = key /\ s = active'[key]
         \/ k = key /\ s \in States(k) /\ s \in FlowState
              /\ s.last_timestamp < active'[key].first_timestamp
<1> DEFINE key == MakeFlowKey(p)
           new == [key |-> key, state |-> active[key]]
<1>1. /\ DOMAIN active' = DOMAIN active \cup {key}
      /\ \A l \in DOMAIN active \ {key} : active'[l] = active[l]
      /\ IF Closes(p) THEN key \in DOMAIN active /\ flows' = Append(flows, new)
                      ELSE flows' = flows
  BY IngestKey
<1>2. /\ flows' \in Seq(FlowRecord) /\ flows \in Seq(FlowRecord)
      /\ \A l \in DOMAIN active : active[l] \in FlowState
      /\ \A i \in DOMAIN flows' : flows'[i] \in FlowRecord
  <2>1. flows' \in Seq(FlowRecord)
    BY DEF IInv, TypeOK
  <2>2. \A i \in DOMAIN flows' : flows'[i] \in FlowRecord
    BY <2>1, LenProperties, ElementOfSeq
  <2> QED BY <2>1, <2>2 DEF IInv, TypeOK
<1>3. \A i \in DOMAIN flows' :
        \/ i \in DOMAIN flows /\ flows'[i] = flows[i]
        \/ flows'[i] = new /\ key \in DOMAIN active
  <2>1. CASE Closes(p)
    <3>1. new \in FlowRecord /\ flows' = Append(flows, new) /\ key \in DOMAIN active
      BY <1>1, <1>2, <2>1, MakeFlowKeyType DEF FlowRecord
    <3> HIDE DEF new
    <3>2. /\ DOMAIN flows = 1 .. Len(flows) /\ Len(flows) \in Nat
          /\ DOMAIN flows' = 1 .. (Len(flows) + 1)
          /\ flows'[Len(flows) + 1] = new
          /\ \A i \in DOMAIN flows : flows'[i] = flows[i]
      BY <1>2, <3>1, LenProperties, AppendProperties
    <3> QED BY <3>1, <3>2
  <2>2. CASE ~Closes(p)
    BY <1>1, <2>2
  <2> QED BY <2>1, <2>2
<1>4. CASE \E i \in DOMAIN flows' : flows'[i].key = k /\ flows'[i].state = s
  <2>1. PICK i \in DOMAIN flows' : flows'[i].key = k /\ flows'[i].state = s
    BY <1>4
  <2>2. s \in States(k)
    BY <1>3, <2>1 DEF States, ClosedOf
  <2>3. s \in FlowState
    BY <1>2, <2>1 DEF FlowRecord
  <2>4. k = key => s.last_timestamp < active'[key].first_timestamp
    BY <1>1, <2>1 DEF IInv, RecordsOfAKeyDisjoint
  <2> QED BY <2>2, <2>3, <2>4
<1>5. CASE k \in DOMAIN active' /\ s = active'[k]
  BY <1>1, <1>5 DEF States
<1> QED BY <1>4, <1>5 DEF States, ClosedOf

\* A packet preserves that the open flows reach their packets.
LEMMA IngestReaches ==
  ASSUME IInv, OpenFlowsReachTheirPackets, NEW p \in Packets, Ingest(p)
  PROVE  OpenFlowsReachTheirPackets'
<1> DEFINE key == MakeFlowKey(p)
<1>1. /\ phase = "reading" /\ trace' = Append(trace, p) /\ trace \in Seq(Packets)
      /\ \A l \in DOMAIN active : active[l] \in FlowState
      /\ p.timestamp \in Int
  BY MakeFlowKeyType DEF Ingest, IInv, TypeOK, Packet
<1>2. /\ DOMAIN active' = DOMAIN active \cup {key}
      /\ \A l \in DOMAIN active \ {key} : active'[l] = active[l]
      /\ active'[key] \in FlowState /\ SpanOK(active'[key])
      /\ Closes(p) => Separate(active[key], active'[key])
  BY IngestKey
<1>3. /\ DOMAIN trace' = DOMAIN trace \cup {Len(trace) + 1}
      /\ trace'[Len(trace) + 1] = p
      /\ \A n \in DOMAIN trace : trace'[n] = trace[n] /\ trace[n] \in Packets
  BY <1>1, TraceGrows
<1>4. p.timestamp <= active'[key].last_timestamp
  <2>1. CASE key \in DOMAIN active /\ ~Closes(p)
    BY <1>1, <2>1, IngestOpenFlow DEF Greater, FlowState
  <2>2. CASE ~(key \in DOMAIN active /\ ~Closes(p))
    BY <1>1, <2>2, IngestOpenFlow
  <2> QED BY <2>1, <2>2
<1>5. key \in DOMAIN active => active[key].last_timestamp <= active'[key].last_timestamp
  <2> SUFFICES ASSUME key \in DOMAIN active
               PROVE  active[key].last_timestamp <= active'[key].last_timestamp
    OBVIOUS
  <2>1. active[key] \in FlowState
    BY <1>1
  <2>2. CASE Closes(p)
    BY <1>2, <2>1, <2>2 DEF Separate, SpanOK, FlowState
  <2>3. CASE ~Closes(p)
    <3>1. active'[key].last_timestamp = Greater(active[key].last_timestamp, p.timestamp)
      BY <2>3, IngestOpenFlow
    <3> QED BY <1>1, <2>1, <3>1 DEF Greater, FlowState
  <2> QED BY <2>2, <2>3
<1>6. ASSUME NEW n \in DOMAIN trace
      PROVE  /\ MakeFlowKey(trace[n]) \in DOMAIN active'
             /\ trace[n].timestamp <= active'[MakeFlowKey(trace[n])].last_timestamp
  <2> DEFINE l == MakeFlowKey(trace[n])
  <2>1. l \in DOMAIN active /\ trace[n].timestamp <= active[l].last_timestamp
    BY <1>1 DEF OpenFlowsReachTheirPackets
  <2>2. trace[n].timestamp \in Int /\ active[l] \in FlowState
    BY <1>1, <1>3, <2>1, MakeFlowKeyType DEF Packet
  <2> HIDE DEF l
  <2>3. l \in DOMAIN active' /\ trace[n].timestamp <= active'[l].last_timestamp
    <3>1. CASE l = key
      BY <1>2, <1>5, <2>1, <2>2, <3>1 DEF FlowState
    <3>2. CASE l # key
      BY <1>2, <2>1, <3>2
    <3> QED BY <3>1, <3>2
  <2> QED BY <2>3 DEF l
<1> QED BY <1>2, <1>3, <1>4, <1>6 DEF OpenFlowsReachTheirPackets

\* A state that does not reach to the next packet keeps the burst it is.
LEMMA BurstStays ==
  ASSUME IInv, NEW p \in Packets, Ingest(p), NEW q \in Packets, NEW k, k = MakeFlowKey(q),
         NEW s \in FlowState, IsBurst(s, k),
         k # MakeFlowKey(p) \/ s.last_timestamp < p.timestamp
  PROVE  IsBurst(s, k)'
<1>1. trace \in Seq(Packets) /\ trace' = Append(trace, p) /\ p.timestamp \in Int
  BY MakeFlowKeyType DEF Ingest, IInv, TypeOK, Packet
<1>2. /\ trace'[Len(trace) + 1] = p
      /\ \A n \in DOMAIN trace : trace'[n] = trace[n]
      /\ Exchanged(k)' = Exchanged(k) \cup
           (IF k = MakeFlowKey(p) THEN {Len(trace) + 1} ELSE {})
  BY <1>1, TraceGrows
<1>3. Exchanged(k) \subseteq DOMAIN trace
  BY DEF Exchanged, Sent, Answered
<1>4. p.timestamp \in s.first_timestamp .. s.last_timestamp => k # MakeFlowKey(p)
  BY <1>1 DEF FlowState
<1>5. PacketsWithin(s, k)' = PacketsWithin(s, k)
  BY <1>2, <1>3, <1>4 DEF PacketsWithin
<1>6. TimesOf(PacketsWithin(s, k))' = TimesOf(PacketsWithin(s, k))
  BY <1>2, <1>3, <1>5 DEF TimesOf, PacketsWithin
<1> QED BY <1>5, <1>6 DEF IsBurst

\* In a capture in time order, the open flow of the packet's key is a burst after
\* the packet: the old one and the packet, or the packet alone.
LEMMA OpenFlowIsBurst ==
  ASSUME IInv, OpenFlowsReachTheirPackets, NEW p \in Packets, Ingest(p), InOrder',
         MakeFlowKey(p) \in DOMAIN active => IsBurst(active[MakeFlowKey(p)], MakeFlowKey(p))
  PROVE  /\ IsBurst(active[MakeFlowKey(p)], MakeFlowKey(p))'
         /\ active'[MakeFlowKey(p)].first_timestamp <= p.timestamp
<1> DEFINE key == MakeFlowKey(p)
           t == p.timestamp
           new == active'[key]
           old == active[key]
           last == Len(trace) + 1
           inside == PacketsWithin(active[key], key)'
           times == TimesOf(PacketsWithin(active[key], key))'
<1>1. /\ trace \in Seq(Packets) /\ trace' = Append(trace, p) /\ phase = "reading"
      /\ t \in Int /\ new \in FlowState
      /\ \A l \in DOMAIN active : active[l] \in FlowState
  BY MakeFlowKeyType, IngestKey DEF Ingest, IInv, TypeOK, Packet
<1>2. /\ DOMAIN trace' = DOMAIN trace \cup {last} /\ last \notin DOMAIN trace
      /\ trace'[last] = p
      /\ \A n \in DOMAIN trace : trace'[n] = trace[n] /\ trace[n] \in Packets
      /\ Exchanged(key)' = Exchanged(key) \cup {last}
  BY <1>1, TraceGrows
<1>3. \A n \in Exchanged(key) : n \in DOMAIN trace /\ MakeFlowKey(trace[n]) = key
  BY <1>1, ExchangedByKey
<1>4. \A n \in DOMAIN trace : trace[n].timestamp \in Int /\ trace[n].timestamp <= t
  <2>1. \A n \in DOMAIN trace : n \in Nat /\ n < last
    BY <1>1, LenProperties
  <2>2. \A n \in DOMAIN trace : trace[n].timestamp \in Int
    BY <1>2, MakeFlowKeyType DEF Packet
  <2> QED BY <1>2, <2>1, <2>2 DEF InOrder
<1>5. \A n \in Exchanged(key) : key \in DOMAIN active /\ trace[n].timestamp <= old.last_timestamp
  BY <1>1, <1>3 DEF OpenFlowsReachTheirPackets
<1>6. CASE key \in DOMAIN active /\ ~Closes(p)
  <2> DEFINE before == PacketsWithin(old, key)
             earlier == TimesOf(before)
  <2>1. old \in FlowState /\ IsBurst(old, key)
    BY <1>1, <1>6
  <2>2. /\ old.last_timestamp \in earlier /\ old.first_timestamp \in earlier
        /\ Cardinality(before) = old.fwd_pkts + old.bwd_pkts
        /\ \A u \in earlier \ {old.last_timestamp} :
             \E v \in earlier : u < v /\ v - u <= InactiveTimeout
    BY <2>1 DEF IsBurst
  <2>3. /\ old.last_timestamp <= t /\ old.first_timestamp <= old.last_timestamp
        /\ old.last_timestamp \in Int /\ old.first_timestamp \in Int
    BY <1>3, <1>4, <1>6, <2>1, <2>2 DEF TimesOf, PacketsWithin, IInv, SpanBounded, SpanOK, FlowState
  <2>4. /\ new.first_timestamp = old.first_timestamp
        /\ new.last_timestamp = t
        /\ t - old.last_timestamp <= InactiveTimeout
        /\ new.fwd_pkts + new.bwd_pkts = old.fwd_pkts + old.bwd_pkts + 1
    BY <1>1, <1>6, <2>3, IngestOpenFlow DEF Greater
  <2>5. inside = before \cup {last} /\ last \notin before
    BY <1>1, <1>2, <1>3, <1>4, <1>5, <2>3, <2>4 DEF PacketsWithin
  <2>6. times = earlier \cup {t}
    BY <1>2, <1>3, <2>5 DEF TimesOf, PacketsWithin
  <2>7. Cardinality(inside) = Cardinality(before) + 1
    <3>1. IsFiniteSet(before)
      <4>1. before \subseteq DOMAIN trace
        BY <1>3 DEF PacketsWithin
      <4> QED BY <1>1, <4>1, SizeGrows
    <3> QED BY <2>5, <3>1, FS_AddElement
  <2>8. \A u \in earlier : u \in Int /\ u <= old.last_timestamp
    BY <1>3, <1>4, <1>5 DEF TimesOf, PacketsWithin
  <2> HIDE DEF before, earlier, new, old, inside, times
  <2>9. ASSUME NEW u \in times \ {t}
        PROVE  \E v \in times : u < v /\ v - u <= InactiveTimeout
    <3>1. CASE u = old.last_timestamp
      BY <1>1, <2>3, <2>4, <2>6, <2>9, <3>1
    <3>2. CASE u # old.last_timestamp
      BY <2>2, <2>6, <2>9, <3>2
    <3> QED BY <3>1, <3>2
  <2>10. /\ Cardinality(inside) = new.fwd_pkts + new.bwd_pkts
         /\ {new.first_timestamp, new.last_timestamp} \subseteq times
         /\ \A u \in times \ {new.last_timestamp} :
              \E v \in times : u < v /\ v - u <= InactiveTimeout
         /\ new.first_timestamp <= t
    <3>1. Cardinality(inside) = new.fwd_pkts + new.bwd_pkts
      BY <2>2, <2>4, <2>7
    <3>2. {new.first_timestamp, new.last_timestamp} \subseteq times
      BY <2>2, <2>4, <2>6
    <3>3. new.first_timestamp <= t
      BY <1>1, <2>3, <2>4
    <3> QED BY <2>4, <2>9, <3>1, <3>2, <3>3
  <2> QED BY <2>10 DEF IsBurst, new, inside, times
<1>7. CASE ~(key \in DOMAIN active /\ ~Closes(p))
  <2>1. /\ new.first_timestamp = t /\ new.last_timestamp = t
        /\ new.fwd_pkts + new.bwd_pkts = 1
    BY <1>7, IngestOpenFlow
  <2>2. \A n \in Exchanged(key) : trace[n].timestamp < t
    <3>1. SUFFICES ASSUME NEW n \in Exchanged(key) PROVE trace[n].timestamp < t
      OBVIOUS
    <3>2. key \in DOMAIN active /\ trace[n].timestamp <= old.last_timestamp
      BY <1>5
    <3>3. Separate(old, new)
      BY <1>7, <3>2, IngestKey
    <3>4. old \in FlowState /\ trace[n].timestamp \in Int
      BY <1>1, <1>3, <1>4, <3>2
    <3> QED BY <1>1, <2>1, <3>2, <3>3, <3>4 DEF Separate, FlowState
  <2>3. inside = {last}
    BY <1>1, <1>2, <1>3, <1>4, <2>1, <2>2 DEF PacketsWithin
  <2>4. times = {t}
    BY <1>2, <2>3 DEF TimesOf
  <2>5. Cardinality(inside) = 1
    BY <2>3, FS_Singleton
  <2> HIDE DEF new, inside, times
  <2>6. /\ Cardinality(inside) = new.fwd_pkts + new.bwd_pkts
        /\ {new.first_timestamp, new.last_timestamp} \subseteq times
        /\ \A u \in times \ {new.last_timestamp} :
             \E v \in times : u < v /\ v - u <= InactiveTimeout
        /\ new.first_timestamp <= t
    BY <1>1, <2>1, <2>4, <2>5
  <2> QED BY <2>6 DEF IsBurst, new, inside, times
<1> QED BY <1>6, <1>7

\* A packet preserves that records are bursts.
LEMMA IngestBursts ==
  ASSUME IInv, IInv', KeysAreTraced, KeysAreTraced', OpenFlowsReachTheirPackets,
         InOrderRecordsAreBursts, NEW p \in Packets, Ingest(p)
  PROVE  InOrderRecordsAreBursts'
<1> SUFFICES ASSUME InOrder', NEW k \in HeldKeys', NEW s \in States(k)'
             PROVE  IsBurst(s, k)'
  BY DEF InOrderRecordsAreBursts
<1> DEFINE key == MakeFlowKey(p)
<1>1. /\ trace \in Seq(Packets) /\ trace' = Append(trace, p) /\ p.timestamp \in Int
      /\ \A l \in DOMAIN active : active[l] \in FlowState
      /\ active'[key] \in FlowState
  BY MakeFlowKeyType, IngestKey DEF Ingest, IInv, TypeOK, Packet
<1>2. /\ DOMAIN trace' = DOMAIN trace \cup {Len(trace) + 1}
      /\ trace'[Len(trace) + 1] = p
      /\ \A n \in DOMAIN trace : trace'[n] = trace[n] /\ trace[n] \in Packets
  BY <1>1, TraceGrows
<1>3. InOrder
  BY <1>2 DEF InOrder
<1>4. \A l : \A r \in States(l) : IsBurst(r, l)
  BY <1>3 DEF InOrderRecordsAreBursts, States, ClosedOf, HeldKeys
<1>5. PICK q \in Packets : k = MakeFlowKey(q)
  BY <1>2 DEF KeysAreTraced
<1>6. IsBurst(active[key], key)' /\ active'[key].first_timestamp <= p.timestamp
  <2>1. key \in DOMAIN active => active[key] \in States(key)
    BY DEF States
  <2> QED BY <1>4, <2>1, OpenFlowIsBurst
<1>7. \A r \in States(k) : r \in FlowState
  <2>1. \A i \in DOMAIN flows : flows[i] \in FlowRecord
    BY LenProperties, ElementOfSeq DEF IInv, TypeOK
  <2> QED BY <1>1, <2>1 DEF States, ClosedOf, FlowRecord
<1>8. CASE k # key /\ s \in States(k)
  BY <1>4, <1>5, <1>7, <1>8, BurstStays
<1>9. CASE k = key /\ s = active'[key]
  BY <1>6, <1>9 DEF IsBurst, PacketsWithin, TimesOf
<1>10. CASE k = key /\ s \in States(k) /\ s.last_timestamp < active'[key].first_timestamp
  <2>1. s \in FlowState /\ IsBurst(s, k)
    BY <1>4, <1>7, <1>10
  <2>2. s.last_timestamp < p.timestamp
    BY <1>1, <1>6, <1>10, <2>1 DEF FlowState
  <2> QED BY <1>5, <2>1, <2>2, BurstStays
<1> QED BY <1>8, <1>9, <1>10, StatesAfter

\* The end of the capture keeps the keys, their states and their counters.
LEMMA FinishKeeps ==
  ASSUME IInv, Finish
  PROVE  /\ trace' = trace /\ phase' = "done"
         /\ HeldKeys' = HeldKeys
         /\ \A k : States(k)' = States(k)
         /\ \A field \in Counters : \A k : Total(field, k)' = Total(field, k)
<1>1. PICK order \in SetToSeqs(DOMAIN active) : flows' = StableSort(Drained(order))
  BY DEF Finish
<1> DEFINE records == Drained(order)
           D == DOMAIN records
           C == 1 .. Cardinality(DOMAIN active)
           L == Len(flows)
<1>2. /\ phase = "reading" /\ phase' = "done" /\ trace' = trace
      /\ active' = <<>> /\ DOMAIN active' = {}
  BY DEF Finish
<1>3. /\ records \in Seq(FlowRecord) /\ Len(records) = L + Cardinality(DOMAIN active)
      /\ \A i \in 1 .. L : records[i] = flows[i]
      /\ \A n \in C : records[L + n] = [key |-> order[n], state |-> active[order[n]]]
  BY <1>2, DrainedRecords
<1>4. /\ L \in Nat /\ DOMAIN flows = 1 .. L /\ IsFiniteSet(DOMAIN active)
      /\ Cardinality(DOMAIN active) \in Nat
      /\ D = 1 .. (L + Cardinality(DOMAIN active))
  BY <1>3, LenProperties, FS_CardinalityType DEF IInv, TypeOK
<1>5. /\ \A n \in C : order[n] \in DOMAIN active
      /\ \A x \in DOMAIN active : \E n \in C : order[n] = x
  BY <1>4, DrainOrder
<1> HIDE DEF records, L
<1>6. PICK from \in [D -> D] :
        /\ \A n \in D : flows'[n] = records[from[n]]
        /\ \A n \in D : \E m \in D : from[m] = n
        /\ DOMAIN flows' = D
  <2>1. flows' = StableSort(records)
    BY <1>1 DEF records
  <2>2. DOMAIN StableSort(records) = D
    BY <1>3, StableSortBijects
  <2>3. PICK from \in [D -> D] :
          /\ \A n \in D : StableSort(records)[n] = records[from[n]]
          /\ \A n \in D : \E m \in D : from[m] = n
    BY <1>3, StableSortBijects
  <2> QED BY <2>1, <2>2, <2>3
<1>7. \A i \in D : \/ i \in DOMAIN flows /\ records[i] = flows[i]
                   \/ \E x \in DOMAIN active : records[i].key = x /\ records[i].state = active[x]
  <2> TAKE i \in D
  <2>1. CASE i <= L
    BY <1>3, <1>4, <2>1
  <2>2. CASE ~(i <= L)
    <3> DEFINE n == i - L
    <3>1. n \in C /\ i = L + n
      BY <1>4, <2>2
    <3> HIDE DEF n
    <3>2. records[i] = [key |-> order[n], state |-> active[order[n]]]
      BY <1>3, <3>1
    <3> QED BY <1>5, <3>1, <3>2
  <2> QED BY <2>1, <2>2
<1>8. \A i \in DOMAIN flows : \E m \in D : flows'[m] = flows[i]
  <2>1. \A i \in DOMAIN flows : i \in D /\ records[i] = flows[i]
    BY <1>3, <1>4
  <2> QED BY <1>6, <2>1
<1>9. \A x \in DOMAIN active : \E m \in D : flows'[m].key = x /\ flows'[m].state = active[x]
  <2> TAKE x \in DOMAIN active
  <2>1. PICK n \in C : order[n] = x
    BY <1>5
  <2>2. L + n \in D
    BY <1>4
  <2>3. records[L + n] = [key |-> order[n], state |-> active[order[n]]]
    BY <1>3
  <2>4. records[L + n].key = x /\ records[L + n].state = active[x]
    BY <2>1, <2>3
  <2> QED BY <1>6, <2>2, <2>4
<1>10. \A m \in D : \/ \E i \in DOMAIN flows : flows'[m] = flows[i]
                    \/ \E x \in DOMAIN active :
                         flows'[m].key = x /\ flows'[m].state = active[x]
  BY <1>6, <1>7
<1>11. HeldKeys' = HeldKeys
  <2>1. \A k \in HeldKeys' : k \in HeldKeys
    BY <1>2, <1>6, <1>10 DEF HeldKeys
  <2>2. \A k \in HeldKeys : k \in HeldKeys'
    BY <1>2, <1>6, <1>8, <1>9 DEF HeldKeys
  <2> QED BY <2>1, <2>2
<1>12. ASSUME NEW k PROVE States(k)' = States(k)
  <2>1. \A s \in States(k)' : s \in States(k)
    BY <1>2, <1>6, <1>10 DEF States, ClosedOf
  <2>2. \A s \in States(k) : s \in States(k)'
    BY <1>2, <1>6, <1>8, <1>9 DEF States, ClosedOf
  <2> QED BY <2>1, <2>2
<1>13. ASSUME NEW field \in Counters, NEW k PROVE Total(field, k)' = Total(field, k)
  <2>1. Total(field, k)' = RecordsTotal(flows', field, k) + 0
    BY <1>2 DEF Total, RecordsTotal, OfKey, ClosedOf
  <2>2. RecordsTotal(flows', field, k) = RecordsTotal(records, field, k)
    BY <1>1, <1>3, RecordsTotalSorted DEF records
  <2>3. RecordsTotal(records, field, k) = Total(field, k)
    BY <1>2, RecordsTotalDrained DEF records
  <2>4. RecordsTotal(records, field, k) \in Nat
    BY <1>3, RecordsTotalType
  <2> QED BY <2>1, <2>2, <2>3, <2>4
<1> QED BY <1>2, <1>11, <1>12, <1>13

\* So the end of the capture preserves all of it.
LEMMA FinishHistory ==
  ASSUME IInv, HistoryInv, Finish
  PROVE  HistoryInv'
<1>1. /\ trace' = trace /\ phase' = "done" /\ HeldKeys' = HeldKeys
      /\ \A k : States(k)' = States(k)
      /\ \A k : /\ Total("fwd_pkts", k)' = Total("fwd_pkts", k)
                /\ Total("bwd_pkts", k)' = Total("bwd_pkts", k)
                /\ Total("fwd_bytes", k)' = Total("fwd_bytes", k)
                /\ Total("bwd_bytes", k)' = Total("bwd_bytes", k)
  BY FinishKeeps DEF Counters
<1>2. /\ \A k : Sent(k)' = Sent(k) /\ Answered(k)' = Answered(k)
      /\ \A k : Exchanged(k)' = Exchanged(k)
      /\ \A k : TotalSize(Sent(k))' = TotalSize(Sent(k))
      /\ \A k : TotalSize(Answered(k))' = TotalSize(Answered(k))
      /\ \A s, k : IsBurst(s, k)' <=> IsBurst(s, k)
      /\ InOrder' <=> InOrder
  BY <1>1 DEF Sent, Answered, Exchanged, TotalSize, InOrder, IsBurst, PacketsWithin, TimesOf
<1>3. KeysAreTraced' /\ OpenFlowsReachTheirPackets'
  BY <1>1 DEF HistoryInv, KeysAreTraced, OpenFlowsReachTheirPackets
<1>4. CountersConserved'
  <2>1. InOneConversation'
    BY <1>1, <1>2 DEF HistoryInv, CountersConserved, InOneConversation
  <2>2. \A k \in HeldKeys' : AddUp(k)'
    BY <1>1, <1>2 DEF HistoryInv, CountersConserved, AddUp
  <2> QED BY <2>1, <2>2 DEF CountersConserved
<1>5. InOrderRecordsAreBursts'
  BY <1>1, <1>2 DEF HistoryInv, InOrderRecordsAreBursts
<1> QED BY <1>3, <1>4, <1>5 DEF HistoryInv

\* Before the first packet there is nothing to add up.
LEMMA InitHistory == Init => HistoryInv
<1> SUFFICES ASSUME Init PROVE HistoryInv
  OBVIOUS
<1>1. DOMAIN active = {} /\ DOMAIN flows = {} /\ DOMAIN trace = {}
  BY DEF Init
<1>2. HeldKeys = {}
  BY <1>1 DEF HeldKeys
<1>3. KeysAreTraced /\ OpenFlowsReachTheirPackets
  BY <1>1, <1>2 DEF KeysAreTraced, OpenFlowsReachTheirPackets
<1>4. CountersConserved /\ InOrderRecordsAreBursts
  BY <1>1, <1>2 DEF CountersConserved, InOneConversation, InOrderRecordsAreBursts
<1> QED BY <1>3, <1>4 DEF HistoryInv

-----------------------------------------------------------------------------
(* Theorems *)

\* The inductive invariant holds in every reachable state.
THEOREM InductiveInvariant == Spec => []IInv
<1>1. IInv /\ [Next]_vars => IInv'
  <2> SUFFICES ASSUME IInv, [Next]_vars PROVE IInv'
    OBVIOUS
  <2>1. ASSUME NEW p \in Packets, Ingest(p) PROVE IInv'
    BY <2>1, IngestIInv
  <2>2. CASE Finish
    BY <2>2, FinishIInv
  <2>3. CASE UNCHANGED vars
    BY <2>3 DEF vars, IInv, TypeOK, SpanBounded, RecordsOfAKeyDisjoint,
                SplitsAreJustified, CutByTimeout, ClosedKeysHaveOpenFlows
  <2> QED BY <2>1, <2>2, <2>3 DEF Next
<1> QED BY InitIInv, <1>1, PTL DEF Spec

\* The map and the records are well typed, before and after the sort.
THEOREM TypeCorrect == Spec => []TypeOK
<1>1. IInv => TypeOK
  BY DEF IInv
<1> QED BY <1>1, InductiveInvariant, PTL

\* No record of any capture runs backwards or outlives the active timeout.
THEOREM SpansAreBounded == Spec => []SpanBounded
<1>1. IInv => SpanBounded
  BY DEF IInv
<1> QED BY <1>1, InductiveInvariant, PTL

\* Records of one conversation never overlap, in the map, in the vector and in
\* the sorted output, whatever order the packets came in.
THEOREM RecordsAreDisjoint == Spec => []RecordsOfAKeyDisjoint
<1>1. IInv => RecordsOfAKeyDisjoint
  BY DEF IInv
<1> QED BY <1>1, InductiveInvariant, PTL

\* Nothing but a timeout ever cuts a conversation.
THEOREM OnlyTimeoutsSplit == Spec => []SplitsAreJustified
<1>1. IInv => SplitsAreJustified
  BY DEF IInv
<1> QED BY <1>1, InductiveInvariant, PTL

\* The order in which the hash map yields the open flows never shows.
THEOREM DrainOrderNeverShows == Spec => []DrainOrderIrrelevant
<1>1. IInv => DrainOrderIrrelevant
  <2> SUFFICES ASSUME IInv, phase = "reading",
                      NEW one \in SetToSeqs(DOMAIN active),
                      NEW other \in SetToSeqs(DOMAIN active)
               PROVE  StableSort(Drained(one)) = StableSort(Drained(other))
    BY DEF DrainOrderIrrelevant
  <2>1. /\ Drained(one) \in Seq(FlowRecord) /\ Drained(other) \in Seq(FlowRecord)
        /\ Len(Drained(one)) = Len(Drained(other))
    BY DrainedRecords
  <2>2. \A i, j \in DOMAIN Drained(one) :
          i # j => SortKey(Drained(one)[i]) # SortKey(Drained(one)[j])
    BY SortKeysDistinct
  <2>3. PICK pi \in Bijection(DOMAIN Drained(one), DOMAIN Drained(other)) :
               \A i \in DOMAIN Drained(one) : Drained(one)[i] = Drained(other)[pi[i]]
    BY DrainsArePermutations
  <2> QED BY <2>1, <2>2, <2>3, SameSort
<1> QED BY <1>1, InductiveInvariant, PTL

\* No packet or byte is ever lost, counted twice or put under the wrong direction,
\* however many flows a conversation is cut into; and in a capture in time order
\* every record is a burst of its conversation.
THEOREM HistoryInvariant == Spec => []HistoryInv
<1>1. IInv /\ IInv' /\ HistoryInv /\ [Next]_vars => HistoryInv'
  <2> SUFFICES ASSUME IInv, IInv', HistoryInv, [Next]_vars PROVE HistoryInv'
    OBVIOUS
  <2>1. ASSUME NEW p \in Packets, Ingest(p) PROVE HistoryInv'
    <3>1. KeysAreTraced' /\ OpenFlowsReachTheirPackets' /\ CountersConserved'
      BY <2>1, KeysGrow, IngestReaches, IngestConserves DEF HistoryInv
    <3>2. InOrderRecordsAreBursts'
      BY <2>1, <3>1, IngestBursts DEF HistoryInv
    <3> QED BY <3>1, <3>2 DEF HistoryInv
  <2>2. CASE Finish
    BY <2>2, FinishHistory
  <2>3. CASE UNCHANGED vars
    <3>1. /\ active' = active /\ flows' = flows /\ phase' = phase /\ trace' = trace
      BY <2>3 DEF vars
    <3>2. /\ HeldKeys' = HeldKeys /\ \A k : States(k)' = States(k)
          /\ \A k : Sent(k)' = Sent(k) /\ Answered(k)' = Answered(k)
          /\ \A k : Exchanged(k)' = Exchanged(k)
      BY <3>1 DEF HeldKeys, States, ClosedOf, Sent, Answered, Exchanged
    <3>3. KeysAreTraced' /\ OpenFlowsReachTheirPackets'
      BY <3>1, <3>2 DEF HistoryInv, KeysAreTraced, OpenFlowsReachTheirPackets
    <3>4. CountersConserved'
      BY <3>1, <3>2 DEF HistoryInv, CountersConserved, InOneConversation, AddUp, Total,
                        TotalSize, ClosedOf
    <3>5. /\ \A s, k : IsBurst(s, k)' <=> IsBurst(s, k)
          /\ InOrder' <=> InOrder
      BY <3>1, <3>2 DEF IsBurst, PacketsWithin, TimesOf, InOrder
    <3>6. InOrderRecordsAreBursts'
      BY <3>2, <3>5 DEF HistoryInv, InOrderRecordsAreBursts
    <3> QED BY <3>3, <3>4, <3>6 DEF HistoryInv
  <2> QED BY <2>1, <2>2, <2>3 DEF Next
<1> QED BY InitHistory, <1>1, InductiveInvariant, PTL DEF Spec

\* Every packet is counted once, under its direction, and nothing is lost.
THEOREM NoPacketIsLost == Spec => []CountersConserved
<1>1. HistoryInv => CountersConserved
  BY DEF HistoryInv
<1> QED BY <1>1, HistoryInvariant, PTL

\* In a capture in time order every record is a burst of its conversation.
THEOREM RecordsAreBursts == Spec => []InOrderRecordsAreBursts
<1>1. HistoryInv => InOrderRecordsAreBursts
  BY DEF HistoryInv
<1> QED BY <1>1, HistoryInvariant, PTL

=============================================================================
