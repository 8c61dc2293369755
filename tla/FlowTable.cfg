SPECIFICATION Spec
CONSTANTS
  MaxTime = 5
  PacketSize = 3
  Packets <- Traffic
  ActiveTimeout = 2
  InactiveTimeout = 1
  MaxPackets = 4
INVARIANTS
  TypeOK
  SpanBounded
  RecordsOfAKeyDisjoint
  SplitsAreJustified
  CountersConserved
  InOrderRecordsAreBursts
  DrainOrderIrrelevant
CHECK_DEADLOCK FALSE
