------------------------- MODULE Conversion_proofs -------------------------
(***************************************************************************)
(* For every set of paths and inputs and any number of commands, failures  *)
(* and kills: what exit code 0 and a readable table mean, and what a       *)
(* command may destroy.  Also: when FlowTimeouts::from_secs gives what the *)
(* flow table assumes.                                                     *)
(***************************************************************************)
EXTENDS ConversionProps, TLAPS

-----------------------------------------------------------------------------
(* Timeouts *)

\* A product that is not negative and fits in a signed word is exact.
LEMMA ExactMicros ==
  ASSUME NEW secs \in Nat, secs * Million < Word \div 2
  PROVE  Micros(secs) = secs * Million
<1> DEFINE half == Word \div 2
           product == secs * Million
<1>1. /\ Word \in Nat /\ Million \in Nat /\ 1 <= Million
      /\ half \in Nat /\ 2 * half = Word
  BY WordAssumption
<1>2. product \in Nat /\ secs <= product
  BY <1>1
<1>3. AsSigned(secs) = secs
  BY <1>1, <1>2 DEF AsSigned
<1>4. product % Word = product
  <2>1. product < Word
    BY <1>1, <1>2
  <2> HIDE DEF product
  <2> QED BY <1>1, <1>2, <2>1
<1>5. AsSigned(product) = product
  BY <1>1, <1>2 DEF AsSigned
<1> QED BY <1>3, <1>4, <1>5 DEF Micros, Wrapped

\* from_secs either refuses, or, as long as the active timeout in microseconds
\* fits in an i64, keeps both timeouts positive, in order and exact: the
\* assumption module FlowTable makes of its constants (pcap.rs:36-53).
THEOREM TimeoutsThatFit ==
  ASSUME NEW active_secs \in Nat, NEW inactive_secs \in Nat,
         active_secs * Million < Word \div 2,
         FromSecs(active_secs, inactive_secs) # None
  PROVE  LET t == FromSecs(active_secs, inactive_secs)
         IN /\ t.active_usec = active_secs * Million
            /\ t.inactive_usec = inactive_secs * Million
            /\ 0 < t.inactive_usec
            /\ t.inactive_usec <= t.active_usec
<1>1. /\ active_secs # 0 /\ inactive_secs # 0 /\ inactive_secs <= active_secs
      /\ FromSecs(active_secs, inactive_secs)
           = [active_usec |-> Micros(active_secs), inactive_usec |-> Micros(inactive_secs)]
  BY DEF FromSecs
<1>2. /\ Million \in Nat /\ 1 <= Million
      /\ Word \div 2 \in Int
  BY WordAssumption
<1>3. inactive_secs * Million <= active_secs * Million
  BY <1>1, <1>2
<1>4. 0 < inactive_secs * Million
  BY <1>1, <1>2
<1>5. inactive_secs * Million < Word \div 2
  BY <1>2, <1>3
<1>6. Micros(active_secs) = active_secs * Million
  BY ExactMicros
<1>7. Micros(inactive_secs) = inactive_secs * Million
  BY <1>5, ExactMicros
<1> QED BY <1>1, <1>3, <1>4, <1>6, <1>7

-----------------------------------------------------------------------------
(* The disk *)

\* What a reader returns for anything a path may hold is a whole table.
LEMMA MeaningIsWhole ==
  ASSUME NEW name, NEW content \in Content, Meaning(name, content) # None
  PROVE  Meaning(name, content) \in WholeTables
<1>1. CASE content.kind = "raw"
  <2>1. content \in [kind : {"raw"}, source : Sources]
    BY <1>1 DEF Content, Absent, Empty, Torn, WholeTables, Table
  <2>2. content.source \in Sources
    BY <2>1
  <2>3. Meaning(name, content) = Table(content.source, content.source.rows)
    BY <1>1 DEF Meaning
  <2> QED BY <2>2, <2>3 DEF WholeTables
<1>2. CASE content.kind = "table"
  <2>1. content \in WholeTables
    BY <1>2 DEF Content, Absent, Empty, Torn
  <2>2. Meaning(name, content) = content
    BY <1>2 DEF Meaning
  <2> QED BY <2>1, <2>2
<1>3. CASE content.kind # "raw" /\ content.kind # "table"
  BY <1>3 DEF Meaning
<1> QED BY <1>1, <1>2, <1>3

\* Storing what a command may leave keeps the disk well formed and changes
\* only the command's own output.
LEMMA StoreAtOutput ==
  ASSUME IInv, NEW left \in Content, pc \in {"create", "write", "close"},
         disk' = [disk EXCEPT ![command.output] = left]
  PROVE  /\ disk' \in [Paths -> Content]
         /\ disk'[command.output] = left
         /\ \A p \in Paths : disk'[p] # disk[p] => p = command.output
         /\ command \in Commands
<1>1. command \in Commands /\ command.output \in Paths
  BY DEF IInv, Commands
<1> QED BY <1>1 DEF IInv

\* Nothing has run yet.
LEMMA InitIInv ==
  ASSUME Init PROVE IInv
<1>1. disk \in [Paths -> Content]
  BY DEF Init, Content
<1>2. exit # 0
  BY NoneAssumption DEF Init
<1>3. pc = "idle" /\ before = disk
  BY DEF Init
<1> QED BY <1>1, <1>2, <1>3
        DEF IInv, Calls, HoldsTheAnswer, SuccessMeansWhole, LossIsCovered

\* A command starts on the disk as it is.
LEMMA DispatchIInv ==
  ASSUME IInv, Dispatch PROVE IInv'
<1>1. /\ disk' = disk /\ before' = disk /\ exit' = None
      /\ pc' \in {"timeouts", "read"} /\ command' \in Commands
  BY DEF Dispatch, Commands
<1>2. exit' # 0
  BY <1>1, NoneAssumption
<1>3. disk' \in [Paths -> Content] /\ before' \in [Paths -> Content]
  BY <1>1 DEF IInv
<1> QED BY <1>1, <1>2, <1>3
        DEF IInv, Calls, HoldsTheAnswer, SuccessMeansWhole, LossIsCovered

\* A command that exits with an error keeps the invariant, if the disk does.
LEMMA ErrorExitIInv ==
  ASSUME IInv, NEW code, code # 0, Exit(code),
         disk' \in [Paths -> Content], LossIsCovered'
  PROVE  IInv'
<1>1. pc' = "idle" /\ exit' # 0 /\ before' = before
  BY DEF Exit
<1> QED BY <1>1 DEF IInv, Calls, HoldsTheAnswer, SuccessMeansWhole

\* An error or a kill that leaves the disk alone.
LEMMA QuietExitIInv ==
  ASSUME IInv, NEW code, code # 0, Exit(code), disk' = disk
  PROVE  IInv'
<1>1. disk' \in [Paths -> Content]
  BY DEF IInv
<1>2. LossIsCovered'
  BY DEF IInv, LossIsCovered, Exit
<1> QED BY <1>1, <1>2, ErrorExitIInv

\* Storing at the command's output once the reader has answered: the loss is
\* covered by the answer.
LEMMA StoreIsCovered ==
  ASSUME IInv, NEW left \in Content, pc \in {"create", "write", "close"},
         disk' = [disk EXCEPT ![command.output] = left],
         command' = command, found' = found, before' = before
  PROVE  disk' \in [Paths -> Content] /\ LossIsCovered'
<1>1. /\ disk' \in [Paths -> Content]
      /\ \A p \in Paths : disk'[p] # disk[p] => p = command.output
  BY StoreAtOutput
<1>2. found # None /\ found = Meaning(command.name, before[command.input])
  BY DEF IInv, HoldsTheAnswer
<1>3. ASSUME NEW p \in Paths, disk'[p] # before'[p]
      PROVE  p = command.output
  <2>1. CASE disk'[p] # disk[p]
    BY <1>1, <2>1
  <2>2. CASE disk'[p] = disk[p]
    BY <1>3, <2>2 DEF IInv, LossIsCovered
  <2> QED BY <2>1, <2>2
<1> QED BY <1>1, <1>2, <1>3 DEF LossIsCovered

\* The calls that come before the answer.
LEMMA EarlyStepIInv ==
  ASSUME IInv, BuildTimeouts \/ Read \/ Peek PROVE IInv'
<1>1. CASE BuildTimeouts
  <2>1. PICK a \in Seconds, i \in Seconds :
          IF FromSecs(a, i) = None
          THEN Exit(1)
          ELSE /\ timeouts' = FromSecs(a, i)
               /\ pc' = "read"
               /\ UNCHANGED <<command, found, exit, before, runs>>
    BY <1>1 DEF BuildTimeouts
  <2>2. pc = "timeouts" /\ disk' = disk
    BY <1>1 DEF BuildTimeouts
  <2>3. CASE Exit(1)
    BY <2>2, <2>3, QuietExitIInv
  <2>4. CASE pc' = "read" /\ UNCHANGED <<command, found, exit, before, runs>>
    BY <2>2, <2>4 DEF IInv, Calls, HoldsTheAnswer, SuccessMeansWhole, LossIsCovered
  <2> QED BY <2>1, <2>3, <2>4
<1>2. CASE Read
  <2> DEFINE table == Meaning(command.name, disk[command.input])
  <2>1. pc = "read" /\ command.name \in Converters /\ disk' = disk
    BY <1>2 DEF Read
  <2>2. CASE Exit(1)
    BY <2>1, <2>2, QuietExitIInv
  <2>3. CASE /\ table # None /\ found' = table /\ pc' = "create"
             /\ UNCHANGED <<command, timeouts, exit, before, runs>>
    <3>1. before = disk /\ exit # 0 /\ command \in Commands
      BY <2>1 DEF IInv
    <3> QED BY <2>1, <2>3, <3>1
            DEF IInv, Calls, HoldsTheAnswer, SuccessMeansWhole, LossIsCovered
  <2> QED BY <1>2, <2>2, <2>3 DEF Read
<1>3. CASE Peek
  <2>1. pc = "read" /\ command.name = "peek" /\ disk' = disk
    BY <1>3 DEF Peek
  <2>2. CASE Exit(1)
    BY <2>1, <2>2, QuietExitIInv
  <2>3. CASE Exit(0)
    <3>1. command' = command /\ pc' = "idle" /\ before' = before /\ found' = found
      BY <2>3 DEF Exit
    <3>2. command'.name \notin Converters
      BY <2>1, <3>1 DEF Converters
    <3> QED BY <2>1, <3>1, <3>2
            DEF IInv, Calls, HoldsTheAnswer, SuccessMeansWhole, LossIsCovered
  <2> QED BY <1>3, <2>2, <2>3 DEF Peek
<1> QED BY <1>1, <1>2, <1>3

\* The calls of the writer.
LEMMA WriterStepIInv ==
  ASSUME IInv, Create \/ Write \/ Close PROVE IInv'
<1>1. PICK left \in Content :
        /\ disk' = [disk EXCEPT ![command.output] = left]
        /\ pc' = "report" => left = found
  <2>1. CASE Create
    BY <2>1 DEF Create, Content
  <2>2. CASE Write
    BY <2>2 DEF Write, Content
  <2>3. CASE Close
    <3>1. /\ pc = "close" /\ found = Meaning(command.name, before[command.input])
          /\ found # None /\ command \in Commands
      BY <2>3 DEF Close, IInv, HoldsTheAnswer
    <3>2. before[command.input] \in Content
      BY <3>1 DEF IInv, Commands
    <3>3. found \in Content
      BY <3>1, <3>2, MeaningIsWhole DEF Content
    <3> QED BY <2>3, <3>3 DEF Close
  <2> QED BY <2>1, <2>2, <2>3
<1>2. /\ pc \in {"create", "write", "close"} /\ pc' \in {"write", "close", "report"}
      /\ UNCHANGED <<command, found, exit, before>>
  BY DEF Create, Write, Close
<1>3. disk' \in [Paths -> Content] /\ LossIsCovered'
  BY <1>1, <1>2, StoreIsCovered
<1>4. command \in Commands /\ exit # 0 /\ HoldsTheAnswer
  BY <1>2 DEF IInv
<1>5. pc' = "report" => disk'[command'.output] = found'
  BY <1>1, <1>2, StoreAtOutput
<1> QED BY <1>2, <1>3, <1>4, <1>5 DEF IInv, Calls, HoldsTheAnswer, SuccessMeansWhole

\* A call that fails.
LEMMA CallFailsIInv ==
  ASSUME IInv, CallFails PROVE IInv'
<1>1. Exit(1)
  BY DEF CallFails
<1>2. command \in Commands /\ command.output \in Paths
  BY DEF CallFails, IInv, Commands
<1>3. CASE pc = "read"
  <2>1. disk' = disk
    BY <1>2, <1>3 DEF CallFails, IInv
  <2> QED BY <1>1, <2>1, QuietExitIInv
<1>4. CASE pc \in {"create", "write", "close"}
  <2>1. PICK left \in Content : disk' = [disk EXCEPT ![command.output] = left]
    BY <1>2, <1>4 DEF CallFails, IInv, Content
  <2>2. command' = command /\ found' = found /\ before' = before
    BY <1>1 DEF Exit
  <2>3. disk' \in [Paths -> Content] /\ LossIsCovered'
    BY <1>4, <2>1, <2>2, StoreIsCovered
  <2> QED BY <1>1, <2>3, ErrorExitIInv
<1> QED BY <1>3, <1>4 DEF CallFails

\* The report of a table that is on disk.
LEMMA ReportIInv ==
  ASSUME IInv, Report PROVE IInv'
<1>1. pc = "report" /\ disk' = disk
  BY DEF Report
<1>2. CASE Exit(101)
  BY <1>1, <1>2, QuietExitIInv
<1>3. CASE Exit(0) /\ reported' = found.rows
  <2>1. /\ command' = command /\ found' = found /\ before' = before
        /\ pc' = "idle"
    BY <1>3 DEF Exit
  <2>2. /\ found = Meaning(command.name, before[command.input])
        /\ disk[command.output] = found
    BY <1>1 DEF IInv, HoldsTheAnswer
  <2> QED BY <1>1, <1>3, <2>1, <2>2
          DEF IInv, Calls, HoldsTheAnswer, SuccessMeansWhole, LossIsCovered
<1> QED BY <1>2, <1>3 DEF Report

-----------------------------------------------------------------------------
(* Theorems *)

\* The invariant holds after any number of commands, failures and kills.
THEOREM InductiveInvariant == Spec => []IInv
<1>1. Init => IInv
  BY InitIInv
<1>2. IInv /\ [Next]_vars => IInv'
  <2> SUFFICES ASSUME IInv, [Next]_vars PROVE IInv'
    OBVIOUS
  <2>1. CASE Dispatch
    BY <2>1, DispatchIInv
  <2>2. CASE BuildTimeouts \/ Read \/ Peek
    BY <2>2, EarlyStepIInv
  <2>3. CASE Create \/ Write \/ Close
    BY <2>3, WriterStepIInv
  <2>4. CASE CallFails
    BY <2>4, CallFailsIInv
  <2>5. CASE Report
    BY <2>5, ReportIInv
  <2>6. CASE Kill
    <3>1. Exit(137) /\ disk' = disk
      BY <2>6 DEF Kill, Killed
    <3> QED BY <3>1, QuietExitIInv
  <2>7. CASE UNCHANGED vars
    BY <2>7 DEF vars, IInv, HoldsTheAnswer, SuccessMeansWhole, LossIsCovered
  <2> QED BY <2>1, <2>2, <2>3, <2>4, <2>5, <2>6, <2>7 DEF Next
<1> QED BY <1>1, <1>2, PTL DEF Spec

\* Exit code 0 of a converter always means that the output holds the whole
\* table of its input (writer.rs:10-19, main.rs:59-84).
THEOREM SuccessIsWhole == Spec => []SuccessMeansWhole
<1>1. IInv => SuccessMeansWhole
  BY DEF IInv
<1> QED BY <1>1, InductiveInvariant, PTL

\* No sequence of commands, failures and kills leaves a table that lacks rows.
THEOREM TablesAreWhole == Spec => []ReadableMeansWhole
<1>1. IInv => ReadableMeansWhole
  BY DEF IInv, ReadableMeansWhole
<1> QED BY <1>1, InductiveInvariant, PTL

\* A command destroys only its own output, once it has what replaces it.
THEOREM LossesAreCovered == Spec => []LossIsCovered
<1>1. IInv => LossIsCovered
  BY DEF IInv
<1> QED BY <1>1, InductiveInvariant, PTL

=============================================================================
