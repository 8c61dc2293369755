-------------------------- MODULE ConversionProps --------------------------
(***************************************************************************)
(* What the exit code and the files of flowprep promise.                   *)
(***************************************************************************)
EXTENDS Conversion

\* The tables a conversion of a whole source gives.
WholeTables == {Table(s, s.rows) : s \in Sources}

Content == {Absent, Empty, Torn} \cup [kind : {"raw"}, source : Sources] \cup WholeTables

-----------------------------------------------------------------------------
\* Whatever failed, was killed or was refused, a path holds a raw input as it
\* was, a whole table, or a file no reader takes for a table: no sequence of
\* commands leaves a table that lacks rows (writer.rs, is_parquet).
ReadableMeansWhole ==
  \A p \in Paths : disk[p] \in Content

\* Exit code 0 of a converter means that the output now holds the whole table
\* of what the input held when the command started, input and output being the
\* same file or not, and that the number printed is its number of rows.
SuccessMeansWhole ==
  exit = 0 /\ command.name \in Converters =>
    /\ disk[command.output] = Meaning(command.name, before[command.input])
    /\ reported = disk[command.output].rows

\* A command that fails, is killed or is still at work has destroyed only its
\* own output, and only once it held the whole table to replace it with: an
\* input or timeouts that are refused leave the disk as it was.
LossIsCovered ==
  \A p \in Paths :
    disk[p] # before[p] => /\ p = command.output
                           /\ found # None
                           /\ found = Meaning(command.name, before[command.input])

-----------------------------------------------------------------------------
(* The invariant that is inductive *)

Calls == {"idle", "timeouts", "read", "create", "write", "close", "report"}

Commands == [name : Converters \cup {"peek"}, input : Paths, output : Paths]

\* From the reader's answer to the report, that answer is the right one.
HoldsTheAnswer ==
  pc \in {"create", "write", "close", "report"} =>
    /\ command.name \in Converters
    /\ found # None
    /\ found = Meaning(command.name, before[command.input])

IInv ==
  /\ disk \in [Paths -> Content] /\ before \in [Paths -> Content]
  /\ pc \in Calls
  /\ pc # "idle" => command \in Commands /\ exit # 0
  /\ pc \in {"timeouts", "read"} => disk = before
  /\ HoldsTheAnswer
  /\ pc = "report" => disk[command.output] = found
  /\ SuccessMeansWhole
  /\ LossIsCovered

=============================================================================
