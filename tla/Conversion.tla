----------------------------- MODULE Conversion -----------------------------
(***************************************************************************)
(* One flowprep command after another on one disk (src/main.rs and         *)
(* src/writer.rs): arguments, the conversion itself, the file that is      *)
(* created, written and closed, and the exit code.  A command may fail at  *)
(* every call that can, and may be killed at any point; the next one finds *)
(* what it left.                                                           *)
(*                                                                         *)
(* What a reader makes of a file is one step here, as a reader keeps all   *)
(* its flows in memory before the writer is called; modules PcapCapture    *)
(* and NfdumpReader are about the steps inside.  A file is raw data of     *)
(* one of the input formats, a parquet table, or what a command that did   *)
(* not finish left of one: nothing, or a head without the footer.          *)
(***************************************************************************)
EXTENDS Integers

CONSTANTS
  Paths,        \* the files commands are given
  Sources,      \* raw inputs: records of format, rows and sound
  Seconds,      \* the timeouts given on the command line
  Word,         \* 2^64
  Million,      \* 1_000_000: microseconds in a second
  MaxRuns,      \* bound: commands run on the disk
  None          \* no value yet, or an error

ASSUME WordAssumption ==
  /\ Word \in Nat /\ Word % 2 = 0 /\ 0 < Word
  /\ Million \in Nat \ {0}
  /\ Seconds \subseteq 0 .. (Word - 1)

\* None is no exit code.
ASSUME NoneAssumption == None \notin Nat

VARIABLES
  disk,         \* what each path holds
  command,      \* the subcommand, its input and its output
  timeouts,     \* FlowTimeouts, for pcap
  found,        \* the table the reader returned
  pc,           \* the next call of the command; "idle" between commands
  exit,         \* exit code of the last command, None while it runs or before any
  reported,     \* the number of rows printed
  before,       \* history: the disk when the command started
  runs

vars == <<disk, command, timeouts, found, pc, exit, reported, before, runs>>

\* What a shell reports of a process that SIGKILL ended.
Killed == 137

Converters == {"pcap", "canonicalize", "ocsf", "nfcapd"}

-----------------------------------------------------------------------------
(* Timeouts *)

\* A u64 read as an i64, and the product of two i64 in a release build.
AsSigned(n) == IF n >= Word \div 2 THEN n - Word ELSE n
Wrapped(n) == AsSigned(n % Word)

Micros(secs) == Wrapped(AsSigned(secs) * Million)

FromSecs(active_secs, inactive_secs) ==
  IF active_secs = 0 \/ inactive_secs = 0 \/ inactive_secs > active_secs
  THEN None
  ELSE [active_usec |-> Micros(active_secs), inactive_usec |-> Micros(inactive_secs)]

-----------------------------------------------------------------------------
(* Files *)

Absent == [kind |-> "absent"]
Empty == [kind |-> "empty"]
Torn == [kind |-> "torn"]

Table(source, rows) == [kind |-> "table", of |-> source, rows |-> rows]

\* The table a subcommand makes of a file, None when it refuses it.  Only pcap
\* makes a table without rows; only canonicalize reads parquet, and it takes a
\* file for parquet only when the magic stands at both ends.
Meaning(name, content) ==
  CASE content.kind = "raw" ->
         LET source == content.source
         IN IF source.format = name /\ source.sound /\ (source.rows > 0 \/ name = "pcap")
            THEN Table(source, source.rows) ELSE None
    [] content.kind = "table" /\ name = "canonicalize" ->
         IF content.rows > 0 THEN content ELSE None
    [] OTHER -> None

-----------------------------------------------------------------------------
(* Steps of a command *)

Exit(code) ==
  /\ exit' = code
  /\ pc' = "idle"
  /\ UNCHANGED <<command, timeouts, found, before, runs>>

\* main: the pcap arm builds its timeouts before anything else.
Dispatch ==
  /\ pc = "idle" /\ runs < MaxRuns
  /\ \E name \in Converters \cup {"peek"}, i, o \in Paths :
       /\ command' = [name |-> name, input |-> i, output |-> o]
       /\ pc' = IF name = "pcap" THEN "timeouts" ELSE "read"
  /\ timeouts' = None /\ found' = None /\ exit' = None /\ reported' = None
  /\ before' = disk
  /\ runs' = runs + 1
  /\ UNCHANGED disk

BuildTimeouts ==
  /\ pc = "timeouts"
  /\ UNCHANGED <<disk, reported>>
  /\ \E a, i \in Seconds :
       IF FromSecs(a, i) = None
       THEN Exit(1)
       ELSE /\ timeouts' = FromSecs(a, i)
            /\ pc' = "read"
            /\ UNCHANGED <<command, found, exit, before, runs>>

\* Mutant: the output is opened before the input is read.
ReadIntoOpenOutput ==
  /\ pc = "read" /\ command.name \in Converters
  /\ UNCHANGED reported
  /\ LET content == disk[command.input]
     IN /\ disk' = [disk EXCEPT ![command.output] = Empty]
        /\ IF Meaning(command.name, content) = None
           THEN Exit(1)
           ELSE /\ found' = Meaning(command.name, content)
                /\ pc' = "create"
                /\ UNCHANGED <<command, timeouts, exit, before, runs>>

\* The reader: it returns everything, or an error and nothing.
Read ==
  /\ pc = "read" /\ command.name \in Converters
  /\ UNCHANGED <<disk, reported>>
  /\ LET table == Meaning(command.name, disk[command.input])
     IN IF table = None
        THEN Exit(1)
        ELSE /\ found' = table
             /\ pc' = "create"
             /\ UNCHANGED <<command, timeouts, exit, before, runs>>

Peek ==
  /\ pc = "read" /\ command.name = "peek"
  /\ Exit(IF disk[command.input].kind = "table" THEN 0 ELSE 1)
  /\ UNCHANGED <<disk, reported>>

\* File::create: the file is empty from here on.
Create ==
  /\ pc = "create"
  /\ disk' = [disk EXCEPT ![command.output] = Empty]
  /\ pc' = "write"
  /\ UNCHANGED <<command, timeouts, found, exit, reported, before, runs>>

\* ArrowWriter::try_new and write: the head, and any number of row groups.
Write ==
  /\ pc = "write"
  /\ disk' = [disk EXCEPT ![command.output] = Torn]
  /\ pc' = "close"
  /\ UNCHANGED <<command, timeouts, found, exit, reported, before, runs>>

\* close: the rest of the rows and the footer.
Close ==
  /\ pc = "close"
  /\ disk' = [disk EXCEPT ![command.output] = found]
  /\ pc' = "report"
  /\ UNCHANGED <<command, timeouts, found, exit, reported, before, runs>>

\* Mutant: a close that failed goes unnoticed.
CallFailsUnseenAtClose ==
  \/ /\ pc \in {"read", "create", "write"}
     /\ Exit(1)
     /\ UNCHANGED <<disk, reported>>
  \/ /\ pc = "close"
     /\ Exit(0)
     /\ reported' = found.rows
     /\ UNCHANGED disk

\* Mutant: a writer that is dropped finishes its file with the rows it has.
CallFailsWithFooter ==
  \/ /\ pc \in {"read", "create"}
     /\ Exit(1)
     /\ UNCHANGED <<disk, reported>>
  \/ /\ pc \in {"write", "close"} /\ found.rows > 0
     /\ Exit(1)
     /\ disk' = [disk EXCEPT ![command.output] = [found EXCEPT !.rows = @ - 1]]
     /\ UNCHANGED reported

\* A call of the reader or the writer returns an error: main exits with 1, and
\* what is on disk stays, a head without a footer included.
CallFails ==
  /\ pc \in {"read", "create", "write", "close"}
  /\ \E left \in IF pc = "write" THEN {Empty, Torn} ELSE {disk[command.output]} :
       disk' = [disk EXCEPT ![command.output] = left]
  /\ Exit(1)
  /\ UNCHANGED reported

\* The number of rows is printed, or standard output is closed and println!
\* panics with the table already complete.
Report ==
  /\ pc = "report"
  /\ \/ Exit(0) /\ reported' = found.rows
     \/ Exit(101) /\ UNCHANGED reported
  /\ UNCHANGED disk

\* The process is killed between two calls.
Kill ==
  /\ pc # "idle"
  /\ Exit(Killed)
  /\ UNCHANGED <<disk, reported>>

-----------------------------------------------------------------------------
Init ==
  /\ disk \in [Paths -> {Absent} \cup {[kind |-> "raw", source |-> s] : s \in Sources}]
  /\ command = None /\ timeouts = None /\ found = None
  /\ pc = "idle" /\ exit = None /\ reported = None
  /\ before = disk
  /\ runs = 0

Next ==
  \/ Dispatch \/ BuildTimeouts \/ Read \/ Peek \/ Create \/ Write \/ Close
  \/ CallFails \/ Report \/ Kill

Spec == Init /\ [][Next]_vars

=============================================================================
