------------------------------ MODULE Database ------------------------------
(***************************************************************************)
(* The SQLite database that the service, its watch processes and each      *)
(* command share: Database, PreparedStatement, and the statements that     *)
(* Watch and LogPort run through them.                                     *)
(*                                                                         *)
(* Every call into SQLite sits in a loop of the same form: while the file  *)
(* is locked by another process it sleeps and tries again, up to 1000      *)
(* times.  What a caller hears when the attempts run out differs from call *)
(* to call, and that is what this module is about.                         *)
(*                                                                         *)
(* SQLite itself is external.  A statement that reads holds a shared lock  *)
(* from its first row to its end.  One that writes reserves the file,      *)
(* waits for nobody (it is told BUSY while there are readers), excludes    *)
(* all others, commits and lets go.  A process that is killed loses its    *)
(* locks and what it did not commit; one that is stopped keeps its locks.  *)
(*                                                                         *)
(* The watches and settings tables are one table, of which the number of   *)
(* rows is enough: nothing here depends on what a row holds.               *)
(***************************************************************************)
EXTENDS Integers, FiniteSets

CONSTANTS
  Processes,      \* the processes that use the database
  NoProcess,      \* none of them
  FirstRows,      \* rows the tables begin with
  MaxAttempts,    \* bound: stands for the 1000 attempts
  MaxStatements,  \* bound: statements that are run
  MaxFaults,      \* bound: errors of SQLite other than a lock
  MaxFrozen       \* bound: processes that are killed or stopped for good

\* After a BUSY step sqlite3_reset is called twice (see ResetCode).
ASSUME ConstantsAssumption ==
  /\ NoProcess \notin Processes
  /\ FirstRows \in Nat
  /\ MaxAttempts \in Nat \ {0, 1}
  /\ MaxStatements \in Nat
  /\ MaxFaults \in Nat
  /\ MaxFrozen \in Nat

VARIABLES
  rows,        \* of the table
  \* the locks of SQLite
  shared,      \* the processes that are reading
  writer,      \* the process that has reserved the file
  exclusive,   \* has it shut out the readers?
  \* each process
  pc,
  kind,        \* of its statement, see Kinds
  row,         \* the row it is about
  attempt,     \* of the current call
  lastStep,    \* PreparedStatement::last_step_result
  read,        \* how many rows it has read
  \* history
  finished,    \* did its statement do what it was for?
  ranOut,      \* did the attempts of a step run out?
  faulted,     \* did SQLite report some other error?
  outcome,     \* what its caller has heard
  \* budgets
  statements, faults, frozen

locks   == <<shared, writer, exclusive>>
text    == <<kind, row>>
history == <<finished, ranOut, faulted>>

vars == <<rows, locks, pc, text, attempt, lastStep, read, history, outcome,
          statements, faults, frozen>>

\* "update": savePid and saveOffset.  "insert": addWatch.  "set": addSetting
\* and removeSetting, which neither reset nor let an exception pass.
\* "list": getWatches, getSettings, getSetting.  "one": getWatchById.
Writes == {"update", "insert", "set"}
Kinds  == Writes \cup {"list", "one"}

Labels   == {"idle", "prepare", "step", "reserved", "commit", "reset",
             "return", "throw", "killed"}
Codes    == {"ROW", "DONE", "BUSY", "ERROR", "FAULT"}
Outcomes == {"none", "returned", "threw"}

-----------------------------------------------------------------------------
(***************************************************************************)
(* What the code makes of a result code                                    *)
(***************************************************************************)

\* while( attempt < 1000 ): is there an attempt after this one?
Again(p) == attempt[p] + 1 < MaxAttempts

\* Where PreparedStatement::step and its caller go on.  Only SQLITE_ERROR
\* makes step throw; a loop "while( step() == SQLITE_ROW )" ends at any other
\* code, and getWatchById throws after it.
AfterStep(p, code) ==
  CASE code = "ERROR" -> "throw"
    [] code # "ERROR" /\ kind[p] \in {"update", "insert"} -> "reset"
    [] code # "ERROR" /\ kind[p] = "set" -> "return"
    [] code # "ERROR" /\ kind[p] = "list" ->
         IF code = "ROW" THEN "step" ELSE "return"
    [] code # "ERROR" /\ kind[p] = "one" ->
         IF code = "ROW" THEN "return" ELSE "throw"

\* A step has come to an end with this code.
Stepped(p, code) ==
  /\ lastStep' = [lastStep EXCEPT ![p] = code]
  /\ attempt' = [attempt EXCEPT ![p] = 0]
  /\ pc' = [pc EXCEPT ![p] = AfterStep(p, code)]

\* Mutation: the attempts are not counted.
Busy_Uncounted(p) ==
  /\ pc' = [pc EXCEPT ![p] = "step"]
  /\ UNCHANGED <<attempt, lastStep, history>>

\* SQLITE_BUSY from sqlite3_step: sleep and try again, or return it.
Busy(p) ==
  /\ IF Again(p)
       THEN /\ attempt' = [attempt EXCEPT ![p] = @ + 1]
            /\ pc' = [pc EXCEPT ![p] = "step"]
            /\ UNCHANGED <<lastStep, ranOut>>
       ELSE /\ Stepped(p, "BUSY")
            /\ ranOut' = [ranOut EXCEPT ![p] = TRUE]
  /\ UNCHANGED <<finished, faulted>>

\* sqlite3_reset first repeats the error of the last step, if it had one, and
\* succeeds when it is called again.
ResetCode(p) ==
  IF attempt[p] = 0 /\ lastStep[p] # "DONE" THEN lastStep[p] ELSE "OK"

\* Mutation: the code of the reset is not looked at.
ResetThrows_Never(p) == FALSE

\* PreparedStatement::reset throws at each code that is not SQLITE_OK.
ResetThrows(p) == ResetCode(p) # "OK"

Reads(p) == pc[p] = "step" /\ kind[p] \notin Writes

\* The row a statement that reads comes to next.
NextRow(p) == IF kind[p] = "list" THEN read[p] + 1 ELSE row[p]

\* A reader gets its lock unless it has it or a writer excludes it.
MayRead(p) == p \in shared \/ ~exclusive

\* Mutation: the statement is not finalized.
Finalized_Not(p) == shared

\* The processes that read when the statement of p is finalized.
Finalized(p) == shared \ {p}

-----------------------------------------------------------------------------
(***************************************************************************)
(* The life of a statement                                                 *)
(***************************************************************************)

Init ==
  /\ rows = FirstRows
  /\ shared = {} /\ writer = NoProcess /\ exclusive = FALSE
  /\ pc = [p \in Processes |-> "idle"]
  /\ kind = [p \in Processes |-> "list"]
  /\ row = [p \in Processes |-> 1]
  /\ attempt = [p \in Processes |-> 0]
  /\ lastStep = [p \in Processes |-> "ERROR"]
  /\ read = [p \in Processes |-> 0]
  /\ finished = [p \in Processes |-> FALSE]
  /\ ranOut = [p \in Processes |-> FALSE]
  /\ faulted = [p \in Processes |-> FALSE]
  /\ outcome = [p \in Processes |-> "none"]
  /\ statements = 0 /\ faults = 0 /\ frozen = {}

\* A row of the watches is never deleted: an UPDATE finds its row.
Begin(p) ==
  /\ pc[p] = "idle"
  /\ statements < MaxStatements
  /\ statements' = statements + 1
  /\ \E k \in Kinds, r \in 1 .. (rows + 1) :
       /\ k \in {"update", "set"} => r <= rows
       /\ k \in {"insert", "list"} => r = rows + 1
       /\ kind' = [kind EXCEPT ![p] = k]
       /\ row' = [row EXCEPT ![p] = r]
  /\ pc' = [pc EXCEPT ![p] = "prepare"]
  /\ attempt' = [attempt EXCEPT ![p] = 0]
  /\ lastStep' = [lastStep EXCEPT ![p] = "ERROR"]
  /\ read' = [read EXCEPT ![p] = 0]
  /\ finished' = [finished EXCEPT ![p] = FALSE]
  /\ ranOut' = [ranOut EXCEPT ![p] = FALSE]
  /\ faulted' = [faulted EXCEPT ![p] = FALSE]
  /\ outcome' = [outcome EXCEPT ![p] = "none"]
  /\ UNCHANGED <<rows, locks, faults, frozen>>

\* The constructor: sqlite3_prepare_v3 reads the schema.
Prepare(p) ==
  /\ pc[p] = "prepare"
  /\ ~exclusive
  /\ pc' = [pc EXCEPT ![p] = "step"]
  /\ attempt' = [attempt EXCEPT ![p] = 0]
  /\ UNCHANGED <<rows, locks, text, lastStep, read, history, outcome,
                 statements, faults, frozen>>

\* It throws when its attempts have run out.
PrepareBusy(p) ==
  /\ pc[p] = "prepare"
  /\ exclusive
  /\ attempt' = [attempt EXCEPT ![p] = IF Again(p) THEN @ + 1 ELSE 0]
  /\ pc' = [pc EXCEPT ![p] = IF Again(p) THEN "prepare" ELSE "throw"]
  /\ UNCHANGED <<rows, locks, text, lastStep, read, history, outcome,
                 statements, faults, frozen>>

ReadRow(p) ==
  /\ Reads(p) /\ MayRead(p)
  /\ NextRow(p) <= rows
  /\ shared' = shared \cup {p}   \* until its end or its destructor
  /\ read' = [read EXCEPT ![p] = @ + 1]
  /\ finished' = [finished EXCEPT ![p] = (kind[p] = "one")]
  /\ Stepped(p, "ROW")
  /\ UNCHANGED <<rows, writer, exclusive, text, ranOut, faulted, outcome,
                 statements, faults, frozen>>

ReadEnd(p) ==
  /\ Reads(p) /\ MayRead(p)
  /\ NextRow(p) > rows
  /\ shared' = shared \ {p}
  /\ finished' = [finished EXCEPT ![p] = (kind[p] = "list")]
  /\ Stepped(p, "DONE")
  /\ UNCHANGED <<rows, writer, exclusive, text, read, ranOut, faulted,
                 outcome, statements, faults, frozen>>

ReadBusy(p) ==
  /\ Reads(p) /\ ~MayRead(p)
  /\ Busy(p)
  /\ UNCHANGED <<rows, locks, text, read, outcome, statements, faults,
                 frozen>>

\* Some other error: SQLITE_ERROR, or one of the codes that step returns
\* (SQLITE_FULL, SQLITE_IOERR, ...).  SQLite undoes what was not committed.
Fault(p) ==
  /\ pc[p] \in {"step", "commit"}
  /\ faults < MaxFaults
  /\ faults' = faults + 1
  /\ \E code \in {"ERROR", "FAULT"} : Stepped(p, code)
  /\ faulted' = [faulted EXCEPT ![p] = TRUE]
  /\ shared' = shared \ {p}
  /\ IF writer = p THEN writer' = NoProcess /\ exclusive' = FALSE
                   ELSE UNCHANGED <<writer, exclusive>>
  /\ UNCHANGED <<rows, text, read, finished, ranOut, outcome, statements,
                 frozen>>

Reserve(p) ==
  /\ pc[p] = "step" /\ kind[p] \in Writes
  /\ writer = NoProcess
  /\ writer' = p
  /\ pc' = [pc EXCEPT ![p] = "reserved"]
  /\ UNCHANGED <<rows, shared, exclusive, text, attempt, lastStep, read,
                 history, outcome, statements, faults, frozen>>

ReserveBusy(p) ==
  /\ pc[p] = "step" /\ kind[p] \in Writes
  /\ writer # NoProcess
  /\ Busy(p)
  /\ UNCHANGED <<rows, locks, text, read, outcome, statements, faults,
                 frozen>>

Exclude(p) ==
  /\ pc[p] = "reserved"
  /\ shared = {}
  /\ exclusive' = TRUE
  /\ pc' = [pc EXCEPT ![p] = "commit"]
  /\ UNCHANGED <<rows, shared, writer, text, attempt, lastStep, read,
                 history, outcome, statements, faults, frozen>>

\* A reader keeps the file: SQLite lets go of it.
ExcludeBusy(p) ==
  /\ pc[p] = "reserved"
  /\ shared # {}
  /\ writer' = NoProcess
  /\ Busy(p)
  /\ UNCHANGED <<rows, shared, exclusive, text, read, outcome, statements,
                 faults, frozen>>

Commit(p) ==
  /\ pc[p] = "commit"
  /\ rows' = IF kind[p] = "insert" THEN rows + 1 ELSE rows
  /\ writer' = NoProcess /\ exclusive' = FALSE
  /\ finished' = [finished EXCEPT ![p] = TRUE]
  /\ Stepped(p, "DONE")
  /\ UNCHANGED <<shared, text, read, ranOut, faulted, outcome, statements,
                 faults, frozen>>

ResetBusy(p) ==
  /\ pc[p] = "reset"
  /\ ResetCode(p) = "BUSY" /\ Again(p)
  /\ attempt' = [attempt EXCEPT ![p] = @ + 1]
  /\ UNCHANGED <<rows, locks, pc, text, lastStep, read, history, outcome,
                 statements, faults, frozen>>

\* ... and clearBindings, which does not fail.
Reset(p) ==
  /\ pc[p] = "reset"
  /\ ~(ResetCode(p) = "BUSY" /\ Again(p))
  /\ pc' = [pc EXCEPT ![p] = IF ResetThrows(p) THEN "throw" ELSE "return"]
  /\ lastStep' = [lastStep EXCEPT ![p] = "ERROR"]
  /\ attempt' = [attempt EXCEPT ![p] = 0]
  /\ UNCHANGED <<rows, locks, text, read, history, outcome, statements,
                 faults, frozen>>

\* The destructor, on a return and while an exception unwinds the stack.
Finalize(p) ==
  /\ pc[p] \in {"return", "throw"}
  /\ shared' = Finalized(p)
  /\ outcome' = [outcome EXCEPT ![p] =
                   IF pc[p] = "return" THEN "returned" ELSE "threw"]
  /\ pc' = [pc EXCEPT ![p] = "idle"]
  /\ UNCHANGED <<rows, writer, exclusive, text, attempt, lastStep, read,
                 history, statements, faults, frozen>>

-----------------------------------------------------------------------------
(***************************************************************************)
(* What happens to a process                                               *)
(***************************************************************************)

\* SIGKILL: its locks go with it, what it did not commit is rolled back.
Kill(p) ==
  /\ Cardinality(frozen) < MaxFrozen
  /\ frozen' = frozen \cup {p}
  /\ pc' = [pc EXCEPT ![p] = "killed"]
  /\ shared' = shared \ {p}
  /\ IF writer = p THEN writer' = NoProcess /\ exclusive' = FALSE
                   ELSE UNCHANGED <<writer, exclusive>>
  /\ UNCHANGED <<rows, text, attempt, lastStep, read, history, outcome,
                 statements, faults>>

\* SIGSTOP: it keeps them.
Stop(p) ==
  /\ Cardinality(frozen) < MaxFrozen
  /\ frozen' = frozen \cup {p}
  /\ UNCHANGED <<rows, locks, pc, text, attempt, lastStep, read, history,
                 outcome, statements, faults>>

Step(p) ==
  \/ Prepare(p) \/ PrepareBusy(p)
  \/ ReadRow(p) \/ ReadEnd(p) \/ ReadBusy(p) \/ Fault(p)
  \/ Reserve(p) \/ ReserveBusy(p) \/ Exclude(p) \/ ExcludeBusy(p)
  \/ Commit(p) \/ ResetBusy(p) \/ Reset(p) \/ Finalize(p)

Next == \E p \in Processes \ frozen :
          Begin(p) \/ Step(p) \/ Kill(p) \/ Stop(p)

Spec == Init /\ [][Next]_vars

\* A process that is not stopped goes on with its statement.
FairSpec ==
  Spec /\ \A p \in Processes : WF_vars(p \notin frozen /\ Step(p))

-----------------------------------------------------------------------------
(***************************************************************************)
(* Properties                                                              *)
(***************************************************************************)

\* Every variable keeps its type.
TypeOK ==
  /\ rows \in Nat
  /\ shared \subseteq Processes
  /\ writer \in Processes \cup {NoProcess}
  /\ exclusive \in BOOLEAN
  /\ pc \in [Processes -> Labels]
  /\ kind \in [Processes -> Kinds]
  /\ row \in [Processes -> Nat \ {0}]
  /\ attempt \in [Processes -> 0 .. (MaxAttempts - 1)]
  /\ lastStep \in [Processes -> Codes]
  /\ read \in [Processes -> Nat]
  /\ finished \in [Processes -> BOOLEAN]
  /\ ranOut \in [Processes -> BOOLEAN]
  /\ faulted \in [Processes -> BOOLEAN]
  /\ outcome \in [Processes -> Outcomes]
  /\ statements \in Nat
  /\ faults \in Nat
  /\ frozen \subseteq Processes

\* A caller that gets no exception may trust the statement, with two
\* exceptions that the code makes by what it does not look at: an UPDATE,
\* an INSERT or a list whose attempts ran out, and an error other than
\* SQLITE_ERROR in a list or a setting.  After an exception nothing was
\* changed, so that the statement may be run again.
CallerKnows ==
  \A p \in Processes :
    /\ outcome[p] = "returned" =>
         \/ finished[p]
         \/ ranOut[p] /\ kind[p] # "one"
         \/ faulted[p] /\ kind[p] \in {"list", "set"}
    /\ outcome[p] = "threw" => ~finished[p]

\* A process between two statements holds no lock, however the last one
\* ended: at the end of the rows, at a row (getWatchById returns from within
\* its loop), by an exception or by a lock it did not get.  So nobody waits
\* for a lock while holding one.
NoLockIsKept ==
  \A p \in Processes :
    pc[p] = "idle" => p \notin shared /\ writer # p

\* Every statement comes to an end, also while a stopped process keeps the
\* database locked for good.
StatementsEnd ==
  \A p \in Processes :
    pc[p] # "idle" ~> (pc[p] = "idle" \/ p \in frozen)

=============================================================================
