---------------------------- MODULE DatabaseProofs ----------------------------
(***************************************************************************)
(* What Database promises for any number of processes, rows, attempts,     *)
(* statements and failures.                                                *)
(***************************************************************************)
EXTENDS Database, TLAPS

-----------------------------------------------------------------------------
(***************************************************************************)
(* Types                                                                   *)
(***************************************************************************)

\* A statement goes on at a label of its own kind.
LEMMA AfterStepIsLabel ==
  ASSUME TypeOK, NEW p \in Processes, NEW code \in Codes
  PROVE  /\ AfterStep(p, code) \in {"step", "reset", "return", "throw"}
         /\ AfterStep(p, code) = "reset" <=>
              code # "ERROR" /\ kind[p] \in {"update", "insert"}
         /\ AfterStep(p, code) = "step" <=> code = "ROW" /\ kind[p] = "list"
         /\ AfterStep(p, code) = "throw" <=>
              \/ code = "ERROR"
              \/ code # "ROW" /\ kind[p] = "one"
<1>1. kind[p] \in {"update", "insert", "set", "list", "one"}
  BY DEF TypeOK, Kinds, Writes
<1>2. CASE code = "ERROR"
  BY <1>2 DEF AfterStep
<1>3. CASE code # "ERROR" /\ kind[p] \in {"update", "insert"}
  BY <1>3 DEF AfterStep
<1>4. CASE code # "ERROR" /\ kind[p] = "set"
  BY <1>4 DEF AfterStep
<1>5. CASE code # "ERROR" /\ kind[p] = "list"
  BY <1>5 DEF AfterStep
<1>6. CASE code # "ERROR" /\ kind[p] = "one"
  BY <1>6 DEF AfterStep
<1> QED
  BY <1>1, <1>2, <1>3, <1>4, <1>5, <1>6

\* The end of a step keeps the types of what it assigns.
LEMMA SteppedTypes ==
  ASSUME TypeOK, NEW p \in Processes, NEW code \in Codes, Stepped(p, code)
  PROVE  /\ pc' \in [Processes -> Labels]
         /\ lastStep' \in [Processes -> Codes]
         /\ attempt' \in [Processes -> 0 .. (MaxAttempts - 1)]
<1>1. AfterStep(p, code) \in Labels
  BY AfterStepIsLabel DEF Labels
<1> QED
  BY <1>1, ConstantsAssumption DEF Stepped, TypeOK

LEMMA BusyTypes ==
  ASSUME TypeOK, NEW p \in Processes, Busy(p)
  PROVE  /\ pc' \in [Processes -> Labels]
         /\ lastStep' \in [Processes -> Codes]
         /\ attempt' \in [Processes -> 0 .. (MaxAttempts - 1)]
         /\ ranOut' \in [Processes -> BOOLEAN]
         /\ UNCHANGED <<finished, faulted>>
<1>1. CASE Again(p)
  <2>1. attempt[p] + 1 \in 0 .. (MaxAttempts - 1)
    BY <1>1, ConstantsAssumption DEF Again, TypeOK
  <2>2. /\ attempt' = [attempt EXCEPT ![p] = @ + 1]
        /\ pc' = [pc EXCEPT ![p] = "step"]
        /\ UNCHANGED <<lastStep, ranOut, finished, faulted>>
    BY <1>1 DEF Busy
  <2> QED
    BY <2>1, <2>2 DEF TypeOK, Labels
<1>2. CASE ~Again(p)
  <2>1. Stepped(p, "BUSY") /\ ranOut' = [ranOut EXCEPT ![p] = TRUE]
    BY <1>2 DEF Busy
  <2> QED
    BY <2>1, SteppedTypes DEF Busy, Codes, TypeOK
<1> QED
  BY <1>1, <1>2

LEMMA StepKeepsTypes ==
  ASSUME TypeOK, NEW p \in Processes, Step(p)
  PROVE  TypeOK'
<1> USE ConstantsAssumption DEF TypeOK, locks, text, history
<1>1. CASE Prepare(p)
  BY <1>1 DEF Prepare, Labels
<1>2. CASE PrepareBusy(p)
  BY <1>2 DEF PrepareBusy, Labels, Again
<1>3. CASE ReadRow(p)
  BY <1>3, SteppedTypes DEF ReadRow, Codes
<1>4. CASE ReadEnd(p)
  BY <1>4, SteppedTypes DEF ReadEnd, Codes
<1>5. CASE ReadBusy(p)
  BY <1>5, BusyTypes DEF ReadBusy
<1>6. CASE Fault(p)
  <2>1. PICK code \in {"ERROR", "FAULT"} : Stepped(p, code)
    BY <1>6 DEF Fault
  <2>2. code \in Codes
    BY DEF Codes
  <2>3. writer' \in Processes \cup {NoProcess} /\ exclusive' \in BOOLEAN
    BY <1>6 DEF Fault
  <2> QED
    BY <1>6, <2>1, <2>2, <2>3, SteppedTypes DEF Fault
<1>7. CASE Reserve(p)
  BY <1>7 DEF Reserve, Labels
<1>8. CASE ReserveBusy(p)
  BY <1>8, BusyTypes DEF ReserveBusy
<1>9. CASE Exclude(p)
  BY <1>9 DEF Exclude, Labels
<1>10. CASE ExcludeBusy(p)
  BY <1>10, BusyTypes DEF ExcludeBusy
<1>11. CASE Commit(p)
  <2>1. rows' \in Nat
    BY <1>11 DEF Commit
  <2>2. /\ "DONE" \in Codes /\ Stepped(p, "DONE")
        /\ finished' \in [Processes -> BOOLEAN]
        /\ writer' = NoProcess /\ exclusive' = FALSE
        /\ UNCHANGED <<shared, text, read, ranOut, faulted, outcome,
                       statements, faults, frozen>>
    BY <1>11 DEF Commit, Codes
  <2> QED
    BY <2>1, <2>2, SteppedTypes
<1>12. CASE ResetBusy(p)
  BY <1>12 DEF ResetBusy, Again
<1>13. CASE Reset(p)
  BY <1>13 DEF Reset, Labels, Codes
<1>14. CASE Finalize(p)
  BY <1>14 DEF Finalize, Finalized, Labels, Outcomes
<1> QED
  BY <1>1, <1>2, <1>3, <1>4, <1>5, <1>6, <1>7, <1>8, <1>9, <1>10, <1>11,
     <1>12, <1>13, <1>14 DEF Step

LEMMA BeginKeepsTypes ==
  ASSUME TypeOK, NEW p \in Processes, Begin(p)
  PROVE  TypeOK'
<1> USE ConstantsAssumption DEF TypeOK, locks
<1>1. PICK k \in Kinds, r \in 1 .. (rows + 1) :
        kind' = [kind EXCEPT ![p] = k] /\ row' = [row EXCEPT ![p] = r]
  BY DEF Begin
<1>2. r \in Nat \ {0}
  OBVIOUS
<1>3. kind' \in [Processes -> Kinds] /\ row' \in [Processes -> Nat \ {0}]
  BY <1>1, <1>2
<1> QED
  BY <1>3 DEF Begin, Labels, Codes, Outcomes

LEMMA FrozenKeepsTypes ==
  ASSUME TypeOK, NEW p \in Processes, Kill(p) \/ Stop(p)
  PROVE  TypeOK'
BY DEF TypeOK, Kill, Stop, Labels, locks, text, history

LEMMA NextKeepsTypes == TypeOK /\ [Next]_vars => TypeOK'
<1> SUFFICES ASSUME TypeOK, [Next]_vars PROVE TypeOK'
  OBVIOUS
<1>1. CASE UNCHANGED vars
  BY <1>1 DEF vars, TypeOK, locks, text, history
<1>2. CASE Next
  BY <1>2, StepKeepsTypes, BeginKeepsTypes, FrozenKeepsTypes DEF Next
<1> QED
  BY <1>1, <1>2

LEMMA InitTypes == Init => TypeOK
<1> SUFFICES ASSUME Init PROVE TypeOK
  OBVIOUS
<1>1. rows \in Nat
  BY ConstantsAssumption DEF Init
<1>2. read \in [Processes -> Nat]
  BY DEF Init
<1>3. attempt \in [Processes -> 0 .. (MaxAttempts - 1)]
  BY ConstantsAssumption DEF Init
<1>4. /\ pc \in [Processes -> Labels]
      /\ kind \in [Processes -> Kinds]
      /\ lastStep \in [Processes -> Codes]
      /\ outcome \in [Processes -> Outcomes]
  BY DEF Init, Labels, Codes, Kinds, Outcomes
<1>5. /\ row \in [Processes -> Nat \ {0}]
      /\ finished \in [Processes -> BOOLEAN]
      /\ ranOut \in [Processes -> BOOLEAN]
      /\ faulted \in [Processes -> BOOLEAN]
  BY DEF Init
<1> QED
  BY <1>1, <1>2, <1>3, <1>4, <1>5 DEF Init, TypeOK

\* Every variable of the database keeps its type.
THEOREM TypeCorrect == Spec => []TypeOK
BY InitTypes, NextKeepsTypes, PTL DEF Spec

-----------------------------------------------------------------------------
(***************************************************************************)
(* Locks                                                                   *)
(***************************************************************************)

\* Who holds a lock is at a label where it may: a writer inside its step, a
\* reader between two rows or on its way to the destructor.
LocksInv ==
  /\ exclusive => shared = {} /\ writer # NoProcess
  /\ \A p \in Processes :
       /\ writer = p => pc[p] \in {"reserved", "commit"}
       /\ pc[p] = "reserved" => writer = p /\ ~exclusive
       /\ pc[p] = "commit" => writer = p /\ exclusive
       /\ pc[p] \in {"reserved", "commit"} => kind[p] \in Writes
       /\ p \in shared => /\ pc[p] \in {"step", "return"}
                          /\ kind[p] \notin Writes

\* A read leaves the writer alone and gets a lock only while nobody is
\* excluded.
LEMMA ReadKeepsLocks ==
  ASSUME TypeOK, LocksInv, NEW p \in Processes, ReadRow(p) \/ ReadEnd(p)
  PROVE  LocksInv'
<1>1. PICK code \in {"ROW", "DONE"} : Stepped(p, code)
  BY DEF ReadRow, ReadEnd
<1>2. /\ pc' = [pc EXCEPT ![p] = AfterStep(p, code)]
      /\ pc[p] = "step" /\ kind[p] \in {"list", "one"}
      /\ UNCHANGED <<writer, exclusive, kind>>
  BY <1>1 DEF ReadRow, ReadEnd, Stepped, Reads, TypeOK, Kinds, text
<1>3. AfterStep(p, code) \in {"step", "return", "throw"}
  BY <1>1, <1>2, AfterStepIsLabel DEF Codes
<1>4. CASE ReadRow(p)
  <2>1. Stepped(p, "ROW") /\ shared' = shared \cup {p} /\ MayRead(p)
    BY <1>4 DEF ReadRow
  <2>2. AfterStep(p, "ROW") \in {"step", "return"}
    BY <1>2, AfterStepIsLabel DEF Codes
  <2>3. pc' = [pc EXCEPT ![p] = AfterStep(p, "ROW")]
    BY <2>1 DEF Stepped
  <2>4. ~exclusive
    BY <2>1 DEF MayRead, LocksInv
  <2> QED
    BY <1>2, <2>1, <2>2, <2>3, <2>4 DEF LocksInv, TypeOK, Writes
<1>5. CASE ReadEnd(p)
  <2>1. shared' = shared \ {p}
    BY <1>5 DEF ReadEnd
  <2> QED
    BY <1>2, <1>3, <2>1 DEF LocksInv, TypeOK
<1> QED
  BY <1>4, <1>5

\* A call that is told BUSY holds no lock after it.
LEMMA BusyKeepsLocks ==
  ASSUME TypeOK, LocksInv, NEW p \in Processes,
         ReadBusy(p) \/ ReserveBusy(p) \/ ExcludeBusy(p)
  PROVE  LocksInv'
<1>1. Busy(p) /\ UNCHANGED <<shared, exclusive, kind>>
  BY DEF ReadBusy, ReserveBusy, ExcludeBusy, locks, text
<1>2. PICK next \in {"step", "reset", "return", "throw"} :
        pc' = [pc EXCEPT ![p] = next]
  <2>1. CASE Again(p)
    BY <1>1, <2>1 DEF Busy
  <2>2. CASE ~Again(p)
    BY <1>1, <2>2, AfterStepIsLabel DEF Busy, Stepped, Codes
  <2> QED
    BY <2>1, <2>2
<1>3. p \notin shared
  BY DEF ReadBusy, ReserveBusy, ExcludeBusy, MayRead, LocksInv, Reads
<1>4. \/ pc[p] = "step" /\ writer' = writer
      \/ pc[p] = "reserved" /\ writer' = NoProcess
  BY DEF ReadBusy, ReserveBusy, ExcludeBusy, Reads, locks
<1> QED
  BY <1>1, <1>2, <1>3, <1>4, ConstantsAssumption DEF LocksInv, TypeOK

\* The steps of a writer.
LEMMA WriteKeepsLocks ==
  ASSUME TypeOK, LocksInv, NEW p \in Processes,
         Reserve(p) \/ Exclude(p) \/ Commit(p)
  PROVE  LocksInv'
<1> USE ConstantsAssumption
<1>1. CASE Reserve(p)
  BY <1>1 DEF Reserve, LocksInv, TypeOK, text
<1>2. CASE Exclude(p)
  BY <1>2 DEF Exclude, LocksInv, TypeOK, text
<1>3. CASE Commit(p)
  <2>1. /\ AfterStep(p, "DONE") \in {"step", "reset", "return", "throw"}
        /\ pc' = [pc EXCEPT ![p] = AfterStep(p, "DONE")]
    BY <1>3, AfterStepIsLabel DEF Commit, Stepped, Codes
  <2>2. writer = p /\ exclusive /\ shared = {}
    BY <1>3 DEF Commit, LocksInv
  <2> QED
    BY <1>3, <2>1, <2>2 DEF Commit, LocksInv, TypeOK, text
<1> QED
  BY <1>1, <1>2, <1>3

\* What ends a statement or a process lets go of its locks.
LEMMA LettingGoKeepsLocks ==
  ASSUME TypeOK, LocksInv, NEW p \in Processes,
         Fault(p) \/ Finalize(p) \/ Kill(p)
  PROVE  LocksInv'
<1> USE ConstantsAssumption
<1>1. PICK next \in {"step", "reset", "return", "throw", "idle", "killed"} :
        pc' = [pc EXCEPT ![p] = next]
  <2>1. CASE Fault(p)
    <3>1. PICK code \in {"ERROR", "FAULT"} : Stepped(p, code)
      BY <2>1 DEF Fault
    <3>2. code \in Codes
      BY DEF Codes
    <3> QED
      BY <3>1, <3>2, AfterStepIsLabel DEF Stepped
  <2>2. CASE Finalize(p)
    BY <2>2 DEF Finalize
  <2>3. CASE Kill(p)
    BY <2>3 DEF Kill
  <2> QED
    BY <2>1, <2>2, <2>3
<1>2. shared' = shared \ {p} /\ kind' = kind
  BY DEF Fault, Finalize, Finalized, Kill, text
<1>3. \/ writer = p /\ writer' = NoProcess /\ exclusive' = FALSE
      \/ writer # p /\ UNCHANGED <<writer, exclusive>>
  BY DEF Fault, Finalize, Kill, LocksInv
<1> QED
  BY <1>1, <1>2, <1>3 DEF LocksInv, TypeOK

\* All other steps touch no lock, and no label where one is held.
LEMMA OthersKeepLocks ==
  ASSUME TypeOK, LocksInv, NEW p \in Processes,
         \/ Begin(p) \/ Prepare(p) \/ PrepareBusy(p)
         \/ ResetBusy(p) \/ Reset(p) \/ Stop(p)
  PROVE  LocksInv'
<1>1. CASE Begin(p)
  <2>1. \A q \in Processes : q # p => kind'[q] = kind[q] /\ pc'[q] = pc[q]
    BY <1>1 DEF Begin, TypeOK
  <2>2. pc[p] = "idle" /\ pc'[p] = "prepare" /\ UNCHANGED locks
    BY <1>1 DEF Begin, TypeOK
  <2>3. p \notin shared /\ writer # p
    BY <2>2 DEF LocksInv
  <2>4. exclusive' => shared' = {} /\ writer' # NoProcess
    BY <2>2 DEF LocksInv, locks
  <2>5. ASSUME NEW q \in Processes
        PROVE  /\ writer' = q => pc'[q] \in {"reserved", "commit"}
               /\ pc'[q] = "reserved" => writer' = q /\ ~exclusive'
               /\ pc'[q] = "commit" => writer' = q /\ exclusive'
               /\ pc'[q] \in {"reserved", "commit"} => kind'[q] \in Writes
               /\ q \in shared' => /\ pc'[q] \in {"step", "return"}
                                   /\ kind'[q] \notin Writes
    <3>1. CASE q = p
      BY <2>2, <2>3, <3>1 DEF locks
    <3>2. CASE q # p
      BY <2>1, <2>2, <3>2 DEF LocksInv, locks
    <3> QED
      BY <3>1, <3>2
  <2> QED
    BY <2>4, <2>5 DEF LocksInv
<1>2. CASE Prepare(p) \/ PrepareBusy(p)
  <2>1. /\ pc[p] = "prepare" /\ UNCHANGED <<locks, kind>>
        /\ \E next \in {"prepare", "step", "throw"} :
             pc' = [pc EXCEPT ![p] = next]
    BY <1>2 DEF Prepare, PrepareBusy, text
  <2>2. p \notin shared /\ writer # p
    BY <2>1 DEF LocksInv
  <2> QED
    BY <2>1, <2>2 DEF LocksInv, TypeOK, locks
<1>3. CASE ResetBusy(p) \/ Reset(p) \/ Stop(p)
  BY <1>3 DEF ResetBusy, Reset, Stop, LocksInv, TypeOK, locks, text
<1> QED
  BY <1>1, <1>2, <1>3

LEMMA NextKeepsLocks == TypeOK /\ LocksInv /\ [Next]_vars => LocksInv'
<1> SUFFICES ASSUME TypeOK, LocksInv, [Next]_vars PROVE LocksInv'
  OBVIOUS
<1>1. CASE UNCHANGED vars
  BY <1>1 DEF vars, LocksInv, locks, text
<1>2. CASE Next
  BY <1>2, ReadKeepsLocks, BusyKeepsLocks, WriteKeepsLocks,
     LettingGoKeepsLocks, OthersKeepLocks DEF Next, Step
<1> QED
  BY <1>1, <1>2

LEMMA InitLocks == Init => LocksInv
BY ConstantsAssumption DEF Init, LocksInv

\* A lock is held only within a statement, a writer's in the middle of a step,
\* and while one process has shut out the others nobody reads.
THEOREM LocksAreHeldInSteps == Spec => []LocksInv
BY InitLocks, InitTypes, NextKeepsLocks, NextKeepsTypes, PTL DEF Spec

\* A process between two statements holds no lock: nobody waits for a lock
\* while holding one, for any number of processes.
THEOREM NoLockStays == Spec => []NoLockIsKept
<1>1. LocksInv => NoLockIsKept
  BY DEF LocksInv, NoLockIsKept
<1> QED
  BY <1>1, LocksAreHeldInSteps, PTL

-----------------------------------------------------------------------------
(***************************************************************************)
(* What a caller hears                                                     *)
(***************************************************************************)

\* The statement of p did what it was for, or could fail without a word.
Excused(p) ==
  \/ finished[p]
  \/ ranOut[p] /\ kind[p] # "one"
  \/ faulted[p] /\ kind[p] \in {"list", "set"}

\* What is decided at each label.  A reset tells the last step's error.
Known(p) ==
  /\ pc[p] \in {"prepare", "step", "reserved", "commit", "throw"}
       => ~finished[p]
  /\ pc[p] = "return" => Excused(p)
  /\ pc[p] = "reset" =>
       /\ kind[p] \in {"update", "insert"}
       /\ lastStep[p] \in {"DONE", "BUSY", "FAULT"}
       /\ finished[p] <=> lastStep[p] = "DONE"
       /\ lastStep[p] = "BUSY" => ranOut[p]
       /\ lastStep[p] # "BUSY" => attempt[p] = 0
  /\ outcome[p] # "none" => pc[p] \in {"idle", "killed"}
  /\ outcome[p] = "returned" => Excused(p)
  /\ outcome[p] = "threw" => ~finished[p]

KnownInv == \A p \in Processes : Known(p)

\* No step of p touches what is known of another process.
LEMMA StepIsLocal ==
  ASSUME TypeOK, NEW p \in Processes, Begin(p) \/ Step(p) \/ Kill(p) \/ Stop(p),
         NEW q \in Processes \ {p}
  PROVE  UNCHANGED <<pc[q], kind[q], attempt[q], lastStep[q], finished[q],
                     ranOut[q], faulted[q], outcome[q]>>
<1> USE DEF TypeOK, text, history
<1>1. CASE Begin(p)
  BY <1>1 DEF Begin
<1>2. CASE Prepare(p) \/ PrepareBusy(p)
  BY <1>2 DEF Prepare, PrepareBusy
<1>3. CASE ReadRow(p) \/ ReadEnd(p) \/ Commit(p)
  BY <1>3 DEF ReadRow, ReadEnd, Commit, Stepped
<1>4. CASE ReadBusy(p) \/ ReserveBusy(p) \/ ExcludeBusy(p)
  BY <1>4 DEF ReadBusy, ReserveBusy, ExcludeBusy, Busy, Stepped
<1>5. CASE Fault(p)
  BY <1>5 DEF Fault, Stepped
<1>6. CASE Reserve(p) \/ Exclude(p) \/ ResetBusy(p) \/ Reset(p) \/ Finalize(p)
  BY <1>6 DEF Reserve, Exclude, ResetBusy, Reset, Finalize
<1>7. CASE Kill(p) \/ Stop(p)
  BY <1>7 DEF Kill, Stop
<1> QED
  BY <1>1, <1>2, <1>3, <1>4, <1>5, <1>6, <1>7 DEF Step

\* A step that ends with this code leaves p where its outcome is known.
LEMMA SteppedIsKnown ==
  ASSUME TypeOK, NEW p \in Processes, NEW code \in Codes,
         Stepped(p, code), kind' = kind,
         outcome'[p] = "none",
         finished'[p] <=> \/ code = "DONE" /\ kind[p] # "one"
                          \/ code = "ROW" /\ kind[p] = "one",
         code = "ROW" => kind[p] \notin Writes,
         code = "BUSY" => ranOut'[p],
         code = "FAULT" => faulted'[p]
  PROVE  Known(p)'
<1>1. /\ pc'[p] = AfterStep(p, code)
      /\ lastStep'[p] = code
      /\ attempt'[p] = 0
      /\ kind'[p] = kind[p]
  BY DEF Stepped, TypeOK
<1>2. kind[p] \in {"update", "insert", "set", "list", "one"}
  BY DEF TypeOK, Kinds, Writes
<1>3. code \in {"ROW", "DONE", "BUSY", "ERROR", "FAULT"}
  BY DEF Codes
<1>4. pc'[p] = "throw" => ~finished'[p]
  BY <1>1, <1>2, <1>3, AfterStepIsLabel
<1>5. pc'[p] = "step" => ~finished'[p]
  BY <1>1, AfterStepIsLabel
<1>6. pc'[p] = "return" => Excused(p)'
  BY <1>1, <1>2, <1>3, AfterStepIsLabel DEF Excused, Writes
<1>7. pc'[p] = "reset" =>
        /\ kind[p] \in {"update", "insert"}
        /\ code \in {"DONE", "BUSY", "FAULT"}
  BY <1>1, <1>3, AfterStepIsLabel DEF Writes
<1>8. pc'[p] \in {"step", "reset", "return", "throw"}
  BY <1>1, AfterStepIsLabel
<1> QED
  BY <1>1, <1>4, <1>5, <1>6, <1>7, <1>8 DEF Known

LEMMA StepIsKnown ==
  ASSUME TypeOK, LocksInv, KnownInv, NEW p \in Processes, Step(p)
  PROVE  Known(p)'
<1>1. Known(p) /\ p \in Processes
  BY DEF KnownInv
<1>2. CASE Prepare(p) \/ PrepareBusy(p)
  BY <1>1, <1>2 DEF Prepare, PrepareBusy, Known, Excused, TypeOK, text, history
<1>3. CASE ReadRow(p)
  <2>1. Stepped(p, "ROW") /\ finished'[p] = (kind[p] = "one")
    BY <1>3 DEF ReadRow, TypeOK
  <2>2. kind' = kind /\ outcome'[p] = "none" /\ kind[p] \notin Writes
    BY <1>1, <1>3 DEF ReadRow, Reads, Known, text, TypeOK, Outcomes
  <2> QED
    BY <2>1, <2>2, SteppedIsKnown DEF Codes
<1>4. CASE ReadEnd(p)
  <2>1. Stepped(p, "DONE") /\ finished'[p] = (kind[p] = "list")
    BY <1>4 DEF ReadEnd, TypeOK
  <2>2. /\ kind' = kind /\ outcome'[p] = "none"
        /\ kind[p] \in {"list", "one"}
    BY <1>1, <1>4 DEF ReadEnd, Reads, Known, text, TypeOK, Kinds
  <2> QED
    BY <2>1, <2>2, SteppedIsKnown DEF Codes
<1>5. CASE ReadBusy(p) \/ ReserveBusy(p) \/ ExcludeBusy(p)
  <2>1. /\ Busy(p) /\ kind' = kind /\ outcome' = outcome
        /\ pc[p] \in {"step", "reserved"}
    BY <1>5 DEF ReadBusy, ReserveBusy, ExcludeBusy, Reads, text
  <2>2. outcome[p] = "none" /\ ~finished[p] /\ finished' = finished
    BY <1>1, <2>1 DEF Known, Busy
  <2>3. CASE Again(p)
    BY <1>1, <2>1, <2>2, <2>3 DEF Busy, Known, TypeOK
  <2>4. CASE ~Again(p)
    <3>1. Stepped(p, "BUSY") /\ ranOut'[p]
      BY <2>1, <2>4 DEF Busy, TypeOK
    <3> QED
      BY <2>1, <2>2, <3>1, SteppedIsKnown DEF Codes
  <2> QED
    BY <2>3, <2>4
<1>6. CASE Fault(p)
  <2>1. PICK code \in {"ERROR", "FAULT"} : Stepped(p, code)
    BY <1>6 DEF Fault
  <2>2. /\ kind' = kind /\ outcome'[p] = "none" /\ ~finished'[p]
        /\ faulted'[p]
    BY <1>1, <1>6 DEF Fault, Known, text, TypeOK
  <2> QED
    BY <2>1, <2>2, SteppedIsKnown DEF Codes
<1>7. CASE Reserve(p) \/ Exclude(p)
  BY <1>1, <1>7 DEF Reserve, Exclude, Known, Excused, TypeOK, text, history
<1>8. CASE Commit(p)
  <2>1. Stepped(p, "DONE") /\ finished'[p]
    BY <1>8 DEF Commit, TypeOK
  <2>2. kind' = kind /\ outcome'[p] = "none" /\ kind[p] \in Writes
    BY <1>1, <1>8 DEF Commit, Known, LocksInv, text, TypeOK
  <2> QED
    BY <2>1, <2>2, SteppedIsKnown DEF Codes, Writes
<1>9. CASE ResetBusy(p)
  BY <1>1, <1>9 DEF ResetBusy, ResetCode, Known, Excused, TypeOK, text, history
<1>10. CASE Reset(p)
  <2>1. /\ pc'[p] = IF ResetThrows(p) THEN "throw" ELSE "return"
        /\ UNCHANGED <<text, history, outcome>>
        /\ pc[p] = "reset"
    BY <1>10 DEF Reset, TypeOK
  <2>2. ResetThrows(p) => ~finished[p]
    BY <1>1, <2>1 DEF ResetThrows, ResetCode, Known
  <2>3. ~ResetThrows(p) => Excused(p)
    BY <1>1, <2>1 DEF ResetThrows, ResetCode, Known, Excused
  <2> QED
    BY <1>1, <2>1, <2>2, <2>3 DEF Known, Excused, text, history
<1>11. CASE Finalize(p)
  BY <1>1, <1>11 DEF Finalize, Known, Excused, TypeOK, text, history
<1> QED
  BY <1>2, <1>3, <1>4, <1>5, <1>6, <1>7, <1>8, <1>9, <1>10, <1>11 DEF Step

LEMMA NextIsKnown ==
  TypeOK /\ LocksInv /\ KnownInv /\ [Next]_vars => KnownInv'
<1> SUFFICES ASSUME TypeOK, LocksInv, KnownInv, [Next]_vars PROVE KnownInv'
  OBVIOUS
<1>1. CASE UNCHANGED vars
  BY <1>1 DEF vars, KnownInv, Known, Excused, text, history
<1>2. CASE Next
  <2>1. PICK p \in Processes : Begin(p) \/ Step(p) \/ Kill(p) \/ Stop(p)
    BY <1>2 DEF Next
  <2>2. Known(p)'
    <3>1. Known(p)
      BY DEF KnownInv
    <3>2. CASE Begin(p)
      BY <3>2 DEF Begin, Known, TypeOK
    <3>3. CASE Kill(p) \/ Stop(p)
      BY <3>1, <3>3 DEF Kill, Stop, Known, Excused, TypeOK, text, history
    <3> QED
      BY <2>1, <3>2, <3>3, StepIsKnown
  <2>3. ASSUME NEW q \in Processes \ {p}
        PROVE  Known(q)'
    <3>1. Known(q)
      BY DEF KnownInv
    <3> QED
      BY <2>1, <3>1, StepIsLocal DEF Known, Excused
  <2> QED
    BY <2>2, <2>3 DEF KnownInv
<1> QED
  BY <1>1, <1>2

LEMMA InitIsKnown == Init => KnownInv
BY DEF Init, KnownInv, Known, Excused

\* A caller hears of every failure but those named in CallerKnows, and an
\* exception means that nothing was changed.
THEOREM CallersKnow == Spec => []CallerKnows
<1>1. KnownInv => CallerKnows
  BY DEF KnownInv, Known, Excused, CallerKnows
<1>2. Spec => []KnownInv
  BY InitIsKnown, InitLocks, InitTypes, NextIsKnown, NextKeepsLocks,
     NextKeepsTypes, PTL DEF Spec
<1> QED
  BY <1>1, <1>2, PTL

=============================================================================
