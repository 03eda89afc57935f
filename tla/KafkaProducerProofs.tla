------------------------- MODULE KafkaProducerProofs -------------------------
(***************************************************************************)
(* What KafkaProducer guarantees for every set of messages, every queue    *)
(* limit and every pair of timeouts.                                       *)
(***************************************************************************)
EXTENDS KafkaProducer, TLAPS

\* The conditions under which the producer loses nothing it queued: its
\* caller opens the undelivered log, the log stores what is written to it, and
\* a message times out before the flush of the destructor does.
SafeSettings == /\ OpensLog
                /\ WritesSucceed
                /\ MessageTimeout < FlushWait

-----------------------------------------------------------------------------
(***************************************************************************)
(* Types                                                                   *)
(***************************************************************************)

\* One step keeps the types, whatever the settings.
LEMMA TypeStep == TypeOK /\ [Next]_vars => TypeOK'
<1> SUFFICES ASSUME TypeOK, [Next]_vars PROVE TypeOK'
  OBVIOUS
<1> USE ConstantsAssumption DEF TypeOK, Labels, Fates
<1>1. CASE OpenUndeliveredLog \/ OpenFails
  BY <1>1 DEF OpenUndeliveredLog, OpenFails
<1>2. CASE \E m \in Messages : Produce(m)
  BY <1>2 DEF Produce
<1>3. CASE Poll \/ Destroy \/ QueueFull \/ Retry \/ PollReturns
  BY <1>3 DEF Poll, Destroy, QueueFull, Retry, PollReturns
<1>4. CASE Enqueue \/ Reject
  BY <1>4 DEF Enqueue, Reject
<1>5. CASE \E m \in Messages : DeliveryReport(m)
  BY <1>5 DEF DeliveryReport, Recorded
<1>6. CASE FlushReturns \/ Kill
  BY <1>6 DEF FlushReturns, Kill
<1>7. CASE \E m \in Messages : Acknowledge(m) \/ Fail(m)
  BY <1>7 DEF Acknowledge, Fail
<1>8. CASE Tick
  <2>1. age' \in [Messages -> 0 .. MessageTimeout]
    BY <1>8 DEF Tick, With
  <2>2. elapsed' \in 0 .. FlushWait
    BY <1>8 DEF Tick
  <2> QED
    BY <1>8, <2>1, <2>2 DEF Tick
<1>9. CASE UNCHANGED vars
  BY <1>9 DEF vars
<1> QED
  BY <1>1, <1>2, <1>3, <1>4, <1>5, <1>6, <1>7, <1>8, <1>9
  DEF Next, Caller, Step, Librdkafka

\* Every variable of KafkaProducer keeps its type in every behaviour.
THEOREM TypeCorrect == Spec => []TypeOK
<1>1. Init => TypeOK
  BY ConstantsAssumption DEF Init, TypeOK, Labels, Fates
<1> QED
  BY <1>1, TypeStep, PTL DEF Spec

-----------------------------------------------------------------------------
(***************************************************************************)
(* Nothing is lost                                                         *)
(***************************************************************************)

\* A message that is still queued while the producer flushes has been queued
\* since before the flush began, so its age is at least the time the flush
\* has taken; as it cannot be older than MessageTimeout, none is left when
\* the deadline comes, and time does not reach the deadline while a report
\* is waiting to be served.
FlushOutlastsMessages ==
  pc = "flushing" =>
    \A m \in Messages : /\ fate[m] = "queued" => elapsed <= age[m]
                        /\ fate[m] = "failed" => elapsed < FlushWait

\* The undelivered log is open whenever a report may be served, and so no
\* failed message goes unrecorded.
FailuresAreRecorded ==
  /\ pc \notin {"constructed", "closed", "killed"} => logFd = "open"
  /\ \A m \in Messages : fate[m] # "unrecorded"

\* The message produce() was called with is not in the queue yet.
UnderWay == pc \in {"producing", "full"} => fate[message] = "new"

\* Nothing is produced before the log is open.
StartsEmpty == pc = "constructed" => \A m \in Messages : fate[m] = "new"

Inv == /\ TypeOK
       /\ StartsEmpty
       /\ UnderWay
       /\ FlushOutlastsMessages
       /\ FailuresAreRecorded
       /\ EveryMessageAccounted

\* The invariant is inductive under the safe settings.
LEMMA InvStep == ASSUME SafeSettings, Inv, [Next]_vars PROVE Inv'
<1>0. TypeOK'
  BY TypeStep DEF Inv
<1> USE ConstantsAssumption
    DEF SafeSettings, Inv, TypeOK, Labels, Fates, FlushOutlastsMessages,
        FailuresAreRecorded, EveryMessageAccounted, UnderWay, StartsEmpty
<1>1. CASE OpenUndeliveredLog \/ OpenFails
  BY <1>0, <1>1 DEF OpenUndeliveredLog, OpenFails
<1>2. CASE \E m \in Messages : Produce(m)
  BY <1>0, <1>2 DEF Produce
<1>3. CASE Poll \/ QueueFull \/ Retry \/ PollReturns
  BY <1>0, <1>3 DEF Poll, QueueFull, Retry, PollReturns
<1>4. CASE Destroy
  BY <1>0, <1>4 DEF Destroy
<1>5. CASE Enqueue \/ Reject
  BY <1>0, <1>5 DEF Enqueue, Reject
<1>6. CASE \E m \in Messages : DeliveryReport(m)
  <2> PICK m \in Messages : DeliveryReport(m)
    BY <1>6
  <2>1. pc' = pc /\ pc \in {"polling", "full", "flushing"} /\ logFd = "open"
    BY DEF DeliveryReport, Serving
  <2>2. \A n \in Messages :
          \/ fate'[n] = fate[n]
          \/ fate'[n] \in {"delivered", "recorded"}
    BY <2>1 DEF DeliveryReport, Recorded
  <2>3. UnderWay'
    BY <2>1 DEF DeliveryReport, Reports, With
  <2>4. FlushOutlastsMessages'
    BY <2>1, <2>2 DEF DeliveryReport
  <2>5. FailuresAreRecorded' /\ EveryMessageAccounted' /\ StartsEmpty'
    BY <2>1, <2>2 DEF DeliveryReport
  <2> QED
    BY <1>0, <2>3, <2>4, <2>5
<1>7. CASE FlushReturns
  <2>1. \A m \in Messages : fate[m] \notin {"queued", "failed"}
    <3>1. CASE Outq = {}
      BY <3>1 DEF Outq, Reports, With
    <3>2. CASE elapsed = FlushWait
      BY <1>7, <3>2 DEF FlushReturns
    <3> QED
      BY <1>7, <3>1, <3>2 DEF FlushReturns
  <2> QED
    BY <1>0, <1>7, <2>1 DEF FlushReturns
<1>8. CASE Kill
  BY <1>0, <1>8 DEF Kill
<1>9. CASE \E m \in Messages : Acknowledge(m)
  BY <1>0, <1>9 DEF Acknowledge, Alive
<1>10. CASE \E m \in Messages : Fail(m)
  BY <1>0, <1>10 DEF Fail, Alive
<1>11. CASE Tick
  <2>1. pc = "flushing" => \A m \in Messages : fate[m] # "failed"
    BY <1>11 DEF Tick, Serving, Reports, With
  <2>2. \A m \in Messages : fate[m] = "queued" => age'[m] = age[m] + 1
    BY <1>11 DEF Tick
  <2> QED
    BY <1>0, <1>11, <2>1, <2>2 DEF Tick, Alive
<1>12. CASE UNCHANGED vars
  BY <1>0, <1>12 DEF vars
<1> QED
  BY <1>1, <1>2, <1>3, <1>4, <1>5, <1>6, <1>7, <1>8, <1>9, <1>10, <1>11,
     <1>12
  DEF Next, Caller, Step, Librdkafka

LEMMA InvHolds == ASSUME SafeSettings PROVE Spec => []Inv
<1>1. Init => Inv
  BY ConstantsAssumption
  DEF Init, Inv, TypeOK, Labels, Fates, FlushOutlastsMessages,
      FailuresAreRecorded, EveryMessageAccounted, UnderWay, StartsEmpty
<1>2. Inv /\ [Next]_vars => Inv'
  BY InvStep
<1> QED
  BY <1>1, <1>2, PTL DEF Spec

\* With message.timeout.ms below the deadline of the flush, the destructor
\* leaves no message that is neither with the broker nor in the undelivered
\* log: what the comments in the constructor and in the destructor claim.
THEOREM NothingLost == ASSUME SafeSettings
                       PROVE  Spec => []EveryMessageAccounted
<1>1. Inv => EveryMessageAccounted
  BY DEF Inv
<1> QED
  BY <1>1, InvHolds, PTL

-----------------------------------------------------------------------------
(***************************************************************************)
(* The producer implements Handoff                                         *)
(***************************************************************************)

\* A step that changes one entry of the ledger, from held, settles it.
LEMMA Settles ==
  ASSUME NEW m \in Messages, Alive, Alive',
         Entry(fate[m]) = "held", Entry(fate'[m]) \in {"delivered", "recorded"},
         \A n \in Messages : n # m => fate'[n] = fate[n]
  PROVE  Contract!Settle(m)
<1> DEFINE new == Entry(fate'[m])
<1>1. ledgerBar' = [ledgerBar EXCEPT ![m] = new]
  BY DEF ledgerBar
<1>2. phaseBar = "open" /\ phaseBar' = "open"
  BY DEF phaseBar, Alive
<1>3. ledgerBar[m] = "held"
  BY DEF ledgerBar
<1> QED
  BY <1>1, <1>2, <1>3 DEF Contract!Settle

\* Every step of the producer is a step of Handoff, or none.
LEMMA ContractStep == ASSUME SafeSettings, Inv, Inv', [Next]_vars
                      PROVE  [Contract!Next]_(Contract!vars)
<1>0. /\ fate \in [Messages -> Fates]
      /\ pc \in Labels
      /\ \A m \in Messages : fate[m] # "unrecorded"
  BY DEF Inv, TypeOK, FailuresAreRecorded
<1>10. CASE OpenFails
  <2>1. /\ \A m \in Messages : ledgerBar[m] = "new"
        /\ ledgerBar' = ledgerBar /\ phaseBar = "open"
        /\ phaseBar' \in {"closed", "killed"}
    BY <1>10 DEF OpenFails, Inv, StartsEmpty, ledgerBar, phaseBar, Entry
  <2>2. Contract!Close \/ Contract!Kill
    BY <2>1 DEF Contract!Close, Contract!Kill
  <2> QED
    BY <2>2 DEF Contract!Next
<1>1. CASE \/ OpenUndeliveredLog \/ QueueFull \/ Retry \/ Poll
           \/ PollReturns \/ Destroy \/ Tick
           \/ \E m \in Messages : Produce(m)
  <2>1. UNCHANGED fate /\ Alive /\ Alive'
    BY <1>1 DEF OpenUndeliveredLog, QueueFull, Retry, Poll, PollReturns,
                Destroy, Tick, Produce, Alive
  <2> QED
    BY <2>1 DEF Contract!vars, ledgerBar, phaseBar, Alive
<1>2. CASE Enqueue
  <2>1. /\ message \in Messages /\ fate[message] = "new"
        /\ fate' = [fate EXCEPT ![message] = "queued"]
        /\ pc = "producing" /\ pc' = "idle"
    BY <1>2 DEF Enqueue, Inv, TypeOK, UnderWay
  <2>2. ledgerBar' = [ledgerBar EXCEPT ![message] = "held"]
    BY <1>0, <2>1 DEF ledgerBar, Entry
  <2>3. Contract!Hold(message)
    BY <2>1, <2>2 DEF Contract!Hold, ledgerBar, phaseBar, Entry
  <2> QED
    BY <2>1, <2>3 DEF Contract!Next
<1>3. CASE \E m \in Messages : Acknowledge(m)
  <2> PICK m \in Messages : Acknowledge(m)
    BY <1>3
  <2>1. Contract!Settle(m)
    BY <1>0, Settles DEF Acknowledge, Entry, Alive
  <2> QED
    BY <2>1 DEF Contract!Next
<1>4. CASE \E m \in Messages : Fail(m)
  <2> PICK m \in Messages : Fail(m)
    BY <1>4
  <2>1. UNCHANGED <<ledgerBar, phaseBar>>
    BY <1>0 DEF Fail, ledgerBar, phaseBar, Entry
  <2> QED
    BY <2>1 DEF Contract!vars
<1>5. CASE \E m \in Messages : DeliveryReport(m)
  <2> PICK m \in Messages : DeliveryReport(m)
    BY <1>5
  <2>1. CASE fate[m] = "acked"
    <3>1. UNCHANGED <<ledgerBar, phaseBar>>
      BY <1>0, <2>1 DEF DeliveryReport, ledgerBar, phaseBar, Entry
    <3> QED
      BY <3>1 DEF Contract!vars
  <2>2. CASE fate[m] = "failed"
    <3>1. /\ fate' = [fate EXCEPT ![m] = "recorded"]
          /\ Alive /\ Alive'
      BY <2>2 DEF DeliveryReport, Serving, Recorded, Alive, Inv,
                  FailuresAreRecorded
    <3>2. Contract!Settle(m)
      BY <1>0, <2>2, <3>1, Settles DEF Entry
    <3> QED
      BY <3>2 DEF Contract!Next
  <2> QED
    BY <2>1, <2>2 DEF DeliveryReport, Reports, With
<1>6. CASE FlushReturns
  <2>1. \A m \in Messages : fate'[m] \in {"new", "acked", "delivered",
                                          "recorded", "rejected"}
    BY <1>6 DEF FlushReturns, Inv, EveryMessageAccounted
  <2>2. \A m \in Messages : ledgerBar[m] # "held"
    BY <1>6, <2>1 DEF FlushReturns, ledgerBar, Entry
  <2>3. Contract!Close
    BY <1>6, <2>2 DEF FlushReturns, Contract!Close, phaseBar, ledgerBar
  <2> QED
    BY <2>3 DEF Contract!Next
<1>7. CASE Kill
  <2>1. Contract!Kill
    BY <1>7 DEF Kill, Alive, Contract!Kill, phaseBar, ledgerBar
  <2> QED
    BY <2>1 DEF Contract!Next
<1>8. CASE UNCHANGED vars
  BY <1>8 DEF vars, Contract!vars, ledgerBar, phaseBar
<1>9. CASE Reject
  <2>1. /\ message \in Messages /\ fate[message] = "new"
        /\ fate' = [fate EXCEPT ![message] = "rejected"]
        /\ pc = "producing" /\ pc' = "idle"
    BY <1>9 DEF Reject, Inv, TypeOK, UnderWay
  <2>2. ledgerBar' = [ledgerBar EXCEPT ![message] = "refused"]
    BY <1>0, <2>1 DEF ledgerBar, Entry
  <2>3. Contract!Refuse(message)
    BY <2>1, <2>2 DEF Contract!Refuse, ledgerBar, phaseBar, Entry
  <2> QED
    BY <2>1, <2>3 DEF Contract!Next
<1> QED
  BY <1>1, <1>2, <1>3, <1>4, <1>5, <1>6, <1>7, <1>8, <1>9, <1>10
  DEF Next, Caller, Step, Librdkafka

\* The producer with safe settings keeps the promise of Handoff: a message
\* it accepted is delivered or recorded before it is destroyed.
THEOREM ImplementsHandoff == ASSUME SafeSettings
                             PROVE  Spec => KeepsContract
<1>1. Init => Contract!Init
  BY DEF Init, Contract!Init, ledgerBar, phaseBar, Entry
<1>2. Inv /\ Inv' /\ [Next]_vars => [Contract!Next]_(Contract!vars)
  BY ContractStep
<1> QED
  BY <1>1, <1>2, InvHolds, PTL DEF Spec, KeepsContract, Contract!Spec

=============================================================================
