-------------------------- MODULE HttpProducerProofs --------------------------
(***************************************************************************)
(* What HttpProducer does for any number of targets, messages and threads  *)
(* and every size of a batch.                                              *)
(***************************************************************************)
EXTENDS HttpProducer, TLAPS, FiniteSetTheorems

-----------------------------------------------------------------------------
(***************************************************************************)
(* Batches                                                                 *)
(***************************************************************************)

\* TypeOK is not inductive: that a task in the queue is no larger than a
\* batch and not empty depends on when a connection is flushed.
Filled ==
  /\ pc \in {"flushProduce", "flushPoll"} => messages[at] # <<>>
  /\ pc \in {"produce", "flushProduce"} => produced \in Messages

\* The threads that run a task.
Busy == {t \in Threads : running[t] # NoTask}

\* tasks_total counts the tasks in the queue and those that are running.
Counted == pc # "killed" => total = Len(tasks) + Cardinality(Busy)

\* A process that was killed has no threads.
Halted == pc = "killed" => Busy = {}

BatchInv == TypeOK /\ BelowBatchSize /\ Filled /\ Counted /\ Halted

LEMMA BusyIsFinite ==
  IsFiniteSet(Busy) /\ Cardinality(Busy) \in Nat
<1>1. Busy \subseteq Threads
  BY DEF Busy
<1> QED
  BY <1>1, ConstantsAssumption, FS_Subset, FS_CardinalityType

\* The sequence a connection has collected is a batch when it is flushed.
LEMMA FlushedIsBatch ==
  ASSUME BatchInv, Flush
  PROVE  messages[at] \in Batch
<1>1. at \in Targets /\ messages[at] \in Seq(Messages)
  BY DEF BatchInv, TypeOK, Flush
<1>2. Len(messages[at]) <= BatchSize /\ messages[at] # <<>>
  BY <1>1 DEF BatchInv, BelowBatchSize, Filled, Flush
<1>3. Len(messages[at]) \in 1 .. BatchSize
  BY <1>1, <1>2, ConstantsAssumption
<1> QED
  BY <1>1, <1>3 DEF Batch

\* Steps that leave the connections and the pool alone.
Walks == \/ OpenUndeliveredLog \/ Produce \/ Poll \/ PollTarget \/ Returns
         \/ FlushThrows \/ Destroy \/ WaitForTasks \/ Destroyed

LEMMA WalksKeepBatches ==
  ASSUME BatchInv, Walks
  PROVE  BatchInv'
<1> USE ConstantsAssumption DEF BatchInv, TypeOK, Filled
<1>1. UNCHANGED <<messages, tasks, total, running, delivered, lost>>
        /\ pc # "killed"
  BY DEF Walks, OpenUndeliveredLog, Produce, Poll, PollTarget, Returns,
         FlushThrows, Destroy, WaitForTasks, Destroyed, pool, outcome
<1>2. Counted' /\ Halted'
  BY <1>1 DEF Counted, Halted, Busy, Walks, OpenUndeliveredLog, Produce, Poll,
              PollTarget, Returns, FlushThrows, Destroy, WaitForTasks, Destroyed
<1>3. pc # "flushProduce" \/ FlushThrows
  BY DEF Walks, OpenUndeliveredLog, Produce, Poll, PollTarget, Returns,
         Destroy, WaitForTasks, Destroyed
<1>4. \A c \in Targets :
        Parses(c)' => Len(messages[c]) <= BatchSize
                      /\ Len(messages[c]) # BatchSize
  <2> SUFFICES ASSUME NEW c \in Targets, Parses(c)'
               PROVE  /\ Len(messages[c]) <= BatchSize
                      /\ Len(messages[c]) # BatchSize
    OBVIOUS
  <2>1. Parses(c)
    BY <1>1 DEF Parses
  <2>2. FlushThrows => c # at
    BY <2>1 DEF FlushThrows
  <2> QED
    BY <1>1, <1>3, <2>1, <2>2 DEF BelowBatchSize
<1>5. BelowBatchSize'
  BY <1>1, <1>4 DEF BelowBatchSize
<1>6. CASE OpenUndeliveredLog \/ Destroy \/ WaitForTasks \/ Destroyed
  BY <1>1, <1>2, <1>5, <1>6
     DEF OpenUndeliveredLog, Destroy, WaitForTasks, Destroyed, Labels
<1>7. CASE Produce
  BY <1>1, <1>2, <1>5, <1>7 DEF Produce, Labels, Messages
<1>8. CASE Poll \/ Returns
  BY <1>1, <1>2, <1>5, <1>8 DEF Poll, Returns, Labels
<1>9. CASE PollTarget
  <2>1. at \in Targets /\ pc' \in {"poll", "flushPoll"}
    BY <1>9 DEF PollTarget, Targets
  <2>2. pc' = "flushPoll" => at' = at /\ messages[at] # <<>>
    BY <1>9 DEF PollTarget, HasMessages
  <2>3. at' \in 1 .. (NumTargets + 1)
    BY <1>9, <2>1 DEF PollTarget, Targets
  <2> QED
    BY <1>1, <1>2, <1>5, <1>9, <2>1, <2>2, <2>3 DEF PollTarget, Labels
<1>10. CASE FlushThrows
  <2>1. at \in Targets /\ at' \in 1 .. (NumTargets + 1)
    BY <1>10 DEF FlushThrows, Targets
  <2> QED
    BY <1>1, <1>2, <1>5, <1>10, <2>1 DEF FlushThrows, Labels
<1> QED
  BY <1>6, <1>7, <1>8, <1>9, <1>10 DEF Walks

\* A message more on one connection, which is flushed if that fills it.
LEMMA PushKeepsBatches ==
  ASSUME BatchInv, Push
  PROVE  BatchInv'
<1> USE ConstantsAssumption DEF BatchInv
<1>1. /\ at \in Targets /\ produced \in Messages
      /\ messages[at] \in Seq(Messages)
  BY DEF Push, TypeOK, Targets, Filled
<1>2. /\ messages' = [messages EXCEPT ![at] = Append(@, produced)]
      /\ messages' \in [Targets -> Seq(Messages)]
      /\ messages'[at] = Append(messages[at], produced)
  BY <1>1 DEF Push, TypeOK
<1>3. /\ Len(messages'[at]) = Len(messages[at]) + 1
      /\ messages'[at] # <<>>
  BY <1>1, <1>2
<1>4. \A c \in Targets :
        /\ Len(messages[c]) \in Nat
        /\ Parses(c) => Len(messages[c]) < BatchSize
  BY DEF Push, TypeOK, BelowBatchSize
<1>5. \A c \in Targets : c # at => messages'[c] = messages[c]
  BY <1>2 DEF TypeOK
<1>9. \A c \in Targets : Parses(c)' => Parses(c)
  <2>1. \A k \in DOMAIN messages[at] :
          k \in DOMAIN messages'[at] /\ messages'[at][k] = messages[at][k]
    BY <1>1, <1>2
  <2> QED
    BY <1>5, <2>1 DEF Parses
<1>6. TypeOK'
  BY <1>1, <1>2 DEF Push, TypeOK, Labels, Targets, pool, outcome
<1>7. BelowBatchSize'
  BY <1>1, <1>3, <1>4, <1>5, <1>9 DEF Push, IsFull, BelowBatchSize
<1>8. Filled'
  BY <1>1, <1>3 DEF Push, Filled
<1>10. Counted' /\ Halted'
  BY DEF Push, Counted, Halted, Busy, pool
<1> QED
  BY <1>6, <1>7, <1>8, <1>10

\* The batch of a connection becomes a task, and the connection is empty.
LEMMA FlushKeepsBatches ==
  ASSUME BatchInv, Flush
  PROVE  BatchInv'
<1> USE ConstantsAssumption DEF BatchInv
<1> DEFINE task == [target |-> at, batch |-> messages[at]]
<1>1. at \in Targets /\ messages[at] \in Batch
  BY FlushedIsBatch DEF Flush, TypeOK
<1>2. /\ tasks' \in Seq(Task)
      /\ Len(tasks') = Len(tasks) + 1
      /\ Len(tasks) \in Nat
  <2>1. task \in Task
    BY <1>1 DEF Task
  <2> QED
    BY <2>1 DEF Flush, TypeOK
<1>3. /\ messages' = [messages EXCEPT ![at] = <<>>]
      /\ messages' \in [Targets -> Seq(Messages)]
  BY DEF Flush, Cleared, TypeOK
<1>4. TypeOK'
  BY <1>1, <1>2, <1>3 DEF Flush, TypeOK, Labels, Targets, outcome
<1>5. ASSUME NEW c \in Targets, Parses(c)'
      PROVE  Len(messages'[c]) \in Nat /\ Len(messages'[c]) < BatchSize
  <2>1. CASE c = at
    BY <1>1, <1>3, <2>1 DEF TypeOK
  <2>2. CASE c # at
    <3>1. messages'[c] = messages[c] /\ Len(messages[c]) \in Nat
      BY <1>1, <1>3, <2>2 DEF TypeOK
    <3>2. Parses(c)
      BY <1>5, <3>1 DEF Parses
    <3> QED
      BY <2>2, <3>1, <3>2 DEF Flush, BelowBatchSize
  <2> QED
    BY <2>1, <2>2
<1>6. BelowBatchSize'
  BY <1>5 DEF BelowBatchSize
<1>7. Filled'
  BY DEF Flush, Filled
<1>8. Counted' /\ Halted'
  BY <1>2, BusyIsFinite DEF Flush, Counted, Halted, Busy
<1> QED
  BY <1>4, <1>6, <1>7, <1>8

\* What the threads of the pool do.
LEMMA WorkersKeepBatches ==
  ASSUME BatchInv, NEW t \in Threads, Worker(t)
  PROVE  BatchInv'
<1> USE DEF BatchInv
<1>1. UNCHANGED <<caller, messages>>
  BY DEF Worker, Take, Posted
<1>2. BelowBatchSize' /\ Filled'
  BY <1>1 DEF BelowBatchSize, Filled, Parses, caller
<1>3. CASE Take(t)
  <2>1. /\ Head(tasks) \in Task /\ Tail(tasks) \in Seq(Task)
        /\ Len(tasks) \in Nat /\ Len(Tail(tasks)) = Len(tasks) - 1
    BY <1>3 DEF Take, TypeOK
  <2>2. TypeOK'
    BY <1>1, <1>3, <2>1 DEF Take, TypeOK, caller, outcome
  <2>3. Busy' = Busy \cup {t} /\ t \notin Busy
    <3>1. Head(tasks) # NoTask
      BY <2>1 DEF Task, NoTask, Targets
    <3> QED
      BY <1>3, <3>1 DEF Take, Busy, TypeOK
  <2>4. Cardinality(Busy') = Cardinality(Busy) + 1
    BY <2>3, BusyIsFinite, FS_AddElement
  <2>5. Counted' /\ Halted'
    BY <1>1, <1>3, <2>1, <2>4, BusyIsFinite
       DEF Take, Alive, Counted, Halted, caller, TypeOK
  <2> QED
    BY <1>2, <2>2, <2>5
<1>4. CASE Posted(t)
  <2>1. running[t] \in Task
    BY <1>4 DEF Posted, TypeOK
  <2>2. BatchOf(running[t]) \subseteq Messages
    <3>1. running[t].batch \in Seq(Messages)
      BY <2>1 DEF Task, Batch
    <3> QED
      BY <3>1 DEF BatchOf
  <2>3. /\ delivered' \in [Targets -> SUBSET Messages]
        /\ lost' \in [Targets -> SUBSET Messages]
    BY <1>4, <2>2 DEF Posted, TypeOK
  <2>5. Busy' = Busy \ {t} /\ t \in Busy
    BY <1>4 DEF Posted, Busy, TypeOK
  <2>6. Cardinality(Busy') = Cardinality(Busy) - 1 /\ Cardinality(Busy') \in Nat
    <3>1. IsFiniteSet(Busy')
      BY <2>5, BusyIsFinite, FS_RemoveElement
    <3> QED
      BY <2>5, <3>1, BusyIsFinite, FS_RemoveElement, FS_CardinalityType
  <2>7. pc # "killed" /\ Len(tasks) \in Nat
    BY <1>4, <2>5 DEF Posted, TypeOK, Halted, Busy
  <2>8. total' \in Nat /\ Counted' /\ Halted'
    BY <1>1, <1>4, <2>6, <2>7, BusyIsFinite DEF Posted, Counted, Halted, caller
  <2>4. TypeOK'
    BY <1>1, <1>4, <2>3, <2>8 DEF Posted, TypeOK, caller
  <2> QED
    BY <1>2, <2>4, <2>8
<1> QED
  BY <1>3, <1>4 DEF Worker

LEMMA BatchStep == BatchInv /\ [Next]_vars => BatchInv'
<1> SUFFICES ASSUME BatchInv, [Next]_vars PROVE BatchInv'
  OBVIOUS
<1>1. CASE Walks
  BY <1>1, WalksKeepBatches
<1>2. CASE Push
  BY <1>2, PushKeepsBatches
<1>3. CASE Flush
  BY <1>3, FlushKeepsBatches
<1>4. CASE \E t \in Threads : Worker(t)
  BY <1>4, WorkersKeepBatches
<1>5. CASE Kill
  BY <1>5 DEF Kill, BatchInv, TypeOK, BelowBatchSize, Parses, Filled, Counted,
              Halted, Busy, Labels, outcome
<1>6. CASE UNCHANGED vars
  BY <1>6 DEF vars, caller, pool, outcome, BatchInv, TypeOK, BelowBatchSize,
              Parses, Filled, Counted, Halted, Busy
<1> QED
  BY <1>1, <1>2, <1>3, <1>4, <1>5, <1>6 DEF Next, Step, Walks

LEMMA BatchInit == Init => BatchInv
<1> SUFFICES ASSUME Init PROVE BatchInv
  OBVIOUS
<1>1. TypeOK /\ BelowBatchSize /\ Filled
  BY ConstantsAssumption
     DEF Init, TypeOK, BelowBatchSize, Filled, Labels, Targets
<1>2. Busy = {}
  BY DEF Init, Busy
<1>3. Counted /\ Halted
  BY <1>2, FS_EmptySet DEF Init, Counted, Halted
<1> QED
  BY <1>1, <1>3 DEF BatchInv

\* Every variable of the producer keeps its type; no task is empty or larger
\* than a batch.
THEOREM TypeCorrect == Spec => []TypeOK
<1>1. BatchInv => TypeOK
  BY DEF BatchInv
<1> QED
  BY <1>1, BatchInit, BatchStep, PTL DEF Spec

\* No connection whose messages parse ever holds more than a batch, and it holds
\* a whole batch only while that is flushed, whatever does not parse elsewhere.
THEOREM BatchesStayBelowTheirSize == Spec => []BelowBatchSize
<1>1. BatchInv => BelowBatchSize
  BY DEF BatchInv
<1> QED
  BY <1>1, BatchInit, BatchStep, PTL DEF Spec

-----------------------------------------------------------------------------
(***************************************************************************)
(* A message is in one place                                               *)
(***************************************************************************)

\* Task holds message m of target c.
Holds(task, c, m) == task.target = c /\ m \in BatchOf(task)

\* Message m has not come to the connection of target c yet.
Fresh(c, m) ==
  \/ m > produced
  \/ m = produced /\ pc = "produce" /\ at <= c
  \/ m = produced /\ pc = "flushProduce" /\ at < c

Placed(c, m) == Held(c, m) \/ Queued(c, m) \/ Posting(c, m) \/ Done(c, m)

\* Each message that is not new to a connection is somewhere.
NoneVanishes ==
  pc # "killed" => \A c \in Targets : \A m \in Messages :
                     Fresh(c, m) \/ Placed(c, m)

\* Beyond SentOnce: what is new to a connection is nowhere, and neither two
\* tasks in the queue nor two threads have a message of a target in common.
OnceInv ==
  /\ SentOnce /\ NoneVanishes
  /\ \A c \in Targets : \A m \in Messages :
       /\ Placed(c, m) => ~Fresh(c, m)
       /\ \A k, l \in DOMAIN tasks :
            Holds(tasks[k], c, m) /\ Holds(tasks[l], c, m) => k = l
       /\ \A t, u \in Threads :
            Holds(running[t], c, m) /\ Holds(running[u], c, m) => t = u

LEMMA NoTaskHoldsNothing ==
  \A c, m : ~Holds(NoTask, c, m)
  BY DEF Holds, NoTask, BatchOf

\* A step that puts no message anywhere.
LEMMA UnmovedStaysOnce ==
  ASSUME OnceInv, UNCHANGED <<messages, pool, outcome>>,
         pc' # "killed" => pc # "killed",
         \A c \in Targets : \A m \in Messages : Fresh(c, m)' <=> Fresh(c, m)
  PROVE  OnceInv'
<1>1. SentOnce'
  BY DEF OnceInv, SentOnce, Held, Queued, Posting, Done, BatchOf, pool, outcome
<1>2. \A c \in Targets : \A m \in Messages : Placed(c, m)' <=> Placed(c, m)
  BY DEF Placed, Held, Queued, Posting, Done, BatchOf, pool, outcome
<1>3. NoneVanishes'
  BY <1>2 DEF OnceInv, NoneVanishes
<1> QED
  BY <1>1, <1>2, <1>3 DEF OnceInv, Holds, BatchOf, pool

\* The caller's walk over the connections makes nothing new.
LEMMA WalksStayOnce ==
  ASSUME BatchInv, OnceInv, Walks
  PROVE  OnceInv'
<1>1. UNCHANGED <<messages, pool, outcome>> /\ pc # "killed"
  BY DEF Walks, OpenUndeliveredLog, Produce, Poll, PollTarget, Returns,
         FlushThrows, Destroy, WaitForTasks, Destroyed
<1>2. ASSUME NEW c \in Targets, NEW m \in Messages
      PROVE  Fresh(c, m)' <=> Fresh(c, m)
  <2>1. /\ m \in Nat /\ produced \in Nat /\ c \in 1 .. NumTargets
        /\ at \in Nat /\ NumTargets \in Nat
    BY ConstantsAssumption DEF Messages, Targets, BatchInv, TypeOK
  <2>2. CASE Produce
    BY <2>1, <2>2 DEF Fresh, Produce
  <2>3. CASE Poll \/ PollTarget \/ Returns
    BY <2>1, <2>3 DEF Fresh, Poll, PollTarget, Returns
  <2>4. CASE FlushThrows
    BY <2>1, <2>4 DEF Fresh, FlushThrows
  <2>5. CASE OpenUndeliveredLog \/ Destroy \/ WaitForTasks \/ Destroyed
    BY <2>1, <2>5 DEF Fresh, OpenUndeliveredLog, Destroy, WaitForTasks,
                      Destroyed
  <2> QED
    BY <2>2, <2>3, <2>4, <2>5 DEF Walks
<1> QED
  BY <1>1, <1>2, UnmovedStaysOnce

\* The message that is pushed was nowhere.
LEMMA PushStaysOnce ==
  ASSUME BatchInv, OnceInv, Push
  PROVE  OnceInv'
<1>1. /\ at \in Targets /\ at \in Nat /\ produced \in Messages
      /\ messages \in [Targets -> Seq(Messages)]
  BY DEF Push, BatchInv, TypeOK, Targets, Filled
<1>2. ASSUME NEW c \in Targets, NEW m \in Messages
      PROVE  /\ Held(c, m)' <=> Held(c, m) \/ (c = at /\ m = produced)
             /\ Queued(c, m)' <=> Queued(c, m)
             /\ Posting(c, m)' <=> Posting(c, m)
             /\ Done(c, m)' <=> Done(c, m)
  <2>1. Held(c, m)' <=> Held(c, m) \/ (c = at /\ m = produced)
    <3>1. CASE c # at
      BY <1>1, <3>1 DEF Push, Held
    <3>2. CASE c = at
      <4>1. /\ messages'[c] = Append(messages[c], produced)
            /\ messages[c] \in Seq(Messages)
        BY <1>1, <3>2 DEF Push
      <4>2. /\ DOMAIN messages'[c] = 1 .. (Len(messages[c]) + 1)
            /\ DOMAIN messages[c] = 1 .. Len(messages[c])
            /\ Len(messages[c]) \in Nat
            /\ messages'[c][Len(messages[c]) + 1] = produced
            /\ \A k \in 1 .. Len(messages[c]) : messages'[c][k] = messages[c][k]
        BY <1>1, <4>1
      <4>3. \A k \in 1 .. (Len(messages[c]) + 1) :
              k \in 1 .. Len(messages[c]) \/ k = Len(messages[c]) + 1
        BY <4>2
      <4> QED
        BY <3>2, <4>2, <4>3 DEF Held
    <3> QED
      BY <3>1, <3>2
  <2> QED
    BY <2>1 DEF Push, Queued, Posting, Done, BatchOf, pool, outcome
<1>3. Fresh(at, produced)
  BY <1>1 DEF Push, Fresh
<1>4. ~Placed(at, produced)
  BY <1>1, <1>3 DEF OnceInv
<1>5. SentOnce'
  BY <1>2, <1>4 DEF OnceInv, SentOnce, Placed
<1>6. ASSUME NEW c \in Targets, NEW m \in Messages
      PROVE  Fresh(c, m)' <=> Fresh(c, m) /\ ~(c = at /\ m = produced)
  <2>1. m \in Nat /\ produced \in Nat /\ c \in Nat
    BY <1>1 DEF Messages, Targets
  <2> QED
    BY <1>1, <2>1 DEF Fresh, Push
<1>7. ASSUME NEW c \in Targets, NEW m \in Messages
      PROVE  Placed(c, m)' => ~Fresh(c, m)'
  BY <1>2, <1>6 DEF OnceInv, Placed
<1>8. UNCHANGED pool
  BY DEF Push
<1>9. NoneVanishes'
  BY <1>2, <1>6 DEF Push, OnceInv, NoneVanishes, Placed
<1> QED
  BY <1>5, <1>7, <1>8, <1>9 DEF OnceInv, Holds, BatchOf, pool

\* What a connection held is in the queue, in the last task only.
LEMMA FlushStaysOnce ==
  ASSUME BatchInv, OnceInv, Flush
  PROVE  OnceInv'
<1> DEFINE task == [target |-> at, batch |-> messages[at]]
           last == Len(tasks) + 1
<1>1. /\ at \in Targets /\ tasks \in Seq(Task)
      /\ messages \in [Targets -> Seq(Messages)]
  BY DEF Flush, BatchInv, TypeOK
<1>2. task \in Task
  BY <1>1, FlushedIsBatch DEF Task
<1>3. /\ Len(tasks) \in Nat
      /\ DOMAIN tasks = 1 .. Len(tasks)
      /\ DOMAIN tasks' = 1 .. last
      /\ tasks'[last] = task
      /\ \A k \in DOMAIN tasks : tasks'[k] = tasks[k]
  BY <1>1, <1>2 DEF Flush
<1>4. \A k \in DOMAIN tasks' : k \in DOMAIN tasks \/ k = last
  BY <1>3
<1>5. ASSUME NEW c \in Targets, NEW m \in Messages
      PROVE  Holds(task, c, m) <=> c = at /\ Held(c, m)
  BY <1>1 DEF Holds, BatchOf, Held
<1> HIDE DEF task, last
<1>6. ASSUME NEW c \in Targets, NEW m \in Messages
      PROVE  /\ Held(c, m)' <=> Held(c, m) /\ c # at
             /\ Queued(c, m)' <=> Queued(c, m) \/ (Held(c, m) /\ c = at)
             /\ Posting(c, m)' <=> Posting(c, m)
             /\ Done(c, m)' <=> Done(c, m)
  <2>1. Held(c, m)' <=> Held(c, m) /\ c # at
    BY <1>1 DEF Flush, Cleared, Held
  <2>2. /\ Queued(c, m)' <=> \E k \in DOMAIN tasks' : Holds(tasks'[k], c, m)
        /\ Queued(c, m) <=> \E k \in DOMAIN tasks : Holds(tasks[k], c, m)
    BY DEF Queued, Holds, BatchOf
  <2>3. last \in DOMAIN tasks' /\ DOMAIN tasks \subseteq DOMAIN tasks'
    BY <1>3 DEF last
  <2>4. Queued(c, m)' <=> Queued(c, m) \/ Holds(task, c, m)
    BY <1>3, <1>4, <2>2, <2>3
  <2> QED
    BY <1>5, <2>1, <2>4 DEF Flush, Posting, Done, BatchOf, outcome
<1>7. SentOnce'
  BY <1>6 DEF OnceInv, SentOnce
<1>8. ASSUME NEW c \in Targets, NEW m \in Messages
      PROVE  /\ Placed(c, m)' => ~Fresh(c, m)'
             /\ Fresh(c, m)' \/ Placed(c, m)'
  <2>1. Fresh(c, m)' <=> Fresh(c, m)
    <3>1. c \in Nat /\ at \in Nat
      BY <1>1 DEF Targets
    <3> QED
      BY <3>1 DEF Flush, Fresh
  <2>2. Fresh(c, m) \/ Placed(c, m)
    BY DEF Flush, OnceInv, NoneVanishes
  <2> QED
    BY <1>6, <2>1, <2>2 DEF OnceInv, Placed
<1>9. ASSUME NEW c \in Targets, NEW m \in Messages,
             NEW k \in DOMAIN tasks', NEW l \in DOMAIN tasks',
             Holds(tasks'[k], c, m), Holds(tasks'[l], c, m)
      PROVE  k = l
  <2>1. Held(c, m) => \A j \in DOMAIN tasks : ~Holds(tasks[j], c, m)
    BY DEF OnceInv, SentOnce, Queued, Holds
  <2>2. \A i, j \in DOMAIN tasks :
          Holds(tasks[i], c, m) /\ Holds(tasks[j], c, m) => i = j
    BY DEF OnceInv
  <2> QED
    BY <1>3, <1>4, <1>5, <1>9, <2>1, <2>2
<1>10. running' = running
  BY DEF Flush
<1> QED
  BY <1>7, <1>8, <1>9, <1>10 DEF OnceInv, NoneVanishes, Holds, BatchOf

\* The first task of the queue moves to a thread that had none.
LEMMA TakeStaysOnce ==
  ASSUME BatchInv, OnceInv, NEW t \in Threads, Take(t)
  PROVE  OnceInv'
<1>1. /\ tasks \in Seq(Task) /\ tasks # <<>>
      /\ running \in [Threads -> Task \cup {NoTask}]
      /\ running[t] = NoTask
  BY DEF Take, BatchInv, TypeOK
<1>2. /\ running'[t] = tasks[1]
      /\ \A u \in Threads : u # t => running'[u] = running[u]
      /\ 1 \in DOMAIN tasks
      /\ \A k \in DOMAIN tasks' : /\ k + 1 \in DOMAIN tasks
                                  /\ k \in Nat \ {0}
                                  /\ tasks'[k] = tasks[k + 1]
      /\ \A k \in DOMAIN tasks : k # 1 => /\ k - 1 \in DOMAIN tasks'
                                          /\ tasks'[k - 1] = tasks[k]
  BY <1>1 DEF Take
<1>3. UNCHANGED <<caller, messages, outcome>>
  BY DEF Take
<1>4. ASSUME NEW c \in Targets, NEW m \in Messages
      PROVE  /\ Held(c, m)' <=> Held(c, m)
             /\ Queued(c, m)' <=> Queued(c, m) /\ ~Holds(tasks[1], c, m)
             /\ Posting(c, m)' <=> Posting(c, m) \/ Holds(tasks[1], c, m)
             /\ Done(c, m)' <=> Done(c, m)
             /\ Holds(tasks[1], c, m) => Queued(c, m)
  <2>1. /\ Queued(c, m)' <=> \E k \in DOMAIN tasks' : Holds(tasks'[k], c, m)
        /\ Queued(c, m) <=> \E k \in DOMAIN tasks : Holds(tasks[k], c, m)
        /\ Posting(c, m)' <=> \E u \in Threads : Holds(running'[u], c, m)
        /\ Posting(c, m) <=> \E u \in Threads : Holds(running[u], c, m)
    BY DEF Queued, Posting, Holds, BatchOf
  <2>2. \A k \in DOMAIN tasks' : Holds(tasks'[k], c, m)
          => Holds(tasks[k + 1], c, m) /\ ~Holds(tasks[1], c, m)
    <3> TAKE k \in DOMAIN tasks'
    <3>1. k + 1 \in DOMAIN tasks /\ k + 1 # 1 /\ tasks'[k] = tasks[k + 1]
      BY <1>2
    <3> QED
      BY <1>2, <3>1 DEF OnceInv
  <2>3. Queued(c, m)' <=> Queued(c, m) /\ ~Holds(tasks[1], c, m)
    <3>1. Queued(c, m)' => Queued(c, m) /\ ~Holds(tasks[1], c, m)
      BY <1>2, <2>1, <2>2
    <3>2. Queued(c, m) /\ ~Holds(tasks[1], c, m) => Queued(c, m)'
      BY <1>2, <2>1
    <3> QED
      BY <3>1, <3>2
  <2>4. ~Holds(running[t], c, m)
    BY <1>1, NoTaskHoldsNothing
  <2>5. Posting(c, m)' <=> Posting(c, m) \/ Holds(tasks[1], c, m)
    BY <1>2, <2>1, <2>4
  <2>6. Holds(tasks[1], c, m) => Queued(c, m)
    BY <1>2, <2>1
  <2> QED
    BY <1>3, <2>3, <2>5, <2>6 DEF Held, Done, outcome
<1>5. SentOnce'
  BY <1>4 DEF OnceInv, SentOnce
<1>6. ASSUME NEW c \in Targets, NEW m \in Messages
      PROVE  /\ Placed(c, m)' <=> Placed(c, m)
             /\ Placed(c, m)' => ~Fresh(c, m)'
             /\ Fresh(c, m)' <=> Fresh(c, m)
  BY <1>3, <1>4 DEF OnceInv, Placed, Fresh, caller
<1>9. NoneVanishes'
  BY <1>3, <1>6 DEF OnceInv, NoneVanishes, caller
<1>7. ASSUME NEW c \in Targets, NEW m \in Messages,
             NEW k \in DOMAIN tasks', NEW l \in DOMAIN tasks',
             Holds(tasks'[k], c, m), Holds(tasks'[l], c, m)
      PROVE  k = l
  <2>1. /\ k \in Nat /\ k + 1 \in DOMAIN tasks /\ Holds(tasks[k + 1], c, m)
        /\ l \in Nat /\ l + 1 \in DOMAIN tasks /\ Holds(tasks[l + 1], c, m)
    BY <1>2, <1>7
  <2>2. k + 1 = l + 1
    BY <2>1 DEF OnceInv
  <2> QED
    BY <2>1, <2>2
<1>8. ASSUME NEW c \in Targets, NEW m \in Messages,
             NEW u \in Threads, NEW v \in Threads,
             Holds(running'[u], c, m), Holds(running'[v], c, m)
      PROVE  u = v
  <2>1. Holds(tasks[1], c, m) => \A w \in Threads : ~Holds(running[w], c, m)
    BY <1>4 DEF OnceInv, SentOnce, Posting, Holds
  <2>2. Holds(running[u], c, m) /\ Holds(running[v], c, m) => u = v
    BY DEF OnceInv
  <2> QED
    BY <1>2, <1>8, <2>1, <2>2
<1> QED
  BY <1>5, <1>6, <1>7, <1>8, <1>9 DEF OnceInv, Holds, BatchOf

\* A POST moves the batch of one thread to what is done.
LEMMA PostedStaysOnce ==
  ASSUME BatchInv, OnceInv, NEW t \in Threads, Posted(t)
  PROVE  OnceInv'
<1>1. /\ running \in [Threads -> Task \cup {NoTask}]
      /\ running[t] \in Task
      /\ delivered \in [Targets -> SUBSET Messages]
      /\ lost \in [Targets -> SUBSET Messages]
  BY DEF Posted, BatchInv, TypeOK
<1>2. /\ running'[t] = NoTask
      /\ \A u \in Threads : u # t => running'[u] = running[u]
  BY <1>1 DEF Posted
<1>3. UNCHANGED <<caller, messages, tasks>>
  BY DEF Posted
<1>4. ASSUME NEW c \in Targets, NEW m \in Messages
      PROVE  /\ Held(c, m)' <=> Held(c, m)
             /\ Queued(c, m)' <=> Queued(c, m)
             /\ Posting(c, m)' <=> Posting(c, m) /\ ~Holds(running[t], c, m)
             /\ Done(c, m)' <=> Done(c, m) \/ Holds(running[t], c, m)
             /\ Holds(running[t], c, m) => Posting(c, m)
  <2>1. /\ Posting(c, m)' <=> \E u \in Threads : Holds(running'[u], c, m)
        /\ Posting(c, m) <=> \E u \in Threads : Holds(running[u], c, m)
    BY DEF Posting, Holds, BatchOf
  <2>2. ~Holds(running'[t], c, m)
    BY <1>2, NoTaskHoldsNothing
  <2>3. Posting(c, m)' <=> Posting(c, m) /\ ~Holds(running[t], c, m)
    BY <1>2, <2>1, <2>2 DEF OnceInv
  <2>4. Done(c, m)' <=> Done(c, m) \/ Holds(running[t], c, m)
    BY <1>1 DEF Posted, Done, Holds, Task
  <2>5. Holds(running[t], c, m) => Posting(c, m)
    BY <2>1
  <2> QED
    BY <1>3, <2>3, <2>4, <2>5 DEF Held, Queued, BatchOf
<1>5. SentOnce'
  BY <1>4 DEF OnceInv, SentOnce
<1>6. ASSUME NEW c \in Targets, NEW m \in Messages
      PROVE  /\ Placed(c, m)' <=> Placed(c, m)
             /\ Placed(c, m)' => ~Fresh(c, m)'
             /\ Fresh(c, m)' <=> Fresh(c, m)
  BY <1>3, <1>4 DEF OnceInv, Placed, Fresh, caller
<1>8. NoneVanishes'
  BY <1>3, <1>6 DEF OnceInv, NoneVanishes, caller
<1>7. ASSUME NEW c \in Targets, NEW m \in Messages,
             NEW u \in Threads, NEW v \in Threads,
             Holds(running'[u], c, m), Holds(running'[v], c, m)
      PROVE  u = v
  BY <1>2, <1>7, NoTaskHoldsNothing DEF OnceInv
<1> QED
  BY <1>3, <1>5, <1>6, <1>7, <1>8 DEF OnceInv, Holds, BatchOf

\* The threads are gone, and with them what they posted.
LEMMA KillStaysOnce ==
  ASSUME BatchInv, OnceInv, Kill
  PROVE  OnceInv'
<1>1. \A t \in Threads : running'[t] = NoTask
  BY DEF Kill
<1>2. UNCHANGED <<produced, messages, tasks, outcome>> /\ pc' = "killed"
  BY DEF Kill
<1>3. ASSUME NEW c \in Targets, NEW m \in Messages
      PROVE  /\ Held(c, m)' <=> Held(c, m)
             /\ Queued(c, m)' <=> Queued(c, m)
             /\ ~Posting(c, m)'
             /\ Done(c, m)' <=> Done(c, m)
  <2>1. Posting(c, m)' <=> \E t \in Threads : Holds(running'[t], c, m)
    BY DEF Posting, Holds, BatchOf
  <2>2. ~Posting(c, m)'
    BY <1>1, <2>1, NoTaskHoldsNothing
  <2> QED
    BY <1>2, <2>2 DEF Held, Queued, Done, BatchOf, outcome
<1>4. SentOnce'
  BY <1>3 DEF OnceInv, SentOnce
<1>5. ASSUME NEW c \in Targets, NEW m \in Messages
      PROVE  Placed(c, m)' => ~Fresh(c, m)'
  BY <1>2, <1>3 DEF OnceInv, Placed, Fresh
<1>6. ASSUME NEW c \in Targets, NEW m \in Messages,
             NEW k \in DOMAIN tasks', NEW l \in DOMAIN tasks',
             Holds(tasks'[k], c, m), Holds(tasks'[l], c, m)
      PROVE  k = l
  BY <1>2, <1>6 DEF OnceInv
<1>7. ASSUME NEW c \in Targets, NEW m \in Messages, NEW t \in Threads
      PROVE  ~Holds(running'[t], c, m)
  BY <1>1, NoTaskHoldsNothing
<1>8. NoneVanishes'
  BY <1>2 DEF NoneVanishes
<1> QED
  BY <1>4, <1>5, <1>6, <1>7, <1>8 DEF OnceInv

LEMMA OnceStep == BatchInv /\ OnceInv /\ [Next]_vars => OnceInv'
<1> SUFFICES ASSUME BatchInv, OnceInv, [Next]_vars PROVE OnceInv'
  OBVIOUS
<1>1. CASE Walks
  BY <1>1, WalksStayOnce
<1>2. CASE Push
  BY <1>2, PushStaysOnce
<1>3. CASE Flush
  BY <1>3, FlushStaysOnce
<1>4. CASE \E t \in Threads : Worker(t)
  BY <1>4, TakeStaysOnce, PostedStaysOnce DEF Worker
<1>5. CASE Kill
  BY <1>5, KillStaysOnce
<1>6. CASE UNCHANGED vars
  <2>1. UNCHANGED <<messages, pool, outcome>>
    BY <1>6 DEF vars
  <2>2. /\ \A c \in Targets : \A m \in Messages : Fresh(c, m)' <=> Fresh(c, m)
        /\ pc' = pc
    BY <1>6 DEF vars, caller, Fresh
  <2> QED
    BY <2>1, <2>2, UnmovedStaysOnce
<1> QED
  BY <1>1, <1>2, <1>3, <1>4, <1>5, <1>6 DEF Next, Step, Walks

LEMMA OnceInit == Init => OnceInv
<1> SUFFICES ASSUME Init PROVE OnceInv
  OBVIOUS
<1>1. \A c \in Targets : \A m \in Messages : ~Placed(c, m) /\ Fresh(c, m)
  BY DEF Init, Placed, Held, Queued, Posting, Done, BatchOf, NoTask, Fresh,
         Messages
<1>2. \A c, m : \A t \in Threads : ~Holds(running[t], c, m)
  BY NoTaskHoldsNothing DEF Init
<1>3. DOMAIN tasks = {}
  BY DEF Init
<1> QED
  BY <1>1, <1>2, <1>3 DEF OnceInv, NoneVanishes, SentOnce, Placed

\* No message is in two places, so that none is posted twice to a target.
THEOREM NothingIsSentTwice == Spec => []SentOnce
<1>1. OnceInv => SentOnce
  BY DEF OnceInv
<1> QED
  BY <1>1, BatchInit, BatchStep, OnceInit, OnceStep, PTL DEF Spec

-----------------------------------------------------------------------------
(***************************************************************************)
(* The destructor                                                          *)
(***************************************************************************)

\* Once the pool has waited for its tasks, none is left; once it has joined
\* its threads, none runs.
Drained ==
  /\ pc \in {"joining", "closed"} => tasks = <<>>
  /\ pc = "closed" => \A t \in Threads : running[t] = NoTask

\* tasks_total is 0 only when neither the queue nor a thread has a task.
LEMMA ZeroIsEmpty ==
  ASSUME BatchInv, pc # "killed", total = 0
  PROVE  tasks = <<>>
<1>1. tasks \in Seq(Task) /\ Len(tasks) \in Nat
  BY DEF BatchInv, TypeOK
<1>2. Len(tasks) = 0
  BY <1>1, BusyIsFinite DEF BatchInv, Counted
<1> QED
  BY <1>1, <1>2

LEMMA DrainedStep == BatchInv /\ Drained /\ [Next]_vars => Drained'
<1> SUFFICES ASSUME BatchInv, Drained, [Next]_vars PROVE Drained'
  OBVIOUS
<1>1. CASE WaitForTasks
  BY <1>1, ZeroIsEmpty DEF WaitForTasks, PoolIsDone, Drained, pool
<1>2. CASE Destroyed
  BY <1>2 DEF Destroyed, Drained, pool
<1>3. CASE \E t \in Threads : Worker(t)
  BY <1>3 DEF Worker, Take, Posted, Alive, Drained, caller
<1>4. CASE \/ OpenUndeliveredLog \/ Produce \/ Poll \/ Destroy \/ Kill
           \/ Push \/ PollTarget \/ Returns \/ Flush \/ FlushThrows
  BY <1>4 DEF OpenUndeliveredLog, Produce, Poll, Destroy, Kill, Push,
              PollTarget, Returns, Flush, FlushThrows, Drained
<1>5. CASE UNCHANGED vars
  BY <1>5 DEF vars, caller, pool, Drained
<1> QED
  BY <1>1, <1>2, <1>3, <1>4, <1>5 DEF Next, Step

\* When the connections go, no thread uses them, and each message that was
\* produced has been posted or is still with its connection, whatever the
\* number of threads, the size of a batch and the messages that do not parse.
THEOREM PoolIsDrained == Spec => []ClosedIsDrained
<1>1. BatchInv /\ OnceInv /\ Drained => ClosedIsDrained
  <2> SUFFICES ASSUME BatchInv, OnceInv, Drained, pc = "closed",
                      NEW c \in Targets, NEW m \in 1 .. produced
               PROVE  /\ \A t \in Threads : running[t] = NoTask
                      /\ Held(c, m) \/ Done(c, m)
    BY DEF ClosedIsDrained, Drained
  <2>1. m \in Messages /\ ~Fresh(c, m)
    BY ConstantsAssumption DEF BatchInv, TypeOK, Messages, Fresh
  <2>2. Placed(c, m)
    BY <2>1 DEF OnceInv, NoneVanishes
  <2>3. tasks = <<>> /\ \A t \in Threads : running[t] = NoTask
    BY DEF Drained
  <2>4. ~Queued(c, m)
    BY <2>3 DEF Queued
  <2>5. ~Posting(c, m)
    BY <2>3, NoTaskHoldsNothing DEF Posting, Holds
  <2> QED
    BY <2>2, <2>3, <2>4, <2>5 DEF Placed
<1>2. Init => Drained
  BY DEF Init, Drained
<1> QED
  BY <1>1, <1>2, BatchInit, BatchStep, OnceInit, OnceStep, DrainedStep, PTL
     DEF Spec

=============================================================================
