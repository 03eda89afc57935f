----------------------------- MODULE HttpProducer -----------------------------
(***************************************************************************)
(* HttpProducer: produce() and poll() collect messages per target, flush() *)
(* turns what a target has collected into a batch and gives it to a pool   *)
(* of threads, and a thread of the pool posts it.                          *)
(*                                                                         *)
(* The caller is one thread; the threads of the pool share with it only    *)
(* the queue of tasks and the number of those that are not finished.  The  *)
(* answer to a POST is ignored, and nothing is ever written to the         *)
(* undelivered log.  Destroying the producer flushes nothing: it waits for *)
(* the pool.                                                               *)
(*                                                                         *)
(* A message is its place in the sequence of calls of produce().  flush()  *)
(* throws when one of them is not JSON; what a watch produces always is,   *)
(* because filterLogLine dumps it.  HTTP is external: a POST succeeds or   *)
(* fails, and returns either way.                                          *)
(***************************************************************************)
EXTENDS Naturals, Sequences, FiniteSets

CONSTANTS
  NumTargets,   \* URLs in the list of brokers
  MaxMessages,  \* bound: calls of produce()
  BatchSize,    \* batch.num.messages
  Unparsable,   \* the messages that json::parse refuses
  Threads       \* threads of the pool (20 in the code)

ASSUME ConstantsAssumption ==
  /\ NumTargets \in Nat
  /\ MaxMessages \in Nat
  /\ BatchSize \in Nat \ {0}
  /\ Unparsable \subseteq 1 .. MaxMessages
  /\ IsFiniteSet(Threads)

Targets  == 1 .. NumTargets
Messages == 1 .. MaxMessages
Batch    == {b \in Seq(Messages) : Len(b) \in 1 .. BatchSize}
Task     == [target : Targets, batch : Batch]
NoTask   == [target |-> 0, batch |-> <<>>]

VARIABLES
  pc,         \* what the calling thread does in the producer
  at,         \* the connection its loop is at
  produced,   \* calls of produce() so far
  messages,   \* connection.messages of each target
  tasks,      \* the queue of the pool
  total,      \* tasks_total: tasks that were pushed and have not returned
  running,    \* running[t]: what thread t of the pool is doing
  delivered,  \* delivered[c]: messages of successful POSTs to target c
  lost        \* lost[c]: messages of failed ones

caller  == <<pc, at, produced>>
pool    == <<tasks, total, running>>
outcome == <<delivered, lost>>
vars    == <<caller, messages, pool, outcome>>

Labels == {"constructed", "idle", "produce", "poll", "flushProduce",
           "flushPoll", "destroying", "joining", "closed", "killed"}

Alive == pc \notin {"closed", "killed"}

-----------------------------------------------------------------------------
(***************************************************************************)
(* The calling thread                                                      *)
(***************************************************************************)

Init ==
  /\ pc = "constructed"
  /\ at = 1
  /\ produced = 0
  /\ messages = [c \in Targets |-> <<>>]
  /\ tasks = <<>>
  /\ total = 0
  /\ running = [t \in Threads |-> NoTask]
  /\ delivered = [c \in Targets |-> {}]
  /\ lost = [c \in Targets |-> {}]

\* The file is created and never written to; when that fails, the process
\* leaves.
OpenUndeliveredLog ==
  /\ pc = "constructed"
  /\ pc' \in {"idle", "destroying"}
  /\ UNCHANGED <<at, produced, messages, pool, outcome>>

Produce ==
  /\ pc = "idle"
  /\ produced < MaxMessages
  /\ produced' = produced + 1
  /\ at' = 1
  /\ pc' = "produce"
  /\ UNCHANGED <<messages, pool, outcome>>

\* Mutation: the size is compared before the message is added.
IsFull_OffByOne(c) == Len(messages[c]) = BatchSize

\* connection.messages.size() == connection.batch_size, with the message.
IsFull(c) == Len(messages[c]) + 1 = BatchSize

\* The message is added to one connection; a full batch is flushed.
Push ==
  /\ pc = "produce"
  /\ at <= NumTargets
  /\ messages' = [messages EXCEPT ![at] = Append(@, produced)]
  /\ IF IsFull(at) THEN pc' = "flushProduce" /\ UNCHANGED at
                   ELSE at' = at + 1 /\ UNCHANGED pc
  /\ UNCHANGED <<produced, pool, outcome>>

Poll ==
  /\ pc = "idle"
  /\ at' = 1
  /\ pc' = "poll"
  /\ UNCHANGED <<produced, messages, pool, outcome>>

\* Mutation: poll sends full batches only.
HasMessages_Full(c) == Len(messages[c]) = BatchSize

\* connection.messages.size() > 0
HasMessages(c) == messages[c] # <<>>

PollTarget ==
  /\ pc = "poll"
  /\ at <= NumTargets
  /\ IF HasMessages(at) THEN pc' = "flushPoll" /\ UNCHANGED at
                        ELSE at' = at + 1 /\ UNCHANGED pc
  /\ UNCHANGED <<produced, messages, pool, outcome>>

\* produce() or poll() has looked at every connection.
Returns ==
  /\ pc \in {"produce", "poll"}
  /\ at > NumTargets
  /\ pc' = "idle"
  /\ UNCHANGED <<at, produced, messages, pool, outcome>>

\* Mutation: the batch stays with the connection.
Cleared_Kept(c) == messages

\* connection->messages.clear()
Cleared(c) == [messages EXCEPT ![c] = <<>>]

\* json::parse accepts each message of the connection.
Parses(c) == \A k \in DOMAIN messages[c] : messages[c][k] \notin Unparsable

\* flush( &connection ): no thread of the pool looks at the messages, so the
\* batch is parsed, cleared, counted and pushed in one step.
Flush ==
  /\ pc \in {"flushProduce", "flushPoll"}
  /\ Parses(at)
  /\ tasks' = Append(tasks, [target |-> at, batch |-> messages[at]])
  /\ total' = total + 1
  /\ messages' = Cleared(at)
  /\ at' = at + 1
  /\ pc' = IF pc = "flushPoll" THEN "poll" ELSE "produce"
  /\ UNCHANGED <<produced, running, outcome>>

\* json::parse throws before the messages are cleared.  produce() catches
\* that and goes on; poll() does not, and the watch leaves its main loop.
FlushThrows ==
  /\ pc \in {"flushProduce", "flushPoll"}
  /\ ~Parses(at)
  /\ IF pc = "flushProduce" THEN at' = at + 1 /\ pc' = "produce"
                            ELSE pc' = "destroying" /\ UNCHANGED at
  /\ UNCHANGED <<produced, messages, pool, outcome>>

\* ~HttpProducer closes the log ...
Destroy ==
  /\ pc = "idle"
  /\ pc' = "destroying"
  /\ UNCHANGED <<at, produced, messages, pool, outcome>>

\* Mutation: the tasks in the queue are not waited for (what the pool does
\* while it is paused).
PoolIsDone_Running == total = Len(tasks)

\* tasks_total == 0
PoolIsDone == total = 0

\* ... and its members go, the last one first: the pool waits for its tasks,
WaitForTasks ==
  /\ pc = "destroying"
  /\ PoolIsDone
  /\ pc' = "joining"
  /\ UNCHANGED <<at, produced, messages, pool, outcome>>

\* then for its threads, which leave between two tasks; then come the
\* connections with whatever messages they still hold.
Destroyed ==
  /\ pc = "joining"
  /\ \A t \in Threads : running[t] = NoTask
  /\ pc' = "closed"
  /\ UNCHANGED <<at, produced, messages, pool, outcome>>

\* SIGKILL or a crash: the threads are gone with the process.
Kill ==
  /\ Alive
  /\ pc' = "killed"
  /\ running' = [t \in Threads |-> NoTask]
  /\ UNCHANGED <<at, produced, messages, tasks, total, outcome>>

-----------------------------------------------------------------------------
(***************************************************************************)
(* The threads of the pool                                                 *)
(***************************************************************************)

\* thread_pool::worker takes the oldest task.
Take(t) ==
  /\ Alive
  /\ running[t] = NoTask
  /\ tasks # <<>>
  /\ running' = [running EXCEPT ![t] = Head(tasks)]
  /\ tasks' = Tail(tasks)
  /\ UNCHANGED <<caller, messages, total, outcome>>

BatchOf(task) == {task.batch[k] : k \in DOMAIN task.batch}

\* Post() returns, nobody looks at its result, and the task is counted.
Posted(t) ==
  /\ running[t] # NoTask
  /\ LET c == running[t].target
         batch == BatchOf(running[t])
     IN \/ delivered' = [delivered EXCEPT ![c] = @ \cup batch]
           /\ UNCHANGED lost
        \/ lost' = [lost EXCEPT ![c] = @ \cup batch]
           /\ UNCHANGED delivered
  /\ running' = [running EXCEPT ![t] = NoTask]
  /\ total' = total - 1
  /\ UNCHANGED <<caller, messages, tasks>>

Step == \/ Push \/ PollTarget \/ Returns \/ Flush \/ FlushThrows
        \/ WaitForTasks \/ Destroyed

Worker(t) == Take(t) \/ Posted(t)

Next == \/ OpenUndeliveredLog \/ Produce \/ Poll \/ Destroy \/ Kill
        \/ Step
        \/ \E t \in Threads : Worker(t)

Spec == Init /\ [][Next]_vars

\* A called method keeps executing, every thread of the pool runs, and a
\* POST returns.  Nobody promises to call one: a watch polls an HttpProducer
\* only when no event came for a second, or when it leaves.
FairSpec ==
  /\ Spec
  /\ WF_vars(Step)
  /\ \A t \in Threads : WF_vars(Worker(t))

-----------------------------------------------------------------------------
(***************************************************************************)
(* Properties                                                              *)
(***************************************************************************)

\* Every variable keeps its type; in particular no batch in the queue is
\* empty or larger than batch.num.messages.
TypeOK ==
  /\ pc \in Labels
  /\ at \in 1 .. (NumTargets + 1)
  /\ pc \in {"flushProduce", "flushPoll"} => at \in Targets
  /\ produced \in 0 .. MaxMessages
  /\ messages \in [Targets -> Seq(Messages)]
  /\ tasks \in Seq(Task)
  /\ total \in Nat
  /\ running \in [Threads -> Task \cup {NoTask}]
  /\ delivered \in [Targets -> SUBSET Messages]
  /\ lost \in [Targets -> SUBSET Messages]

\* A connection whose messages parse is full only while it is being flushed: a
\* message that made it larger than a batch would never be flushed by produce()
\* again, because the sizes are compared for equality.  (That is what happens
\* to a connection which got a message that does not parse.)
BelowBatchSize ==
  \A c \in Targets : Parses(c) =>
    /\ Len(messages[c]) <= BatchSize
    /\ Len(messages[c]) = BatchSize => /\ pc \in {"flushProduce", "killed"}
                                       /\ at = c

\* Where message m of target c is.
Held(c, m)    == \E k \in DOMAIN messages[c] : messages[c][k] = m
Queued(c, m)  == \E k \in DOMAIN tasks :
                   tasks[k].target = c /\ m \in BatchOf(tasks[k])
Posting(c, m) == \E t \in Threads :
                   running[t].target = c /\ m \in BatchOf(running[t])
Done(c, m)    == m \in delivered[c] \cup lost[c]

\* No message is posted twice to a target: at any time it is in one place
\* only, with the connection, in the queue, with one thread, or done.
SentOnce ==
  \A c \in Targets : \A m \in Messages :
    /\ Held(c, m) => ~Queued(c, m) /\ ~Posting(c, m) /\ ~Done(c, m)
    /\ Queued(c, m) => ~Posting(c, m) /\ ~Done(c, m)
    /\ Posting(c, m) => ~Done(c, m)

\* When the connections are destroyed no thread uses them any more, and each
\* message was posted, or is one that its connection still holds.
ClosedIsDrained ==
  pc = "closed" =>
    /\ \A t \in Threads : running[t] = NoTask
    /\ \A c \in Targets : \A m \in 1 .. produced : Held(c, m) \/ Done(c, m)

\* As long as each message parses, a message is posted to every target once
\* it is followed by as many as make a batch with it, or once poll() is called,
\* also when the producer is destroyed thereafter.
EveryMessageIsPosted ==
  \A c \in Targets : \A m \in Messages :
    (/\ Unparsable \cap (1 .. produced) = {}
     /\ \/ produced >= m + BatchSize - 1
        \/ produced >= m /\ pc = "poll" /\ at = 1)
      ~> (Done(c, m) \/ pc = "killed")

=============================================================================
