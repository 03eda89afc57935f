---------------------------- MODULE KafkaProducer ----------------------------
(***************************************************************************)
(* KafkaProducer: produce() with its retry loop on a full queue, poll(),   *)
(* the delivery report callback, openUndeliveredLog() and the destructor   *)
(* with its bounded flush.                                                 *)
(*                                                                         *)
(* librdkafka is external and modelled by what this code relies on: a      *)
(* queued message is acknowledged or fails, at the latest when it is       *)
(* MessageTimeout old; it stays in the queue until its report has been     *)
(* served; reports are served only inside poll and flush, on the caller's  *)
(* thread.  Time advances in units of one Tick; the callback takes none.   *)
(***************************************************************************)
EXTENDS Naturals, FiniteSets

CONSTANTS
  Messages,        \* the messages the caller may produce
  NoMessage,       \* stands for: no produce() is under way
  QueueLimit,      \* queue.buffering.max.messages
  MessageTimeout,  \* message.timeout.ms
  FlushWait,       \* the deadline of rd_kafka_flush in the destructor
  OpensLog,        \* does the caller open the undelivered log? (adopt does not)
  WritesSucceed    \* does every write to that log store all it is given?

ASSUME ConstantsAssumption ==
  /\ NoMessage \notin Messages
  /\ QueueLimit \in Nat \ {0}
  /\ MessageTimeout \in Nat
  /\ FlushWait \in Nat
  /\ OpensLog \in BOOLEAN
  /\ WritesSucceed \in BOOLEAN

VARIABLES
  pc,          \* what the calling thread does in the producer
  message,     \* the argument of the produce() that has not returned
  fate,        \* fate[m]: where message m is
  age,         \* age[m]: time since m was queued
  logFd,       \* undelivered_log_fd_static: "open", or "none" for -1
  elapsed      \* time since the flush began

vars == <<pc, message, fate, age, logFd, elapsed>>

Labels == {"constructed", "idle", "producing", "full", "polling",
           "flushing", "closed", "killed"}

\* A message is new, in the queue, acknowledged or failed with its report
\* still to be served, or reported: delivered, written to the undelivered
\* log, or neither.  A rejected one never was in the queue.
Fates == {"new", "queued", "acked", "failed", "delivered", "recorded",
          "unrecorded", "rejected"}

With(f) == {m \in Messages : fate[m] = f}

Reports == With("acked") \cup With("failed")   \* completed, not yet served
Outq    == With("queued") \cup Reports         \* rd_kafka_outq_len

Alive == pc \notin {"closed", "killed"}

\* Where the calling thread serves reports: poll(), the poll( 1000 ) of a
\* full queue, and rd_kafka_flush.
Serving == pc \in {"polling", "full", "flushing"}

-----------------------------------------------------------------------------
Init ==
  /\ pc = "constructed"
  /\ message = NoMessage
  /\ fate = [m \in Messages |-> "new"]
  /\ age = [m \in Messages |-> 0]
  /\ logFd = "none"
  /\ elapsed = 0

\* Watch::runNow opens the log before the first message; LogPort::adopt
\* produces without it.
OpenUndeliveredLog ==
  /\ pc = "constructed"
  /\ pc' = "idle"
  /\ logFd' = IF OpensLog THEN "open" ELSE "none"
  /\ UNCHANGED <<message, fate, age, elapsed>>

\* The file cannot be opened: the handle is destroyed before the exception
\* leaves, and the destructor flushes the destroyed handle.  Whether that
\* returns is undefined.
OpenFails ==
  /\ pc = "constructed"
  /\ OpensLog
  /\ pc' \in {"closed", "killed"}
  /\ UNCHANGED <<message, fate, age, logFd, elapsed>>

Produce(m) ==
  /\ pc = "idle"
  /\ fate[m] = "new"
  /\ message' = m
  /\ pc' = "producing"
  /\ UNCHANGED <<fate, age, logFd, elapsed>>

\* rd_kafka_produce accepts the message.
Enqueue ==
  /\ pc = "producing"
  /\ Cardinality(Outq) < QueueLimit
  /\ fate' = [fate EXCEPT ![message] = "queued"]
  /\ age' = [age EXCEPT ![message] = 0]
  /\ message' = NoMessage
  /\ pc' = "idle"
  /\ UNCHANGED <<logFd, elapsed>>

\* RD_KAFKA_RESP_ERR__QUEUE_FULL: poll( 1000 ) ...
QueueFull ==
  /\ pc = "producing"
  /\ Cardinality(Outq) >= QueueLimit
  /\ pc' = "full"
  /\ UNCHANGED <<message, fate, age, logFd, elapsed>>

\* Mutation: the full queue is tried again without a poll.
Retry_WithoutPoll ==
  /\ pc = "full"
  /\ pc' = "producing"
  /\ UNCHANGED <<message, fate, age, logFd, elapsed>>

\* ... serves what has been reported, and goto retry.
Retry ==
  /\ pc = "full"
  /\ Reports = {}
  /\ pc' = "producing"
  /\ UNCHANGED <<message, fate, age, logFd, elapsed>>

\* Any other error (too large, unknown topic): a log entry, and produce
\* returns as if the message had been queued.
Reject ==
  /\ pc = "producing"
  /\ fate' = [fate EXCEPT ![message] = "rejected"]
  /\ message' = NoMessage
  /\ pc' = "idle"
  /\ UNCHANGED <<age, logFd, elapsed>>

Poll ==
  /\ pc = "idle"
  /\ pc' = "polling"
  /\ UNCHANGED <<message, fate, age, logFd, elapsed>>

PollReturns ==
  /\ pc = "polling"
  /\ Reports = {}
  /\ pc' = "idle"
  /\ UNCHANGED <<message, fate, age, logFd, elapsed>>

\* Mutation: a failed message is written only while the producer is polled.
Recorded_NotInFlush == IF logFd = "open" /\ pc # "flushing"
                         THEN {"recorded"} ELSE {"unrecorded"}

\* The payload and a newline go to the undelivered log, if there is one; that
\* a write fails, or stores a part only, is logged and otherwise ignored.
Recorded == IF logFd # "open" THEN {"unrecorded"}
            ELSE {"recorded"} \cup (IF WritesSucceed THEN {} ELSE {"unrecorded"})

\* delivery_report_message_callback, once per message.
DeliveryReport(m) ==
  /\ Serving
  /\ m \in Reports
  /\ \E f \in IF fate[m] = "acked" THEN {"delivered"} ELSE Recorded :
       fate' = [fate EXCEPT ![m] = f]
  /\ UNCHANGED <<pc, message, age, logFd, elapsed>>

\* ~KafkaProducer: rd_kafka_flush( rk, 6 * 1000 ) ...
Destroy ==
  /\ pc = "idle"
  /\ pc' = "flushing"
  /\ elapsed' = 0
  /\ UNCHANGED <<message, fate, age, logFd>>

\* Mutation: the flush does not wait.
FlushReturns_AtOnce ==
  /\ pc = "flushing"
  /\ pc' = "closed"
  /\ logFd' = "none"
  /\ UNCHANGED <<message, fate, age, elapsed>>

\* ... returns when the queue is empty or the time is up, and the log is
\* closed.
FlushReturns ==
  /\ pc = "flushing"
  /\ Outq = {} \/ elapsed = FlushWait
  /\ pc' = "closed"
  /\ logFd' = "none"
  /\ UNCHANGED <<message, fate, age, elapsed>>

-----------------------------------------------------------------------------
(***************************************************************************)
(* librdkafka, its brokers, and time                                       *)
(***************************************************************************)

Acknowledge(m) ==
  /\ Alive
  /\ fate[m] = "queued"
  /\ fate' = [fate EXCEPT ![m] = "acked"]
  /\ UNCHANGED <<pc, message, age, logFd, elapsed>>

\* message.timeout.ms, or message.send.max.retries before it.
Fail(m) ==
  /\ Alive
  /\ fate[m] = "queued"
  /\ fate' = [fate EXCEPT ![m] = "failed"]
  /\ UNCHANGED <<pc, message, age, logFd, elapsed>>

\* Time passes, but not past the deadline of a queued message or of the
\* flush, nor while a poll or flush has reports to serve.
Tick ==
  /\ Alive
  /\ \A m \in With("queued") : age[m] < MessageTimeout
  /\ Serving => Reports = {}
  /\ pc = "flushing" => elapsed < FlushWait
  /\ age' = [m \in Messages |->
               IF fate[m] = "queued" THEN age[m] + 1 ELSE age[m]]
  /\ elapsed' = IF pc = "flushing" THEN elapsed + 1 ELSE elapsed
  /\ \/ With("queued") # {}
     \/ pc = "flushing"
  /\ UNCHANGED <<pc, message, fate, logFd>>

\* SIGKILL, after Watch::stop lost its patience, or a crash.
Kill ==
  /\ Alive
  /\ pc' = "killed"
  /\ UNCHANGED <<message, fate, age, logFd, elapsed>>

Caller == \/ OpenUndeliveredLog \/ OpenFails
          \/ \E m \in Messages : Produce(m)
          \/ Poll
          \/ Destroy

Step == \/ Enqueue \/ QueueFull \/ Retry \/ Reject \/ PollReturns
        \/ \E m \in Messages : DeliveryReport(m)
        \/ FlushReturns

Librdkafka == \/ \E m \in Messages : Acknowledge(m) \/ Fail(m)
              \/ Tick

Next == Caller \/ Step \/ Librdkafka \/ Kill

Spec == Init /\ [][Next]_vars

\* A called method keeps executing, time passes, and a message whose time
\* is up fails.  The brokers need not answer, and nobody needs to call.
TimesOut(m) == age[m] = MessageTimeout /\ Fail(m)

FairSpec ==
  /\ Spec
  /\ WF_vars(Step)
  /\ WF_vars(Tick)
  /\ \A m \in Messages : WF_vars(TimesOut(m)) /\ WF_vars(DeliveryReport(m))

-----------------------------------------------------------------------------
(***************************************************************************)
(* Properties                                                              *)
(***************************************************************************)

\* Every variable keeps its type; a message under way is the one produce()
\* was called with.
TypeOK ==
  /\ pc \in Labels
  /\ message \in Messages \cup {NoMessage}
  /\ pc \in {"producing", "full"} => message \in Messages
  /\ fate \in [Messages -> Fates]
  /\ age \in [Messages -> 0 .. MessageTimeout]
  /\ logFd \in {"open", "none"}
  /\ elapsed \in 0 .. FlushWait

\* When the destructor has returned, every message that was queued is with
\* the broker or in the undelivered log: none was still waiting for its time
\* out when the flush gave up, and none failed without being recorded (the
\* comments at message.timeout.ms and at rd_kafka_flush).  It needs a log that
\* is open and takes what is written to it.
EveryMessageAccounted ==
  pc = "closed" =>
    \A m \in Messages :
      fate[m] \in {"new", "rejected", "acked", "delivered", "recorded"}

\* What the fate of a message means in the ledger of Handoff.
Entry(f) == IF f = "new" THEN "new"
            ELSE IF f = "rejected" THEN "refused"
            ELSE IF f \in {"acked", "delivered"} THEN "delivered"
            ELSE IF f = "recorded" THEN "recorded"
            ELSE "held"

ledgerBar == [m \in Messages |-> Entry(fate[m])]

phaseBar == IF pc \in {"closed", "killed"} THEN pc ELSE "open"

Contract == INSTANCE Handoff WITH ledger <- ledgerBar, phase <- phaseBar

\* The producer keeps the promise of Handoff.
KeepsContract == Contract!Spec

\* A produce() that meets a full queue returns: the queue drains because the
\* wait for room serves the reports of messages that time out.
ProduceReturns == (pc = "producing") ~> (pc \in {"idle", "killed"})

=============================================================================
