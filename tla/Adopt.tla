-------------------------------- MODULE Adopt --------------------------------
(***************************************************************************)
(* LogPort::adopt: it runs a program with its stdout and stderr in pipes,  *)
(* cuts what comes out of them into lines, hands the lines to a producer,  *)
(* and reports what waitpid says of the program.  It ends after the round  *)
(* in which it learns that the program has.                                *)
(*                                                                         *)
(* The program writes, is stopped, is continued and ends between any two   *)
(* steps.  Its end of a pipe is open as long as it lives, and a pipe holds *)
(* what adopt has not read yet, up to a limit.  As in InotifyWatcher a     *)
(* byte is of one of three kinds, and a message is the interval of its     *)
(* stream that it was cut from.                                            *)
(*                                                                         *)
(* The producer takes a message in one step (see KafkaProducer).  What it  *)
(* fails to deliver is lost: adopt opens no undelivered log.               *)
(***************************************************************************)
EXTENDS Naturals, Sequences

CONSTANTS
  Bytes,        \* the kinds of bytes that occur
  IoBuffer,     \* IO_BUFFER_SIZE: bytes per read
  PipeSize,     \* bytes a pipe holds
  MaxOutput,    \* bound: bytes the program writes
  MaxStops      \* bound: times the program is stopped

Ordinary == "ordinary"
Newline  == "newline"
Invalid  == "invalid"    \* not UTF-8: the filter throws

ASSUME ConstantsAssumption ==
  /\ Bytes \subseteq {Ordinary, Newline, Invalid}
  /\ IoBuffer \in Nat \ {0}
  /\ PipeSize \in Nat \ {0}
  /\ MaxOutput \in Nat
  /\ MaxStops \in Nat

Streams == {"stdout", "stderr"}

VARIABLES
  pc,
  stream,            \* the stream whose turn it is in this round
  continue_reading,
  written,           \* written[s]: what the program has written to stream s
  taken,             \* taken[s]: bytes of it that adopt has read
  partial,           \* partial[s]: bytes read and not yet sent
  sent,              \* sent[s]: messages of stream s handed to the producer
  told,              \* lines about the program's state handed to it
  child,             \* the program
  news,              \* what waitpid has to say of it
  stops              \* times it was stopped

program == <<written, child, news, stops>>
pipes   == <<taken, partial, sent>>
vars    == <<pc, stream, continue_reading, told, program, pipes>>

Labels == {"start", "prepare", "waitpid", "watch", "split", "poll",
           "finish", "returned", "thrown"}

News == {"none", "stopped", "continued", "ended"}

Alive == child \in {"running", "stopped"}

\* adopt's ends of the pipes are open.
Reading == pc \notin {"start", "returned", "thrown"}

InPipe(s) == Len(written[s]) - taken[s]

-----------------------------------------------------------------------------
(***************************************************************************)
(* adopt                                                                   *)
(***************************************************************************)

Init ==
  /\ pc = "start"
  /\ stream = "stdout"
  /\ continue_reading = TRUE
  /\ written = [s \in Streams |-> <<>>]
  /\ taken = [s \in Streams |-> 0]
  /\ partial = [s \in Streams |-> 0]
  /\ sent = [s \in Streams |-> <<>>]
  /\ told = <<>>
  /\ child = "none"
  /\ news = "none"
  /\ stops = 0

\* The pipes and the process.  (A program that cannot be executed is a
\* process that ends at once.)
StartProcess ==
  /\ pc = "start"
  /\ child' = "running"
  /\ pc' = "prepare"
  /\ UNCHANGED <<stream, continue_reading, told, written, news, stops, pipes>>

\* A pipe or the process cannot be made: adopt returns.
StartFails ==
  /\ pc = "start"
  /\ pc' = "returned"
  /\ UNCHANGED <<stream, continue_reading, told, program, pipes>>

\* The watchers of the pipes, the settings, the producer; each may throw,
\* with the program running.
Prepare ==
  /\ pc = "prepare"
  /\ pc' \in {"waitpid", "thrown"}
  /\ UNCHANGED <<stream, continue_reading, told, program, pipes>>

\* waitpid( -1, &status, WUNTRACED | WNOHANG | WCONTINUED ) returns 0.  It
\* does not return -1: the loop ends in the round that reaps the program.
NothingNew ==
  /\ pc = "waitpid"
  /\ news = "none"
  /\ stream' = "stdout"
  /\ pc' = "watch"
  /\ UNCHANGED <<continue_reading, told, program, pipes>>

\* Mutation: a program that was stopped is taken for one that has ended.
EndsReading_OnStop == news \in {"ended", "stopped"}

\* Mutation: the end of the program does not end the loop.
EndsReading_Never == FALSE

\* WIFEXITED or WIFSIGNALED, in contrast to WIFSTOPPED and WIFCONTINUED.
EndsReading == news = "ended"

\* It returns the program's pid: the news becomes a line of its own.
ChildNews ==
  /\ pc = "waitpid"
  /\ news # "none"
  /\ told' = Append(told, news)
  /\ continue_reading' = (continue_reading /\ ~EndsReading)
  /\ child' = IF news = "ended" THEN "reaped" ELSE child
  /\ news' = "none"
  /\ stream' = "stdout"
  /\ pc' = "watch"
  /\ UNCHANGED <<written, stops, pipes>>

\* bytes_read
BytesRead(s) == IF InPipe(s) < IoBuffer THEN InPipe(s) ELSE IoBuffer

\* Mutation: stderr is never looked at.
NextTurn_SkipsStderr == pc' = "poll" /\ UNCHANGED stream

\* The block of the next stream, or the end of the round.
NextTurn ==
  IF stream = "stdout" THEN stream' = "stderr" /\ pc' = "watch"
                       ELSE pc' = "poll" /\ UNCHANGED stream

\* epoll reports the stream, and one read takes what is there.
ReadStream ==
  /\ pc = "watch"
  /\ InPipe(stream) > 0
  /\ taken' = [taken EXCEPT ![stream] = @ + BytesRead(stream)]
  /\ partial' = [partial EXCEPT ![stream] = @ + BytesRead(stream)]
  /\ pc' = "split"
  /\ UNCHANGED <<stream, continue_reading, told, program, sent>>

\* The watch times out, or read returns 0 because the program is gone.
NothingToRead ==
  /\ pc = "watch"
  /\ InPipe(stream) = 0
  /\ NextTurn
  /\ UNCHANGED <<continue_reading, told, program, pipes>>

Begin == taken[stream] - partial[stream]

\* Mutation: the last byte of a chunk is taken for a newline.
EndsMessage_AtChunkEnd(e) ==
  /\ e \in (Begin + 1) .. (taken[stream] - 1)
  /\ written[stream][e + 1] = Newline \/ e = taken[stream] - 1
  /\ \A i \in (Begin + 1) .. (e - 1) : written[stream][i + 1] # Newline

\* The newline at byte e ends the message that begins at Begin; one at Begin
\* itself ends none, and becomes part of the message after it.
EndsMessage(e) ==
  /\ e \in (Begin + 1) .. (taken[stream] - 1)
  /\ written[stream][e + 1] = Newline
  /\ \A i \in (Begin + 1) .. (e - 1) : written[stream][i + 1] # Newline

\* filterLogLine throws on bytes that are not UTF-8.
FilterAccepts(from, to) ==
  \A i \in from .. (to - 1) : written[stream][i + 1] # Invalid

SendLine ==
  /\ pc = "split"
  /\ \E e \in Begin .. taken[stream] :
       /\ EndsMessage(e)
       /\ FilterAccepts(Begin, e)
       /\ sent' = [sent EXCEPT ![stream] =
                     Append(@, [from |-> Begin, to |-> e])]
       /\ partial' = [partial EXCEPT ![stream] = taken[stream] - (e + 1)]
  /\ UNCHANGED <<pc, stream, continue_reading, told, program, taken>>

\* The exception leaves adopt.
FilterThrows ==
  /\ pc = "split"
  /\ \E e \in Begin .. taken[stream] :
       EndsMessage(e) /\ ~FilterAccepts(Begin, e)
  /\ pc' = "thrown"
  /\ UNCHANGED <<stream, continue_reading, told, program, pipes>>

Scanned == \A e \in Begin .. taken[stream] : ~EndsMessage(e)

\* Mutation: the incomplete line is dropped.
KeepPartial_Forgets ==
  /\ pc = "split"
  /\ Scanned
  /\ partial' = [partial EXCEPT ![stream] = 0]
  /\ NextTurn
  /\ UNCHANGED <<continue_reading, told, program, taken, sent>>

\* The rest of the chunk is an incomplete line and is kept for the stream.
KeepPartial ==
  /\ pc = "split"
  /\ Scanned
  /\ NextTurn
  /\ UNCHANGED <<continue_reading, told, program, pipes>>

\* kafka_producer.poll(), and the condition of the loop.
Poll ==
  /\ pc = "poll"
  /\ pc' = IF continue_reading THEN "waitpid" ELSE "finish"
  /\ UNCHANGED <<stream, continue_reading, told, program, pipes>>

\* kafka_producer.poll( 1000 ), and the producer is destroyed.
Finish ==
  /\ pc = "finish"
  /\ pc' = "returned"
  /\ UNCHANGED <<stream, continue_reading, told, program, pipes>>

-----------------------------------------------------------------------------
(***************************************************************************)
(* The program                                                             *)
(***************************************************************************)

\* It writes a byte, if there is room for it.
Write(s) ==
  /\ child = "running"
  /\ Reading
  /\ InPipe(s) < PipeSize
  /\ Len(written["stdout"]) + Len(written["stderr"]) < MaxOutput
  /\ \E byte \in Bytes : written' = [written EXCEPT ![s] = Append(@, byte)]
  /\ UNCHANGED <<pc, stream, continue_reading, told, child, news, stops,
                 pipes>>

Stop ==
  /\ child = "running"
  /\ stops < MaxStops
  /\ stops' = stops + 1
  /\ child' = "stopped"
  /\ news' = "stopped"
  /\ UNCHANGED <<pc, stream, continue_reading, told, written, pipes>>

Continue ==
  /\ child = "stopped"
  /\ child' = "running"
  /\ news' = "continued"
  /\ UNCHANGED <<pc, stream, continue_reading, told, written, stops, pipes>>

\* It exits or is killed.  waitpid tells only the last of several news.
End ==
  /\ Alive
  /\ child' = "zombie"
  /\ news' = "ended"
  /\ UNCHANGED <<pc, stream, continue_reading, told, written, stops, pipes>>

Step == \/ StartProcess \/ StartFails \/ Prepare \/ NothingNew \/ ChildNews
        \/ ReadStream \/ NothingToRead \/ SendLine \/ FilterThrows
        \/ KeepPartial \/ Poll \/ Finish

Program == (\E s \in Streams : Write(s)) \/ Stop \/ Continue \/ End

Next == Step \/ Program

Spec == Init /\ [][Next]_vars

\* adopt keeps executing; nothing is assumed of the program.
FairSpec == Spec /\ WF_vars(Step)

-----------------------------------------------------------------------------
(***************************************************************************)
(* Properties                                                              *)
(***************************************************************************)

Interval == [from : Nat, to : Nat]

\* Every variable keeps its type; adopt has read no more than was written,
\* and holds back no more than it has read.
TypeOK ==
  /\ pc \in Labels
  /\ stream \in Streams
  /\ continue_reading \in BOOLEAN
  /\ written \in [Streams -> Seq(Bytes)]
  /\ taken \in [Streams -> Nat]
  /\ partial \in [Streams -> Nat]
  /\ \A s \in Streams : taken[s] <= Len(written[s]) /\ partial[s] <= taken[s]
  /\ sent \in [Streams -> Seq(Interval)]
  /\ told \in Seq(News \ {"none"})
  /\ child \in {"none", "running", "stopped", "zombie", "reaped"}
  /\ news \in News
  /\ stops \in 0 .. MaxStops

\* Where the messages of a stream end, the newline included.
SentTo(s) == IF sent[s] = <<>> THEN 0 ELSE sent[s][Len(sent[s])].to + 1

\* The two streams do not mix and lose nothing: the messages of a stream and
\* what is held back of it are, in order and without a gap, what was read.
NothingSkipped ==
  \A s \in Streams :
    /\ SentTo(s) = taken[s] - partial[s]
    /\ \A k \in DOMAIN sent[s] :
         sent[s][k].from = IF k = 1 THEN 0 ELSE sent[s][k - 1].to + 1

\* Every message is a line ("no partial line will ever be sent"): a newline
\* follows it, and after its first byte it has none inside.
MessagesAreLines ==
  \A s \in Streams : \A k \in DOMAIN sent[s] :
    LET m == sent[s][k]
    IN /\ m.from < m.to
       /\ m.to < Len(written[s])
       /\ written[s][m.to + 1] = Newline
       /\ \A i \in (m.from + 1) .. (m.to - 1) : written[s][i + 1] # Newline

\* When adopt leaves its loop, the program has ended, and its end is the
\* last thing that was told of it, whatever stops it and continues it.
LeavesAfterTheEnd ==
  pc = "finish" => child = "reaped" /\ told # <<>> /\ told[Len(told)] = "ended"

\* A program that has ended makes adopt end.
AdoptEnds == (child = "zombie") ~> (pc \in {"returned", "thrown"})

\* A program is never left with a full pipe: what it writes is read, unless
\* it ends or adopt does.
OutputIsRead ==
  \A s \in Streams : \A n \in 1 .. MaxOutput :
    (Len(written[s]) >= n)
      ~> (taken[s] >= n \/ ~Alive \/ pc \in {"returned", "thrown"})

=============================================================================
