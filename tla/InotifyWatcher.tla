--------------------------- MODULE InotifyWatcher ---------------------------
(***************************************************************************)
(* One watch of logport: the process that Watch::runNow starts for one     *)
(* watched file, its main loop InotifyWatcher::startWatching, the saved    *)
(* offset in the watches table, and the undelivered log that the process   *)
(* replays when it starts.                                                 *)
(*                                                                         *)
(* The process lives among actors it does not control: an application that *)
(* appends to the file, logrotate that renames it, a supervisor that sends *)
(* SIGINT and starts a new process when one is gone, a kill -9 or a power  *)
(* cut, and librdkafka, which may report a message as failed whenever it   *)
(* is polled.  Each of them may act between any two steps of the process.  *)
(*                                                                         *)
(* Data is abstracted to what matters for where messages begin and end.  A *)
(* file is a sequence of bytes of three kinds (Bytes), a message is the    *)
(* interval of the file it was cut from, and a line of the undelivered log *)
(* is two cells, the payload and the newline written after it.             *)
(***************************************************************************)
EXTENDS Integers, Sequences

CONSTANTS
  Bytes,         \* kinds of bytes the application writes
  Chunk,         \* LOG_READ_BUFFER_SIZE: what one read() returns at most
  MaxLength,     \* bound: bytes written to one inode
  MaxRotations,  \* bound: renames by logrotate
  MaxStops,      \* bound: SIGINTs
  MaxCrashes,    \* bound: kills that run no handler
  MaxFailures,   \* bound: messages reported as failed
  DbMayFail      \* may an UPDATE of the saved offset be lost?

Ordinary == "ordinary"
Newline  == "newline"
Invalid  == "invalid"    \* a byte json::dump() refuses (not UTF-8)

ASSUME ConstantsAssumption ==
  /\ Bytes \subseteq {Ordinary, Newline, Invalid}
  /\ Chunk \in Nat \ {0}
  /\ MaxLength \in Nat
  /\ MaxRotations \in Nat
  /\ MaxStops \in Nat
  /\ MaxCrashes \in Nat
  /\ MaxFailures \in Nat
  /\ DbMayFail \in BOOLEAN

Inodes  == 0 .. MaxRotations   \* the k-th file that had the watched path
NoInode == -1

(***************************************************************************)
(* A message: bytes from .. to-1 of an inode, without the newline at to.   *)
(***************************************************************************)
Message == [inode : Inodes, from : Nat, to : Nat]

\* Two records of no file: the newline that is written after a payload, and
\* the "starting up" message that every process sends first.
EndOfLine == [inode |-> NoInode, from |-> 0, to |-> 0]
Notice    == [inode |-> NoInode, from |-> 0, to |-> 1]

\* What the producer is given, and the cells of the undelivered log.
Payload == Message \cup {Notice}
Cell    == Payload \cup {EndOfLine}

VARIABLES
  \* the file system
  content,      \* content[i]: the bytes written to inode i
  current,      \* the inode the watched path names
  writer,       \* the inode the application has open
  undelivered,  \* the undelivered log; empty stands for missing or empty
  temp,         \* its "_temp" file; empty stands for missing
  \* the watches table
  saved,        \* file_offset of the row
  \* the watch process
  pc,
  run,          \* InotifyWatcher::run
  file_offset,  \* Watch::file_offset in this process
  wd,           \* the inode inotify watches for this process
  events,       \* what its inotify queue holds
  fd,           \* the inode behind watched_file_fd
  pos,          \* its file position
  tempPos,      \* the file position of undelivered_log_fd
  partial,      \* bytes read from the current descriptor and not yet sent
  rest,         \* what was held back of the temp file, once that is removed
  startup, try_read, log_being_rotated, replaying,  \* the loop's flags
  torn,         \* a payload is written and its newline is not
  outstanding,  \* messages handed to librdkafka and not reported as failed
  \* history
  start,        \* where this process began to read
  sent,         \* lines of the watched file ever handed to the producer
  resent,       \* those handed over more than once
  owed,         \* wholly recorded and not handed over again since
  \* budgets of the environment
  stops, crashes, failures

files   == <<content, current, writer>>
disk    == <<undelivered, temp, torn>>
flags   == <<startup, try_read, log_being_rotated>>
reading == <<fd, pos, tempPos, partial, rest, replaying, start>>
inotify == <<wd, events>>
history == <<outstanding, sent, resent, owed>>
budgets == <<stops, crashes, failures>>

vars == <<files, disk, saved, pc, run, file_offset, flags, reading, inotify,
          history, budgets>>

Labels == {"down", "attach", "measure", "prepare", "replay", "loop", "wait",
           "poll", "read", "split", "rest", "shutdown", "flush"}

\* The process has opened the file and knows where it begins to read.
Opened == pc \notin {"down", "attach", "measure"}

-----------------------------------------------------------------------------
(***************************************************************************)
(* Helpers                                                                 *)
(***************************************************************************)

Least(a, b) == IF a <= b THEN a ELSE b

\* Watch::saveOffset: PreparedStatement::step gives up silently on a busy
\* database, and every caller swallows the exceptions.
SaveOffset(offset) == \/ saved' = offset
                      \/ DbMayFail /\ saved' = saved

\* A step of the process itself; none happens inside the delivery callback,
\* between its two write() calls.
At(label) == pc = label /\ ~torn

\* The first byte of log_chunk in the file, while log_chunk holds log lines.
Begin == pos - partial

\* Mutation: the bytes held back in memory are forgotten.
ResumePoint_IgnoresPartial == pos

\* The offset saved on shutdown: lseek(watched_file_fd) less the size of
\* previous_log_partial, also when that holds bytes of the temp file.
ResumePoint == pos - partial

\* Mutation: the process starts from the first byte.
LoadedOffset_Forgotten == 0

\* Watch::loadOffset
LoadedOffset == saved

\* Mutation: a temp file is overwritten.
TempExists_Unchecked == FALSE

\* file_exists( temp_log_file )
TempExists == temp # <<>>

\* Mutation: a renamed file counts as drained at once.
AtEof_OnRotation == pos >= Len(content[fd]) \/ log_being_rotated

\* read( watched_file_fd ) returns 0, also when it was sought past the end.
AtEof == pos >= Len(content[fd])

\* Mutation: IN_MOVE_SELF is not told from IN_MODIFY.
MovedSelf_Ignored == FALSE

\* One of the queued events is IN_MOVE_SELF.
MovedSelf == "move" \in events

\* Mutation: the scan runs past the chunk that was read.
EndsMessage_PastChunk(cells, newline, b, e, limit) ==
  /\ e \in (b + 1) .. (Len(cells) - 1)
  /\ cells[e + 1] = newline
  /\ \A i \in (b + 1) .. (e - 1) : cells[i + 1] # newline

\* Mutation: the last byte of a chunk is taken for a newline.
EndsMessage_AtChunkEnd(cells, newline, b, e, limit) ==
  /\ e \in (b + 1) .. (limit - 1)
  /\ cells[e + 1] = newline \/ e = limit - 1
  /\ \A i \in (b + 1) .. (e - 1) : cells[i + 1] # newline

\* A newline at byte e ends the message that begins at byte b: the newline
\* at b itself does not, because the scan only sends a non-empty message.
EndsMessage(cells, newline, b, e, limit) ==
  /\ e \in (b + 1) .. (limit - 1)
  /\ cells[e + 1] = newline
  /\ \A i \in (b + 1) .. (e - 1) : cells[i + 1] # newline

\* InotifyWatcher::filterLogLine throws on bytes that are not UTF-8.
FilterAccepts(m) ==
  \A i \in m.from .. (m.to - 1) : content[m.inode][i + 1] # Invalid

\* Producer::produce for a line of the watched file.
Produce(m) ==
  /\ sent' = sent \cup {m}
  /\ resent' = resent \cup (sent \cap {m})
  /\ outstanding' = outstanding \cup {m}
  /\ UNCHANGED owed

\* The payloads of cells b+1 .. e of the temp file.
Payloads(b, e) == {temp[i] : i \in (b + 1) .. e} \ {EndOfLine}

\* Producer::produce for payloads of the temp file.
Replay(payloads) ==
  /\ outstanding' = outstanding \cup payloads
  /\ owed' = owed \ payloads
  /\ UNCHANGED <<sent, resent>>

\* Producer::produce for "starting up", the first message of a process.
Announce ==
  /\ outstanding' = outstanding \cup {Notice}
  /\ UNCHANGED <<sent, resent, owed>>

\* The process is gone, and with it its memory and its descriptors.
Gone ==
  /\ pc' = "down"
  /\ run' = TRUE
  /\ file_offset' = 0
  /\ wd' = NoInode /\ events' = {}
  /\ fd' = NoInode /\ pos' = 0 /\ tempPos' = 0 /\ partial' = 0 /\ start' = 0
  /\ rest' = {}
  /\ replaying' = FALSE /\ startup' = TRUE
  /\ try_read' = FALSE /\ log_being_rotated' = FALSE
  /\ outstanding' = {}
  /\ UNCHANGED <<files, saved, sent, resent, owed>>

-----------------------------------------------------------------------------
(***************************************************************************)
(* Starting                                                                *)
(***************************************************************************)

Init ==
  /\ content = [i \in Inodes |-> <<>>]
  /\ current = 0 /\ writer = 0
  /\ undelivered = <<>> /\ temp = <<>> /\ torn = FALSE
  /\ saved = 0
  /\ pc = "down"
  /\ run = TRUE
  /\ file_offset = 0
  /\ wd = NoInode /\ events = {}
  /\ fd = NoInode /\ pos = 0 /\ tempPos = 0 /\ partial = 0 /\ start = 0
  /\ rest = {}
  /\ replaying = FALSE /\ startup = TRUE
  /\ try_read = FALSE /\ log_being_rotated = FALSE
  /\ outstanding = {} /\ sent = {} /\ resent = {} /\ owed = {}
  /\ stops = 0 /\ crashes = 0 /\ failures = 0

\* The supervisor loads the offset and forks; the InotifyWatcher constructor
\* adds the inotify watch on whatever the path names now.
Attach ==
  /\ At("down")
  /\ pc' = "attach"
  /\ file_offset' = LoadedOffset
  /\ wd' = current
  /\ UNCHANGED <<files, disk, saved, run, flags, reading, events, history,
                 budgets>>

\* startWatching opens the path, which may name a newer inode than wd.
OpenWatchedFile ==
  /\ At("attach")
  /\ fd' = current
  /\ pc' = "measure"
  /\ UNCHANGED <<files, disk, saved, run, file_offset, flags, pos, tempPos,
                 partial, rest, replaying, start, inotify, history, budgets>>

\* It seeks.  An offset past the end, or one lseek refuses, restarts at 0;
\* the size is that of the file that has the path by now.
SeekToOffset ==
  /\ At("measure")
  /\ LET usable == file_offset \in 0 .. Len(content[current])
         offset == IF usable THEN file_offset ELSE 0
     IN /\ pos' = offset
        /\ start' = offset
        /\ file_offset' = offset
        /\ IF usable THEN UNCHANGED saved ELSE SaveOffset(0)
  /\ pc' = "prepare"
  /\ UNCHANGED <<files, disk, run, flags, fd, tempPos, partial, rest,
                 replaying, inotify, history, budgets>>

\* A non-empty undelivered log is moved aside ...
MoveLogAside ==
  /\ At("prepare")
  /\ undelivered # <<>>
  /\ ~TempExists
  /\ temp' = undelivered
  /\ undelivered' = <<>>
  /\ pc' = "replay"
  /\ UNCHANGED <<files, torn, saved, run, file_offset, flags, reading,
                 inotify, history, budgets>>

\* ... to be replayed, after the message that says so.
BeginReplay ==
  /\ At("replay")
  /\ Announce
  /\ replaying' = TRUE
  /\ pc' = "loop"
  /\ UNCHANGED <<files, disk, saved, run, file_offset, flags, fd, pos,
                 tempPos, partial, rest, start, inotify, budgets>>

\* "temp undelivered_log exists. Aborting to prevent overwriting."
RefuseReplay ==
  /\ At("prepare")
  /\ undelivered # <<>>
  /\ TempExists
  /\ pc' = "flush"
  /\ UNCHANGED <<files, disk, saved, run, file_offset, flags, reading,
                 inotify, history, budgets>>

NothingToReplay ==
  /\ At("prepare")
  /\ undelivered = <<>>
  /\ Announce
  /\ pc' = "loop"
  /\ UNCHANGED <<files, disk, saved, run, file_offset, flags, reading,
                 inotify, budgets>>

-----------------------------------------------------------------------------
(***************************************************************************)
(* The main loop                                                           *)
(***************************************************************************)

\* Mutation: the loop does not test run.
EnterLoop_IgnoresRun ==
  /\ At("loop")
  /\ pc' = IF startup THEN "poll" ELSE "wait"
  /\ UNCHANGED <<files, disk, saved, run, file_offset, flags, reading,
                 inotify, history, budgets>>

\* while( this->run ), and the epoll wait that startup skips.
EnterLoop ==
  /\ At("loop")
  /\ run
  /\ pc' = IF startup THEN "poll" ELSE "wait"
  /\ UNCHANGED <<files, disk, saved, run, file_offset, flags, reading,
                 inotify, history, budgets>>

LeaveLoop ==
  /\ At("loop")
  /\ ~run
  /\ pc' = "flush"
  /\ UNCHANGED <<files, disk, saved, run, file_offset, flags, reading,
                 inotify, history, budgets>>

\* All queued events are read at once; none asks for more than one read().
ReadEvents ==
  /\ At("wait")
  /\ events # {}
  /\ events' = {}
  /\ log_being_rotated' = (log_being_rotated \/ MovedSelf)
  /\ try_read' = TRUE
  /\ pc' = "poll"
  /\ UNCHANGED <<files, disk, saved, run, file_offset, startup, reading, wd,
                 history, budgets>>

\* epoll_wait timed out, or a signal interrupted it.
WaitTimesOut ==
  /\ At("wait")
  /\ events = {}
  /\ pc' = "poll"
  /\ UNCHANGED <<files, disk, saved, run, file_offset, flags, reading,
                 inotify, history, budgets>>

\* producer.poll() has served its callbacks: a KafkaProducer's in each round.
Polled ==
  /\ At("poll")
  /\ pc' = IF startup \/ try_read \/ log_being_rotated
             THEN "read" ELSE "shutdown"
  /\ UNCHANGED <<files, disk, saved, run, file_offset, flags, reading,
                 inotify, history, budgets>>

ReadLog ==
  /\ At("read")
  /\ ~replaying
  /\ ~AtEof
  /\ LET n == Least(Chunk, Len(content[fd]) - pos)
     IN pos' = pos + n /\ partial' = partial + n
  /\ pc' = "split"
  /\ UNCHANGED <<files, disk, saved, run, file_offset, flags, fd, tempPos,
                 rest, replaying, start, inotify, history, budgets>>

ReadTemp ==
  /\ At("read")
  /\ replaying
  /\ tempPos < Len(temp)
  /\ LET n == Least(Chunk, Len(temp) - tempPos)
     IN tempPos' = tempPos + n /\ partial' = partial + n
  /\ pc' = "split"
  /\ UNCHANGED <<files, disk, saved, run, file_offset, flags, fd, pos,
                 rest, replaying, start, inotify, history, budgets>>

\* One message of log_chunk is complete: filter it and hand it over.
SendLine ==
  /\ At("split")
  /\ ~replaying
  /\ \E e \in Begin .. pos :
       LET m == [inode |-> fd, from |-> Begin, to |-> e]
       IN /\ EndsMessage(content[fd], Newline, Begin, e, pos)
          /\ FilterAccepts(m)
          /\ Produce(m)
          /\ partial' = pos - (e + 1)
  /\ UNCHANGED <<files, disk, saved, pc, run, file_offset, flags, fd, pos,
                 tempPos, rest, replaying, start, inotify, budgets>>

\* filterLogLine throws: the exception leaves startWatching, no offset is
\* saved, and the producer is destroyed on the way out.
FilterThrows ==
  /\ At("split")
  /\ ~replaying
  /\ \E e \in Begin .. pos :
       /\ EndsMessage(content[fd], Newline, Begin, e, pos)
       /\ ~FilterAccepts([inode |-> fd, from |-> Begin, to |-> e])
  /\ pc' = "flush"
  /\ UNCHANGED <<files, disk, saved, run, file_offset, flags, reading,
                 inotify, history, budgets>>

SendUndelivered ==
  /\ At("split")
  /\ replaying
  /\ LET b == tempPos - partial
     IN \E e \in b .. tempPos :
          /\ EndsMessage(temp, EndOfLine, b, e, tempPos)
          /\ Replay(Payloads(b, e))
          /\ partial' = tempPos - (e + 1)
  /\ UNCHANGED <<files, disk, saved, pc, run, file_offset, flags, fd, pos,
                 tempPos, rest, replaying, start, inotify, budgets>>

\* log_chunk holds no complete message (any more): no newline after its
\* first byte.
Scanned ==
  IF replaying
    THEN \A e \in (tempPos - partial + 1) .. (tempPos - 1) :
           temp[e + 1] # EndOfLine
    ELSE \A e \in (Begin + 1) .. (pos - 1) : content[fd][e + 1] # Newline

\* Mutation: the incomplete line is dropped.
KeepPartial_Forgets ==
  /\ At("split")
  /\ Scanned
  /\ partial' = 0
  /\ try_read' = FALSE
  /\ pc' = "shutdown"
  /\ UNCHANGED <<files, disk, saved, run, file_offset, startup, fd, pos,
                 tempPos, rest, replaying, start, log_being_rotated, inotify,
                 history, budgets>>

\* Mutation: startup ends after one read.
KeepPartial_EndsStartup ==
  /\ At("split")
  /\ Scanned
  /\ startup' = FALSE
  /\ try_read' = FALSE
  /\ pc' = "shutdown"
  /\ UNCHANGED <<files, disk, saved, run, file_offset, log_being_rotated,
                 reading, inotify, history, budgets>>

\* The rest of log_chunk is an incomplete line and stays in memory.
KeepPartial ==
  /\ At("split")
  /\ Scanned
  /\ try_read' = FALSE
  /\ pc' = "shutdown"
  /\ UNCHANGED <<files, disk, saved, run, file_offset, startup,
                 log_being_rotated, reading, inotify, history, budgets>>

\* read() returned 0 on the temp file, which is removed; a last record without
\* a newline stays in memory.  startup is still TRUE, and log_being_rotated
\* still FALSE (ReplayComesFirst): no event has been read yet.
EndOfTemp ==
  /\ At("read")
  /\ replaying
  /\ tempPos = Len(temp)
  /\ temp' = <<>>
  /\ replaying' = FALSE
  /\ rest' = Payloads(tempPos - partial, tempPos)
  /\ partial' = 0 /\ tempPos' = 0
  /\ try_read' = FALSE
  /\ pc' = IF partial = 0 THEN "shutdown" ELSE "rest"
  /\ UNCHANGED <<files, undelivered, torn, saved, run, file_offset, startup,
                 log_being_rotated, fd, pos, start, inotify, history, budgets>>

\* That record is sent.
SendRest ==
  /\ At("rest")
  /\ Replay(rest)
  /\ rest' = {}
  /\ pc' = "shutdown"
  /\ UNCHANGED <<files, disk, saved, run, file_offset, flags, fd, pos,
                 tempPos, partial, replaying, start, inotify, budgets>>

\* read() returned 0 on the watched file, which is still in place.
EndOfLog ==
  /\ At("read")
  /\ ~replaying
  /\ ~log_being_rotated
  /\ AtEof
  /\ startup' = FALSE
  /\ try_read' = FALSE
  /\ pc' = "shutdown"
  /\ UNCHANGED <<files, disk, saved, run, file_offset, log_being_rotated,
                 reading, inotify, history, budgets>>

\* read() returned 0 on a renamed file: it is drained.  A last line without
\* a newline is sent, offset 0 is saved and the process is to stop.
EndOfRotatedLog ==
  /\ At("read")
  /\ ~replaying
  /\ log_being_rotated
  /\ AtEof
  /\ LET m == [inode |-> fd, from |-> Begin, to |-> pos]
     IN IF partial = 0 THEN UNCHANGED history
        ELSE FilterAccepts(m) /\ Produce(m)
  /\ partial' = 0
  /\ run' = FALSE
  /\ file_offset' = 0
  /\ SaveOffset(0)
  /\ startup' = FALSE
  /\ try_read' = FALSE
  /\ pc' = "shutdown"
  /\ UNCHANGED <<files, disk, log_being_rotated, fd, pos, tempPos, rest,
                 replaying, start, inotify, budgets>>

\* The last line without a newline is refused by the filter: run was reset
\* before, the offset is not saved.
FilterThrowsAtEnd ==
  /\ At("read")
  /\ ~replaying
  /\ log_being_rotated
  /\ AtEof
  /\ partial # 0
  /\ ~FilterAccepts([inode |-> fd, from |-> Begin, to |-> pos])
  /\ run' = FALSE
  /\ pc' = "flush"
  /\ UNCHANGED <<files, disk, saved, file_offset, flags, reading, inotify,
                 history, budgets>>

KeepRunning ==
  /\ At("shutdown")
  /\ run
  /\ pc' = "loop"
  /\ UNCHANGED <<files, disk, saved, run, file_offset, flags, reading,
                 inotify, history, budgets>>

\* if( this->run == false ): save the first unsent byte.  partial counts
\* bytes of the temp file when the process stops in the middle of a replay.
SaveOnStop ==
  /\ At("shutdown")
  /\ ~run
  /\ file_offset' = ResumePoint
  /\ SaveOffset(ResumePoint)
  /\ pc' = "loop"
  /\ UNCHANGED <<files, disk, run, flags, reading, inotify, history,
                 budgets>>

-----------------------------------------------------------------------------
(***************************************************************************)
(* Delivery reports, and the end of the process                            *)
(***************************************************************************)

\* Where the process serves delivery reports: producer.poll(), the wait for
\* room inside produce(), and the flush in the producer's destructor.
Polling == \/ pc \in {"poll", "split", "rest", "flush"}
           \/ pc = "shutdown" /\ ~run

\* The callback writes the payload of a failed message ...
RecordPayload ==
  /\ Polling
  /\ ~torn
  /\ failures < MaxFailures
  /\ \E m \in outstanding :
       /\ undelivered' = Append(undelivered, m)
       /\ outstanding' = outstanding \ {m}
  /\ torn' = TRUE
  /\ failures' = failures + 1
  /\ UNCHANGED <<files, temp, saved, pc, run, file_offset, flags, reading,
                 inotify, sent, resent, owed, stops, crashes>>

\* ... and then its newline, which completes the record.
RecordNewline ==
  /\ torn
  /\ undelivered' = Append(undelivered, EndOfLine)
  /\ owed' = owed \cup ({undelivered[Len(undelivered)]} \ {Notice})
  /\ torn' = FALSE
  /\ UNCHANGED <<files, temp, saved, pc, run, file_offset, flags, reading,
                 inotify, outstanding, sent, resent, budgets>>

\* The producer is destroyed and the process exits.
Exit ==
  /\ At("flush")
  /\ Gone
  /\ UNCHANGED <<disk, budgets>>

\* kill -9, a crash, or a power cut: nothing more is written.
Crash ==
  /\ pc # "down"
  /\ crashes < MaxCrashes
  /\ crashes' = crashes + 1
  /\ torn' = FALSE
  /\ Gone
  /\ UNCHANGED <<undelivered, temp, stops, failures>>

-----------------------------------------------------------------------------
(***************************************************************************)
(* The environment                                                         *)
(***************************************************************************)

\* An event reaches the inotify queue of the process; equal ones coalesce.
Notify(inode, event) ==
  events' = IF wd = inode THEN events \cup {event} ELSE events

\* The application appends to the file it has open.
AppendByte ==
  /\ Len(content[writer]) < MaxLength
  /\ \E b \in Bytes :
       content' = [content EXCEPT ![writer] = Append(@, b)]
  /\ Notify(writer, "modify")
  /\ UNCHANGED <<current, writer, disk, saved, pc, run, file_offset, flags,
                 reading, wd, history, budgets>>

\* logrotate renames the file and creates a new one in its place.
Rotate ==
  /\ current < MaxRotations
  /\ current' = current + 1
  /\ Notify(current, "move")
  /\ UNCHANGED <<content, writer, disk, saved, pc, run, file_offset, flags,
                 reading, wd, history, budgets>>

\* The application closes the renamed file and opens the new one.
Reopen ==
  /\ writer # current
  /\ writer' = current
  /\ Notify(writer, "modify")
  /\ UNCHANGED <<content, current, disk, saved, pc, run, file_offset, flags,
                 reading, wd, history, budgets>>

\* signal_handler_stop
Sigint ==
  /\ pc # "down"
  /\ stops < MaxStops
  /\ stops' = stops + 1
  /\ run' = FALSE
  /\ UNCHANGED <<files, disk, saved, pc, file_offset, flags, reading,
                 inotify, history, crashes, failures>>

-----------------------------------------------------------------------------
(***************************************************************************)
(* The specification                                                       *)
(***************************************************************************)

ProcessStep ==
  \/ OpenWatchedFile \/ SeekToOffset
  \/ MoveLogAside \/ BeginReplay \/ RefuseReplay \/ NothingToReplay
  \/ EnterLoop \/ LeaveLoop \/ ReadEvents \/ WaitTimesOut \/ Polled
  \/ ReadLog \/ ReadTemp \/ SendLine \/ FilterThrows \/ SendUndelivered
  \/ KeepPartial \/ EndOfTemp \/ SendRest \/ EndOfLog \/ EndOfRotatedLog
  \/ FilterThrowsAtEnd \/ KeepRunning \/ SaveOnStop \/ RecordNewline \/ Exit

Environment == AppendByte \/ Rotate \/ Reopen \/ Sigint \/ Crash \/ RecordPayload

Next == Attach \/ ProcessStep \/ Environment

Spec == Init /\ [][Next]_vars

\* The operating system schedules the process, and the supervisor starts a
\* new one when it is gone.  Nothing is assumed of the environment.
FairSpec == Spec /\ WF_vars(ProcessStep) /\ WF_vars(Attach)

-----------------------------------------------------------------------------
(***************************************************************************)
(* Properties                                                              *)
(***************************************************************************)

\* Every variable keeps its type.
TypeOK ==
  /\ content \in [Inodes -> Seq(Bytes)]
  /\ current \in Inodes
  /\ writer \in Inodes
  /\ undelivered \in Seq(Cell)
  /\ temp \in Seq(Cell)
  /\ saved \in Int
  /\ pc \in Labels
  /\ run \in BOOLEAN
  /\ file_offset \in Int
  /\ wd \in Inodes \cup {NoInode}
  /\ events \subseteq {"modify", "move"}
  /\ fd \in Inodes \cup {NoInode}
  /\ pos \in Nat /\ tempPos \in Nat /\ partial \in Nat /\ start \in Nat
  /\ startup \in BOOLEAN /\ try_read \in BOOLEAN
  /\ log_being_rotated \in BOOLEAN /\ replaying \in BOOLEAN
  /\ torn \in BOOLEAN
  /\ rest \subseteq Payload
  /\ outstanding \subseteq Payload
  /\ sent \subseteq Message /\ resent \subseteq Message
  /\ owed \subseteq Message
  /\ stops \in Nat /\ crashes \in Nat /\ failures \in Nat

\* Byte p of inode i belongs to a message that was handed to the producer,
\* or is the newline that ended one.
Covered(i, p) == \E m \in sent : m.inode = i /\ p \in m.from .. m.to

SentUpTo(i, n) == \A p \in 0 .. (n - 1) : Covered(i, p)

\* The saved offset never runs ahead of what was sent: as long as the file
\* was not rotated, every byte below the offset in the database has been
\* handed to the producer, whatever signals, kills, failed deliveries and
\* lost UPDATEs happened (the resume point of startWatching and the offset
\* it saves when it stops).
SavedOffsetIsSent == current = 0 => SentUpTo(0, saved)

\* Within one process nothing is stepped over: every byte between the place
\* where it began to read and the first byte it still holds back has been
\* handed over, across reads that cut lines, replays and rotation (the split
\* loop of startWatching).
NothingSkipped ==
  Opened => \A p \in start .. (Begin - 1) : Covered(fd, p)

\* Message m has a whole record in a log: its payload and the newline.
HasRecord(log, m) ==
  \E i \in 1 .. (Len(log) - 1) : log[i] = m /\ log[i + 1] = EndOfLine

\* A message whose record was completed keeps a whole record on disk until it
\* is handed to the producer again: failures, the rename to the temp file, its
\* removal at the end of the replay and crashes between these steps lose
\* none.  It says nothing of a record that a crash cut short: such a last
\* record is sent only after the temp file was removed.
OwedIsOnDisk ==
  \A m \in owed : HasRecord(undelivered, m) \/ HasRecord(temp, m)

\* The last line has no newline and the filter refused it.
LastLineRefused ==
  /\ pc = "flush"
  /\ partial # 0
  /\ ~FilterAccepts([inode |-> fd, from |-> Begin, to |-> pos])

\* When run is reset because the file was renamed, all that is in the file has
\* been handed over, a last line without a newline included ("to exit on
\* logrotate (after all bytes are drained)"), unless the filter refused that
\* line and the process is on its way out.
RotationDrains ==
  [][run /\ ~run' /\ stops' = stops =>
       (\A p \in start .. (Len(content[fd]) - 1) :
          Covered(fd, p) \/ (LastLineRefused /\ p >= Begin))']_vars

\* The replay precedes the first look at the watched file and at its events,
\* so the rotation branch at the end of a read cannot meet a replay.
ReplayComesFirst ==
  replaying => startup /\ ~log_being_rotated /\ pos = start

\* A message ends where a line ends, or at the end of a renamed file that
\* was drained.
MessagesEndLines ==
  \A m \in sent :
    \/ m.to < Len(content[m.inode]) /\ content[m.inode][m.to + 1] = Newline
    \/ m.inode < current

\* What is below the saved offset is never sent again, even after a crash
\* (file_offset "to prevent replaying sent log entries").
SavedIsNeverResent ==
  [][\A m \in resent' \ resent : current = 0 => m.from >= saved]_vars

\* A process that reads the file again, after its predecessor drained the
\* renamed one, reads the new file from its first byte ("update and save the
\* committed offset back to the first byte").
NewFileReadFromStart ==
  (Opened /\ fd > 0 /\ \A m \in sent : m.inode # fd) => start = 0

\* Where the process is in the watched file: while the temp file is replayed
\* nothing of the watched file is held back.
Front == IF replaying THEN pos ELSE Begin

\* What a state means in AtLeastOnce.  A process reads from the moment it
\* has opened the file; what is on disk are the payloads in both logs.
sizeBar == [i \in Inodes |-> Len(content[i])]

sourceBar == IF Opened THEN fd ELSE NoInode

cursorBar == IF Opened THEN Front ELSE 0

recordedBar == ({undelivered[i] : i \in DOMAIN undelivered}
                  \cup {temp[i] : i \in DOMAIN temp}) \ {Notice, EndOfLine}

Promise == INSTANCE AtLeastOnce
             WITH Files <- Inodes, NoFile <- NoInode,
                  size <- sizeBar, file <- current,
                  source <- sourceBar, cursor <- cursorBar, mark <- saved,
                  handed <- sent, recorded <- recordedBar

\* The watch is an at-least-once channel: with its buffers, replays, signals
\* and crashes it reads as AtLeastOnce does, hands over piece after piece
\* without a gap, saves no offset ahead of what it handed over, and erases
\* no whole record of a message before that was handed over again.
KeepsPromise == Promise!Spec

\* A process that was told to stop does stop.
StopCompletes == (pc # "down" /\ ~run) ~> (pc = "down")

\* A process that starts comes to the end of its file, or is gone: it does not
\* wait for events that may never come while there is something to read, however
\* many reads that takes and whatever is replayed first.
BacklogIsRead ==
  (pc = "prepare") ~> (~Opened \/ pos >= Len(content[fd]))

\* After a rotation some process comes to read the new file.
RotationIsFollowed ==
  \A k \in 1 .. MaxRotations : (current = k) ~> (fd = k \/ current > k)

\* A complete line of the file is handed over sooner or later, across stops,
\* crashes and undelivered messages ("sends changes to kafka (one line per
\* message)"), as long as the file is not renamed, holds no line the filter
\* refuses, and grows by no more than one read takes.
CompleteLinesAreSent ==
  \A p \in 1 .. (MaxLength - 1) :
    (Len(content[0]) > p /\ content[0][p + 1] = Newline
       /\ content[0][p] # Newline)
      ~> (Covered(0, p) \/ current > 0
            \/ \E i \in DOMAIN content[0] : content[0][i] = Invalid)

=============================================================================
