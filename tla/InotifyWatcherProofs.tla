------------------------ MODULE InotifyWatcherProofs ------------------------
(***************************************************************************)
(* What InotifyWatcher promises for every value of its constants: any      *)
(* number of rotations, stops, crashes and failed deliveries, any chunk    *)
(* size and files of any length.                                           *)
(***************************************************************************)
EXTENDS InotifyWatcher, TLAPS

-----------------------------------------------------------------------------
(***************************************************************************)
(* The shape of a state: its types, and the bounds that keep the loop of   *)
(* startWatching inside its buffers.                                       *)
(***************************************************************************)

\* The flags of the loop, apart from the rest of TypeOK.
Flags ==
  /\ run \in BOOLEAN
  /\ startup \in BOOLEAN /\ try_read \in BOOLEAN
  /\ log_being_rotated \in BOOLEAN /\ replaying \in BOOLEAN
  /\ torn \in BOOLEAN

\* The environment: files, table and inotify.
World ==
  /\ content \in [Inodes -> Seq(Bytes)]
  /\ current \in Inodes
  /\ writer \in Inodes
  /\ wd \in Inodes \cup {NoInode}
  /\ events \subseteq {"modify", "move"}
  /\ stops \in Nat /\ crashes \in Nat /\ failures \in Nat

\* The messages on disk, at the producer and in the history.
Store ==
  /\ undelivered \in Seq(Cell)
  /\ temp \in Seq(Cell)
  /\ rest \subseteq Payload
  /\ outstanding \subseteq Payload
  /\ sent \subseteq Message /\ resent \subseteq Message
  /\ owed \subseteq Message

\* Between the two write() calls of the callback, which runs in a process
\* that reads, the log ends in a payload.
TornLog == torn => /\ Opened /\ undelivered # <<>>
                   /\ undelivered[Len(undelivered)] \in Payload

\* The positions.
Places ==
  /\ pc \in Labels
  /\ saved \in Int
  /\ file_offset \in Int
  /\ fd \in Inodes \cup {NoInode}
  /\ pos \in Nat /\ tempPos \in Nat /\ partial \in Nat /\ start \in Nat

\* Nothing is held back and nothing is replayed before the loop begins, nor
\* right after the temp file was removed.
Fresh == pc \in {"down", "attach", "measure", "prepare", "replay", "rest"} =>
           partial = 0 /\ tempPos = 0 /\ ~replaying

\* The descriptor is open from OpenWatchedFile on.  The loop reads at a
\* position in the file, or at the one it was sought to past the end.
OpenFile ==
  /\ pc \notin {"down", "attach"} => fd \in Inodes /\ fd <= current
  /\ Opened => pos <= Len(content[fd]) \/ pos = start

\* What is held back was read from the descriptor that is being read.
Held == /\ start <= pos
        /\ replaying => partial <= tempPos /\ tempPos <= Len(temp)
        /\ ~replaying => partial <= pos - start

Shape == /\ Flags /\ World /\ Store /\ Places
         /\ TornLog /\ Fresh /\ OpenFile /\ Held

LEMMA TypesFromShape == TypeOK <=> Flags /\ World /\ Store /\ Places
  BY Zenon DEF TypeOK, Flags, World, Store, Places

LEMMA ShapeInit == Init => Shape
<1> SUFFICES ASSUME Init PROVE Shape
  OBVIOUS
<1> USE ConstantsAssumption DEF Init, NoInode
<1>1. Flags
  BY Zenon DEF Flags
<1>2. World
  BY DEF World, Inodes
<1>3. Store
  BY DEF Store
<1>4. Places
  BY DEF Places, Labels
<1>5. TornLog /\ Fresh /\ OpenFile /\ Held
  BY DEF TornLog, TornLog, Fresh, OpenFile, Held, Opened
<1> QED
  BY <1>1, <1>2, <1>3, <1>4, <1>5 DEF Shape

\* Steps that do nothing but move the process to another block of the loop.
Moves == \/ RefuseReplay \/ EnterLoop \/ LeaveLoop
         \/ WaitTimesOut \/ Polled \/ FilterThrows
         \/ KeepRunning

AllButPc == <<files, disk, saved, run, file_offset, flags, reading, inotify,
              history, budgets>>

LEMMA MovesOnlyPc ==
  ASSUME Moves
  PROVE  /\ UNCHANGED AllButPc
         /\ pc \notin {"down", "attach", "measure"}
         /\ pc' \in {"flush", "loop", "poll", "wait", "read", "shutdown"}
         /\ pc' # "flush" => pc \in {"loop", "poll", "wait", "shutdown"}
<1>1. CASE RefuseReplay
  BY <1>1 DEF RefuseReplay, AllButPc, At
<1>3. CASE EnterLoop
  BY <1>3 DEF EnterLoop, AllButPc, At
<1>4. CASE LeaveLoop
  BY <1>4 DEF LeaveLoop, AllButPc, At
<1>5. CASE WaitTimesOut
  BY <1>5 DEF WaitTimesOut, AllButPc, At
<1>6. CASE Polled
  BY <1>6 DEF Polled, AllButPc, At
<1>7. CASE FilterThrows
  BY <1>7 DEF FilterThrows, AllButPc, At
<1>9. CASE KeepRunning
  BY <1>9 DEF KeepRunning, AllButPc, At
<1> QED
  BY <1>1, <1>3, <1>4, <1>5, <1>6, <1>7, <1>9 DEF Moves

-----------------------------------------------------------------------------
(***************************************************************************)
(* Every step keeps the shape                                              *)
(***************************************************************************)

\* Attach and Init prepare the memory of a process; Gone resets it.
LEMMA GoneShape == ASSUME Shape, Gone, UNCHANGED temp,
                          undelivered' \in Seq(Cell), torn' = FALSE,
                          stops' \in Nat, crashes' \in Nat, failures' \in Nat
                   PROVE  Shape'
<1>1. Flags'
  BY Zenon DEF Gone, Flags
<1>2. World'
  BY DEF Gone, World, Shape, files
<1>3. Store'
  BY DEF Gone, Store, Shape
<1>4. Places'
  BY DEF Gone, Places, Shape, Labels
<1>5. TornLog' /\ Fresh' /\ OpenFile' /\ Held'
  BY DEF Gone, TornLog, Fresh, OpenFile, Held, Opened
<1> QED
  BY <1>1, <1>2, <1>3, <1>4, <1>5 DEF Shape

LEMMA MovesShape == ASSUME Shape, Moves PROVE Shape'
<1> USE MovesOnlyPc
    DEF AllButPc, files, disk, flags, reading, inotify, history, budgets
<1>1. Flags'
  BY Zenon DEF Flags, Shape
<1>2. World'
  BY DEF World, Shape
<1>3. Store'
  BY DEF Store, Shape
<1>4. Places'
  BY DEF Places, Shape, Labels
<1>5. TornLog' /\ Fresh' /\ OpenFile' /\ Held'
  BY DEF Shape, TornLog, Fresh, OpenFile, Held, Opened
<1> QED
  BY <1>1, <1>2, <1>3, <1>4, <1>5 DEF Shape

\* Arithmetic, for values that are primed where it is used.
LEMMA LessNothing == ASSUME NEW a \in Nat, NEW b, b = 0 PROVE a - b = a
  OBVIOUS

LEMMA LessPart == ASSUME NEW a \in Nat, NEW b \in Nat, b <= a PROVE a - b \in Nat
  OBVIOUS

LEMMA EmptyInterval == ASSUME NEW a \in Nat PROVE a .. (a - 1) = {}
  OBVIOUS

LEMMA NothingBetween ==
  ASSUME NEW a \in Nat, NEW b, b = a, NEW c, c = 0
  PROVE  b <= a /\ c <= a - b
  OBVIOUS

LEMMA PartOfRest ==
  ASSUME NEW a \in Nat, NEW b \in Nat, NEW c \in Nat, c <= a - b
  PROVE  c <= a
  OBVIOUS

\* The steps that start a process.
LEMMA StartShape ==
  ASSUME Shape,
         \/ Attach \/ OpenWatchedFile \/ SeekToOffset \/ MoveLogAside
         \/ BeginReplay \/ NothingToReplay
  PROVE  Shape'
<1> USE DEF files, disk, flags, inotify, history, budgets, At
<1>1. CASE Attach
  <2>1. Flags'
    BY <1>1, Zenon DEF Attach, Flags, Shape, reading
  <2>2. World' /\ Store'
    BY <1>1 DEF Attach, World, Store, Shape, reading
  <2>3. Places'
    BY <1>1 DEF Attach, Places, World, Shape, Labels, LoadedOffset, reading
  <2>4. TornLog' /\ Fresh' /\ OpenFile' /\ Held'
    BY <1>1
    DEF Attach, Shape, TornLog, Fresh, OpenFile, Held, Opened, reading
  <2> QED
    BY <2>1, <2>2, <2>3, <2>4 DEF Shape
<1>2. CASE OpenWatchedFile
  <2> USE DEF OpenWatchedFile
  <2>1. Flags'
    BY <1>2, Zenon DEF Flags, Shape
  <2>2. World' /\ Store'
    BY <1>2 DEF World, Store, Shape
  <2>3. Places'
    BY <1>2 DEF Places, World, Shape, Labels
  <2>4. TornLog' /\ Fresh' /\ Held'
    BY <1>2 DEF Shape, TornLog, Fresh, Held, Opened
  <2>5. OpenFile'
    BY <1>2, ConstantsAssumption DEF Shape, World, OpenFile, Opened, Inodes
  <2> QED
    BY <2>1, <2>2, <2>3, <2>4, <2>5 DEF Shape
<1>3. CASE SeekToOffset
  <2> USE DEF SeekToOffset
  <2>1. Flags'
    BY <1>3, Zenon DEF Flags, Shape
  <2>2. World' /\ Store'
    BY <1>3 DEF World, Store, Shape
  <2>3. saved' \in Int
    BY <1>3 DEF SaveOffset, Shape, Places
  <2>4. /\ Len(content[current]) \in Nat
        /\ pos' \in 0 .. Len(content[current])
        /\ start' = pos' /\ file_offset' = pos'
    BY <1>3 DEF Shape, World
  <2>5. Places'
    BY <1>3, <2>3, <2>4 DEF Places, Shape, Labels
  <2>6. partial' = 0 /\ tempPos' = 0 /\ ~replaying'
    BY <1>3 DEF Shape, Fresh
  <2>7. start' <= pos' /\ partial' <= pos' - start'
    <3>1. pos' \in Nat /\ start' = pos' /\ partial' = 0
      BY <2>4, <2>6
    <3> QED
      BY <3>1, NothingBetween
  <2>8. TornLog' /\ Fresh' /\ OpenFile' /\ Held'
    BY <1>3, <2>4, <2>6, <2>7
    DEF Shape, TornLog, Fresh, OpenFile, Held, Opened
  <2> QED
    BY <2>1, <2>2, <2>5, <2>8 DEF Shape
<1>4. CASE MoveLogAside
  <2> USE DEF MoveLogAside, reading
  <2>1. Flags'
    BY <1>4, Zenon DEF Flags, Shape
  <2>2. World' /\ Store'
    BY <1>4 DEF World, Store, Shape
  <2>3. Places'
    BY <1>4 DEF Places, Shape, Labels
  <2>4. TornLog' /\ Fresh' /\ OpenFile' /\ Held'
    BY <1>4 DEF Shape, TornLog, Fresh, OpenFile, Held, Opened
  <2> QED
    BY <2>1, <2>2, <2>3, <2>4 DEF Shape
<1>5. CASE BeginReplay
  <2> USE DEF BeginReplay
  <2>1. Flags'
    BY <1>5, Zenon DEF Flags, Shape
  <2>2. World' /\ Store'
    BY <1>5 DEF World, Store, Shape, Announce, Payload
  <2>3. Places'
    BY <1>5 DEF Places, Shape, Labels
  <2>4. TornLog' /\ Fresh' /\ OpenFile' /\ Held'
    BY <1>5 DEF Shape, Store, TornLog, Fresh, OpenFile, Held, Opened
  <2> QED
    BY <2>1, <2>2, <2>3, <2>4 DEF Shape
<1>6. CASE NothingToReplay
  <2> USE DEF NothingToReplay, reading
  <2>1. Flags'
    BY <1>6, Zenon DEF Flags, Shape
  <2>2. World' /\ Store'
    BY <1>6 DEF World, Store, Shape, Announce, Payload
  <2>3. Places'
    BY <1>6 DEF Places, Shape, Labels
  <2>4. TornLog' /\ Fresh' /\ OpenFile' /\ Held'
    BY <1>6 DEF Shape, TornLog, Fresh, OpenFile, Held, Opened
  <2> QED
    BY <2>1, <2>2, <2>3, <2>4 DEF Shape
<1> QED
  BY <1>1, <1>2, <1>3, <1>4, <1>5, <1>6

\* The steps that read a descriptor or cut what was read.
LEMMA ReadShape ==
  ASSUME Shape,
         \/ ReadEvents \/ ReadLog \/ ReadTemp \/ KeepPartial \/ EndOfLog
         \/ FilterThrowsAtEnd
  PROVE  Shape'
<1> USE ConstantsAssumption
    DEF files, disk, flags, reading, inotify, history, budgets, At
<1>1. CASE ReadEvents
  <2> USE DEF ReadEvents
  <2>1. Flags'
    BY <1>1, Zenon DEF Flags, Shape, MovedSelf
  <2>2. World' /\ Store' /\ Places'
    BY <1>1 DEF World, Store, Places, Shape, Labels
  <2>3. TornLog' /\ Fresh' /\ OpenFile' /\ Held'
    BY <1>1 DEF Shape, TornLog, Fresh, OpenFile, Held, Opened
  <2> QED
    BY <2>1, <2>2, <2>3 DEF Shape
<1>2. CASE ReadLog
  <2> USE DEF ReadLog
  <2>1. Flags'
    BY <1>2, Zenon DEF Flags, Shape
  <2>2. World' /\ Store'
    BY <1>2 DEF World, Store, Shape
  <2>3. /\ fd \in Inodes /\ Len(content[fd]) \in Nat
        /\ pos <= Len(content[fd]) /\ partial <= pos - start
    BY <1>2 DEF Shape, World, Places, OpenFile, Opened, Held, AtEof
  <2>4. PICK n \in Nat : /\ n <= Len(content[fd]) - pos
                         /\ pos' = pos + n /\ partial' = partial + n
    <3> DEFINE k == Least(Chunk, Len(content[fd]) - pos)
    <3>1. k \in Nat /\ k <= Len(content[fd]) - pos
      BY <2>3 DEF Least, Shape, Places
    <3> QED
      BY <1>2, <3>1
  <2>5. Places'
    BY <1>2, <2>4 DEF Places, Shape, Labels
  <2>6. /\ pos' <= Len(content[fd]) /\ start <= pos'
        /\ partial' <= pos' - start
    BY <2>3, <2>4 DEF Shape, Places, Held
  <2>7. TornLog' /\ Fresh' /\ OpenFile' /\ Held'
    BY <1>2, <2>3, <2>6 DEF Shape, TornLog, Fresh, OpenFile, Held, Opened
  <2> QED
    BY <2>1, <2>2, <2>5, <2>7 DEF Shape
<1>3. CASE ReadTemp
  <2> USE DEF ReadTemp
  <2>1. Flags'
    BY <1>3, Zenon DEF Flags, Shape
  <2>2. World' /\ Store'
    BY <1>3 DEF World, Store, Shape
  <2>3. /\ Len(temp) \in Nat
        /\ tempPos <= Len(temp) /\ partial <= tempPos
    BY <1>3 DEF Shape, Store, Held
  <2>4. PICK n \in Nat : /\ n <= Len(temp) - tempPos
                         /\ tempPos' = tempPos + n /\ partial' = partial + n
    <3> DEFINE k == Least(Chunk, Len(temp) - tempPos)
    <3>1. k \in Nat /\ k <= Len(temp) - tempPos
      BY <2>3 DEF Least, Shape, Places
    <3> QED
      BY <1>3, <3>1
  <2>5. Places'
    BY <1>3, <2>4 DEF Places, Shape, Labels
  <2>6. tempPos' <= Len(temp) /\ partial' <= tempPos'
    BY <2>3, <2>4 DEF Shape, Places
  <2>7. TornLog' /\ Fresh' /\ OpenFile' /\ Held'
    BY <1>3, <2>6 DEF Shape, TornLog, Fresh, OpenFile, Held, Opened
  <2> QED
    BY <2>1, <2>2, <2>5, <2>7 DEF Shape
<1>4. CASE KeepPartial
  <2> USE DEF KeepPartial
  <2>1. Flags'
    BY <1>4, Zenon DEF Flags, Shape
  <2>2. World' /\ Store' /\ Places'
    BY <1>4 DEF World, Store, Places, Shape, Labels
  <2>3. TornLog' /\ Fresh' /\ OpenFile' /\ Held'
    BY <1>4 DEF Shape, TornLog, Fresh, OpenFile, Held, Opened
  <2> QED
    BY <2>1, <2>2, <2>3 DEF Shape
<1>5. CASE EndOfLog
  <2> USE DEF EndOfLog
  <2>1. Flags'
    BY <1>5, Zenon DEF Flags, Shape
  <2>2. World' /\ Store' /\ Places'
    BY <1>5 DEF World, Store, Places, Shape, Labels
  <2>3. TornLog' /\ Fresh' /\ OpenFile' /\ Held'
    BY <1>5 DEF Shape, TornLog, Fresh, OpenFile, Held, Opened
  <2> QED
    BY <2>1, <2>2, <2>3 DEF Shape
<1>6. CASE FilterThrowsAtEnd
  <2> USE DEF FilterThrowsAtEnd
  <2>1. Flags'
    BY <1>6, Zenon DEF Flags, Shape
  <2>2. World' /\ Store' /\ Places'
    BY <1>6 DEF World, Store, Places, Shape, Labels
  <2>3. TornLog' /\ Fresh' /\ OpenFile' /\ Held'
    BY <1>6 DEF Shape, TornLog, Fresh, OpenFile, Held, Opened
  <2> QED
    BY <2>1, <2>2, <2>3 DEF Shape
<1> QED
  BY <1>1, <1>2, <1>3, <1>4, <1>5, <1>6

\* A line of the watched file: where it lies, and what is left after it.
LEMMA SendLineStep ==
  ASSUME Shape, SendLine
  PROVE  \E e \in Nat :
           LET m == [inode |-> fd, from |-> Begin, to |-> e]
           IN /\ m \in Message /\ Begin < e /\ e < pos
              /\ Produce(m)
              /\ partial' = pos - (e + 1)
              /\ content[fd][e + 1] = Newline
              /\ start <= Begin /\ pos <= Len(content[fd])
<1>1. /\ fd \in Inodes /\ pos \in Nat /\ partial \in Nat /\ start \in Nat
      /\ partial <= pos - start
      /\ pos <= Len(content[fd]) \/ pos = start
  BY DEF SendLine, At, Shape, OpenFile, Opened, Held, Places
<1>2. Begin \in Nat /\ start <= Begin /\ (pos = start => Begin = pos)
  BY <1>1 DEF Begin
<1>3. PICK e \in Begin .. pos :
        LET m == [inode |-> fd, from |-> Begin, to |-> e]
        IN /\ EndsMessage(content[fd], Newline, Begin, e, pos)
           /\ FilterAccepts(m)
           /\ Produce(m)
           /\ partial' = pos - (e + 1)
  BY DEF SendLine
<1>4. e \in Nat /\ Begin < e /\ e < pos /\ content[fd][e + 1] = Newline
  BY <1>1, <1>2, <1>3 DEF EndsMessage
<1>5. pos <= Len(content[fd])
  BY <1>1, <1>2, <1>4
<1> QED
  BY <1>1, <1>2, <1>3, <1>4, <1>5 DEF Message

\* A payload of the temp file: where it lies, and what is left after it.
LEMMA SendUndeliveredStep ==
  ASSUME Shape, SendUndelivered
  PROVE  \E e \in Nat :
           /\ tempPos - partial <= e /\ e < tempPos
           /\ temp[e + 1] = EndOfLine
           /\ Replay(Payloads(tempPos - partial, e))
           /\ partial' = tempPos - (e + 1)
<1>1. /\ tempPos \in Nat /\ partial \in Nat /\ partial <= tempPos
  BY DEF SendUndelivered, Shape, Held, Places
<1>2. PICK e \in (tempPos - partial) .. tempPos :
        /\ EndsMessage(temp, EndOfLine, tempPos - partial, e, tempPos)
        /\ Replay(Payloads(tempPos - partial, e))
        /\ partial' = tempPos - (e + 1)
  BY DEF SendUndelivered
<1>3. e \in Nat /\ e < tempPos /\ temp[e + 1] = EndOfLine
  BY <1>1, <1>2 DEF EndsMessage
<1> QED
  BY <1>1, <1>2, <1>3

\* The payloads of what was read of the temp file.
LEMMA PayloadsOfTemp ==
  ASSUME Shape, replaying, NEW b \in Nat, NEW e \in Nat, e <= tempPos
  PROVE  /\ Payloads(b, e) \subseteq Payload
         /\ \A i \in (b + 1) .. e : i \in DOMAIN temp
<1>1. \A i \in (b + 1) .. e : i \in DOMAIN temp /\ temp[i] \in Cell
  BY DEF Shape, Store, Held, Places
<1> QED
  BY <1>1 DEF Payloads, Cell

\* A replay hands over payloads and touches nothing else.
LEMMA ReplayStore ==
  ASSUME Shape, NEW P \in SUBSET Payload, Replay(P)
  PROVE  /\ outstanding' \subseteq Payload
         /\ owed' \subseteq Message
         /\ sent' = sent /\ resent' = resent
  BY DEF Replay, Shape, Store

\* The steps that hand something over.
LEMMA SendShape ==
  ASSUME Shape,
         \/ SendLine \/ SendUndelivered \/ EndOfTemp \/ SendRest
         \/ EndOfRotatedLog
  PROVE  Shape'
<1> USE DEF files, disk, flags, inotify, budgets, At
<1>1. CASE SendLine
  <2>1. PICK e \in Nat :
          LET m == [inode |-> fd, from |-> Begin, to |-> e]
          IN /\ m \in Message /\ Begin < e /\ e < pos
             /\ Produce(m)
             /\ partial' = pos - (e + 1)
             /\ start <= Begin /\ pos <= Len(content[fd])
    BY <1>1, SendLineStep
  <2>2. Flags'
    BY <1>1, Zenon DEF SendLine, Flags, Shape
  <2>3. World'
    BY <1>1 DEF SendLine, World, Shape
  <2>4. Store'
    BY <1>1, <2>1 DEF SendLine, Produce, Store, Shape, Payload
  <2>5. partial' \in Nat /\ partial' <= pos - start
    BY <2>1 DEF Shape, Places, Message
  <2>6. Places'
    BY <1>1, <2>5 DEF SendLine, Places, Shape
  <2>7. TornLog' /\ Fresh' /\ OpenFile' /\ Held'
    BY <1>1, <2>5 DEF SendLine, Shape, TornLog, Fresh, OpenFile, Held, Opened
  <2> QED
    BY <2>2, <2>3, <2>4, <2>6, <2>7 DEF Shape
<1>2. CASE SendUndelivered
  <2>1. PICK e \in Nat :
          /\ tempPos - partial <= e /\ e < tempPos
          /\ Replay(Payloads(tempPos - partial, e))
          /\ partial' = tempPos - (e + 1)
    BY <1>2, SendUndeliveredStep
  <2>2. tempPos - partial \in Nat /\ replaying
    BY <1>2 DEF SendUndelivered, Shape, Held, Places
  <2>3. Flags'
    BY <1>2, Zenon DEF SendUndelivered, Flags, Shape
  <2>4. World'
    BY <1>2 DEF SendUndelivered, World, Shape
  <2>5. Store'
    <3>1. e <= tempPos
      BY <2>1 DEF Shape, Places
    <3>2. Payloads(tempPos - partial, e) \in SUBSET Payload
      BY <2>1, <2>2, <3>1, PayloadsOfTemp
    <3> QED
      BY <1>2, <2>1, <3>2, ReplayStore DEF SendUndelivered, Store, Shape
  <2>6. partial' \in Nat /\ partial' <= tempPos
    BY <2>1 DEF Shape, Places
  <2>7. Places'
    BY <1>2, <2>6 DEF SendUndelivered, Places, Shape
  <2>8. TornLog' /\ Fresh' /\ OpenFile' /\ Held'
    BY <1>2, <2>2, <2>6
    DEF SendUndelivered, Shape, TornLog, Fresh, OpenFile, Held, Opened
  <2> QED
    BY <2>3, <2>4, <2>5, <2>7, <2>8 DEF Shape
<1>3. CASE EndOfTemp
  <2> USE DEF EndOfTemp
  <2>1. tempPos - partial \in Nat /\ tempPos \in Nat /\ replaying
    BY <1>3 DEF Shape, Held, Places
  <2>2. Flags'
    BY <1>3, Zenon DEF Flags, Shape
  <2>3. World'
    BY <1>3 DEF World, Shape
  <2>4. Store'
    <3>1. rest' \subseteq Payload
      BY <1>3, <2>1, PayloadsOfTemp
    <3> QED
      BY <1>3, <3>1 DEF Store, Shape, history
  <2>5. Places'
    BY <1>3 DEF Places, Shape, Labels
  <2>6. TornLog' /\ Fresh' /\ OpenFile' /\ Held'
    BY <1>3 DEF Shape, Places, TornLog, Fresh, OpenFile, Held, Opened
  <2> QED
    BY <2>2, <2>3, <2>4, <2>5, <2>6 DEF Shape
<1>5. CASE SendRest
  <2> USE DEF SendRest
  <2>1. Flags'
    BY <1>5, Zenon DEF Flags, Shape
  <2>2. World' /\ Places'
    BY <1>5 DEF World, Places, Shape, Labels
  <2>3. Store'
    <3>1. rest \in SUBSET Payload
      BY DEF Shape, Store
    <3> QED
      BY <1>5, <3>1, ReplayStore DEF Store, Shape
  <2>4. TornLog' /\ Fresh' /\ OpenFile' /\ Held'
    BY <1>5 DEF Shape, TornLog, Fresh, OpenFile, Held, Opened
  <2> QED
    BY <2>1, <2>2, <2>3, <2>4 DEF Shape
<1>4. CASE EndOfRotatedLog
  <2> USE DEF EndOfRotatedLog
  <2>1. [inode |-> fd, from |-> Begin, to |-> pos] \in Message
    BY <1>4 DEF Message, Begin, Shape, Places, Held, OpenFile, Opened
  <2>2. Flags'
    BY <1>4, Zenon DEF Flags, Shape
  <2>3. World'
    BY <1>4 DEF World, Shape
  <2>4. Store'
    BY <1>4, <2>1 DEF Store, Shape, Produce, history, Payload
  <2>5. saved' \in Int
    BY <1>4 DEF SaveOffset, Shape, Places
  <2>6. Places'
    BY <1>4, <2>5 DEF Places, Shape, Labels
  <2>7. TornLog' /\ Fresh' /\ OpenFile' /\ Held'
    BY <1>4 DEF Shape, Places, TornLog, Fresh, OpenFile, Held, Opened
  <2> QED
    BY <2>2, <2>3, <2>4, <2>6, <2>7 DEF Shape
<1> QED
  BY <1>1, <1>2, <1>3, <1>4, <1>5

\* The steps of a stop, a delivery report and the end of a process.
LEMMA StopShape ==
  ASSUME Shape, SaveOnStop \/ RecordPayload \/ RecordNewline \/ Exit \/ Crash
  PROVE  Shape'
<1> USE DEF files, disk, flags, reading, inotify, history, budgets, At
<1>1. CASE SaveOnStop
  <2> USE DEF SaveOnStop
  <2>1. Flags'
    BY <1>1, Zenon DEF Flags, Shape
  <2>2. World' /\ Store'
    BY <1>1 DEF World, Store, Shape
  <2>3. ResumePoint \in Int
    BY DEF ResumePoint, Shape, Places
  <2>4. Places'
    BY <1>1, <2>3 DEF SaveOffset, Places, Shape, Labels
  <2>5. TornLog' /\ Fresh' /\ OpenFile' /\ Held'
    BY <1>1 DEF Shape, TornLog, Fresh, OpenFile, Held, Opened
  <2> QED
    BY <2>1, <2>2, <2>4, <2>5 DEF Shape
<1>2. CASE RecordPayload
  <2> USE DEF RecordPayload
  <2>1. PICK m \in outstanding :
          /\ undelivered' = Append(undelivered, m)
          /\ outstanding' = outstanding \ {m}
    BY <1>2
  <2>2. Flags'
    BY <1>2, Zenon DEF Flags, Shape
  <2>3. World' /\ Places'
    BY <1>2 DEF World, Places, Shape
  <2>4. m \in Payload
    BY DEF Shape, Store
  <2>5. Store'
    BY <1>2, <2>1, <2>4 DEF Store, Shape, Cell
  <2>6. TornLog'
    <3>1. Opened'
      BY <1>2 DEF Polling, Opened
    <3> QED
      BY <2>1, <2>4, <3>1 DEF Shape, Store, TornLog, Cell
  <2>7. Fresh' /\ OpenFile' /\ Held'
    BY <1>2 DEF Shape, Fresh, OpenFile, Held, Opened
  <2> QED
    BY <2>2, <2>3, <2>5, <2>6, <2>7 DEF Shape
<1>3. CASE RecordNewline
  <2> USE DEF RecordNewline
  <2>1. Flags'
    BY <1>3, Zenon DEF Flags, Shape
  <2>2. World' /\ Places'
    BY <1>3 DEF World, Places, Shape
  <2>3. Store'
    <3>1. undelivered[Len(undelivered)] \in Payload
      BY <1>3 DEF Shape, TornLog
    <3> QED
      BY <1>3, <3>1 DEF Store, Shape, Cell, Payload
  <2>4. TornLog' /\ Fresh' /\ OpenFile' /\ Held'
    BY <1>3 DEF Shape, TornLog, Fresh, OpenFile, Held, Opened
  <2> QED
    BY <2>1, <2>2, <2>3, <2>4 DEF Shape
<1>4. CASE Exit
  <2>1. torn' = FALSE
    BY <1>4, Zenon DEF Exit, Shape, Flags
  <2> QED
    BY <1>4, <2>1, GoneShape DEF Exit, Shape, World, Store
<1>5. CASE Crash
  <2>1. torn' = FALSE
    BY <1>5, Zenon DEF Crash
  <2>2. /\ Gone /\ UNCHANGED <<undelivered, temp, stops, failures>>
        /\ crashes' = crashes + 1
    BY <1>5, Zenon DEF Crash
  <2>3. /\ undelivered' \in Seq(Cell)
        /\ stops' \in Nat /\ crashes' \in Nat /\ failures' \in Nat
    BY <2>2 DEF Shape, World, Store
  <2> QED
    BY <2>1, <2>2, <2>3, GoneShape
<1> QED
  BY <1>1, <1>2, <1>3, <1>4, <1>5

\* The steps of the application, of logrotate and of the supervisor.
LEMMA EnvironmentShape ==
  ASSUME Shape, AppendByte \/ Rotate \/ Reopen \/ Sigint
  PROVE  Shape'
<1> USE ConstantsAssumption
    DEF files, disk, flags, reading, inotify, history, budgets
<1>1. CASE AppendByte
  <2> USE DEF AppendByte
  <2>1. PICK b \in Bytes :
          content' = [content EXCEPT ![writer] = Append(content[writer], b)]
    BY <1>1
  <2>2. Flags'
    BY <1>1, Zenon DEF Flags, Shape
  <2>3. Store' /\ Places'
    BY <1>1 DEF Store, Places, Shape
  <2>4. content' \in [Inodes -> Seq(Bytes)]
    BY <2>1 DEF Shape, World
  <2>5. World'
    BY <1>1, <2>4 DEF Notify, World, Shape
  <2>6. \A k \in Inodes : Len(content[k]) <= Len(content'[k])
    BY <2>1, <2>4 DEF Shape, World
  <2>7. TornLog' /\ Fresh' /\ Held'
    BY <1>1 DEF Shape, TornLog, Fresh, Held, Opened
  <2>8. OpenFile'
    BY <1>1, <2>4, <2>6 DEF Shape, World, Places, OpenFile, Opened
  <2> QED
    BY <2>2, <2>3, <2>5, <2>7, <2>8 DEF Shape
<1>2. CASE Rotate
  <2> USE DEF Rotate
  <2>1. Flags'
    BY <1>2, Zenon DEF Flags, Shape
  <2>2. Store' /\ Places'
    BY <1>2 DEF Store, Places, Shape
  <2>3. World'
    BY <1>2 DEF Notify, World, Shape, Inodes
  <2>4. TornLog' /\ Fresh' /\ Held'
    BY <1>2 DEF Shape, TornLog, Fresh, Held, Opened
  <2>5. OpenFile'
    BY <1>2 DEF Shape, World, OpenFile, Opened, Inodes
  <2> QED
    BY <2>1, <2>2, <2>3, <2>4, <2>5 DEF Shape
<1>3. CASE Reopen
  <2> USE DEF Reopen
  <2>1. Flags'
    BY <1>3, Zenon DEF Flags, Shape
  <2>2. Store' /\ Places'
    BY <1>3 DEF Store, Places, Shape
  <2>3. World'
    BY <1>3 DEF Notify, World, Shape
  <2>4. TornLog' /\ Fresh' /\ OpenFile' /\ Held'
    BY <1>3 DEF Shape, TornLog, Fresh, OpenFile, Held, Opened
  <2> QED
    BY <2>1, <2>2, <2>3, <2>4 DEF Shape
<1>4. CASE Sigint
  <2> USE DEF Sigint
  <2>1. Flags'
    BY <1>4, Zenon DEF Flags, Shape
  <2>2. Store' /\ Places'
    BY <1>4 DEF Store, Places, Shape
  <2>3. World'
    BY <1>4 DEF World, Shape
  <2>4. TornLog' /\ Fresh' /\ OpenFile' /\ Held'
    BY <1>4 DEF Shape, TornLog, Fresh, OpenFile, Held, Opened
  <2> QED
    BY <2>1, <2>2, <2>3, <2>4 DEF Shape
<1> QED
  BY <1>1, <1>2, <1>3, <1>4

LEMMA StutterShape == ASSUME Shape, UNCHANGED vars PROVE Shape'
<1> USE DEF vars, files, disk, flags, reading, inotify, history, budgets
<1>1. Flags'
  BY Zenon DEF Flags, Shape
<1>2. World' /\ Store' /\ Places'
  BY DEF World, Store, Places, Shape
<1>3. TornLog' /\ Fresh' /\ OpenFile' /\ Held'
  BY DEF Shape, TornLog, Fresh, OpenFile, Held, Opened
<1> QED
  BY <1>1, <1>2, <1>3 DEF Shape

LEMMA ShapeStep == Shape /\ [Next]_vars => Shape'
  BY MovesShape, StartShape, ReadShape, SendShape, StopShape,
     EnvironmentShape, StutterShape
  DEF Next, ProcessStep, Environment, Moves

LEMMA ShapeHolds == Spec => []Shape
  BY ShapeInit, ShapeStep, PTL DEF Spec

\* Every variable keeps its type in every reachable state: in particular no
\* read steps outside the file or the temp file, and every message that is
\* cut from a chunk lies inside the file it came from.
THEOREM TypeCorrect == Spec => []TypeOK
<1>1. Shape => TypeOK
  BY TypesFromShape DEF Shape
<1> QED
  BY <1>1, ShapeHolds, PTL

-----------------------------------------------------------------------------
(***************************************************************************)
(* Every byte below the saved offset was sent                              *)
(***************************************************************************)

\* All that a process stepped over was sent.
Stepped == Opened => \A p \in start .. (Front - 1) : Covered(fd, p)

\* Before the first rotation, an offset that is saved, or that the process
\* may save, has only sent bytes below it.
Offsets ==
  current = 0 => /\ SentUpTo(0, saved)
                 /\ pc # "down" => SentUpTo(0, file_offset)
                 /\ pc = "measure" => fd = 0
                 /\ Opened => fd = 0 /\ SentUpTo(0, Front)

SentInv == Stepped /\ Offsets

LEMMA FrontInNat == ASSUME Shape PROVE Front \in Nat /\ Front <= pos
  BY DEF Shape, Places, Held, Front, Begin

\* What was sent stays sent.
LEMMA CoveredGrows ==
  ASSUME sent \subseteq sent', NEW k, NEW p, Covered(k, p)
  PROVE  Covered(k, p)'
  BY DEF Covered

LEMMA SentUpToGrows ==
  ASSUME sent \subseteq sent', NEW n \in Int, NEW k \in Int, k <= n,
         SentUpTo(0, n)
  PROVE  SentUpTo(0, k)'
<1>1. \A p \in 0 .. (k - 1) : Covered(0, p)
  BY DEF SentUpTo
<1> QED
  BY <1>1, CoveredGrows DEF SentUpTo

LEMMA NothingIsSentUpTo == SentUpTo(0, 0)'
  BY DEF SentUpTo

\* A step that leaves the history, the place in the watched file and the
\* offsets alone.
Quiet ==
  /\ sent' = sent /\ resent' = resent
  /\ current' \in {current, current + 1}
  /\ saved' = saved
  /\ pc' # "down" => pc # "down" /\ file_offset' = file_offset
  /\ pc' \in {"attach", "measure"} => pc' = pc
  /\ pc' = "measure" => fd' = fd
  /\ Opened' => Opened /\ UNCHANGED <<fd, start>> /\ Front' = Front

LEMMA SentUndisturbed ==
  ASSUME Shape, Shape', SentInv, Quiet
  PROVE  SentInv'
<1> USE DEF Quiet
<1>1. current' = 0 => current = 0
  BY ConstantsAssumption DEF Shape, World, Inodes
<1>2. \A k, p : Covered(k, p)' <=> Covered(k, p)
  BY DEF Covered
<1>3. \A n : SentUpTo(0, n)' <=> SentUpTo(0, n)
  BY <1>2 DEF SentUpTo
<1>4. Stepped'
  BY <1>2 DEF SentInv, Stepped
<1>5. Offsets'
  BY <1>1, <1>3 DEF SentInv, Offsets
<1> QED
  BY <1>4, <1>5 DEF SentInv

\* The steps that neither send a line nor move the place in the file.
LEMMA QuietSteps ==
  ASSUME Shape, Shape',
         \/ Moves \/ MoveLogAside \/ BeginReplay \/ NothingToReplay
         \/ ReadEvents \/ ReadLog \/ ReadTemp \/ KeepPartial \/ EndOfLog
         \/ FilterThrowsAtEnd \/ SendUndelivered \/ EndOfTemp \/ SendRest
         \/ RecordPayload \/ RecordNewline \/ Exit \/ Crash
         \/ AppendByte \/ Rotate \/ Reopen \/ Sigint \/ UNCHANGED vars
  PROVE  Quiet
<1> USE DEF files, disk, flags, reading, inotify, history, budgets, At,
            Opened, Front, Begin, Quiet
<1>1. CASE Moves
  BY <1>1, MovesOnlyPc DEF AllButPc
<1>2. CASE BeginReplay
  <2>1. pos - partial = pos /\ ~replaying
    BY <1>2 DEF BeginReplay, Shape, Fresh, Places
  <2> QED
    BY <1>2, <2>1 DEF BeginReplay, Announce
<1>3. CASE ReadEvents
  BY <1>3 DEF ReadEvents
<1>4. CASE ReadLog
  <2>1. PICK n \in Int : pos' = pos + n /\ partial' = partial + n
    <3>1. Len(content[fd]) \in Int
      BY <1>4 DEF ReadLog, Shape, World, OpenFile
    <3>2. Least(Chunk, Len(content[fd]) - pos) \in Int
      BY <3>1, ConstantsAssumption DEF Least, Shape, Places
    <3> QED
      BY <1>4, <3>2 DEF ReadLog
  <2>2. pos' - partial' = pos - partial
    BY <2>1 DEF Shape, Places
  <2> QED
    BY <1>4, <2>2 DEF ReadLog
<1>5. CASE ReadTemp
  BY <1>5 DEF ReadTemp
<1>6. CASE KeepPartial
  BY <1>6 DEF KeepPartial
<1>7. CASE EndOfLog
  BY <1>7 DEF EndOfLog
<1>8. CASE SendUndelivered
  BY <1>8 DEF SendUndelivered, Replay
<1>9. CASE EndOfTemp
  <2>1. pos' - partial' = pos
    BY <1>9 DEF EndOfTemp, Shape, Places
  <2> QED
    BY <1>9, <2>1 DEF EndOfTemp
<1>10. CASE RecordPayload
  BY <1>10 DEF RecordPayload
<1>11. CASE RecordNewline
  BY <1>11 DEF RecordNewline
<1>12. CASE Exit
  BY <1>12 DEF Exit, Gone
<1>13. CASE Crash
  BY <1>13 DEF Crash, Gone
<1>14. CASE AppendByte
  BY <1>14 DEF AppendByte
<1>15. CASE Rotate
  BY <1>15 DEF Rotate
<1>16. CASE Reopen
  BY <1>16 DEF Reopen
<1>17. CASE Sigint
  BY <1>17 DEF Sigint
<1>18. CASE UNCHANGED vars
  BY <1>18 DEF vars
<1>19. CASE MoveLogAside
  BY <1>19 DEF MoveLogAside
<1>20. CASE NothingToReplay
  BY <1>20 DEF NothingToReplay, Announce
<1>21. CASE FilterThrowsAtEnd
  BY <1>21 DEF FilterThrowsAtEnd
<1>22. CASE SendRest
  BY <1>22 DEF SendRest, Replay
<1> QED
  BY <1>1, <1>2, <1>3, <1>4, <1>5, <1>6, <1>7, <1>8, <1>9, <1>10, <1>11,
     <1>12, <1>13, <1>14, <1>15, <1>16, <1>17, <1>18, <1>19, <1>20, <1>21,
     <1>22

\* A line that begins where the process is, and ends at byte e, moves it to
\* the byte after the newline.
LEMMA SendingCovers ==
  ASSUME NEW k \in Inodes, NEW b \in Nat, NEW e \in Nat, NEW lo \in Nat,
         Produce([inode |-> k, from |-> b, to |-> e]),
         \A p \in lo .. (b - 1) : Covered(k, p)
  PROVE  \A p \in lo .. e : Covered(k, p)'
<1> DEFINE m == [inode |-> k, from |-> b, to |-> e]
<1>1. sent \subseteq sent' /\ m \in sent'
  BY DEF Produce
<1>2. \A p \in b .. e : Covered(k, p)'
  BY <1>1 DEF Covered
<1>3. \A p \in lo .. (b - 1) : Covered(k, p)'
  BY <1>1, CoveredGrows
<1>4. \A p \in lo .. e : p \in lo .. (b - 1) \/ p \in b .. e
  OBVIOUS
<1> QED
  BY <1>2, <1>3, <1>4

LEMMA SentStep == ASSUME Shape, SentInv, [Next]_vars PROVE SentInv'
<1>0. Shape'
  BY ShapeStep
<1> USE DEF files, disk, flags, inotify, budgets, At
<1>1. CASE Attach
  <2>1. sent' = sent /\ current' = current /\ saved' = saved
        /\ file_offset' = saved /\ pc' = "attach"
    BY <1>1 DEF Attach, LoadedOffset, history
  <2>2. \A n : SentUpTo(0, n)' <=> SentUpTo(0, n)
    BY <2>1 DEF SentUpTo, Covered
  <2> QED
    BY <2>1, <2>2 DEF SentInv, Stepped, Offsets, Opened
<1>6. CASE OpenWatchedFile
  <2>1. /\ sent' = sent /\ current' = current /\ fd' = current
        /\ pc = "attach" /\ pc' = "measure"
        /\ file_offset' = file_offset /\ saved' = saved
    BY <1>6 DEF OpenWatchedFile, history
  <2>2. \A n : SentUpTo(0, n)' <=> SentUpTo(0, n)
    BY <2>1 DEF SentUpTo, Covered
  <2> QED
    BY <2>1, <2>2 DEF SentInv, Stepped, Offsets, Opened
<1>2. CASE SeekToOffset
  <2>1. /\ sent' = sent /\ current' = current /\ fd' = fd
        /\ pc = "measure" /\ pc' = "prepare"
        /\ file_offset' \in {file_offset, 0} /\ saved' \in {saved, 0}
        /\ start' = file_offset' /\ pos' = file_offset'
    BY <1>2 DEF SeekToOffset, SaveOffset, history
  <2>2. ~replaying'
    BY <1>0, <2>1 DEF Shape, Fresh
  <2>3. partial' = 0 /\ pos' \in Nat
    BY <1>0, <2>1 DEF Shape, Fresh, Places
  <2>4. Front' = start'
    <3>1. pos' - partial' = pos'
      BY <2>3, LessNothing
    <3>2. Begin' = start'
      BY <2>1, <3>1 DEF Begin
    <3> QED
      BY <2>2, <3>2 DEF Front
  <2>5. Stepped'
    <3>1. start' \in Nat
      BY <2>1, <2>3
    <3>2. start' .. (start' - 1) = {}
      BY <3>1, EmptyInterval
    <3> QED
      BY <2>4, <3>2 DEF Stepped
  <2>6. \A n : SentUpTo(0, n)' <=> SentUpTo(0, n)
    BY <2>1 DEF SentUpTo, Covered
  <2>7. SentUpTo(0, 0)
    BY DEF SentUpTo
  <2>8. Offsets'
    BY <2>1, <2>4, <2>6, <2>7 DEF SentInv, Offsets, Opened
  <2> QED
    BY <2>5, <2>8 DEF SentInv
<1>3. CASE SendLine
  <2>1. PICK e \in Nat :
          LET m == [inode |-> fd, from |-> Begin, to |-> e]
          IN /\ m \in Message /\ Begin < e /\ e < pos
             /\ Produce(m)
             /\ partial' = pos - (e + 1)
    BY <1>3, SendLineStep
  <2>2. /\ current' = current /\ saved' = saved /\ file_offset' = file_offset
        /\ pc = "split" /\ pc' = pc /\ fd' = fd /\ pos' = pos
        /\ start' = start /\ ~replaying /\ ~replaying'
    BY <1>3 DEF SendLine
  <2>3. fd \in Inodes /\ Begin \in Nat /\ start \in Nat /\ pos \in Nat
    BY <2>1, <2>2 DEF Shape, OpenFile, Opened, Places, Message
  <2>4. Front = Begin /\ Front' = e + 1
    BY <2>1, <2>2, <2>3 DEF Front, Begin
  <2>5. PICK k \in Inodes, b \in Nat, lo \in Nat :
          k = fd /\ b = Begin /\ lo = start
    BY <2>3
  <2>6. Produce([inode |-> k, from |-> b, to |-> e]) /\ (e + 1) - 1 = e
    BY <2>1, <2>5
  <2>7. Stepped'
    <3>1. \A p \in lo .. (b - 1) : Covered(k, p)
      BY <2>2, <2>4, <2>5 DEF SentInv, Stepped, Opened
    <3>2. \A p \in lo .. e : Covered(k, p)'
      BY <2>6, <3>1, SendingCovers
    <3> QED
      BY <2>2, <2>4, <2>5, <2>6, <3>2 DEF Stepped
  <2>8. sent \subseteq sent'
    BY <2>1 DEF Produce
  <2>9. ASSUME current = 0 PROVE fd = 0 /\ SentUpTo(0, e + 1)'
    <3>1. fd = 0 /\ \A p \in 0 .. (b - 1) : Covered(k, p)
      BY <2>2, <2>4, <2>5, <2>9 DEF SentInv, Offsets, Opened, SentUpTo
    <3>2. \A p \in 0 .. e : Covered(k, p)'
      BY <2>6, <3>1, SendingCovers
    <3> QED
      BY <2>5, <2>6, <3>1, <3>2 DEF SentUpTo
  <2>10. ASSUME current = 0 PROVE SentUpTo(0, saved)' /\ SentUpTo(0, file_offset)'
    <3>1. saved \in Int /\ file_offset \in Int
      BY DEF Shape, Places
    <3> QED
      BY <2>2, <2>8, <2>10, <3>1, SentUpToGrows DEF SentInv, Offsets
  <2>11. Offsets'
    BY <2>2, <2>4, <2>9, <2>10 DEF Offsets
  <2> QED
    BY <2>7, <2>11 DEF SentInv
<1>4. CASE EndOfRotatedLog
  <2>1. /\ current' = current /\ saved' \in {0, saved} /\ file_offset' = 0
        /\ pc = "read" /\ pc' = "shutdown" /\ fd' = fd /\ pos' = pos
        /\ start' = start /\ partial' = 0 /\ replaying' = replaying
        /\ ~replaying
    BY <1>4 DEF EndOfRotatedLog, SaveOffset
  <2>2. /\ fd \in Inodes /\ Begin \in Nat /\ start \in Nat /\ pos \in Nat
        /\ Front = Begin
    BY <2>1 DEF Shape, OpenFile, Opened, Places, Held, Begin, Front
  <2>3. Front' = pos
    BY <2>1, <2>2, LessNothing DEF Front, Begin
  <2>4. PICK k \in Inodes, b \in Nat, lo \in Nat, hi \in Nat :
          k = fd /\ b = Begin /\ lo = start /\ hi = pos
    BY <2>2
  <2>5. \/ b = hi /\ sent' = sent
        \/ Produce([inode |-> k, from |-> b, to |-> hi])
    <3>1. CASE partial = 0
      BY <1>4, <2>2, <2>4, <3>1 DEF EndOfRotatedLog, history, Begin
    <3>2. CASE partial # 0
      BY <1>4, <2>4, <3>2 DEF EndOfRotatedLog
    <3> QED
      BY <3>1, <3>2
  <2>6. ASSUME NEW l \in Nat, \A p \in l .. (b - 1) : Covered(k, p)
        PROVE  \A p \in l .. (hi - 1) : Covered(k, p)'
    <3>1. CASE b = hi /\ sent' = sent
      BY <2>6, <3>1 DEF Covered
    <3>2. CASE Produce([inode |-> k, from |-> b, to |-> hi])
      <4>1. \A p \in l .. hi : Covered(k, p)'
        BY <2>6, <3>2, SendingCovers
      <4> QED
        BY <4>1
    <3> QED
      BY <2>5, <3>1, <3>2
  <2>7. Stepped'
    <3>1. \A p \in lo .. (b - 1) : Covered(k, p)
      BY <2>1, <2>2, <2>4 DEF SentInv, Stepped, Opened
    <3>2. \A p \in lo .. (hi - 1) : Covered(k, p)'
      BY <2>6, <3>1
    <3> QED
      BY <2>1, <2>3, <2>4, <3>2 DEF Stepped
  <2>8. ASSUME current = 0 PROVE fd = 0 /\ SentUpTo(0, hi)'
    <3>1. fd = 0 /\ \A p \in 0 .. (b - 1) : Covered(k, p)
      BY <2>1, <2>2, <2>4, <2>8 DEF SentInv, Offsets, Opened, SentUpTo
    <3>2. \A p \in 0 .. (hi - 1) : Covered(k, p)'
      BY <2>6, <3>1
    <3> QED
      BY <2>4, <3>1, <3>2 DEF SentUpTo
  <2>9. sent \subseteq sent'
    BY <2>5 DEF Produce
  <2>10. ASSUME current = 0 PROVE SentUpTo(0, saved)' /\ SentUpTo(0, file_offset)'
    <3>1. saved \in Int
      BY DEF Shape, Places
    <3>2. SentUpTo(0, saved)
      BY <2>10 DEF SentInv, Offsets
    <3>3. saved' = saved => SentUpTo(0, saved)'
      BY <2>9, <3>1, <3>2, SentUpToGrows
    <3>4. \A n : n = 0 => SentUpTo(0, n)'
      BY NothingIsSentUpTo
    <3> QED
      BY <2>1, <3>3, <3>4
  <2>11. Offsets'
    BY <2>1, <2>3, <2>4, <2>8, <2>10 DEF Offsets
  <2> QED
    BY <2>7, <2>11 DEF SentInv
<1>5. CASE SaveOnStop
  <2>1. /\ current' = current /\ sent' = sent /\ fd' = fd /\ pos' = pos
        /\ start' = start /\ partial' = partial /\ replaying' = replaying
        /\ pc = "shutdown" /\ pc' = "loop"
        /\ saved' \in {saved, ResumePoint} /\ file_offset' = ResumePoint
    BY <1>5 DEF SaveOnStop, SaveOffset, reading, history
  <2>2. Front' = Front
    BY <2>1 DEF Front, Begin
  <2>3. \A k, p : Covered(k, p)' <=> Covered(k, p)
    BY <2>1 DEF Covered
  <2>4. \A n : SentUpTo(0, n)' <=> SentUpTo(0, n)
    BY <2>3 DEF SentUpTo
  <2>5. Stepped'
    BY <2>1, <2>2, <2>3 DEF SentInv, Stepped, Opened
  <2>6. ResumePoint \in Int /\ ResumePoint <= Front /\ Front \in Int
    BY DEF ResumePoint, Front, Begin, Shape, Places
  <2>7. current = 0 => SentUpTo(0, ResumePoint)
    BY <2>1, <2>6 DEF SentInv, Offsets, Opened, SentUpTo
  <2>8. Offsets'
    BY <2>1, <2>2, <2>4, <2>7 DEF SentInv, Offsets, Opened
  <2> QED
    BY <2>5, <2>8 DEF SentInv
<1> QED
  BY <1>0, <1>1, <1>2, <1>3, <1>4, <1>5, <1>6, QuietSteps, SentUndisturbed
  DEF Next, ProcessStep, Environment, Moves

LEMMA SentHolds == Spec => []SentInv
<1>1. Init => SentInv
  BY DEF Init, SentInv, Stepped, Offsets, Opened, SentUpTo
<1>2. Shape /\ SentInv /\ [Next]_vars => SentInv'
  BY SentStep
<1> QED
  BY <1>1, <1>2, ShapeHolds, PTL DEF Spec

\* As long as the file was not rotated, every byte below the saved offset
\* has been handed to the producer: a process that starts from it misses
\* nothing, however the ones before it were stopped, killed or interrupted.
THEOREM SavedOffsetSafe == Spec => []SavedOffsetIsSent
<1>1. SentInv => SavedOffsetIsSent
  BY DEF SentInv, Offsets, SavedOffsetIsSent
<1> QED
  BY <1>1, SentHolds, PTL

\* No process steps over a byte of its file: what lies between the place
\* where it began to read and the bytes it still holds back was handed over.
THEOREM NothingIsSkipped == Spec => []NothingSkipped
<1>1. ASSUME Shape, SentInv PROVE NothingSkipped
  <2>1. SUFFICES ASSUME Opened, NEW p \in start .. (Begin - 1)
                 PROVE  Covered(fd, p)
    BY DEF NothingSkipped
  <2>2. Begin <= Front /\ Begin \in Int /\ Front \in Int /\ start \in Int
    BY <1>1 DEF Shape, Places, Begin, Front
  <2>3. p \in start .. (Front - 1)
    BY <2>1, <2>2
  <2> QED
    BY <1>1, <2>1, <2>3 DEF SentInv, Stepped
<1> QED
  BY <1>1, ShapeHolds, SentHolds, PTL

-----------------------------------------------------------------------------
(***************************************************************************)
(* What was recorded as undelivered stays on disk                          *)
(***************************************************************************)

InLog(m) == HasRecord(undelivered, m)

InTemp(m) == HasRecord(temp, m)

\* The first byte of the temp file that the replay has not handed over.
TempFront == tempPos - partial

\* m has a whole record in the part of the temp file that is still to be
\* handed over.
Ahead(m) == \E k \in (TempFront + 1) .. (Len(temp) - 1) :
              temp[k] = m /\ temp[k + 1] = EndOfLine

\* While a replay is under way, an owed message that is not in the new log
\* lies ahead of it: the replay ends by removing the temp file.
OwedIsAhead == replaying => \A m \in owed : InLog(m) \/ Ahead(m)

\* Where the process is once it has cut all messages from what it read.
Resting == {"loop", "wait", "poll", "read", "shutdown"}

\* There it holds back no whole record.
TempScanned ==
  replaying /\ pc \in Resting =>
    \A e \in (TempFront + 1) .. (tempPos - 1) : temp[e + 1] # EndOfLine

OwedInv == OwedIsOnDisk /\ OwedIsAhead /\ TempScanned

LEMMA OwedIs == OwedIsOnDisk <=> \A m \in owed : InLog(m) \/ InTemp(m)
  BY DEF OwedIsOnDisk, InLog, InTemp

LEMMA OwedNextIs == OwedIsOnDisk' <=> \A m \in owed' : InLog(m)' \/ InTemp(m)'
  BY DEF OwedIsOnDisk, InLog, InTemp

\* An owed message is not a newline.
LEMMA OwedIsMessage == ASSUME Shape, NEW m \in owed PROVE m # EndOfLine
  BY ConstantsAssumption
  DEF Shape, Store, Message, EndOfLine, Inodes, NoInode

\* Steps that leave the two logs and the place in the temp file alone.
LEMMA OwedUndisturbed ==
  ASSUME OwedInv, UNCHANGED <<undelivered, temp, owed>>,
         replaying' => replaying /\ TempFront' = TempFront,
         replaying' /\ pc' \in Resting => pc \in Resting /\ tempPos' = tempPos
  PROVE  OwedInv'
<1>1. OwedIsOnDisk'
  BY DEF OwedInv, OwedIsOnDisk
<1>2. \A m : InLog(m) => InLog(m)'
  BY DEF InLog
<1>3. ASSUME replaying' PROVE \A m : Ahead(m) => Ahead(m)'
  BY <1>3 DEF Ahead
<1>4. OwedIsAhead'
  BY <1>2, <1>3 DEF OwedInv, OwedIsAhead
<1>5. TempScanned'
  <2>1. SUFFICES ASSUME replaying', pc' \in Resting
                 PROVE  \A e \in (TempFront' + 1) .. (tempPos' - 1) :
                          temp'[e + 1] # EndOfLine
    BY DEF TempScanned
  <2> QED
    BY <2>1 DEF OwedInv, TempScanned
<1> QED
  BY <1>1, <1>4, <1>5 DEF OwedInv

LEMMA LogOnlySteps ==
  ASSUME Shape, OwedInv,
         \/ Moves \/ Attach \/ OpenWatchedFile \/ SeekToOffset
         \/ NothingToReplay \/ ReadEvents \/ ReadLog
         \/ ReadTemp \/ EndOfLog \/ SendLine
         \/ EndOfRotatedLog \/ FilterThrowsAtEnd \/ SaveOnStop \/ Exit \/ Crash
         \/ AppendByte \/ Rotate \/ Reopen \/ Sigint \/ UNCHANGED vars
  PROVE  OwedInv'
<1> USE DEF files, disk, flags, reading, inotify, history, budgets, At,
            TempFront, Resting
<1>1. CASE Moves
  BY <1>1, MovesOnlyPc, OwedUndisturbed DEF AllButPc
<1>2. CASE Attach
  BY <1>2, OwedUndisturbed DEF Attach
<1>3. CASE OpenWatchedFile
  BY <1>3, OwedUndisturbed DEF OpenWatchedFile
<1>4. CASE ReadEvents
  BY <1>4, OwedUndisturbed DEF ReadEvents
<1>5. CASE ReadLog
  BY <1>5, OwedUndisturbed DEF ReadLog
<1>6. CASE ReadTemp
  <2>1. PICK n \in Int : tempPos' = tempPos + n /\ partial' = partial + n
    <3>1. Len(temp) \in Int
      BY DEF Shape, Store
    <3>2. Least(Chunk, Len(temp) - tempPos) \in Int
      BY <3>1, ConstantsAssumption DEF Least, Shape, Places
    <3> QED
      BY <1>6, <3>2 DEF ReadTemp
  <2>2. tempPos' - partial' = tempPos - partial
    BY <2>1 DEF Shape, Places
  <2> QED
    BY <1>6, <2>2, OwedUndisturbed DEF ReadTemp
<1>7. CASE SeekToOffset
  BY <1>7, OwedUndisturbed DEF SeekToOffset, Shape, Fresh
<1>19. CASE NothingToReplay
  BY <1>19, OwedUndisturbed DEF NothingToReplay, Announce, Shape, Fresh
<1>20. CASE FilterThrowsAtEnd
  BY <1>20, OwedUndisturbed DEF FilterThrowsAtEnd
<1>8. CASE EndOfLog
  BY <1>8, OwedUndisturbed DEF EndOfLog
<1>9. CASE SendLine
  <2>1. owed' = owed
    BY <1>9 DEF SendLine, Produce
  <2> QED
    BY <1>9, <2>1, OwedUndisturbed DEF SendLine
<1>10. CASE EndOfRotatedLog
  <2>1. owed' = owed
    BY <1>10 DEF EndOfRotatedLog, Produce
  <2> QED
    BY <1>10, <2>1, OwedUndisturbed DEF EndOfRotatedLog
<1>11. CASE SaveOnStop
  BY <1>11, OwedUndisturbed DEF SaveOnStop
<1>12. CASE Exit
  BY <1>12, OwedUndisturbed DEF Exit, Gone
<1>13. CASE Crash
  BY <1>13, OwedUndisturbed DEF Crash, Gone
<1>14. CASE AppendByte
  BY <1>14, OwedUndisturbed DEF AppendByte
<1>15. CASE Rotate
  BY <1>15, OwedUndisturbed DEF Rotate
<1>16. CASE Reopen
  BY <1>16, OwedUndisturbed DEF Reopen
<1>17. CASE Sigint
  BY <1>17, OwedUndisturbed DEF Sigint
<1>18. CASE UNCHANGED vars
  BY <1>18, OwedUndisturbed DEF vars
<1> QED
  BY <1>1, <1>2, <1>3, <1>4, <1>5, <1>6, <1>7, <1>8, <1>9, <1>10, <1>11,
     <1>12, <1>13, <1>14, <1>15, <1>16, <1>17, <1>18, <1>19, <1>20

\* Appending to the undelivered log loses nothing of it.
LEMMA LogGrows ==
  ASSUME Shape, NEW c \in Cell, undelivered' = Append(undelivered, c)
  PROVE  /\ \A m : InLog(m) => InLog(m)'
         /\ undelivered # <<>> /\ c = EndOfLine
              => HasRecord(undelivered', undelivered[Len(undelivered)])
<1>1. /\ Len(undelivered) \in Nat
      /\ undelivered # <<>> => Len(undelivered) > 0
      /\ Len(undelivered') = Len(undelivered) + 1
      /\ undelivered'[Len(undelivered) + 1] = c
      /\ \A k \in 1 .. Len(undelivered) : undelivered'[k] = undelivered[k]
  BY DEF Shape, Store
<1>2. \A m : InLog(m) => InLog(m)'
  BY <1>1 DEF InLog, HasRecord
<1>3. ASSUME undelivered # <<>>, c = EndOfLine
      PROVE  HasRecord(undelivered', undelivered[Len(undelivered)])
  <2>1. /\ Len(undelivered) \in 1 .. (Len(undelivered') - 1)
        /\ undelivered'[Len(undelivered)] = undelivered[Len(undelivered)]
        /\ undelivered'[Len(undelivered) + 1] = EndOfLine
    BY <1>1, <1>3
  <2> QED
    BY <2>1 DEF HasRecord
<1> QED
  BY <1>2, <1>3

LEMMA OwedStep == ASSUME Shape, OwedInv, [Next]_vars PROVE OwedInv'
<1> USE DEF files, disk, flags, inotify, history, budgets, At
<1>1. CASE MoveLogAside
  <2>1. /\ temp = <<>> /\ temp' = undelivered /\ owed' = owed
        /\ pc = "prepare" /\ replaying' = replaying
    BY <1>1 DEF MoveLogAside, TempExists, reading
  <2>2. ~replaying
    BY <2>1 DEF Shape, Fresh
  <2>3. \A m : ~InTemp(m)
    BY <2>1 DEF InTemp, HasRecord
  <2>4. \A m \in owed : InLog(m)
    BY <2>3, OwedIs DEF OwedInv
  <2>5. \A m : InLog(m) => InTemp(m)'
    BY <2>1 DEF InLog, InTemp
  <2>6. OwedIsOnDisk'
    BY <2>1, <2>4, <2>5, OwedNextIs
  <2> QED
    BY <2>1, <2>2, <2>6 DEF OwedInv, OwedIsAhead, TempScanned
<1>2. CASE BeginReplay
  <2>1. UNCHANGED <<undelivered, temp, owed, tempPos, partial>>
    BY <1>2 DEF BeginReplay, Announce
  <2>2. tempPos' = 0 /\ partial' = 0
    BY <1>2, <2>1 DEF BeginReplay, Shape, Fresh
  <2>3. TempFront' = 0 /\ TempFront' + 1 = 1
    <3>1. tempPos' - partial' = 0
      BY <2>2, LessNothing
    <3> QED
      BY <3>1 DEF TempFront
  <2>4. \A m : (InLog(m) => InLog(m)') /\ (InTemp(m) => InTemp(m)' /\ Ahead(m)')
    BY <2>1, <2>3 DEF InLog, InTemp, HasRecord, Ahead
  <2>5. OwedIsOnDisk'
    BY <2>1, <2>4, OwedIs, OwedNextIs DEF OwedInv
  <2>6. OwedIsAhead'
    BY <2>1, <2>4, OwedIs DEF OwedInv, OwedIsAhead
  <2>7. TempScanned'
    <3>1. \A e \in (TempFront' + 1) .. (tempPos' - 1) : FALSE
      BY <2>2, <2>3
    <3> QED
      BY <3>1 DEF TempScanned
  <2> QED
    BY <2>5, <2>6, <2>7 DEF OwedInv
<1>3. CASE KeepPartial
  <2>1. /\ UNCHANGED <<undelivered, temp, owed, tempPos, partial, replaying>>
        /\ Scanned
    BY <1>3 DEF KeepPartial, reading
  <2>2. TempFront' = TempFront
    BY <2>1 DEF TempFront
  <2>3. \A m : (InLog(m) => InLog(m)') /\ (Ahead(m) => Ahead(m)')
    BY <2>1, <2>2 DEF InLog, Ahead
  <2>4. OwedIsOnDisk'
    BY <2>1 DEF OwedInv, OwedIsOnDisk
  <2>5. OwedIsAhead'
    BY <2>1, <2>3 DEF OwedInv, OwedIsAhead
  <2>6. TempScanned'
    BY <2>1, <2>2 DEF TempScanned, Scanned, TempFront
  <2> QED
    BY <2>4, <2>5, <2>6 DEF OwedInv
<1>4. CASE SendUndelivered
  <2>1. PICK e \in Nat :
          /\ tempPos - partial <= e /\ e < tempPos
          /\ temp[e + 1] = EndOfLine
          /\ Replay(Payloads(tempPos - partial, e))
          /\ partial' = tempPos - (e + 1)
    BY <1>4, SendUndeliveredStep
  <2>2. /\ replaying /\ pc' = "split"
        /\ UNCHANGED <<undelivered, temp, tempPos>>
    BY <1>4 DEF SendUndelivered
  <2>3. /\ TempFront \in Int /\ TempFront <= e /\ TempFront' = e + 1
        /\ tempPos <= Len(temp) /\ Len(temp) \in Nat
    BY <2>1, <2>2 DEF TempFront, Shape, Store, Places, Held
  <2>4. \A m : (InLog(m) => InLog(m)') /\ (InTemp(m) => InTemp(m)')
    BY <2>2 DEF InLog, InTemp
  <2>5. ASSUME NEW m \in owed', Ahead(m) PROVE Ahead(m)'
    <3>1. m \in owed
          /\ m \notin {temp[k] : k \in (TempFront + 1) .. e} \ {EndOfLine}
      BY <2>1 DEF Replay, Payloads, TempFront
    <3>2. m # EndOfLine
      BY <3>1, OwedIsMessage
    <3>3. PICK k \in (TempFront + 1) .. (Len(temp) - 1) :
            temp[k] = m /\ temp[k + 1] = EndOfLine
      BY <2>5 DEF Ahead
    <3>4. k \notin (TempFront + 1) .. e /\ k # e + 1
      BY <2>1, <3>1, <3>2, <3>3
    <3>5. k \in (e + 2) .. (Len(temp) - 1)
      BY <2>3, <3>3, <3>4
    <3>6. TempFront' + 1 = e + 2
      BY <2>3
    <3> QED
      BY <2>2, <3>3, <3>5, <3>6 DEF Ahead
  <2>6. owed' \subseteq owed
    BY <2>1 DEF Replay
  <2>7. OwedIsOnDisk'
    BY <2>4, <2>6, OwedIs, OwedNextIs DEF OwedInv
  <2>8. OwedIsAhead'
    BY <2>2, <2>4, <2>5, <2>6 DEF OwedInv, OwedIsAhead
  <2>9. TempScanned'
    BY <2>2 DEF TempScanned, Resting
  <2> QED
    BY <2>7, <2>8, <2>9 DEF OwedInv
<1>5. CASE EndOfTemp
  <2>1. /\ replaying /\ ~replaying' /\ tempPos = Len(temp) /\ pc = "read"
        /\ undelivered' = undelivered /\ owed' = owed
    BY <1>5 DEF EndOfTemp
  <2>2. \A m : InLog(m) <=> InLog(m)'
    BY <2>1 DEF InLog
  <2>3. TempFront \in Nat /\ Len(temp) \in Nat
    BY <2>1 DEF TempFront, Shape, Places, Held
  <2>4. \A m : ~Ahead(m)
    <3>1. SUFFICES ASSUME NEW k \in (TempFront + 1) .. (Len(temp) - 1),
                          temp[k + 1] = EndOfLine
                   PROVE  FALSE
      BY DEF Ahead
    <3>2. k \in (TempFront + 1) .. (tempPos - 1)
      BY <2>1, <3>1
    <3> QED
      BY <2>1, <3>1, <3>2 DEF OwedInv, TempScanned, Resting
  <2>5. \A m \in owed' : InLog(m)'
    BY <2>1, <2>2, <2>4 DEF OwedInv, OwedIsAhead
  <2>6. OwedIsOnDisk'
    BY <2>5, OwedNextIs
  <2> QED
    BY <2>1, <2>6 DEF OwedInv, OwedIsAhead, TempScanned
<1>6. CASE SendRest
  <2>1. /\ owed' \subseteq owed /\ pc' = "shutdown" /\ pc = "rest"
        /\ UNCHANGED <<undelivered, temp, tempPos, partial, replaying>>
    BY <1>6 DEF SendRest, Replay
  <2>2. \A m : /\ InLog(m) => InLog(m)'
               /\ InTemp(m) => InTemp(m)'
    BY <2>1 DEF InLog, InTemp
  <2>3. ~replaying'
    BY <2>1 DEF Shape, Fresh
  <2>4. OwedIsOnDisk'
    BY <2>1, <2>2, OwedIs, OwedNextIs DEF OwedInv
  <2> QED
    BY <2>3, <2>4 DEF OwedInv, OwedIsAhead, TempScanned
<1>7. CASE RecordPayload \/ RecordNewline
  <2>1. PICK c \in Cell : undelivered' = Append(undelivered, c)
    BY <1>7 DEF RecordPayload, RecordNewline, Cell, Shape, Store
  <2>2. \A m : InLog(m) => InLog(m)'
    BY <2>1, LogGrows
  <2>3. UNCHANGED <<temp, tempPos, partial, replaying, pc>>
    BY <1>7 DEF RecordPayload, RecordNewline, reading
  <2>4. \A m : (InTemp(m) => InTemp(m)') /\ (Ahead(m) => Ahead(m)')
    BY <2>3 DEF InTemp, Ahead, TempFront
  <2>5. \A m \in owed' : m \in owed \/ InLog(m)'
    <3>1. CASE RecordPayload
      BY <3>1 DEF RecordPayload
    <3>2. CASE RecordNewline
      <4>1. undelivered' = Append(undelivered, EndOfLine) /\ EndOfLine \in Cell
        BY <3>2 DEF RecordNewline, Cell
      <4>2. undelivered # <<>>
        BY <3>2 DEF RecordNewline, Shape, TornLog
      <4>3. HasRecord(undelivered', undelivered[Len(undelivered)])
        BY <4>1, <4>2, LogGrows
      <4>4. ASSUME NEW m \in owed' PROVE m \in owed \/ InLog(m)'
        BY <3>2, <4>3 DEF RecordNewline, InLog
      <4> QED
        BY <4>4
    <3> QED
      BY <1>7, <3>1, <3>2
  <2>6. OwedIsOnDisk'
    BY <2>2, <2>4, <2>5, OwedIs, OwedNextIs DEF OwedInv
  <2>7. OwedIsAhead'
    BY <2>2, <2>3, <2>4, <2>5 DEF OwedInv, OwedIsAhead
  <2>8. TempScanned'
    BY <2>3 DEF OwedInv, TempScanned, TempFront
  <2> QED
    BY <2>6, <2>7, <2>8 DEF OwedInv
<1> QED
  BY <1>1, <1>2, <1>3, <1>4, <1>5, <1>6, <1>7, LogOnlySteps
  DEF Next, ProcessStep, Environment, Moves

LEMMA OwedHolds == Spec => []OwedInv
<1>1. Init => OwedInv
  BY DEF Init, OwedInv, OwedIsOnDisk, OwedIsAhead, TempScanned
<1>2. Shape /\ OwedInv /\ [Next]_vars => OwedInv'
  BY OwedStep
<1> QED
  BY <1>1, <1>2, ShapeHolds, PTL DEF Spec

\* A message whose record was completed has a whole record in the undelivered
\* log or in the temp file until it is handed to the producer again, whatever
\* the order of failures, renames, removals and crashes.
THEOREM OwedStaysOnDisk == Spec => []OwedIsOnDisk
<1>1. OwedInv => OwedIsOnDisk
  BY DEF OwedInv
<1> QED
  BY <1>1, OwedHolds, PTL

-----------------------------------------------------------------------------
(***************************************************************************)
(* What is below the saved offset is not sent again                        *)
(***************************************************************************)

\* Before the first rotation, what is saved lies in the file and no process
\* that uses it is behind it.
SavedInv ==
  current = 0 => /\ saved <= Len(content[0])
                 /\ pc \in {"attach", "measure"} => file_offset = saved
                 /\ Opened => saved <= Front /\ Front <= Len(content[0])

\* Nobody but the application writes to a file.
LEMMA OnlyAppendWrites ==
  ASSUME [Next]_vars, ~AppendByte
  PROVE  content' = content
<1> USE DEF files, disk, flags, reading, inotify, history, budgets
<1>1. CASE Moves
  BY <1>1, MovesOnlyPc DEF AllButPc
<1>2. CASE \/ Attach \/ OpenWatchedFile \/ SeekToOffset \/ MoveLogAside
           \/ BeginReplay \/ NothingToReplay
  BY <1>2 DEF Attach, OpenWatchedFile, SeekToOffset, MoveLogAside,
              BeginReplay, NothingToReplay
<1>3. CASE \/ ReadEvents \/ ReadLog \/ ReadTemp \/ KeepPartial \/ EndOfLog
           \/ SendLine \/ SendUndelivered \/ EndOfTemp \/ SendRest
           \/ EndOfRotatedLog \/ FilterThrowsAtEnd
  BY <1>3 DEF ReadEvents, ReadLog, ReadTemp, KeepPartial, EndOfLog,
              SendLine, SendUndelivered, EndOfTemp, SendRest,
              EndOfRotatedLog, FilterThrowsAtEnd
<1>4. CASE \/ SaveOnStop \/ RecordPayload \/ RecordNewline \/ Exit \/ Crash
           \/ Rotate \/ Reopen \/ Sigint \/ UNCHANGED vars
  BY <1>4 DEF SaveOnStop, RecordPayload, RecordNewline, Exit, Crash, Gone,
              Rotate, Reopen, Sigint, vars
<1> QED
  BY <1>1, <1>2, <1>3, <1>4 DEF Next, ProcessStep, Environment, Moves

\* No byte is taken from a file.
LEMMA FilesGrow ==
  ASSUME Shape, [Next]_vars, NEW k \in Inodes
  PROVE  Len(content[k]) \in Nat /\ Len(content[k]) <= Len(content'[k])
<1>1. Len(content[k]) \in Nat
  BY DEF Shape, World
<1>2. CASE AppendByte
  <2>1. PICK b \in Bytes :
          content' = [content EXCEPT ![writer] = Append(content[writer], b)]
    BY <1>2 DEF AppendByte
  <2> QED
    BY <2>1 DEF Shape, World
<1> QED
  BY <1>1, <1>2, OnlyAppendWrites

\* Each step, with what it does to the offsets and to what was sent twice.
LEMMA SavedStep ==
  ASSUME Shape, SentInv, SavedInv, [Next]_vars
  PROVE  /\ SavedInv'
         /\ \A m \in resent' \ resent : current = 0 => m.from >= saved
<1>0. Shape'
  BY ShapeStep
<1>a. 0 \in Inodes /\ saved \in Int /\ current \in Nat
  BY ConstantsAssumption DEF Shape, World, Places, Inodes
<1>b. Len(content[0]) \in Nat /\ Len(content[0]) <= Len(content'[0])
  BY <1>a, FilesGrow
<1>c. Len(content'[0]) \in Nat /\ Front \in Nat /\ Front' \in Nat
  <2>1. Len(content'[0]) \in Nat
    BY <1>0, <1>a DEF Shape, World
  <2>2. pos' \in Nat /\ partial' \in Nat /\ (~replaying' => partial' <= pos')
    <3>1. /\ pos' \in Nat /\ partial' \in Nat /\ start' \in Nat
          /\ ~replaying' => partial' <= pos' - start'
      BY <1>0 DEF Shape, Places, Held
    <3> QED
      BY <3>1, PartOfRest
  <2>3. Front' \in Nat
    <3>1. ~replaying' => pos' - partial' \in Nat
      BY <2>2, LessPart
    <3> QED
      BY <2>2, <3>1 DEF Front, Begin
  <2> QED
    BY <2>1, <2>3, FrontInNat
<1> USE DEF files, disk, flags, inotify, budgets, At
<1>1. CASE Quiet
  <2>1. current' = 0 => current = 0
    BY <1>1, <1>a DEF Quiet
  <2>2. SavedInv'
    BY <1>1, <1>a, <1>b, <1>c, <2>1 DEF Quiet, SavedInv, Opened
  <2> QED
    BY <1>1, <2>2 DEF Quiet
<1>2. CASE Attach
  <2>1. /\ resent' = resent /\ current' = current /\ saved' = saved
        /\ pc' = "attach" /\ file_offset' = saved
    BY <1>2 DEF Attach, LoadedOffset, history
  <2> QED
    BY <1>a, <1>b, <1>c, <2>1 DEF SavedInv, Opened
<1>7. CASE OpenWatchedFile
  <2>1. /\ resent' = resent /\ current' = current /\ saved' = saved
        /\ pc = "attach" /\ pc' = "measure" /\ file_offset' = file_offset
    BY <1>7 DEF OpenWatchedFile, history
  <2> QED
    BY <1>a, <1>b, <1>c, <2>1 DEF SavedInv, Opened
<1>3. CASE SeekToOffset
  <2>1. /\ resent' = resent /\ current' = current /\ content' = content
        /\ pc = "measure" /\ pc' = "prepare"
        /\ IF file_offset \in 0 .. Len(content[current])
             THEN saved' = saved /\ pos' = file_offset
             ELSE saved' \in {saved, 0} /\ pos' = 0
    BY <1>3 DEF SeekToOffset, SaveOffset, history
  <2>2. Front' = pos'
    <3>1. ~replaying' /\ partial' = 0 /\ pos' \in Nat
      BY <1>0, <2>1 DEF Shape, Fresh, Places
    <3>2. pos' - partial' = pos'
      BY <3>1, LessNothing
    <3> QED
      BY <3>1, <3>2 DEF Front, Begin
  <2>3. current = 0 => /\ saved' <= pos' /\ saved' <= Len(content[0])
                       /\ pos' <= Len(content[0])
    BY <1>a, <1>b, <2>1 DEF SavedInv
  <2> QED
    BY <2>1, <2>2, <2>3 DEF SavedInv
<1>4. CASE SendLine
  <2>1. PICK e \in Nat :
          LET m == [inode |-> fd, from |-> Begin, to |-> e]
          IN /\ m \in Message /\ Begin < e /\ e < pos
             /\ Produce(m)
             /\ partial' = pos - (e + 1)
             /\ start <= Begin /\ pos <= Len(content[fd])
    BY <1>4, SendLineStep
  <2>2. /\ current' = current /\ saved' = saved
        /\ pc = "split" /\ pc' = "split" /\ pos' = pos
        /\ ~replaying /\ ~replaying'
    BY <1>4 DEF SendLine
  <2>3. Begin \in Nat /\ pos \in Nat
    BY <2>1 DEF Message, Shape, Places
  <2>4. Front = Begin /\ Front' = e + 1
    BY <2>1, <2>2, <2>3 DEF Front, Begin
  <2>5. current = 0 => saved <= Begin /\ e + 1 <= Len(content[0])
    <3>1. current = 0 => fd = 0
      BY <2>2 DEF Shape, OpenFile, Inodes
    <3> QED
      BY <1>b, <2>1, <2>2, <2>3, <2>4, <3>1 DEF SavedInv, Opened
  <2>6. SavedInv'
    <3>1. current = 0 => /\ saved' <= Len(content'[0])
                         /\ saved' <= Front' /\ Front' <= Len(content'[0])
      <4>1. Begin < e /\ e \in Nat /\ saved' = saved
        BY <2>1, <2>2
      <4>2. current = 0 => saved <= e + 1 /\ e + 1 <= Len(content'[0])
        BY <1>a, <1>b, <1>c, <2>3, <2>5, <4>1
      <4> QED
        BY <1>a, <1>b, <1>c, <2>4, <4>1, <4>2 DEF SavedInv
    <3> QED
      BY <2>2, <3>1 DEF SavedInv
  <2>7. \A m \in resent' \ resent : m.from = Begin
    BY <2>1 DEF Produce
  <2> QED
    BY <1>a, <2>3, <2>5, <2>6, <2>7
<1>5. CASE EndOfRotatedLog
  <2>1. /\ current' = current /\ saved' \in {0, saved}
        /\ pc = "read" /\ pc' = "shutdown" /\ pos' = pos
        /\ partial' = 0 /\ ~replaying /\ ~replaying'
    BY <1>5 DEF EndOfRotatedLog, SaveOffset
  <2>2. pos \in Nat /\ Begin \in Nat /\ Front = Begin /\ Begin <= pos
    BY <2>1 DEF Shape, Places, Held, Begin, Front
  <2>3. Front' = pos
    BY <2>1, <2>2, LessNothing DEF Front, Begin
  <2>4. current = 0 => saved <= Begin /\ pos <= Len(content[0])
    <3>1. current = 0 => fd = 0
      BY <2>1 DEF Shape, OpenFile, Inodes
    <3>2. pos <= Len(content[fd]) \/ Begin = pos
      BY <2>1, <2>2 DEF Shape, OpenFile, Opened, Held, Places, Begin
    <3> QED
      BY <1>b, <2>1, <2>2, <3>1, <3>2 DEF SavedInv, Opened
  <2>5. SavedInv'
    BY <1>a, <1>b, <1>c, <2>1, <2>2, <2>3, <2>4 DEF SavedInv
  <2>6. \A m \in resent' \ resent : m.from = Begin
    BY <1>5 DEF EndOfRotatedLog, Produce, history
  <2> QED
    BY <1>a, <2>2, <2>4, <2>5, <2>6
<1>6. CASE SaveOnStop
  <2>1. /\ current' = current /\ resent' = resent /\ pos' = pos
        /\ partial' = partial /\ replaying' = replaying
        /\ pc = "shutdown" /\ pc' = "loop"
        /\ saved' \in {saved, ResumePoint}
    BY <1>6 DEF SaveOnStop, SaveOffset, reading, history
  <2>2. Front' = Front
    BY <2>1 DEF Front, Begin
  <2>3. /\ ResumePoint \in Int /\ ResumePoint <= Front
        /\ Front <= pos /\ pos \in Nat
    BY FrontInNat DEF ResumePoint, Front, Begin, Shape, Places
  <2> QED
    BY <1>a, <1>b, <1>c, <2>1, <2>2, <2>3 DEF SavedInv, Opened
<1> QED
  BY <1>0, <1>1, <1>2, <1>3, <1>4, <1>5, <1>6, <1>7, QuietSteps
  DEF Next, ProcessStep, Environment, Moves

\* Nothing below the saved offset is handed over again before the file is
\* renamed: a process that starts after a stop, a crash or a lost UPDATE
\* repeats at most what was sent after the offset that is in the table.
THEOREM SavedStaysSent == Spec => SavedIsNeverResent
<1>1. Init => SavedInv
  BY DEF Init, SavedInv, Opened, Inodes
<1>2. Shape /\ SentInv /\ SavedInv /\ [Next]_vars => SavedInv'
  BY SavedStep
<1>3. Shape /\ SentInv /\ SavedInv /\ [Next]_vars =>
        [\A m \in resent' \ resent : current = 0 => m.from >= saved]_vars
  BY SavedStep
<1> QED
  BY <1>1, <1>2, <1>3, ShapeHolds, SentHolds, PTL DEF Spec, SavedIsNeverResent

-----------------------------------------------------------------------------
(***************************************************************************)
(* A renamed file is drained before the process leaves                     *)
(***************************************************************************)

\* Nothing but a signal and the end of a renamed file resets run.
LEMMA OnlyRotationResetsRun ==
  ASSUME Shape, [Next]_vars, run, ~run', stops' = stops
  PROVE  EndOfRotatedLog \/ FilterThrowsAtEnd
<1> USE DEF files, disk, flags, reading, inotify, history, budgets
<1>1. CASE Moves
  BY <1>1, MovesOnlyPc, Zenon DEF AllButPc
<1>2. CASE \/ Attach \/ OpenWatchedFile \/ SeekToOffset \/ MoveLogAside
           \/ BeginReplay \/ NothingToReplay
  BY <1>2, Zenon DEF Attach, OpenWatchedFile, SeekToOffset, MoveLogAside,
                     BeginReplay, NothingToReplay
<1>3. CASE \/ ReadEvents \/ ReadLog \/ ReadTemp \/ KeepPartial \/ EndOfLog
           \/ SendLine \/ SendUndelivered \/ EndOfTemp \/ SendRest
  BY <1>3, Zenon DEF ReadEvents, ReadLog, ReadTemp, KeepPartial, EndOfLog,
                     SendLine, SendUndelivered, EndOfTemp, SendRest
<1>4. CASE \/ SaveOnStop \/ RecordPayload \/ RecordNewline \/ Exit \/ Crash
           \/ AppendByte \/ Rotate \/ Reopen \/ UNCHANGED vars
  BY <1>4, Zenon DEF SaveOnStop, RecordPayload, RecordNewline, Exit, Crash,
                     Gone, AppendByte, Rotate, Reopen, vars
<1>5. ~Sigint
  BY DEF Sigint, Shape, World
<1> QED
  BY <1>1, <1>2, <1>3, <1>4, <1>5
  DEF Next, ProcessStep, Environment, Moves

\* A process that leaves because its file was renamed has handed over every
\* byte from the place where it began to the end of the file, whatever was
\* appended between the rename and the last read; only a last line that the
\* filter refuses is left behind.
THEOREM RotationIsDrained == Spec => RotationDrains
<1>1. ASSUME Shape, SentInv, SentInv', [Next]_vars, run, ~run', stops' = stops,
             NEW p \in start' .. (Len(content'[fd']) - 1)
      PROVE  Covered(fd, p)' \/ (LastLineRefused' /\ p >= Begin')
  <2>1. CASE EndOfRotatedLog
    <3>1. /\ pos >= Len(content[fd]) /\ pos' = pos /\ partial' = 0
          /\ content' = content /\ ~replaying' /\ fd' = fd /\ start' = start /\ pc' = "shutdown"
      BY <2>1 DEF EndOfRotatedLog, AtEof, files
    <3>2. Front' = pos
      <4>1. pos \in Nat /\ pos' - partial' = pos
        BY <1>1, <3>1, LessNothing DEF Shape, Places
      <4> QED
        BY <3>1, <4>1 DEF Front, Begin
    <3>3. \A q \in start .. (pos - 1) : Covered(fd, q)'
      BY <1>1, <3>1, <3>2 DEF SentInv, Stepped, Opened
    <3>4. p \in start .. (pos - 1)
      BY <1>1, <2>1, <3>1
      DEF EndOfRotatedLog, At, Shape, World, Places, OpenFile
    <3> QED
      BY <3>3, <3>4
  <2>2. CASE FilterThrowsAtEnd
    <3>1. /\ UNCHANGED <<content, fd, pos, partial, start, replaying>>
          /\ pc' = "flush" /\ partial # 0 /\ ~replaying
          /\ ~FilterAccepts([inode |-> fd, from |-> Begin, to |-> pos])
      BY <2>2 DEF FilterThrowsAtEnd, files, reading
    <3>2. LastLineRefused' /\ Begin' = Begin /\ Front' = Begin'
      BY <3>1 DEF LastLineRefused, FilterAccepts, Begin, Front
    <3>3. \A q \in start .. (Begin' - 1) : Covered(fd, q)'
      BY <1>1, <3>1, <3>2 DEF SentInv, Stepped, Opened
    <3>4. Begin' \in Int /\ p \in Int
      BY <1>1, <3>1, <3>2 DEF Begin, Shape, Places
    <3> QED
      BY <1>1, <3>1, <3>2, <3>3, <3>4
  <2> QED
    BY <1>1, <2>1, <2>2, OnlyRotationResetsRun
<1>2. Shape /\ SentInv /\ SentInv' /\ [Next]_vars =>
        [run /\ ~run' /\ stops' = stops =>
           (\A p \in start .. (Len(content[fd]) - 1) :
              Covered(fd, p) \/ (LastLineRefused /\ p >= Begin))']_vars
  BY <1>1
<1> QED
  BY <1>2, ShapeHolds, SentHolds, PTL DEF Spec, RotationDrains

-----------------------------------------------------------------------------
(***************************************************************************)
(* The replay comes first                                                  *)
(***************************************************************************)

\* Before the loop begins the process is starting up, has seen no event and
\* is where it will begin to read; while it is starting up it awaits none.
ReplayInv ==
  /\ ReplayComesFirst
  /\ pc \in {"down", "attach", "measure", "prepare", "replay"} =>
       startup /\ ~log_being_rotated
  /\ pc \in {"prepare", "replay"} => pos = start
  /\ pc = "wait" => ~startup

LEMMA ReplayStep == ASSUME Shape, ReplayInv, [Next]_vars PROVE ReplayInv'
<1> USE DEF files, disk, flags, reading, inotify, history, budgets, At,
            ReplayInv, ReplayComesFirst
<1>1. CASE EnterLoop
  BY <1>1 DEF EnterLoop
<1>2. CASE Moves /\ ~EnterLoop
  <2>1. pc' # "wait"
    BY <1>2 DEF Moves, RefuseReplay, LeaveLoop, WaitTimesOut, Polled,
                FilterThrows, KeepRunning
  <2> QED
    BY <1>2, <2>1, MovesOnlyPc DEF AllButPc
<1>3. CASE Attach \/ OpenWatchedFile \/ SeekToOffset
  BY <1>3 DEF Attach, OpenWatchedFile, SeekToOffset, Shape, Fresh
<1>4. CASE MoveLogAside \/ NothingToReplay
  BY <1>4 DEF MoveLogAside, NothingToReplay
<1>5. CASE BeginReplay
  BY <1>5 DEF BeginReplay
<1>6. CASE ReadEvents
  BY <1>6 DEF ReadEvents
<1>7. CASE ReadLog \/ ReadTemp \/ KeepPartial \/ EndOfLog
  BY <1>7 DEF ReadLog, ReadTemp, KeepPartial, EndOfLog
<1>8. CASE \/ SendLine \/ SendUndelivered \/ EndOfTemp \/ SendRest
           \/ EndOfRotatedLog \/ FilterThrowsAtEnd
  BY <1>8 DEF SendLine, SendUndelivered, EndOfTemp, SendRest,
              EndOfRotatedLog, FilterThrowsAtEnd
<1>9. CASE SaveOnStop \/ RecordPayload \/ RecordNewline
  BY <1>9 DEF SaveOnStop, RecordPayload, RecordNewline
<1>10. CASE Exit \/ Crash
  BY <1>10 DEF Exit, Crash, Gone
<1>11. CASE AppendByte \/ Rotate \/ Reopen \/ Sigint \/ UNCHANGED vars
  BY <1>11 DEF AppendByte, Rotate, Reopen, Sigint, vars
<1> QED
  BY <1>1, <1>2, <1>3, <1>4, <1>5, <1>6, <1>7, <1>8, <1>9, <1>10, <1>11
  DEF Next, ProcessStep, Environment, Moves

\* A process that replays has not read a byte of the watched file nor an
\* event: the end of the temp file is never taken for the end of a renamed
\* log, and the offset of the watched file stays what it was.
THEOREM ReplayIsFirst == Spec => []ReplayComesFirst
<1>1. Init => ReplayInv
  BY DEF Init, ReplayInv, ReplayComesFirst
<1>2. Shape /\ ReplayInv /\ [Next]_vars => ReplayInv'
  BY ReplayStep
<1>3. ReplayInv => ReplayComesFirst
  BY DEF ReplayInv
<1> QED
  BY <1>1, <1>2, <1>3, ShapeHolds, PTL DEF Spec

-----------------------------------------------------------------------------
(***************************************************************************)
(* Messages end where lines end                                            *)
(***************************************************************************)

\* Before the first rotation no process believes that its file was renamed.
EndInv ==
  current = 0 => MessagesEndLines /\ ~log_being_rotated /\ "move" \notin events

\* A step that sends nothing of the watched file and hears of no rename.
Calm == /\ sent' = sent
        /\ current' = current
        /\ log_being_rotated' => log_being_rotated \/ "move" \in events
        /\ events' \subseteq events \cup {"modify"}

LEMMA CalmSteps ==
  ASSUME Shape, [Next]_vars
  PROVE  Calm \/ SendLine \/ EndOfRotatedLog \/ Rotate
<1> USE DEF files, disk, flags, reading, inotify, history, budgets, Calm
<1>1. CASE Moves
  BY <1>1, MovesOnlyPc DEF AllButPc
<1>2. CASE \/ Attach \/ OpenWatchedFile \/ SeekToOffset \/ MoveLogAside
           \/ BeginReplay \/ NothingToReplay
  BY <1>2 DEF Attach, OpenWatchedFile, SeekToOffset, MoveLogAside,
              BeginReplay, NothingToReplay, Announce
<1>3. CASE ReadEvents
  BY <1>3 DEF ReadEvents, MovedSelf
<1>4. CASE ReadLog \/ ReadTemp \/ KeepPartial \/ EndOfLog
  BY <1>4 DEF ReadLog, ReadTemp, KeepPartial, EndOfLog
<1>5. CASE \/ SendUndelivered \/ EndOfTemp \/ SendRest
           \/ FilterThrowsAtEnd
  BY <1>5 DEF SendUndelivered, EndOfTemp, SendRest, Replay, FilterThrowsAtEnd
<1>6. CASE SaveOnStop \/ RecordPayload \/ RecordNewline
  BY <1>6 DEF SaveOnStop, RecordPayload, RecordNewline
<1>7. CASE Exit \/ Crash
  BY <1>7 DEF Exit, Crash, Gone
<1>8. CASE AppendByte \/ Reopen
  BY <1>8 DEF AppendByte, Reopen, Notify
<1>9. CASE Sigint \/ UNCHANGED vars
  BY <1>9 DEF Sigint, vars
<1> QED
  BY <1>1, <1>2, <1>3, <1>4, <1>5, <1>6, <1>7, <1>8, <1>9
  DEF Next, ProcessStep, Environment, Moves

\* What is in a file stays where it is.
LEMMA BytesStay ==
  ASSUME Shape, [Next]_vars, NEW k \in Inodes, NEW p \in 1 .. Len(content[k])
  PROVE  p \in 1 .. Len(content'[k]) /\ content'[k][p] = content[k][p]
<1>1. CASE AppendByte
  <2>1. PICK b \in Bytes :
          content' = [content EXCEPT ![writer] = Append(content[writer], b)]
    BY <1>1 DEF AppendByte
  <2> QED
    BY <2>1 DEF Shape, World
<1>2. CASE ~AppendByte
  <2>1. content' = content
    BY <1>2, OnlyAppendWrites
  <2> QED
    BY <2>1
<1> QED
  BY <1>1, <1>2

LEMMA EndStep == ASSUME Shape, EndInv, [Next]_vars PROVE EndInv'
<1>1. SUFFICES ASSUME current' = 0
               PROVE  /\ MessagesEndLines' /\ ~log_being_rotated'
                      /\ "move" \notin events'
  BY DEF EndInv
<1> DEFINE Ends(m) == /\ m.to < Len(content[m.inode])
                      /\ content[m.inode][m.to + 1] = Newline
<1>2. ~Rotate /\ current' = current /\ current = 0
  <2>1. current \in Nat
    BY ConstantsAssumption DEF Shape, World, Inodes
  <2>2. ~Rotate
    BY <1>1, <2>1 DEF Rotate
  <2>3. current' = current
    BY <2>2, CalmSteps DEF Calm, SendLine, EndOfRotatedLog, files
  <2> QED
    BY <1>1, <2>2, <2>3
<1>3. MessagesEndLines /\ ~log_being_rotated /\ "move" \notin events
  BY <1>2 DEF EndInv
<1>4. \A m \in sent : m \in Message /\ Ends(m)
  BY <1>2, <1>3 DEF MessagesEndLines, Shape, Store, Message, Inodes
<1>5. ASSUME NEW m \in Message, Ends(m) PROVE Ends(m)'
  <2>1. /\ m.inode \in Inodes /\ m.to \in Nat
        /\ Len(content[m.inode]) \in Nat
        /\ m.to + 1 \in 1 .. Len(content[m.inode])
    BY <1>5 DEF Message, Shape, World
  <2>2. /\ m.to + 1 \in 1 .. Len(content'[m.inode])
        /\ content'[m.inode][m.to + 1] = Newline
    BY <1>5, <2>1, BytesStay
  <2>3. Len(content'[m.inode]) \in Nat
    <3>1. Shape'
      BY ShapeStep
    <3>2. content' \in [Inodes -> Seq(Bytes)]
      BY <3>1 DEF Shape, World
    <3> QED
      BY <2>1, <3>2
  <2> QED
    BY <2>1, <2>2, <2>3
<1>6. ASSUME \A m \in sent' : m \in Message /\ Ends(m)
      PROVE  MessagesEndLines'
  BY <1>5, <1>6 DEF MessagesEndLines
<1>7. CASE Calm
  BY <1>3, <1>4, <1>6, <1>7 DEF Calm
<1>8. CASE SendLine
  <2>1. PICK e \in Nat :
          LET m == [inode |-> fd, from |-> Begin, to |-> e]
          IN /\ m \in Message /\ e < pos
             /\ Produce(m)
             /\ content[fd][e + 1] = Newline
             /\ pos <= Len(content[fd])
    BY <1>8, SendLineStep
  <2>2. pos \in Nat /\ Len(content[fd]) \in Nat
    BY <2>1 DEF Shape, World, Places, Message
  <2>3. Ends([inode |-> fd, from |-> Begin, to |-> e])
    BY <2>1, <2>2
  <2>4. \A m \in sent' : m \in Message /\ Ends(m)
    BY <1>4, <2>1, <2>3 DEF Produce
  <2> QED
    BY <1>3, <1>6, <1>8, <2>4 DEF SendLine, flags, inotify
<1>9. ~EndOfRotatedLog
  BY <1>3 DEF EndOfRotatedLog
<1> QED
  BY <1>2, <1>7, <1>8, <1>9, CalmSteps

\* Until the file is renamed, a message ends at a newline of the file,
\* however the reads cut the lines and however often the process stopped,
\* was killed or replayed its undelivered log.
THEOREM LinesEndMessages == Spec => [](current = 0 => MessagesEndLines)
<1>1. Init => EndInv
  BY DEF Init, EndInv, MessagesEndLines
<1>2. Shape /\ EndInv /\ [Next]_vars => EndInv'
  BY EndStep
<1>3. EndInv => (current = 0 => MessagesEndLines)
  BY DEF EndInv
<1> QED
  BY <1>1, <1>2, <1>3, ShapeHolds, PTL DEF Spec

-----------------------------------------------------------------------------
(***************************************************************************)
(* The watch implements AtLeastOnce                                        *)
(***************************************************************************)

\* The cells of the logs that are records of a message.
LEMMA RecordedIs ==
  \A m : m \in recordedBar <=>
           /\ m \notin {Notice, EndOfLine}
           /\ \/ \E k \in DOMAIN undelivered : undelivered[k] = m
              \/ \E k \in DOMAIN temp : temp[k] = m
  BY DEF recordedBar

LEMMA NoEndOfLine == EndOfLine \notin Message /\ Notice \notin Message
  BY ConstantsAssumption DEF EndOfLine, Notice, Message, NoInode, Inodes

\* What is owed is recorded.
LEMMA OwedIsRecorded ==
  ASSUME Shape, OwedInv
  PROVE  owed \subseteq recordedBar
<1>1. SUFFICES ASSUME NEW m \in owed PROVE m \in recordedBar
  OBVIOUS
<1>2. m \notin {Notice, EndOfLine}
  BY NoEndOfLine DEF Shape, Store
<1>3. \/ \E k \in DOMAIN undelivered : undelivered[k] = m
      \/ \E k \in DOMAIN temp : temp[k] = m
  BY DEF OwedInv, OwedIsOnDisk, HasRecord, Shape, Store
<1> QED
  BY <1>2, <1>3, RecordedIs

\* The undelivered log holds the same messages, or one more.
LEMMA AppendRecords ==
  ASSUME Shape, NEW c \in Cell, undelivered' = Append(undelivered, c),
         temp' = temp
  PROVE  recordedBar' = recordedBar \cup ({c} \ {Notice, EndOfLine})
<1>1. /\ Len(undelivered) \in Nat
      /\ DOMAIN undelivered = 1 .. Len(undelivered)
      /\ DOMAIN undelivered' = 1 .. (Len(undelivered) + 1)
      /\ undelivered'[Len(undelivered) + 1] = c
      /\ \A k \in DOMAIN undelivered : undelivered'[k] = undelivered[k]
  BY DEF Shape, Store
<1>2. {undelivered'[k] : k \in DOMAIN undelivered'}
        = {undelivered[k] : k \in DOMAIN undelivered} \cup {c}
  BY <1>1
<1> QED
  BY <1>2 DEF recordedBar

\* What is in the memory of the process and of librdkafka and on disk was
\* handed over once, the "starting up" message aside, and the offset a process
\* was started with is the one in the table.
Known ==
  /\ outstanding \subseteq sent \cup {Notice}
  /\ rest \subseteq sent \cup {Notice}
  /\ recordedBar \subseteq sent
  /\ pc \in {"attach", "measure"} => file_offset = saved

\* Steps that hand over nothing and record nothing.
LEMMA KnownUndisturbed ==
  ASSUME Known, sent \subseteq sent',
         outstanding' \subseteq outstanding \cup {Notice},
         rest' \subseteq rest, UNCHANGED <<undelivered, temp>>,
         \/ pc' \notin {"attach", "measure"}
         \/ UNCHANGED <<saved, file_offset>> /\ pc \in {"attach", "measure"}
  PROVE  Known'
<1>1. recordedBar' = recordedBar
  BY DEF recordedBar
<1> QED
  BY <1>1 DEF Known

LEMMA KnownStep == ASSUME Shape, Known, [Next]_vars PROVE Known'
<1> USE DEF files, disk, flags, reading, inotify, budgets, At
<1>1. CASE Moves
  BY <1>1, MovesOnlyPc, KnownUndisturbed DEF AllButPc, history
<1>2. CASE \/ OpenWatchedFile \/ SeekToOffset \/ NothingToReplay
           \/ BeginReplay \/ ReadEvents \/ ReadLog \/ ReadTemp
           \/ KeepPartial \/ EndOfLog \/ FilterThrowsAtEnd \/ SaveOnStop
  BY <1>2, KnownUndisturbed
  DEF OpenWatchedFile, SeekToOffset, NothingToReplay, BeginReplay, Announce,
      ReadEvents, ReadLog, ReadTemp, KeepPartial, EndOfLog,
      FilterThrowsAtEnd, SaveOnStop, history
<1>3. CASE \/ Exit \/ Crash \/ AppendByte \/ Rotate \/ Reopen \/ Sigint
           \/ UNCHANGED vars
  <2>1. CASE Exit \/ Crash
    BY <2>1, KnownUndisturbed DEF Exit, Crash, Gone
  <2>2. CASE AppendByte \/ Rotate \/ Reopen \/ Sigint \/ UNCHANGED vars
    BY <2>2, KnownUndisturbed
    DEF AppendByte, Rotate, Reopen, Sigint, vars, history
  <2> QED
    BY <1>3, <2>1, <2>2
<1>4. CASE Attach
  <2>1. recordedBar' = recordedBar
    BY <1>4 DEF Attach, recordedBar
  <2> QED
    BY <1>4, <2>1 DEF Attach, Known, LoadedOffset, history
<1>5. CASE MoveLogAside
  <2>1. /\ temp = <<>> /\ temp' = undelivered /\ undelivered' = <<>>
    BY <1>5 DEF MoveLogAside, TempExists
  <2>2. recordedBar' = recordedBar
    BY <2>1 DEF recordedBar
  <2> QED
    BY <1>5, <2>2 DEF MoveLogAside, Known, history
<1>6. CASE SendLine \/ EndOfRotatedLog
  <2>1. /\ UNCHANGED <<undelivered, temp, rest>>
        /\ pc' \notin {"attach", "measure"}
        /\ sent \subseteq sent'
        /\ outstanding' \subseteq sent' \cup {Notice}
    BY <1>6 DEF SendLine, EndOfRotatedLog, Produce, Known, history
  <2>2. recordedBar' = recordedBar
    BY <2>1 DEF recordedBar
  <2> QED
    BY <2>1, <2>2 DEF Known
<1>7. ASSUME replaying, NEW e \in Nat, e <= tempPos
      PROVE  Payloads(tempPos - partial, e) \subseteq sent \cup {Notice}
  <2>1. \A k \in (tempPos - partial + 1) .. e : k \in DOMAIN temp
    BY <1>7 DEF Shape, Store, Held, Places
  <2>2. Payloads(tempPos - partial, e) \subseteq recordedBar \cup {Notice}
    BY <2>1 DEF recordedBar, Payloads
  <2> QED
    BY <2>2 DEF Known
<1>8. CASE SendUndelivered
  <2>1. PICK e \in Nat : /\ tempPos - partial <= e /\ e < tempPos
                         /\ Replay(Payloads(tempPos - partial, e))
    BY <1>8, SendUndeliveredStep
  <2>2. /\ replaying /\ tempPos \in Nat /\ pc' = "split"
        /\ UNCHANGED <<undelivered, temp, rest>>
    BY <1>8 DEF SendUndelivered, Shape, Places
  <2>3. e <= tempPos
    BY <2>1, <2>2
  <2>4. Payloads(tempPos - partial, e) \subseteq sent \cup {Notice}
    BY <1>7, <2>2, <2>3
  <2>5. recordedBar' = recordedBar
    BY <2>2 DEF recordedBar
  <2> QED
    BY <2>1, <2>2, <2>4, <2>5 DEF Known, Replay
<1>9. CASE EndOfTemp
  <2>1. replaying /\ tempPos \in Nat /\ tempPos <= tempPos
    BY <1>9 DEF EndOfTemp, Shape, Places
  <2>2. rest' \subseteq sent \cup {Notice}
    BY <1>7, <1>9, <2>1 DEF EndOfTemp
  <2>3. /\ temp' = <<>> /\ undelivered' = undelivered
        /\ pc' \notin {"attach", "measure"}
        /\ outstanding' = outstanding /\ sent' = sent
    BY <1>9 DEF EndOfTemp, history
  <2>4. recordedBar' \subseteq recordedBar
    BY <2>3 DEF recordedBar
  <2> QED
    BY <2>2, <2>3, <2>4 DEF Known
<1>12. CASE SendRest
  <2>1. /\ outstanding' = outstanding \cup rest /\ rest' = {} /\ sent' = sent
        /\ pc' = "shutdown" /\ UNCHANGED <<undelivered, temp>>
    BY <1>12 DEF SendRest, Replay
  <2>2. recordedBar' = recordedBar
    BY <2>1 DEF recordedBar
  <2> QED
    BY <2>1, <2>2 DEF Known
<1>10. CASE RecordPayload
  <2>1. PICK m \in outstanding : /\ undelivered' = Append(undelivered, m)
                                 /\ outstanding' = outstanding \ {m}
    BY <1>10 DEF RecordPayload
  <2>2. m \in Cell /\ m \in sent \cup {Notice}
    BY DEF Cell, Shape, Store, Known
  <2>3. /\ temp' = temp /\ sent' = sent /\ rest' = rest
        /\ UNCHANGED <<pc, saved, file_offset>>
    BY <1>10 DEF RecordPayload
  <2>4. recordedBar' = recordedBar \cup ({m} \ {Notice, EndOfLine})
    BY <2>1, <2>2, <2>3, AppendRecords
  <2> QED
    BY <2>1, <2>2, <2>3, <2>4 DEF Known
<1>11. CASE RecordNewline
  <2>1. /\ undelivered' = Append(undelivered, EndOfLine) /\ temp' = temp
        /\ UNCHANGED <<pc, saved, file_offset, outstanding, sent, rest>>
    BY <1>11 DEF RecordNewline
  <2>2. EndOfLine \in Cell
    BY DEF Cell
  <2>3. recordedBar' = recordedBar \cup ({EndOfLine} \ {Notice, EndOfLine})
    BY <2>1, <2>2, AppendRecords
  <2> QED
    BY <2>1, <2>3 DEF Known
<1> QED
  BY <1>1, <1>2, <1>3, <1>4, <1>5, <1>6, <1>8, <1>9, <1>10, <1>11, <1>12
  DEF Next, ProcessStep, Environment, Moves

LEMMA KnownHolds == Spec => []Known
<1>1. Init => Known
  <2>1. Init => undelivered = <<>> /\ temp = <<>>
    BY DEF Init
  <2>2. undelivered = <<>> /\ temp = <<>> => recordedBar = {}
    BY DEF recordedBar
  <2> QED
    BY <2>1, <2>2 DEF Init, Known
<1>2. Shape /\ Known /\ [Next]_vars => Known'
  BY KnownStep
<1> QED
  BY <1>1, <1>2, ShapeHolds, PTL DEF Spec

\* Steps between two states that mean the same in AtLeastOnce.
Still ==
  UNCHANGED <<content, current, sourceBar, cursorBar, saved, sent,
              recordedBar, owed>>

LEMMA StillStutters == ASSUME Still PROVE UNCHANGED Promise!vars
<1>1. sizeBar' = sizeBar
  BY DEF Still, sizeBar
<1> QED
  BY <1>1 DEF Still, Promise!vars

\* Where the process is, as AtLeastOnce sees it, over a quiet step.
LEMMA QuietPlace ==
  ASSUME Quiet, Opened' <=> Opened
  PROVE  UNCHANGED <<sourceBar, cursorBar>>
  BY DEF Quiet, sourceBar, cursorBar

\* The steps that AtLeastOnce does not see.
LEMMA StillSteps ==
  ASSUME Shape, Shape',
         \/ Moves \/ Attach \/ OpenWatchedFile \/ MoveLogAside \/ BeginReplay
         \/ NothingToReplay \/ ReadEvents \/ ReadLog \/ ReadTemp
         \/ KeepPartial \/ EndOfLog \/ FilterThrowsAtEnd
         \/ Reopen \/ Sigint \/ UNCHANGED vars
  PROVE  Still
<1> USE DEF files, disk, flags, inotify, history, budgets, At, Opened
<1>1. CASE Attach
  BY <1>1 DEF Attach, Still, sourceBar, cursorBar, recordedBar
<1>8. CASE OpenWatchedFile
  BY <1>8 DEF OpenWatchedFile, Still, sourceBar, cursorBar, recordedBar
<1>2. CASE MoveLogAside
  <2>1. Quiet
    BY <1>2, QuietSteps
  <2>2. UNCHANGED <<sourceBar, cursorBar>>
    BY <1>2, <2>1, QuietPlace DEF MoveLogAside
  <2>3. /\ temp = <<>> /\ temp' = undelivered /\ undelivered' = <<>>
    BY <1>2 DEF MoveLogAside, TempExists
  <2>4. recordedBar' = recordedBar
    BY <2>3 DEF recordedBar
  <2> QED
    BY <1>2, <2>2, <2>4 DEF MoveLogAside, Still
<1>4. ASSUME UNCHANGED <<content, current, undelivered, temp, saved, sent, owed>>,
             Quiet, Opened' <=> Opened
      PROVE  Still
  <2>1. recordedBar' = recordedBar
    BY <1>4 DEF recordedBar
  <2>2. UNCHANGED <<sourceBar, cursorBar>>
    BY <1>4, QuietPlace
  <2> QED
    BY <1>4, <2>1, <2>2 DEF Still
<1>5. CASE Moves
  <2>1. /\ pc \notin {"down", "attach", "measure"}
        /\ pc' \notin {"down", "attach", "measure"}
    BY <1>5, MovesOnlyPc
  <2> QED
    BY <1>4, <1>5, <2>1, QuietSteps, MovesOnlyPc DEF AllButPc
<1>6. CASE \/ ReadEvents \/ ReadLog \/ ReadTemp \/ KeepPartial \/ EndOfLog
           \/ BeginReplay \/ NothingToReplay \/ FilterThrowsAtEnd
  BY <1>4, <1>6, QuietSteps
  DEF ReadEvents, ReadLog, ReadTemp, KeepPartial, EndOfLog, BeginReplay,
      NothingToReplay, Announce, FilterThrowsAtEnd
<1>7. CASE Reopen \/ Sigint \/ UNCHANGED vars
  BY <1>4, <1>7, QuietSteps DEF Reopen, Sigint, vars
<1> QED
  BY <1>1, <1>2, <1>5, <1>6, <1>7, <1>8

\* Steps of the world.
LEMMA WorldSteps ==
  ASSUME Shape, Shape', AppendByte \/ Rotate
  PROVE  Promise!Grow \/ Promise!Rename
<1> USE DEF files, disk, flags, reading, inotify, history, budgets
<1>1. Quiet
  BY QuietSteps
<1>2. UNCHANGED <<sourceBar, cursorBar, recordedBar, saved, sent, owed>>
  <2>1. Opened' <=> Opened
    BY DEF AppendByte, Rotate, Opened
  <2>2. recordedBar' = recordedBar
    BY DEF AppendByte, Rotate, recordedBar
  <2> QED
    BY <1>1, <2>1, <2>2, QuietPlace DEF AppendByte, Rotate
<1>3. CASE AppendByte
  <2>1. PICK b \in Bytes :
          content' = [content EXCEPT ![writer] = Append(content[writer], b)]
    BY <1>3 DEF AppendByte
  <2>2. writer \in Inodes /\ \A k \in Inodes : content[k] \in Seq(Bytes)
    BY DEF Shape, World
  <2>3. \A k \in Inodes : Len(content'[k]) =
          IF k = writer THEN Len(content[k]) + 1 ELSE Len(content[k])
    BY <2>1, <2>2 DEF Shape, World
  <2>4. sizeBar' = [sizeBar EXCEPT ![writer] = @ + 1]
    BY <2>2, <2>3 DEF sizeBar
  <2>5. current' = current
    BY <1>3 DEF AppendByte
  <2> QED
    BY <1>2, <2>2, <2>4, <2>5 DEF Promise!Grow
<1>4. CASE Rotate
  <2>1. sizeBar' = sizeBar /\ current' = current + 1
    BY <1>4 DEF Rotate, sizeBar
  <2> QED
    BY <1>2, <2>1 DEF Promise!Rename
<1> QED
  BY <1>3, <1>4

\* A process has opened the file, or the one that had the name a moment ago.
LEMMA SeekResumes ==
  ASSUME Shape, Shape', Known, SeekToOffset
  PROVE  Promise!Resume
<1> USE DEF files, disk, flags, inotify, history, budgets
<1>1. /\ pc = "measure" /\ pc' = "prepare" /\ fd' = fd
      /\ UNCHANGED <<content, current, undelivered, temp, sent, owed>>
      /\ IF file_offset \in 0 .. Len(content[current])
           THEN saved' = saved /\ pos' = file_offset
           ELSE saved' \in {saved, 0} /\ pos' = 0
  BY DEF SeekToOffset, SaveOffset, At
<1>2. file_offset = saved
  BY <1>1 DEF Known
<1>3. /\ sourceBar = NoInode /\ sourceBar' = fd
      /\ fd \in Inodes /\ fd <= current
  BY <1>1 DEF sourceBar, Opened, Shape, OpenFile
<1>4. cursorBar' = pos'
  <2>1. ~replaying' /\ partial' = 0 /\ pos' \in Nat
    BY <1>1 DEF Shape, Fresh, Places
  <2>2. pos' - partial' = pos'
    BY <2>1, LessNothing
  <2> QED
    BY <1>1, <2>1, <2>2 DEF cursorBar, Opened, Front, Begin
<1>5. sizeBar[current] = Len(content[current]) /\ sizeBar' = sizeBar
  BY <1>1 DEF sizeBar, Shape, World
<1>6. recordedBar' = recordedBar
  BY <1>1 DEF recordedBar
<1> QED
  BY <1>1, <1>2, <1>3, <1>4, <1>5, <1>6 DEF Promise!Resume

\* A line is handed over.
LEMMA SendLineHandsOver ==
  ASSUME Shape, Shape', SendLine
  PROVE  Promise!HandOver
<1> USE DEF files, disk, flags, inotify, budgets
<1>1. PICK e \in Nat :
        LET m == [inode |-> fd, from |-> Begin, to |-> e]
        IN /\ m \in Message /\ Begin < e /\ e < pos
           /\ Produce(m)
           /\ partial' = pos - (e + 1)
           /\ pos <= Len(content[fd])
  BY SendLineStep
<1>2. /\ pc = "split" /\ pc' = pc /\ fd' = fd /\ pos' = pos
      /\ ~replaying /\ ~replaying'
      /\ UNCHANGED <<content, current, undelivered, temp, saved>>
  BY DEF SendLine, At
<1>3. /\ fd \in Inodes /\ fd # NoInode /\ pos \in Nat /\ Begin \in Nat
      /\ pos <= Len(content[fd]) /\ Len(content[fd]) \in Nat
  <2>1. fd \in Inodes /\ pos \in Nat /\ pos <= Len(content[fd])
    BY <1>1, <1>2 DEF Shape, OpenFile, Places
  <2>2. fd # NoInode
    BY <2>1, ConstantsAssumption DEF Inodes, NoInode
  <2>3. Len(content[fd]) \in Nat
    BY <2>1 DEF Shape, World
  <2>4. Begin \in Nat
    BY <1>1 DEF Message
  <2> QED
    BY <2>1, <2>2, <2>3, <2>4
<1>4. sourceBar = fd /\ cursorBar = Begin
  BY <1>2 DEF sourceBar, cursorBar, Opened, Front
<1>5. sourceBar' = fd /\ cursorBar' = e + 1
  <2>1. pos' - partial' = e + 1
    BY <1>1, <1>2, <1>3
  <2> QED
    BY <1>2, <2>1 DEF sourceBar, cursorBar, Opened, Front, Begin
<1>6. sizeBar' = sizeBar /\ sizeBar[fd] = Len(content[fd])
  BY <1>2, <1>3 DEF sizeBar
<1>7. recordedBar' = recordedBar
  BY <1>2 DEF recordedBar
<1>8. /\ sent' = sent \cup {[inode |-> fd, from |-> Begin, to |-> e]}
      /\ owed' = owed
  BY <1>1 DEF Produce
<1>9. e \in (cursorBar + 1) .. (sizeBar[sourceBar] - 1)
  BY <1>1, <1>3, <1>4, <1>6
<1> QED
  BY <1>2, <1>3, <1>4, <1>5, <1>6, <1>7, <1>8, <1>9 DEF Promise!HandOver

\* The rest of a renamed file is handed over.
LEMMA EndDrains ==
  ASSUME Shape, Shape', EndOfRotatedLog
  PROVE  Promise!Drain
<1> USE DEF files, disk, flags, inotify, budgets
<1>1. /\ pc = "read" /\ pc' = "shutdown" /\ fd' = fd /\ pos' = pos
      /\ ~replaying /\ ~replaying' /\ partial' = 0 /\ pos >= Len(content[fd])
      /\ saved' \in {saved, 0}
      /\ UNCHANGED <<content, current, undelivered, temp>>
  BY DEF EndOfRotatedLog, At, AtEof, SaveOffset
<1>2. /\ fd \in Inodes /\ fd # NoInode /\ pos \in Nat /\ partial \in Nat
      /\ start \in Nat /\ Len(content[fd]) \in Nat
  <2>1. fd \in Inodes /\ pos \in Nat /\ partial \in Nat /\ start \in Nat
    BY <1>1 DEF Shape, OpenFile, Places
  <2>2. fd # NoInode
    BY <2>1, ConstantsAssumption DEF Inodes, NoInode
  <2>3. Len(content[fd]) \in Nat
    BY <2>1 DEF Shape, World
  <2> QED
    BY <2>1, <2>2, <2>3
<1>3. sourceBar = fd /\ cursorBar = Begin
  BY <1>1 DEF sourceBar, cursorBar, Opened, Front
<1>4. sourceBar' = fd /\ cursorBar' = pos
  <2>1. pos' - partial' = pos
    BY <1>1, <1>2, LessNothing
  <2> QED
    BY <1>1, <2>1 DEF sourceBar, cursorBar, Opened, Front, Begin
<1>5. sizeBar' = sizeBar /\ sizeBar[fd] = Len(content[fd])
  BY <1>1, <1>2 DEF sizeBar
<1>6. recordedBar' = recordedBar
  BY <1>1 DEF recordedBar
<1>7. /\ partial = 0 => Begin = pos
      /\ partial # 0 => pos = Len(content[fd]) /\ Begin < pos
  BY <1>1, <1>2 DEF Begin, Shape, OpenFile, Opened, Held
<1>8. owed' = owed
  BY DEF EndOfRotatedLog, Produce, history
<1>9. CASE partial = 0
  <2>1. sent' = sent
    BY <1>9 DEF EndOfRotatedLog, history
  <2>2. cursorBar >= sizeBar[sourceBar] /\ cursorBar' = cursorBar
    BY <1>1, <1>3, <1>4, <1>5, <1>7, <1>9
  <2> QED
    BY <1>1, <1>2, <1>3, <1>4, <1>5, <1>6, <1>8, <2>1, <2>2
    DEF Promise!Drain
<1>10. CASE partial # 0
  <2>1. sent' = sent \cup {[inode |-> fd, from |-> Begin, to |-> pos]}
    BY <1>10 DEF EndOfRotatedLog, Produce
  <2>2. /\ sizeBar[sourceBar] = pos /\ cursorBar = Begin
        /\ ~(cursorBar >= sizeBar[sourceBar])
    BY <1>2, <1>3, <1>5, <1>7, <1>10 DEF Begin
  <2> QED
    BY <1>1, <1>2, <1>3, <1>4, <1>5, <1>6, <1>8, <2>1, <2>2
    DEF Promise!Drain
<1> QED
  BY <1>9, <1>10

\* The offset is saved.
LEMMA SaveMarks == ASSUME Shape, SaveOnStop PROVE Promise!Mark \/ Still
<1> USE DEF files, disk, flags, inotify, reading, history, budgets
<1>1. /\ pc = "shutdown" /\ pc' = "loop" /\ fd' = fd /\ pos' = pos
      /\ partial' = partial /\ replaying' = replaying
      /\ saved' \in {saved, ResumePoint}
      /\ UNCHANGED <<content, current, undelivered, temp, sent, owed>>
  BY DEF SaveOnStop, SaveOffset, At
<1>2. UNCHANGED <<sizeBar, sourceBar, cursorBar, recordedBar>>
  BY <1>1 DEF sizeBar, sourceBar, cursorBar, recordedBar, Opened, Front, Begin
<1>3. sourceBar # NoInode /\ ResumePoint <= cursorBar
  BY <1>1, ConstantsAssumption
  DEF sourceBar, cursorBar, Opened, Shape, OpenFile, Places, Inodes, NoInode,
      ResumePoint, Front, Begin
<1>4. CASE saved' = saved
  BY <1>1, <1>2, <1>4 DEF Still
<1>5. CASE saved' = ResumePoint
  BY <1>1, <1>2, <1>3, <1>5 DEF Promise!Mark
<1> QED
  BY <1>1, <1>4, <1>5

\* A process ends: one that has opened the file leaves, another was not there.
LEMMA EndLeaves == ASSUME Shape, Exit \/ Crash PROVE Promise!Leave \/ Still
<1> USE DEF files, disk, budgets
<1>1. /\ pc' = "down"
      /\ UNCHANGED <<content, current, undelivered, temp, saved, sent, owed>>
  BY DEF Exit, Crash, Gone
<1>2. sizeBar' = sizeBar /\ recordedBar' = recordedBar
  BY <1>1 DEF sizeBar, recordedBar
<1>3. sourceBar' = NoInode /\ cursorBar' = 0
  BY <1>1 DEF sourceBar, cursorBar, Opened
<1>4. CASE Opened
  <2>1. sourceBar # NoInode
    BY <1>4, ConstantsAssumption
    DEF sourceBar, Shape, OpenFile, Opened, Inodes, NoInode
  <2> QED
    BY <1>1, <1>2, <1>3, <2>1 DEF Promise!Leave
<1>5. CASE ~Opened
  <2>1. sourceBar = NoInode /\ cursorBar = 0
    BY <1>5 DEF sourceBar, cursorBar
  <2> QED
    BY <1>1, <1>2, <1>3, <2>1 DEF Still
<1> QED
  BY <1>4, <1>5

\* The callback runs in a process that reads.
LEMMA PollingReads ==
  ASSUME Shape, Polling
  PROVE  Opened /\ sourceBar # NoInode
  BY ConstantsAssumption
  DEF Polling, sourceBar, Opened, Shape, OpenFile, Inodes, NoInode

\* A delivery fails.
LEMMA RecordReturns ==
  ASSUME Shape, Shape', Known, RecordPayload
  PROVE  Promise!Return \/ Still
<1> USE DEF files, flags, reading, inotify
<1>1. PICK m \in outstanding : undelivered' = Append(undelivered, m)
  BY DEF RecordPayload
<1>2. m \in Cell /\ m \in sent \cup {Notice}
  BY DEF Cell, Shape, Store, Known
<1>3. /\ temp' = temp
      /\ UNCHANGED <<content, current, saved, sent, owed, pc>>
  BY DEF RecordPayload
<1>4. recordedBar' = recordedBar \cup ({m} \ {Notice, EndOfLine})
  BY <1>1, <1>2, <1>3, AppendRecords
<1>5. sizeBar' = sizeBar
  BY <1>3 DEF sizeBar
<1>6. UNCHANGED <<sourceBar, cursorBar>>
  <2>1. Quiet
    BY QuietSteps
  <2> QED
    BY <1>3, <2>1, QuietPlace DEF Opened
<1>7. sourceBar # NoInode
  BY PollingReads DEF RecordPayload
<1>8. CASE m = Notice
  BY <1>3, <1>4, <1>6, <1>8 DEF Still
<1>9. CASE m # Notice
  <2>1. m \in sent /\ m \in Message
    BY <1>2, <1>9 DEF Shape, Store
  <2>2. recordedBar' = recordedBar \cup {m}
    BY <1>4, <2>1, NoEndOfLine
  <2> QED
    BY <1>3, <1>5, <1>6, <1>7, <2>1, <2>2 DEF Promise!Return
<1> QED
  BY <1>8, <1>9

\* Its record is complete.
LEMMA RecordOwes ==
  ASSUME Shape, Shape', Known, RecordNewline
  PROVE  Promise!Owe \/ Still
<1> USE DEF files, flags, reading, inotify, budgets
<1>1. /\ undelivered' = Append(undelivered, EndOfLine) /\ temp' = temp
      /\ UNCHANGED <<content, current, saved, sent, pc>>
  BY DEF RecordNewline
<1>2. recordedBar' = recordedBar
  <2>1. recordedBar' = recordedBar \cup ({EndOfLine} \ {Notice, EndOfLine})
    BY <1>1, AppendRecords DEF Cell
  <2> QED
    BY <2>1
<1>3. UNCHANGED <<sourceBar, cursorBar, sizeBar>>
  <2>1. Quiet
    BY QuietSteps
  <2> QED
    BY <1>1, <2>1, QuietPlace DEF Opened, sizeBar
<1> DEFINE m == undelivered[Len(undelivered)]
<1>4. /\ m \in Payload /\ owed' = owed \cup ({m} \ {Notice})
      /\ Len(undelivered) \in DOMAIN undelivered
  BY DEF RecordNewline, Shape, Store, TornLog
<1>5. CASE m = Notice
  BY <1>1, <1>2, <1>3, <1>4, <1>5 DEF Still
<1>6. CASE m # Notice
  <2>1. m \notin {Notice, EndOfLine}
    BY <1>4, <1>6, NoEndOfLine DEF Payload
  <2>2. m \in recordedBar
    BY <1>4, <2>1, RecordedIs
  <2>3. owed' = owed \cup {m}
    BY <1>4, <1>6
  <2>4. CASE Opened
    <3>1. sourceBar # NoInode
      BY <2>4, ConstantsAssumption
      DEF sourceBar, Opened, Shape, OpenFile, Inodes, NoInode
    <3> QED
      BY <1>1, <1>2, <1>3, <2>2, <2>3, <3>1 DEF Promise!Owe
  <2>5. Opened
    BY DEF RecordNewline, Shape, TornLog
  <2> QED
    BY <2>4, <2>5
<1> QED
  BY <1>5, <1>6

\* Undelivered messages are handed over again, and at the end the temp file
\* is removed.
LEMMA ReplayRepeats ==
  ASSUME Shape, Shape', OwedInv, OwedInv',
         SendUndelivered \/ EndOfTemp \/ SendRest
  PROVE  Promise!Repeat
<1> USE DEF files, flags, inotify, budgets
<1>1. /\ pc \in {"split", "read", "rest"}
      /\ pc' \in {"split", "shutdown", "rest"}
      /\ undelivered' = undelivered /\ temp' \in {temp, <<>>}
      /\ UNCHANGED <<content, current, saved, sent>>
  BY DEF SendUndelivered, EndOfTemp, SendRest, Replay, At, disk, reading,
         history
<1>2. PICK payloads : owed' = owed \ payloads
  <2>1. CASE SendUndelivered
    BY <2>1, SendUndeliveredStep DEF Replay
  <2>2. CASE EndOfTemp
    BY <2>2 DEF EndOfTemp, history
  <2>3. CASE SendRest
    BY <2>3 DEF SendRest, Replay
  <2> QED
    BY <2>1, <2>2, <2>3
<1>3. owed' = owed \ (payloads \cap recordedBar)
  BY <1>2, OwedIsRecorded
<1>4. PICK again \in SUBSET recordedBar : owed' = owed \ again
  <2>1. payloads \cap recordedBar \in SUBSET recordedBar
    OBVIOUS
  <2> QED
    BY <1>3, <2>1
<1>5. recordedBar' \subseteq recordedBar
  BY <1>1 DEF recordedBar
<1>6. owed' \subseteq recordedBar'
  <2>1. (\A m \in owed : m \in Message)'
    BY DEF Shape, Store
  <2>2. \A m \in owed' : m \notin {Notice, EndOfLine}
    BY <2>1, NoEndOfLine
  <2>3. \A m \in owed' : \/ \E k \in DOMAIN undelivered' : undelivered'[k] = m
                         \/ \E k \in DOMAIN temp' : temp'[k] = m
    BY DEF OwedInv, OwedIsOnDisk, HasRecord, Shape, Store
  <2> QED
    BY <2>2, <2>3 DEF recordedBar
<1>7. sizeBar' = sizeBar
  BY <1>1 DEF sizeBar
<1>8. UNCHANGED <<sourceBar, cursorBar>>
  <2>1. Quiet
    BY QuietSteps
  <2> QED
    BY <1>1, <2>1, QuietPlace DEF Opened
<1>9. sourceBar # NoInode
  BY <1>1, ConstantsAssumption
  DEF sourceBar, Opened, Shape, OpenFile, Inodes, NoInode
<1> QED
  BY <1>1, <1>4, <1>5, <1>6, <1>7, <1>8, <1>9 DEF Promise!Repeat

\* Every step of the watch is a step of AtLeastOnce, or none.
LEMMA PromiseStep ==
  ASSUME Shape, Shape', Known, OwedInv, OwedInv', [Next]_vars
  PROVE  [Promise!Next]_(Promise!vars)
<1>1. CASE Still
  BY <1>1, StillStutters
<1>2. CASE AppendByte \/ Rotate
  BY <1>2, WorldSteps DEF Promise!Next
<1>3. CASE SeekToOffset
  BY <1>3, SeekResumes DEF Promise!Next
<1>4. CASE SendLine
  BY <1>4, SendLineHandsOver DEF Promise!Next
<1>5. CASE EndOfRotatedLog
  BY <1>5, EndDrains DEF Promise!Next
<1>6. CASE SaveOnStop
  BY <1>1, <1>6, SaveMarks DEF Promise!Next
<1>7. CASE Exit \/ Crash
  BY <1>1, <1>7, EndLeaves DEF Promise!Next
<1>8. CASE RecordPayload
  BY <1>1, <1>8, RecordReturns DEF Promise!Next
<1>9. CASE RecordNewline
  BY <1>1, <1>9, RecordOwes DEF Promise!Next
<1>10. CASE SendUndelivered \/ EndOfTemp \/ SendRest
  BY <1>10, ReplayRepeats DEF Promise!Next
<1> QED
  BY <1>1, <1>2, <1>3, <1>4, <1>5, <1>6, <1>7, <1>8, <1>9, <1>10, StillSteps
  DEF Next, ProcessStep, Environment, Moves

\* The watch keeps the promise of AtLeastOnce: whatever is stopped, killed,
\* renamed or reported as failed between two of its steps, each step is one
\* of the channel's, or none.
THEOREM ImplementsAtLeastOnce == Spec => KeepsPromise
<1>1. Init => Promise!Init
  <2> SUFFICES ASSUME Init PROVE Promise!Init
    OBVIOUS
  <2>1. sizeBar = [i \in Inodes |-> 0]
    BY DEF Init, sizeBar
  <2>2. sourceBar = NoInode /\ cursorBar = 0
    BY DEF Init, sourceBar, cursorBar, Opened
  <2>3. recordedBar = {}
    <3>1. undelivered = <<>> /\ temp = <<>>
      BY DEF Init
    <3> QED
      BY <3>1 DEF recordedBar
  <2> QED
    BY <2>1, <2>2, <2>3 DEF Init, Promise!Init
<1>2. Shape /\ Shape' /\ Known /\ OwedInv /\ OwedInv' /\ [Next]_vars
        => [Promise!Next]_(Promise!vars)
  BY PromiseStep
<1>3. Spec => []OwedInv
  BY OwedHolds
<1> QED
  BY <1>1, <1>2, <1>3, ShapeHolds, KnownHolds, PTL
  DEF Spec, KeepsPromise, Promise!Spec

=============================================================================
