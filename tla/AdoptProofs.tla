----------------------------- MODULE AdoptProofs -----------------------------
(***************************************************************************)
(* What Adopt does for every program, every size of buffer and pipe, and   *)
(* output of any length.                                                   *)
(***************************************************************************)
EXTENDS Adopt, TLAPS

-----------------------------------------------------------------------------
(***************************************************************************)
(* Types                                                                   *)
(***************************************************************************)

\* A read takes what is there, at most.
LEMMA BytesReadInPipe ==
  ASSUME TypeOK, NEW s \in Streams
  PROVE  BytesRead(s) \in Nat /\ BytesRead(s) <= Len(written[s]) - taken[s]
<1> USE ConstantsAssumption DEF TypeOK
<1>1. /\ written[s] \in Seq(Bytes)
      /\ taken[s] \in Nat
      /\ taken[s] <= Len(written[s])
  OBVIOUS
<1>2. InPipe(s) \in Nat /\ InPipe(s) = Len(written[s]) - taken[s]
  BY <1>1 DEF InPipe
<1> QED
  BY <1>1, <1>2 DEF BytesRead

\* A message that is sent begins where the stream was cut and ends inside
\* what was read of it.
LEMMA MessageInChunk ==
  ASSUME TypeOK, NEW e, EndsMessage(e)
  PROVE  /\ Begin \in Nat /\ e \in Nat
         /\ Begin < e /\ e < taken[stream]
         /\ taken[stream] <= Len(written[stream])
<1> USE DEF TypeOK
<1>1. /\ taken[stream] \in Nat
      /\ partial[stream] \in Nat
      /\ partial[stream] <= taken[stream]
      /\ taken[stream] <= Len(written[stream])
  OBVIOUS
<1>2. Begin \in Nat
  BY <1>1 DEF Begin
<1> QED
  BY <1>1, <1>2 DEF EndsMessage

\* Steps that move adopt along without touching a stream.
Moves == \/ StartFails \/ Prepare \/ NothingNew \/ NothingToRead
         \/ FilterThrows \/ KeepPartial \/ Poll \/ Finish

LEMMA MovesTouchNothing ==
  ASSUME Moves, TypeOK
  PROVE  /\ UNCHANGED <<continue_reading, told, program, pipes>>
         /\ pc' \in Labels
         /\ stream' \in Streams
<1> USE DEF TypeOK, Labels, Streams
<1>1. CASE StartFails
  BY <1>1 DEF StartFails
<1>2. CASE Prepare
  BY <1>2 DEF Prepare
<1>3. CASE NothingNew
  BY <1>3 DEF NothingNew
<1>4. CASE NothingToRead
  BY <1>4 DEF NothingToRead, NextTurn
<1>5. CASE FilterThrows
  BY <1>5 DEF FilterThrows
<1>6. CASE KeepPartial
  BY <1>6 DEF KeepPartial, NextTurn
<1>7. CASE Poll
  BY <1>7 DEF Poll
<1>8. CASE Finish
  BY <1>8 DEF Finish
<1> QED
  BY <1>1, <1>2, <1>3, <1>4, <1>5, <1>6, <1>7, <1>8 DEF Moves

\* The program writes at the end of one stream.
LEMMA WriteAppends ==
  ASSUME TypeOK, NEW s \in Streams, Write(s)
  PROVE  \E byte \in Bytes :
           /\ written' = [written EXCEPT ![s] = Append(@, byte)]
           /\ written' \in [Streams -> Seq(Bytes)]
           /\ \A r \in Streams : Len(written[r]) <= Len(written'[r])
<1>1. PICK byte \in Bytes :
        written' = [written EXCEPT ![s] = Append(@, byte)]
  BY DEF Write
<1>2. written \in [Streams -> Seq(Bytes)]
  BY DEF TypeOK
<1>3. written' \in [Streams -> Seq(Bytes)]
  BY <1>1, <1>2
<1>4. \A r \in Streams : Len(written[r]) <= Len(written'[r])
  BY <1>1, <1>2
<1> QED
  BY <1>1, <1>3, <1>4

LEMMA TypeStep == TypeOK /\ [Next]_vars => TypeOK'
<1> SUFFICES ASSUME TypeOK, [Next]_vars PROVE TypeOK'
  OBVIOUS
<1> USE ConstantsAssumption
<1>1. CASE Moves
  BY <1>1, MovesTouchNothing DEF TypeOK, program, pipes
<1>2. CASE StartProcess
  BY <1>2 DEF StartProcess, pipes, TypeOK, Labels
<1>3. CASE ChildNews
  BY <1>3 DEF ChildNews, pipes, TypeOK, Labels, Streams, News
<1>4. CASE ReadStream
  <2>1. /\ BytesRead(stream) \in Nat
        /\ BytesRead(stream) <= Len(written[stream]) - taken[stream]
    BY BytesReadInPipe DEF TypeOK
  <2>2. \A s \in Streams : /\ taken'[s] \in Nat /\ partial'[s] \in Nat
                           /\ taken'[s] <= Len(written[s])
                           /\ partial'[s] <= taken'[s]
    <3> TAKE s \in Streams
    <3>1. taken[s] \in Nat /\ partial[s] \in Nat /\ Len(written[s]) \in Nat
          /\ taken[s] <= Len(written[s]) /\ partial[s] <= taken[s]
      BY DEF TypeOK
    <3> QED
      BY <1>4, <2>1, <3>1 DEF ReadStream, TypeOK
  <2>3. taken' \in [Streams -> Nat] /\ partial' \in [Streams -> Nat]
    BY <1>4, <2>1, <2>2 DEF ReadStream, TypeOK
  <2> QED
    BY <1>4, <2>2, <2>3 DEF ReadStream, program, TypeOK, Labels
<1>5. CASE SendLine
  <2>1. PICK e \in Begin .. taken[stream] :
          /\ EndsMessage(e)
          /\ sent' = [sent EXCEPT ![stream] =
                        Append(@, [from |-> Begin, to |-> e])]
          /\ partial' = [partial EXCEPT ![stream] = taken[stream] - (e + 1)]
    BY <1>5 DEF SendLine
  <2>2. /\ Begin \in Nat /\ e \in Nat
        /\ Begin < e /\ e < taken[stream]
    BY <2>1, MessageInChunk
  <2>3. sent' \in [Streams -> Seq(Interval)]
    BY <2>1, <2>2 DEF TypeOK, Interval
  <2>4. /\ partial' \in [Streams -> Nat]
        /\ \A s \in Streams : partial'[s] <= taken[s]
    BY <2>1, <2>2 DEF TypeOK
  <2> QED
    BY <1>5, <2>3, <2>4 DEF SendLine, program, TypeOK
<1>6. CASE \E s \in Streams : Write(s)
  <2>1. PICK s \in Streams : Write(s)
    BY <1>6
  <2>2. /\ written' \in [Streams -> Seq(Bytes)]
        /\ \A r \in Streams : Len(written[r]) <= Len(written'[r])
    BY <2>1, WriteAppends
  <2>3. \A r \in Streams : taken[r] <= Len(written'[r])
    BY <2>2 DEF TypeOK
  <2> QED
    BY <2>1, <2>2, <2>3 DEF Write, pipes, TypeOK
<1>7. CASE Stop \/ Continue \/ End
  BY <1>7 DEF Stop, Continue, End, pipes, TypeOK, News
<1>8. CASE UNCHANGED vars
  BY <1>8 DEF vars, program, pipes, TypeOK
<1> QED
  BY <1>1, <1>2, <1>3, <1>4, <1>5, <1>6, <1>7, <1>8
  DEF Next, Step, Program, Moves

LEMMA TypeInit == Init => TypeOK
  BY ConstantsAssumption
  DEF Init, TypeOK, Labels, Streams, News, Interval

\* Every variable of Adopt keeps its type in every behaviour.
THEOREM TypeCorrect == Spec => []TypeOK
  BY TypeInit, TypeStep, PTL DEF Spec

-----------------------------------------------------------------------------
(***************************************************************************)
(* Streams are cut without gaps                                            *)
(***************************************************************************)

\* One message more, where the last one ended.
LEMMA AppendedMessage ==
  ASSUME TypeOK, NothingSkipped, SendLine
  PROVE  NothingSkipped'
<1>1. PICK e \in Begin .. taken[stream] :
        /\ EndsMessage(e)
        /\ sent' = [sent EXCEPT ![stream] =
                      Append(@, [from |-> Begin, to |-> e])]
        /\ partial' = [partial EXCEPT ![stream] = taken[stream] - (e + 1)]
  BY DEF SendLine
<1>2. /\ Begin \in Nat /\ e \in Nat
      /\ Begin < e /\ e < taken[stream]
  BY <1>1, MessageInChunk
<1> DEFINE m == [from |-> Begin, to |-> e]
<1>3. stream \in Streams /\ sent[stream] \in Seq(Interval)
  BY DEF TypeOK
<1>4. taken' = taken
  BY DEF SendLine
<1> SUFFICES ASSUME NEW s \in Streams
             PROVE  /\ SentTo(s)' = taken'[s] - partial'[s]
                    /\ \A k \in DOMAIN sent'[s] :
                         sent'[s][k].from = IF k = 1 THEN 0
                                            ELSE sent'[s][k - 1].to + 1
  BY DEF NothingSkipped
<1>5. CASE s # stream
  BY <1>1, <1>4, <1>5 DEF TypeOK, NothingSkipped, SentTo
<1>6. CASE s = stream
  <2>1. sent'[s] = Append(sent[s], m) /\ m \in Interval
    BY <1>1, <1>2, <1>6 DEF TypeOK, Interval
  <2>2. /\ Len(sent'[s]) = Len(sent[s]) + 1
        /\ sent'[s] # <<>>
        /\ sent'[s][Len(sent'[s])] = m
        /\ \A k \in 1 .. Len(sent[s]) : sent'[s][k] = sent[s][k]
    BY <2>1, <1>3, <1>6
  <2>3. SentTo(s)' = e + 1
    BY <2>2 DEF SentTo
  <2>4. taken'[s] - partial'[s] = e + 1
    BY <1>1, <1>2, <1>4, <1>6 DEF TypeOK
  <2>5. m.from = SentTo(s)
    BY <1>6 DEF Begin, NothingSkipped
  <2>6. ASSUME NEW k \in DOMAIN sent'[s]
        PROVE  sent'[s][k].from = IF k = 1 THEN 0
                                  ELSE sent'[s][k - 1].to + 1
    <3>1. k \in 1 .. (Len(sent[s]) + 1) /\ Len(sent[s]) \in Nat
      BY <2>1, <1>3, <1>6
    <3>2. CASE k <= Len(sent[s])
      <4>1. k \in DOMAIN sent[s]
        BY <3>1, <3>2, <1>3, <1>6
      <4>2. sent[s][k].from = IF k = 1 THEN 0 ELSE sent[s][k - 1].to + 1
        BY <4>1 DEF NothingSkipped
      <4> QED
        BY <4>2, <3>1, <3>2, <2>2
    <3>3. CASE k = Len(sent[s]) + 1 /\ Len(sent[s]) = 0
      BY <3>3, <2>2, <2>5, <1>3, <1>6 DEF SentTo
    <3>4. CASE k = Len(sent[s]) + 1 /\ Len(sent[s]) # 0
      BY <3>1, <3>4, <2>2, <2>5, <1>3, <1>6 DEF SentTo
    <3> QED
      BY <3>1, <3>2, <3>3, <3>4
  <2> QED
    BY <2>3, <2>4, <2>6
<1> QED
  BY <1>5, <1>6

LEMMA NothingSkippedStep ==
  TypeOK /\ NothingSkipped /\ [Next]_vars => NothingSkipped'
<1> SUFFICES ASSUME TypeOK, NothingSkipped, [Next]_vars PROVE NothingSkipped'
  OBVIOUS
<1>1. CASE SendLine
  BY <1>1, AppendedMessage
<1>2. CASE ReadStream
  <2>1. sent' = sent
    BY <1>2 DEF ReadStream
  <2>2. \A s \in Streams : taken'[s] - partial'[s] = taken[s] - partial[s]
    <3> TAKE s \in Streams
    <3>1. BytesRead(stream) \in Nat
      BY BytesReadInPipe DEF TypeOK
    <3>2. taken[s] \in Nat /\ partial[s] \in Nat
      BY DEF TypeOK
    <3> QED
      BY <1>2, <3>1, <3>2 DEF ReadStream, TypeOK
  <2> QED
    BY <2>1, <2>2 DEF NothingSkipped, SentTo
<1>3. CASE Moves
  BY <1>3, MovesTouchNothing DEF NothingSkipped, SentTo, pipes
<1>4. CASE StartProcess \/ ChildNews \/ Stop \/ Continue \/ End
           \/ \E s \in Streams : Write(s)
  <2>1. UNCHANGED pipes
    BY <1>4 DEF StartProcess, ChildNews, Stop, Continue, End, Write
  <2> QED
    BY <2>1 DEF NothingSkipped, SentTo, pipes
<1>5. CASE UNCHANGED vars
  BY <1>5 DEF vars, pipes, NothingSkipped, SentTo
<1> QED
  BY <1>1, <1>2, <1>3, <1>4, <1>5 DEF Next, Step, Program, Moves

\* The messages of each stream are, in order and without a gap, what was
\* read of it.
THEOREM NothingIsSkipped == Spec => []NothingSkipped
<1>1. Init => NothingSkipped
  BY DEF Init, NothingSkipped, SentTo
<1> QED
  BY <1>1, TypeInit, TypeStep, NothingSkippedStep, PTL DEF Spec

-----------------------------------------------------------------------------
(***************************************************************************)
(* Messages are lines                                                      *)
(***************************************************************************)

\* m is a line of stream s.
IsLine(s, m) ==
  /\ m.from < m.to
  /\ m.to < Len(written[s])
  /\ written[s][m.to + 1] = Newline
  /\ \A i \in (m.from + 1) .. (m.to - 1) : written[s][i + 1] # Newline

\* What a stream holds is not changed by what is written after it.
LEMMA LinesStay ==
  ASSUME TypeOK, NEW s \in Streams, Write(s),
         NEW r \in Streams, NEW m \in Interval, IsLine(r, m)
  PROVE  IsLine(r, m)'
<1>1. PICK byte \in Bytes :
        written' = [written EXCEPT ![s] = Append(@, byte)]
  BY DEF Write
<1>2. written \in [Streams -> Seq(Bytes)]
  BY DEF TypeOK
<1>3. \A j \in 1 .. Len(written[r]) : written'[r][j] = written[r][j]
  BY <1>1, <1>2
<1>4. Len(written[r]) \in Nat /\ Len(written[r]) <= Len(written'[r])
      /\ Len(written'[r]) \in Nat
  BY <1>1, <1>2
<1>5. m.from \in Nat /\ m.to \in Nat
  BY DEF Interval
<1>6. written'[r][m.to + 1] = Newline
  <2>1. m.to + 1 \in 1 .. Len(written[r]) /\ written[r][m.to + 1] = Newline
    BY <1>4, <1>5 DEF IsLine
  <2> QED
    BY <1>3, <2>1
<1>7. ASSUME NEW i \in (m.from + 1) .. (m.to - 1)
      PROVE  written'[r][i + 1] # Newline
  <2>1. i + 1 \in 1 .. Len(written[r]) /\ written[r][i + 1] # Newline
    BY <1>4, <1>5, <1>7 DEF IsLine
  <2> QED
    BY <1>3, <2>1
<1> QED
  BY <1>4, <1>5, <1>6, <1>7 DEF IsLine

\* A message that is sent is a line.
LEMMA MessageIsLine ==
  ASSUME TypeOK, NEW e, EndsMessage(e)
  PROVE  IsLine(stream, [from |-> Begin, to |-> e])
<1>1. /\ Begin \in Nat /\ e \in Nat
      /\ Begin < e /\ e < taken[stream]
      /\ taken[stream] <= Len(written[stream])
  BY MessageInChunk
<1>2. taken[stream] \in Nat /\ Len(written[stream]) \in Nat
  BY DEF TypeOK
<1> QED
  BY <1>1, <1>2 DEF EndsMessage, IsLine

LEMMA LinesStep == TypeOK /\ MessagesAreLines /\ [Next]_vars => MessagesAreLines'
<1> SUFFICES ASSUME TypeOK, MessagesAreLines, [Next]_vars,
                    NEW s \in Streams, NEW k \in DOMAIN sent'[s]
             PROVE  IsLine(s, sent[s][k])'
  BY DEF MessagesAreLines, IsLine
<1>1. CASE SendLine
  <2>1. PICK e \in Begin .. taken[stream] :
          /\ EndsMessage(e)
          /\ sent' = [sent EXCEPT ![stream] =
                        Append(@, [from |-> Begin, to |-> e])]
    BY <1>1 DEF SendLine
  <2>2. written' = written
    BY <1>1 DEF SendLine, program
  <2>3. IsLine(stream, [from |-> Begin, to |-> e])
    BY <2>1, MessageIsLine
  <2>4. CASE s = stream /\ k = Len(sent[s]) + 1
    <3>1. sent'[s][k] = [from |-> Begin, to |-> e]
      BY <2>1, <2>4 DEF TypeOK
    <3> QED
      BY <2>2, <2>3, <2>4, <3>1 DEF IsLine
  <2>5. CASE ~(s = stream /\ k = Len(sent[s]) + 1)
    <3>1. k \in DOMAIN sent[s] /\ sent'[s][k] = sent[s][k]
      BY <2>1, <2>5 DEF TypeOK
    <3>2. IsLine(s, sent[s][k])
      BY <3>1 DEF MessagesAreLines, IsLine
    <3> QED
      BY <2>2, <3>1, <3>2 DEF IsLine
  <2> QED
    BY <2>4, <2>5
<1>2. CASE \E r \in Streams : Write(r)
  <2>1. PICK r \in Streams : Write(r)
    BY <1>2
  <2>2. sent' = sent
    BY <2>1 DEF Write, pipes
  <2>3. IsLine(s, sent[s][k]) /\ sent[s][k] \in Interval
    BY <2>2 DEF MessagesAreLines, IsLine, TypeOK
  <2>4. \A m \in Interval : IsLine(s, m) => IsLine(s, m)'
    BY <2>1, LinesStay
  <2> QED
    BY <2>2, <2>3, <2>4 DEF IsLine
<1>3. CASE \/ Moves \/ StartProcess \/ ChildNews \/ ReadStream
           \/ Stop \/ Continue \/ End \/ UNCHANGED vars
  <2>1. UNCHANGED <<written, sent>>
    BY <1>3, MovesTouchNothing
    DEF StartProcess, ChildNews, ReadStream, Stop, Continue, End, vars,
        program, pipes
  <2> QED
    BY <2>1 DEF MessagesAreLines, IsLine
<1> QED
  BY <1>1, <1>2, <1>3 DEF Next, Step, Program, Moves

\* No partial line is ever sent.
THEOREM OnlyLinesAreSent == Spec => []MessagesAreLines
<1>1. Init => MessagesAreLines
  BY DEF Init, MessagesAreLines
<1> QED
  BY <1>1, TypeInit, TypeStep, LinesStep, PTL DEF Spec

-----------------------------------------------------------------------------
(***************************************************************************)
(* The end                                                                 *)
(***************************************************************************)

\* What adopt has heard of the program is what became of it: it stops
\* reading in the round in which it reaps the program, and hears nothing
\* more.
EndIsKnown ==
  /\ pc = "start" => child = "none"
  /\ continue_reading <=> child # "reaped"
  /\ child = "zombie" => news = "ended"
  /\ news = "ended" => child = "zombie"
  /\ child = "reaped" => /\ told # <<>> /\ told[Len(told)] = "ended"
                         /\ pc \notin {"prepare", "waitpid"}
  /\ pc = "finish" => child = "reaped"

LEMMA EndStep == TypeOK /\ EndIsKnown /\ [Next]_vars => EndIsKnown'
<1> SUFFICES ASSUME TypeOK, EndIsKnown, [Next]_vars PROVE EndIsKnown'
  OBVIOUS
<1> USE DEF EndIsKnown
<1>1. CASE ChildNews
  <2>1. told \in Seq(News \ {"none"}) /\ news \in News \ {"none"}
    BY <1>1 DEF ChildNews, TypeOK
  <2>2. told' # <<>> /\ told'[Len(told')] = news
    BY <1>1, <2>1 DEF ChildNews
  <2> QED
    BY <1>1, <2>2 DEF ChildNews, EndsReading, TypeOK
<1>2. CASE Poll
  BY <1>2 DEF Poll, program, TypeOK
<1>3. CASE StartProcess \/ StartFails \/ Prepare \/ NothingNew \/ Finish
  BY <1>3
  DEF StartProcess, StartFails, Prepare, NothingNew, Finish, program, TypeOK
<1>4. CASE ReadStream \/ NothingToRead \/ SendLine \/ FilterThrows
           \/ KeepPartial
  BY <1>4 DEF ReadStream, NothingToRead, SendLine, FilterThrows, KeepPartial,
              NextTurn, program
<1>5. CASE Program
  BY <1>5 DEF Program, Write, Stop, Continue, End, Alive
<1>6. CASE UNCHANGED vars
  BY <1>6 DEF vars, program
<1> QED
  BY <1>1, <1>2, <1>3, <1>4, <1>5, <1>6 DEF Next, Step

\* adopt leaves its loop after the program has ended, and not before.
THEOREM EndsWithTheProgram == Spec => []LeavesAfterTheEnd
<1>1. Init => EndIsKnown
  BY DEF Init, EndIsKnown
<1>2. EndIsKnown => LeavesAfterTheEnd
  BY DEF EndIsKnown, LeavesAfterTheEnd
<1> QED
  BY <1>1, <1>2, TypeInit, TypeStep, EndStep, PTL DEF Spec

=============================================================================
