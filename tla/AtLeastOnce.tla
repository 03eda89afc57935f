---------------------------- MODULE AtLeastOnce ----------------------------
(***************************************************************************)
(* What a watch promises (README: "sends changes to kafka (one line per    *)
(* message)", "Saves unsuccessful messages and replays them to ensure that *)
(* no messages are lost"), without its buffers, its loop and its signals.  *)
(*                                                                         *)
(* Somebody reads a file from a mark, or from its first byte, and hands it *)
(* over piece by piece, in order and with no byte between two pieces.  The *)
(* mark never gets ahead of the reader that moves it.  A message that      *)
(* comes back is recorded; once its record is complete the message is      *)
(* owed, and a record is left of it until it has been handed over again.   *)
(***************************************************************************)
EXTENDS Integers

CONSTANTS
  Files,   \* the numbers of the files that have the watched name in turn
  NoFile   \* what nobody reads

VARIABLES
  size,      \* size[f]: the bytes written to f
  file,      \* the file that has the name
  source,    \* the file that is being read, or NoFile
  cursor,    \* its first byte that was not handed over
  mark,      \* where the next reader starts; it does not say in which file
  handed,    \* messages that were handed over
  recorded,  \* messages with a record on disk
  owed       \* messages recorded wholly and not handed over since

vars == <<size, file, source, cursor, mark, handed, recorded, owed>>

Init ==
  /\ size = [f \in Files |-> 0]
  /\ file = 0
  /\ source = NoFile /\ cursor = 0 /\ mark = 0
  /\ handed = {} /\ recorded = {} /\ owed = {}

\* The world: a file grows, and another file gets the name.
Grow ==
  /\ \E f \in Files : size' = [size EXCEPT ![f] = @ + 1]
  /\ UNCHANGED <<file, source, cursor, mark, handed, recorded, owed>>

Rename ==
  /\ file' = file + 1
  /\ UNCHANGED <<size, source, cursor, mark, handed, recorded, owed>>

\* A reader has opened the file that has the name, or had it a moment ago.  It
\* takes the mark when that lies in the file that has the name; otherwise it
\* starts at the first byte, and may move the mark there.
Resume ==
  /\ source = NoFile
  /\ source' \in {f \in Files : f <= file}
  /\ IF mark \in 0 .. size[file]
       THEN cursor' = mark /\ mark' = mark
       ELSE cursor' = 0 /\ mark' \in {mark, 0}
  /\ UNCHANGED <<size, file, handed, recorded, owed>>

\* The bytes from the cursor up to the end of a line, at byte e.
HandOver ==
  /\ source # NoFile
  /\ \E e \in (cursor + 1) .. (size[source] - 1) :
       /\ handed' = handed \cup {[inode |-> source, from |-> cursor, to |-> e]}
       /\ cursor' = e + 1
  /\ UNCHANGED <<size, file, source, mark, recorded, owed>>

\* All that is left of a file that is not going to be read any more; nothing
\* if the reader started behind its last byte.
Drain ==
  /\ source # NoFile
  /\ IF cursor >= size[source]
       THEN UNCHANGED <<handed, cursor>>
       ELSE /\ handed' = handed \cup
                 {[inode |-> source, from |-> cursor, to |-> size[source]]}
            /\ cursor' = size[source]
  /\ mark' \in {mark, 0}
  /\ UNCHANGED <<size, file, source, recorded, owed>>

\* The reader moves the mark, never past itself.
Mark ==
  /\ source # NoFile
  /\ mark' <= cursor
  /\ UNCHANGED <<size, file, source, cursor, handed, recorded, owed>>

\* It ends, at any moment.
Leave ==
  /\ source # NoFile
  /\ source' = NoFile /\ cursor' = 0
  /\ UNCHANGED <<size, file, mark, handed, recorded, owed>>

\* One of the messages that were handed over comes back and is recorded ...
Return ==
  /\ source # NoFile
  /\ \E m \in handed : recorded' = recorded \cup {m}
  /\ UNCHANGED <<size, file, source, cursor, mark, handed, owed>>

\* ... and when its record is complete, the message is owed.
Owe ==
  /\ source # NoFile
  /\ \E m \in recorded : owed' = owed \cup {m}
  /\ UNCHANGED <<size, file, source, cursor, mark, handed, recorded>>

\* Recorded messages are handed over again, and records are erased, but not
\* those of messages that are still owed.
Repeat ==
  /\ source # NoFile
  /\ \E again \in SUBSET recorded : owed' = owed \ again
  /\ recorded' \subseteq recorded
  /\ owed' \subseteq recorded'
  /\ UNCHANGED <<size, file, source, cursor, mark, handed>>

Next == Grow \/ Rename \/ Resume \/ HandOver \/ Drain \/ Mark \/ Leave
        \/ Return \/ Owe \/ Repeat

Spec == Init /\ [][Next]_vars

=============================================================================
