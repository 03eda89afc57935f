------------------------------- MODULE Control -------------------------------
(***************************************************************************)
(* The commands that start and stop the service: LogPort::start, stop,     *)
(* restart, reload, reloadIfRunning, isRunning and destroy, and the file   *)
(* with the service's pid by which they find it.                           *)
(*                                                                         *)
(* The existence of the file stands for a running service.  It is looked   *)
(* at and acted on in separate steps, and the service that it names never  *)
(* removes it.  daemon() ends the process the user waits for: the process  *)
(* that becomes the service writes the file after the command has          *)
(* returned.                                                               *)
(*                                                                         *)
(* A command is its number; if it becomes a service that is also its pid.  *)
(* The service itself is Supervisor: here it runs until it ends.           *)
(***************************************************************************)
EXTENDS Integers, FiniteSets

CONSTANTS
  MaxCommands,  \* bound: commands that are given
  MaxFailures,  \* bound: processes that are killed or cannot fork
  MaxReboots    \* bound: reboots

ASSUME ConstantsAssumption ==
  /\ MaxCommands \in Nat
  /\ MaxFailures \in Nat
  /\ MaxReboots \in Nat

Commands == 1 .. MaxCommands
NoFile   == -1
Empty    == 0   \* truncated, and not yet written

VARIABLES
  file,       \* NoFile, Empty or the pid in it
  given,      \* the commands given so far
  kind,       \* of each command, see Kinds
  pc,
  saw,        \* what it read in the file, until it has used it
  told,       \* the services, and commands, whose run is FALSE
  disturbed,  \* history: commands that were not alone while they worked
  failures, reboots

process == <<kind, pc, saw>>
vars    == <<file, given, process, told, disturbed, failures, reboots>>

\* "reload" is also what `logport watch` ends with.
Kinds  == {"start", "stop", "restart", "reload", "destroy"}
Labels == {"waiting", "asks", "look", "signal", "remove", "sleep", "again",
           "daemon", "open", "write", "serving", "done", "gone"}

Works    == {"asks", "look", "signal", "remove", "sleep", "again", "daemon",
             "open", "write"}
Working  == {c \in Commands : pc[c] \in Works}
Services == {c \in Commands : pc[c] \in {"open", "write", "serving"}}
Untold   == Services \ told

Goes(c, label) == pc' = [pc EXCEPT ![c] = label]

-----------------------------------------------------------------------------
(***************************************************************************)
(* The commands                                                            *)
(***************************************************************************)

Init ==
  /\ file = NoFile
  /\ given = 0
  /\ kind = [c \in Commands |-> "start"]
  /\ pc = [c \in Commands |-> "waiting"]
  /\ saw = [c \in Commands |-> NoFile]
  /\ told = {}
  /\ disturbed = {}
  /\ failures = 0 /\ reboots = 0

\* A command may be given while others are at work: it and they are disturbed.
Give ==
  /\ given < MaxCommands
  /\ given' = given + 1
  /\ \E k \in Kinds :
       /\ kind' = [kind EXCEPT ![given + 1] = k]
       /\ Goes(given + 1, IF k = "destroy" THEN "asks" ELSE "look")
  /\ disturbed' = IF Working = {} THEN disturbed
                                  ELSE disturbed \cup Working \cup {given + 1}
  /\ UNCHANGED <<file, saw, told, failures, reboots>>

\* destroy: isRunning(); without a service the database alone is made anew.
AskIfRunning(c) ==
  /\ pc[c] = "asks"
  /\ Goes(c, IF file # NoFile THEN "look" ELSE "done")
  /\ UNCHANGED <<file, given, kind, saw, told, disturbed,
                 failures, reboots>>

\* Mutation: restart asks for a running service like start.
WithFile_Restart(k) == IF k \in {"start", "restart"} THEN "done" ELSE "signal"

\* Where a command goes on that finds a file: "service is already running".
WithFile(k) == IF k = "start" THEN "done" ELSE "signal"

\* ... and one that finds none.
WithoutFile(k) ==
  CASE k = "start"   -> "daemon"
    [] k = "stop"    -> "done"
    [] k = "restart" -> "sleep"
    [] k = "reload"  -> "done"
    [] k = "destroy" -> "again"

\* std::ifstream input_pid_file; input_pid_file >> pid
Look(c) ==
  /\ pc[c] = "look"
  /\ saw' = [saw EXCEPT ![c] = file]
  /\ Goes(c, IF file # NoFile THEN WithFile(kind[c]) ELSE WithoutFile(kind[c]))
  /\ UNCHANGED <<file, given, kind, told, disturbed, failures,
                 reboots>>

\* The processes a kill can reach.  Nothing is read from an empty file: the
\* pid is not initialized.  If it is 0 or -1 the signal goes to the command
\* itself, with its process group, or to everybody else.
Reached(c) ==
  IF saw[c] = Empty THEN SUBSET (Services \cup Working)
                    ELSE {Services \cap {saw[c]}}

\* restart leaves the file to the service it starts.
AfterSignal(k) ==
  CASE k \in {"stop", "destroy"} -> "remove"
    [] k = "restart"             -> "sleep"
    [] OTHER                     -> "done"

\* kill( pid, SIGTERM ), or SIGHUP for a reload.  A command that it reaches
\* goes on: the handler sets run, which startWatches finds FALSE.
Signal(c) ==
  /\ pc[c] = "signal"
  /\ \E reached \in Reached(c) :
       told' = IF kind[c] = "reload" THEN told ELSE told \cup reached
  /\ saw' = [saw EXCEPT ![c] = NoFile]
  /\ Goes(c, AfterSignal(kind[c]))
  /\ UNCHANGED <<file, given, kind, disturbed, failures, reboots>>

\* The service is not waited for.
Remove(c) ==
  /\ pc[c] = "remove"
  /\ file' = NoFile
  /\ Goes(c, IF kind[c] = "destroy" THEN "again" ELSE "done")
  /\ UNCHANGED <<given, kind, saw, told, disturbed, failures,
                 reboots>>

\* restart: sleep( 6 ), however long the service takes to stop.
Sleep(c) ==
  /\ pc[c] = "sleep"
  /\ Goes(c, "daemon")
  /\ UNCHANGED <<file, given, kind, saw, told, disturbed,
                 failures, reboots>>

\* destroy ends with a start.
LookAgain(c) ==
  /\ pc[c] = "again"
  /\ Goes(c, IF file # NoFile THEN "done" ELSE "daemon")
  /\ UNCHANGED <<file, given, kind, saw, told, disturbed,
                 failures, reboots>>

\* From here on the user has the prompt back.
Daemon(c) ==
  /\ pc[c] = "daemon"
  /\ Goes(c, "open")
  /\ UNCHANGED <<file, given, kind, saw, told, disturbed,
                 failures, reboots>>

DaemonFails(c) ==
  /\ pc[c] = "daemon"
  /\ failures < MaxFailures
  /\ failures' = failures + 1
  /\ Goes(c, "gone")
  /\ UNCHANGED <<file, given, kind, saw, told, disturbed, reboots>>

\* std::ofstream truncates the file ...
OpenFile(c) ==
  /\ pc[c] = "open"
  /\ file' = Empty
  /\ Goes(c, "write")
  /\ UNCHANGED <<given, kind, saw, told, disturbed, failures,
                 reboots>>

\* Mutation: the pid is that of the command before daemon().
Written_Parent(c) == MaxCommands + c

\* ... and getpid() goes into it when it is closed.
Written(c) == c

WriteFile(c) ==
  /\ pc[c] = "write"
  /\ file' = Written(c)
  /\ Goes(c, "serving")
  /\ UNCHANGED <<given, kind, saw, told, disturbed, failures,
                 reboots>>

Command(c) ==
  \/ AskIfRunning(c) \/ Look(c) \/ Signal(c) \/ Remove(c) \/ Sleep(c)
  \/ LookAgain(c) \/ Daemon(c) \/ OpenFile(c) \/ WriteFile(c)

-----------------------------------------------------------------------------
(***************************************************************************)
(* The service, and what happens to processes                              *)
(***************************************************************************)

\* Mutation: a service that ends removes the file.
End_Removes(c) ==
  /\ pc[c] = "serving" /\ c \in told
  /\ file' = NoFile
  /\ Goes(c, "gone")
  /\ told' = told \ {c}
  /\ UNCHANGED <<given, kind, saw, disturbed, failures, reboots>>

\* A service that was told to stop comes to its end and leaves the file alone.
End(c) ==
  /\ pc[c] = "serving" /\ c \in told
  /\ Goes(c, "gone")
  /\ told' = told \ {c}
  /\ UNCHANGED <<file, given, kind, saw, disturbed, failures, reboots>>

\* SIGTERM from elsewhere, a shutdown for one.
Terminate(c) ==
  /\ c \in Untold
  /\ told' = told \cup {c}
  /\ UNCHANGED <<file, given, process, disturbed, failures, reboots>>

\* A command or a service is killed.
Kill(c) ==
  /\ pc[c] \in Works \cup {"serving"}
  /\ failures < MaxFailures
  /\ failures' = failures + 1
  /\ Goes(c, "gone")
  /\ saw' = [saw EXCEPT ![c] = NoFile]
  /\ told' = told \ {c}
  /\ UNCHANGED <<file, given, kind, disturbed, reboots>>

\* /var/run is empty after a reboot, or still holds the file.
Reboot ==
  /\ reboots < MaxReboots
  /\ reboots' = reboots + 1
  /\ pc' = [c \in Commands |->
              IF c \in Working \cup Services THEN "gone" ELSE pc[c]]
  /\ file' \in {file, NoFile}
  /\ saw' = [c \in Commands |-> NoFile]
  /\ told' = {}
  /\ UNCHANGED <<given, kind, disturbed, failures>>

Next ==
  \/ Give \/ Reboot
  \/ \E c \in Commands : \/ Command(c) \/ DaemonFails(c)
                         \/ End(c) \/ Terminate(c) \/ Kill(c)

Spec == Init /\ [][Next]_vars

\* A command goes on.
FairSpec == Spec /\ \A c \in Commands : WF_vars(Command(c))

-----------------------------------------------------------------------------
(***************************************************************************)
(* Properties                                                              *)
(***************************************************************************)

\* Every variable keeps its type.
TypeOK ==
  /\ file \in Commands \cup {NoFile, Empty}
  /\ given \in 0 .. MaxCommands
  /\ kind \in [Commands -> Kinds]
  /\ pc \in [Commands -> Labels]
  /\ saw \in [Commands -> Commands \cup {NoFile, Empty}]
  /\ told \subseteq Commands
  /\ disturbed \subseteq Commands
  /\ failures \in Nat
  /\ reboots \in Nat

\* As long as no command is given before the one before it has done its work
\* (which includes the file that its service writes after the command has
\* returned), two services are never up at once, other than one on its way
\* out: "service is already running".  Whatever is killed or rebooted in
\* between, and whatever file that leaves.
OneService == disturbed = {} => Cardinality(Untold) <= 1

\* Under the same condition a stop, a restart, a reload and a destroy reach
\* the service that is up: the pid they are about to signal is its, also
\* when a predecessor ends later than it began.
CommandsReachTheService ==
  \A c \in Commands :
    pc[c] = "signal" /\ disturbed = {} => Untold \subseteq {saw[c]}

\* A restart that is left alone ends with a service that the file names, in
\* whatever state of the file it begins: stale after a crash, empty, or
\* gone; and whatever the commands before it did to each other.  It may have
\* been told to stop by then, by its own kill() if it read an empty file.
RestartRecovers ==
  \A c \in Commands :
    (kind[c] = "restart" /\ pc[c] = "look")
      ~> \/ pc[c] = "serving" /\ file = c
         \/ pc[c] = "gone" \/ c \in disturbed

=============================================================================
