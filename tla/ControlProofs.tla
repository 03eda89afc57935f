---------------------------- MODULE ControlProofs ----------------------------
(***************************************************************************)
(* What Control promises for any number of commands, failures and reboots. *)
(***************************************************************************)
EXTENDS Control, FiniteSetTheorems, TLAPS

-----------------------------------------------------------------------------
(***************************************************************************)
(* Types                                                                   *)
(***************************************************************************)

LEMMA InitTypes == Init => TypeOK
BY ConstantsAssumption
   DEF Init, TypeOK, Commands, Kinds, Labels, NoFile, Empty

\* The label a command goes on at.
LEMMA GoesToLabel ==
  ASSUME NEW k \in Kinds
  PROVE  /\ WithFile(k) \in {"done", "signal"}
         /\ WithoutFile(k) \in {"daemon", "done", "sleep", "again"}
         /\ AfterSignal(k) \in {"remove", "sleep", "done"}
         /\ k = "reload" => AfterSignal(k) = "done"
BY DEF Kinds, WithFile, WithoutFile, AfterSignal

LEMMA CommandKeepsTypes ==
  ASSUME TypeOK, NEW c \in Commands, Command(c)
  PROVE  TypeOK'
<1> USE DEF TypeOK, Goes
<1>1. CASE AskIfRunning(c)
  BY <1>1 DEF AskIfRunning, Labels
<1>2. CASE Look(c)
  <2>1. /\ WithFile(kind[c]) \in Labels
        /\ WithoutFile(kind[c]) \in Labels
    BY GoesToLabel DEF Labels
  <2> QED
    BY <1>2, <2>1 DEF Look
<1>3. CASE Signal(c)
  <2>1. PICK reached \in Reached(c) :
          told' = IF kind[c] = "reload" THEN told ELSE told \cup reached
    BY <1>3 DEF Signal
  <2>2. reached \subseteq Commands
    BY <2>1 DEF Reached, Services, Working
  <2>3. told' \subseteq Commands
    BY <2>1, <2>2
  <2>4. pc' \in [Commands -> Labels]
    BY <1>3, GoesToLabel DEF Signal, Labels
  <2> QED
    BY <1>3, <2>3, <2>4 DEF Signal
<1>4. CASE Remove(c)
  BY <1>4 DEF Remove, Labels
<1>5. CASE Sleep(c) \/ LookAgain(c) \/ Daemon(c)
  BY <1>5 DEF Sleep, LookAgain, Daemon, Labels
<1>6. CASE OpenFile(c)
  BY <1>6 DEF OpenFile, Labels
<1>7. CASE WriteFile(c)
  BY <1>7 DEF WriteFile, Written, Labels
<1> QED
  BY <1>1, <1>2, <1>3, <1>4, <1>5, <1>6, <1>7 DEF Command

LEMMA GiveKeepsTypes ==
  ASSUME TypeOK, Give
  PROVE  TypeOK'
<1>1. given + 1 \in Commands
  BY ConstantsAssumption DEF Give, TypeOK, Commands
<1>2. PICK k \in Kinds :
        /\ kind' = [kind EXCEPT ![given + 1] = k]
        /\ Goes(given + 1, IF k = "destroy" THEN "asks" ELSE "look")
  BY DEF Give
<1>3. Working \subseteq Commands
  BY DEF Working
<1>4. given' \in 0 .. MaxCommands
  BY ConstantsAssumption DEF Give, TypeOK
<1> QED
  BY <1>1, <1>2, <1>3, <1>4 DEF Give, TypeOK, Goes, Labels

LEMMA NextKeepsTypes == TypeOK /\ [Next]_vars => TypeOK'
<1> SUFFICES ASSUME TypeOK, [Next]_vars PROVE TypeOK'
  OBVIOUS
<1>1. CASE UNCHANGED vars
  BY <1>1 DEF vars, process, TypeOK
<1>2. CASE Give
  BY <1>2, GiveKeepsTypes
<1>3. CASE Reboot
  BY <1>3 DEF Reboot, TypeOK, Labels
<1>4. ASSUME NEW c \in Commands,
             \/ Command(c) \/ DaemonFails(c) \/ End(c) \/ Terminate(c)
             \/ Kill(c)
      PROVE  TypeOK'
  <2>1. CASE DaemonFails(c) \/ End(c) \/ Kill(c)
    BY <2>1 DEF DaemonFails, End, Kill, Goes, TypeOK, Labels
  <2>2. CASE Terminate(c)
    BY <2>2 DEF Terminate, process, TypeOK
  <2> QED
    BY <1>4, <2>1, <2>2, CommandKeepsTypes
<1> QED
  BY <1>1, <1>2, <1>3, <1>4 DEF Next

\* Every variable of the commands keeps its type.
THEOREM TypeCorrect == Spec => []TypeOK
BY InitTypes, NextKeepsTypes, PTL DEF Spec

-----------------------------------------------------------------------------
(***************************************************************************)
(* One service, and commands that reach it                                 *)
(***************************************************************************)

Alone == disturbed = {}

\* A command that is past its kill(), or has found no file.
Past == {"remove", "sleep", "again", "daemon", "open", "write"}

\* One command works at a time.
OneWorks == \A c, d \in Working : c = d

\* From then on no service is up but the one this command becomes.
NoOther == \A c \in Commands : pc[c] \in Past => Untold \subseteq {c}

\* What a command is about to signal is still in the file.
SawTheFile == \A c \in Commands : pc[c] = "signal" => saw[c] = file

\* A service that is up is in the file.
InTheFile == \A c \in Untold : pc[c] = "serving" => file = c

AloneInv == Alone => OneWorks /\ NoOther /\ SawTheFile /\ InTheFile

IInv == TypeOK /\ AloneInv

LEMMA InitInv == Init => IInv
<1> SUFFICES ASSUME Init PROVE AloneInv
  BY InitTypes DEF IInv
<1>1. \A c \in Commands : pc[c] = "waiting"
  BY DEF Init
<1> QED
  BY <1>1 DEF AloneInv, OneWorks, NoOther, SawTheFile, InTheFile, Working,
              Works, Untold, Services, Past

\* No other command works.
LEMMA OthersRest ==
  ASSUME IInv, Alone, NEW c \in Commands, pc[c] \in Works,
         NEW d \in Commands, d # c
  PROVE  pc[d] \notin Works
BY DEF IInv, AloneInv, OneWorks, Working

\* A service that is up beside a command at work is in the file.
LEMMA UpIsInTheFile ==
  ASSUME IInv, Alone, NEW c \in Commands, pc[c] \in Works,
         NEW d \in Untold, d # c
  PROVE  d \in Commands /\ pc[d] = "serving" /\ file = d
<1>1. d \in Commands /\ pc[d] \in {"open", "write", "serving"}
  BY DEF Untold, Services
<1>2. pc[d] \notin Works
  BY <1>1, OthersRest
<1> QED
  BY <1>1, <1>2 DEF Works, IInv, AloneInv, InTheFile

\* A kill() that is not a reload reaches whatever is up.
LEMMA SignalReaches ==
  ASSUME IInv, Alone, NEW c \in Commands, Signal(c), kind[c] # "reload"
  PROVE  Untold' = {}
<1>1. PICK reached \in Reached(c) : told' = told \cup reached
  BY DEF Signal
<1>2. pc[c] = "signal" /\ pc[c] \in Works /\ saw[c] = file
  BY DEF Signal, Works, IInv, AloneInv, SawTheFile
<1>3. ASSUME NEW u \in Untold PROVE u \in reached
  <2>1. u # c
    BY <1>2, <1>3 DEF Untold, Services
  <2>2. u \in Commands /\ file = u /\ u \in Services
    BY <1>2, <2>1, UpIsInTheFile DEF Untold
  <2>3. u # Empty
    BY <2>2 DEF Commands, Empty
  <2> QED
    BY <1>2, <2>2, <2>3 DEF Reached
<1>4. Services' \subseteq Services
  BY <1>2, GoesToLabel DEF Signal, Services, Goes, IInv, TypeOK
<1> QED
  BY <1>1, <1>3, <1>4 DEF Untold

LEMMA CommandKeepsAlone ==
  ASSUME IInv, NEW c \in Commands, Command(c)
  PROVE  AloneInv'
<1> SUFFICES ASSUME Alone PROVE (OneWorks /\ NoOther /\ SawTheFile /\ InTheFile)'
  BY DEF AloneInv, Alone, Command, AskIfRunning, Look, Signal, Remove, Sleep,
         LookAgain, Daemon, OpenFile, WriteFile
<1>1. pc[c] \in Works
  BY DEF Command, AskIfRunning, Look, Signal, Remove, Sleep, LookAgain,
         Daemon, OpenFile, WriteFile, Works
<1>2. \A d \in Commands \ {c} : pc'[d] = pc[d] /\ pc[d] \notin Works
  BY <1>1, OthersRest
     DEF IInv, TypeOK, Goes, Command, AskIfRunning, Look, Signal, Remove,
         Sleep, LookAgain, Daemon, OpenFile, WriteFile
<1>3. OneWorks'
  BY <1>2 DEF OneWorks, Working
<1>4. \A d \in Commands \ {c} : pc'[d] # "signal" /\ pc'[d] \notin Past
  BY <1>2 DEF Works, Past
<1>5. told \subseteq told'
  BY DEF Command, AskIfRunning, Look, Signal, Remove,
         Sleep, LookAgain, Daemon, OpenFile, WriteFile
<1>6. Untold' \subseteq Untold \cup {c}
  BY <1>2, <1>5 DEF Untold, Services
<1>7. pc[c] \in Past => Untold' \subseteq {c}
  BY <1>6 DEF IInv, AloneInv, NoOther
<1>8. ASSUME pc'[c] \in Past PROVE Untold' \subseteq {c}
  <2>1. CASE pc[c] \in Past
    BY <1>7, <2>1
  <2>2. CASE Look(c)
    <3>1. file = NoFile
      BY <1>8, <2>2, GoesToLabel DEF Look, Goes, Past, IInv, TypeOK
    <3>2. \A d \in Untold : d = c
      BY <1>1, <3>1, UpIsInTheFile DEF NoFile, Commands
    <3> QED
      BY <1>6, <3>2
  <2>3. CASE Signal(c)
    <3>1. kind[c] # "reload"
      BY <1>8, <2>3, GoesToLabel DEF Signal, Goes, Past, IInv, TypeOK
    <3> QED
      BY <2>3, <3>1, SignalReaches
  <2>4. CASE AskIfRunning(c)
    BY <1>8, <2>4 DEF AskIfRunning, Goes, Past, IInv, TypeOK
  <2> QED
    BY <2>1, <2>2, <2>3, <2>4
       DEF Command, Remove, Sleep, LookAgain, Daemon, OpenFile, WriteFile, Past
<1>9. NoOther'
  BY <1>4, <1>8 DEF NoOther
<1>10. ASSUME pc'[c] = "signal" PROVE saw'[c] = file'
  <2>1. Look(c)
    BY <1>10, GoesToLabel
       DEF IInv, TypeOK, Goes, Command, AskIfRunning, Look, Signal, Remove,
           Sleep, LookAgain, Daemon, OpenFile, WriteFile
  <2> QED
    BY <2>1 DEF Look, IInv, TypeOK
<1>11. SawTheFile'
  BY <1>4, <1>10 DEF SawTheFile
<1>12. ASSUME NEW d \in Untold', pc'[d] = "serving" PROVE file' = d
  <2>1. d \in Commands
    BY <1>12 DEF Untold, Services
  <2>2. CASE d = c
    <3>1. WriteFile(c)
      BY <1>1, <1>12, <2>2, GoesToLabel
         DEF IInv, TypeOK, Goes, Command, AskIfRunning, Look, Signal, Remove,
             Sleep, LookAgain, Daemon, OpenFile, WriteFile, Works
    <3> QED
      BY <2>2, <3>1 DEF WriteFile, Written
  <2>3. CASE d # c
    <3>1. d \in Untold
      BY <1>6, <2>3
    <3>2. file = d
      BY <1>1, <2>3, <3>1, UpIsInTheFile
    <3>3. pc[c] \notin Past
      BY <1>7, <2>3
    <3>4. file' = file
      BY <3>3 DEF Command, AskIfRunning, Look, Signal, Remove,
                  Sleep, LookAgain, Daemon, OpenFile, WriteFile, Past
    <3> QED
      BY <3>2, <3>4
  <2> QED
    BY <2>2, <2>3
<1>13. InTheFile'
  BY <1>12 DEF InTheFile
<1> QED
  BY <1>3, <1>9, <1>11, <1>13

LEMMA GiveKeepsAlone ==
  ASSUME IInv, Give
  PROVE  AloneInv'
<1> SUFFICES ASSUME Alone' PROVE (OneWorks /\ NoOther /\ SawTheFile /\ InTheFile)'
  BY DEF AloneInv
<1>1. Alone /\ Working = {}
  BY DEF Give, Alone
<1>2. \A d \in Commands : pc[d] \notin Works
  BY <1>1 DEF Working
<1>3. PICK n \in Nat, label \in {"asks", "look"} : n = given + 1 /\ Goes(n, label)
  BY ConstantsAssumption DEF Give, IInv, TypeOK
<1>4. \A d \in Commands : pc'[d] = (IF d = n THEN label ELSE pc[d])
  BY <1>3 DEF Goes, IInv, TypeOK
<1>5. file' = file /\ told' = told
  BY DEF Give
<1>6. OneWorks'
  BY <1>2, <1>4 DEF OneWorks, Working
<1>7. \A d \in Commands : pc'[d] # "signal" /\ pc'[d] \notin Past
  BY <1>2, <1>3, <1>4 DEF Works, Past
<1>8. \A d \in Commands : pc'[d] = "serving" => pc[d] = "serving"
  BY <1>3, <1>4
<1>9. InTheFile'
  BY <1>1, <1>5, <1>8 DEF InTheFile, Untold, Services, IInv, AloneInv
<1> QED
  BY <1>6, <1>7, <1>9 DEF NoOther, SawTheFile

LEMMA NextKeepsInv == IInv /\ [Next]_vars => IInv'
<1> SUFFICES ASSUME IInv, [Next]_vars PROVE AloneInv'
  BY NextKeepsTypes DEF IInv
<1>1. CASE UNCHANGED vars
  BY <1>1 DEF vars, process, IInv, AloneInv, Alone, OneWorks, NoOther,
              SawTheFile, InTheFile, Working, Untold, Services
<1>2. CASE Give
  BY <1>2, GiveKeepsAlone
<1>3. CASE Reboot
  <2>1. \A c \in Commands : pc'[c] \notin Works \cup {"serving"}
    BY <1>3 DEF Reboot, Working, Services, Works
  <2> QED
    BY <2>1 DEF AloneInv, OneWorks, NoOther, SawTheFile, InTheFile, Working,
                Works, Untold, Services, Past
<1>4. ASSUME NEW c \in Commands, Command(c) PROVE AloneInv'
  BY <1>4, CommandKeepsAlone
<1>5. ASSUME NEW c \in Commands, DaemonFails(c) \/ End(c) \/ Kill(c)
      PROVE  AloneInv'
  <2>1. \A d \in Commands : pc'[d] = (IF d = c THEN "gone" ELSE pc[d])
    BY <1>5 DEF DaemonFails, End, Kill, Goes, IInv, TypeOK
  <2>2. file' = file /\ disturbed' = disturbed /\ told \ {c} \subseteq told'
    BY <1>5 DEF DaemonFails, End, Kill
  <2>3. \A d \in Commands \ {c} : saw'[d] = saw[d]
    BY <1>5 DEF DaemonFails, End, Kill, IInv, TypeOK
  <2>4. Untold' \subseteq Untold
    BY <2>1, <2>2 DEF Untold, Services
  <2>5. Working' \subseteq Working
    BY <2>1 DEF Working, Works
  <2> SUFFICES ASSUME Alone'
               PROVE  (OneWorks /\ NoOther /\ SawTheFile /\ InTheFile)'
    BY DEF AloneInv
  <2>6. OneWorks /\ NoOther /\ SawTheFile /\ InTheFile
    BY <2>2 DEF IInv, AloneInv, Alone
  <2>7. (OneWorks /\ NoOther)'
    BY <2>1, <2>4, <2>5, <2>6 DEF OneWorks, NoOther, Past
  <2>8. SawTheFile'
    BY <2>1, <2>2, <2>3, <2>6 DEF SawTheFile
  <2>9. InTheFile'
    BY <2>1, <2>2, <2>4, <2>6 DEF InTheFile, Untold, Services
  <2> QED
    BY <2>7, <2>8, <2>9
<1>6. ASSUME NEW c \in Commands, Terminate(c) PROVE AloneInv'
  BY <1>6 DEF Terminate, process, IInv, AloneInv, Alone, OneWorks, NoOther,
              SawTheFile, InTheFile, Working, Untold, Services
<1> QED
  BY <1>1, <1>2, <1>3, <1>4, <1>5, <1>6 DEF Next

LEMMA InvIsInvariant == Spec => []IInv
BY InitInv, NextKeepsInv, PTL DEF Spec

\* Two services are never up at once, however many commands are given, as long
\* as none is given before the one before it is done.
THEOREM ServiceIsOne == Spec => []OneService
<1>1. ASSUME IInv PROVE OneService
  <2> SUFFICES ASSUME Alone PROVE Cardinality(Untold) <= 1
    BY DEF OneService, Alone
  <2>1. ASSUME NEW c \in Untold, NEW d \in Untold PROVE c = d
    <3>1. /\ c \in Commands /\ pc[c] \in {"open", "write", "serving"}
          /\ d \in Commands /\ pc[d] \in {"open", "write", "serving"}
      BY <2>1 DEF Untold, Services
    <3> QED
      BY <1>1, <2>1, <3>1 DEF IInv, AloneInv, NoOther, InTheFile, Past
  <2>2. CASE Untold = {}
    BY <2>2, FS_EmptySet
  <2>3. CASE Untold # {}
    <3>1. PICK c \in Untold : TRUE
      BY <2>3
    <3>2. Untold = {c}
      BY <2>1, <3>1
    <3> QED
      BY <3>2, FS_Singleton
  <2> QED
    BY <2>2, <2>3
<1> QED
  BY <1>1, InvIsInvariant, PTL

\* The pid that a stop, a restart, a reload or a destroy is about to signal is
\* that of the service that is up, under the same condition.
THEOREM CommandsReach == Spec => []CommandsReachTheService
<1>1. ASSUME IInv PROVE CommandsReachTheService
  <2> SUFFICES ASSUME NEW c \in Commands, pc[c] = "signal", Alone
               PROVE  Untold \subseteq {saw[c]}
    BY DEF CommandsReachTheService, Alone
  <2>1. ASSUME NEW d \in Untold PROVE d = saw[c]
    <3>1. pc[c] \in Works /\ d # c
      BY <2>1 DEF Works, Untold, Services
    <3> QED
      BY <1>1, <2>1, <3>1, UpIsInTheFile DEF IInv, AloneInv, SawTheFile
  <2> QED
    BY <2>1
<1> QED
  BY <1>1, InvIsInvariant, PTL

=============================================================================
