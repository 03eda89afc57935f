--------------------------- MODULE SupervisorProofs ---------------------------
(***************************************************************************)
(* What Supervisor promises for any number of watches, signals, deaths,    *)
(* restarts and failed forks.                                              *)
(***************************************************************************)
EXTENDS Supervisor, TLAPS, FiniteSetTheorems

-----------------------------------------------------------------------------
(***************************************************************************)
(* The inductive invariant                                                 *)
(***************************************************************************)

\* The places at which the service works on the watch i.
AtAWatch ==
  {"exceeds", "stopping", "verify", "respawn", "settle", "revive"}

\* The places at which the children have not all been told to stop.
NotStopped == AtAWatch \cup {"starting", "restock", "monitor", "allstop"}

Places ==
  /\ listed <= rows
  /\ pc \in AtAWatch => i \in 1 .. listed
  /\ pc \in AtAWatch \ {"revive"} => limits > 0
  /\ pc \in NotStopped => ~allStop
  /\ complete => allStop
  /\ pc = "exited" => allStop

\* A child that was not told to stop is known to the vector and to the table,
\* as long as no UPDATE of a pid was lost.
ChildrenKnown ==
  lost = 0 =>
    \A p \in Living \ told :
      owner[p] \in 1 .. listed /\ pid[owner[p]] = p /\ dbPid[owner[p]] = p

\* What is replaced has no child that was not told: it was never started,
StartsNew == pc = "starting" => \A w \in Watches : w >= i => pid[w] = NoPid

\* or it was told and has ended,
RestartsTold ==
  /\ pc \in {"stopping", "verify", "respawn"} => pid[i] \in told \cup {NoPid}
  /\ pc = "respawn" => pid[i] \notin Living

\* or it has ended.
RevivesEnded ==
  /\ childPid \in Pids => state[childPid] = "gone"
  /\ pc \in {"notify", "revive"} => childPid \in Pids
  /\ pc = "revive" => pid[i] = childPid

\* The all-stop forgets the pids of the children it has told.
ForgetsTold ==
  /\ pc = "allstop" => \A w \in 1 .. listed : w < i => pid[w] = NoPid
  /\ allStop => \A w \in 1 .. listed : pid[w] = NoPid

IInv ==
  /\ TypeOK /\ Places /\ ChildrenKnown /\ StartsNew /\ RestartsTold
  /\ RevivesEnded /\ ForgetsTold

-----------------------------------------------------------------------------
(***************************************************************************)
(* Types                                                                   *)
(***************************************************************************)

LEMMA InitInv == Init => IInv
<1> SUFFICES ASSUME Init PROVE IInv
  OBVIOUS
<1>1. FirstWatches \in 0 .. NumWatches /\ NumWatches \in Nat
  BY ConstantsAssumption
<1>2. TypeOK
  <2>1. rows \in 0 .. NumWatches /\ listed \in 0 .. NumWatches
        /\ i \in 1 .. (NumWatches + 1) /\ limits \in 0 .. 3
    BY <1>1 DEF Init
  <2>2. /\ dbPid \in [Watches -> Pids \cup {NoPid}]
        /\ pid \in [Watches -> Pids \cup {NoPid}]
        /\ lastPid \in [Watches -> Pids \cup {NoPid}]
        /\ childPid \in Pids \cup {0, NoPid}
    BY DEF Init
  <2>3. state \in [Pids -> States] /\ owner \in [Pids -> Watches \cup {0}]
    BY DEF Init, States
  <2> QED
    BY <2>1, <2>2, <2>3 DEF Init, TypeOK, Labels
<1>3. Living = {}
  BY DEF Init, Living
<1>4. Places
  BY <1>1 DEF Init, Places, AtAWatch, NotStopped
<1>5. ChildrenKnown /\ StartsNew /\ RestartsTold /\ RevivesEnded /\ ForgetsTold
  BY <1>3 DEF Init, ChildrenKnown, StartsNew, RestartsTold, RevivesEnded,
              ForgetsTold, Pids
<1> QED
  BY <1>2, <1>4, <1>5 DEF IInv

LEMMA ForkKeepsTypes ==
  ASSUME TypeOK, NEW w \in Watches, Fork(w)
  PROVE  /\ state' \in [Pids -> States]
         /\ owner' \in [Pids -> Watches \cup {0}]
         /\ pid' \in [Watches -> Pids \cup {NoPid}]
         /\ dbPid' \in [Watches -> Pids \cup {NoPid}]
         /\ forkFailures' \in Nat /\ lost' \in Nat
BY DEF Fork, SavedPid, TypeOK, States

LEMMA SigintKeepsTypes ==
  ASSUME TypeOK, NEW p \in Pids, SendSigint(p)
  PROVE  state' \in [Pids -> States] /\ told' \subseteq Pids
BY DEF SendSigint, AfterSigint, TypeOK, States

LEMMA SigintToAllKeepsTypes ==
  ASSUME TypeOK, SendSigintToAll
  PROVE  state' \in [Pids -> States] /\ told' \subseteq Pids
BY DEF SendSigintToAll, AfterSigint, Living, TypeOK, States

LEMMA WaitpidKeepsTypes ==
  ASSUME TypeOK, NEW result, Waitpid(result)
  PROVE  state' \in [Pids -> States]
BY DEF Waitpid, Zombies, TypeOK, States

\* Where the loops of the service are.
LEMMA LoopBounds ==
  ASSUME TypeOK, Places
  PROVE  /\ 1 .. listed \subseteq Watches
         /\ i <= listed => i \in Watches /\ i \in 1 .. listed
                           /\ i + 1 \in 1 .. (NumWatches + 1)
         /\ pc \in AtAWatch => i \in Watches
         /\ 1 \in 1 .. (NumWatches + 1)
BY ConstantsAssumption DEF TypeOK, Places, Watches

LEMMA StartsKeepTypes ==
  ASSUME TypeOK, Places, StartWatch \/ RestockStart \/ Respawn \/ Revive
  PROVE  TypeOK'
<1>1. i \in Watches
  BY LoopBounds DEF StartWatch, RestockStart, Respawn, Revive, AtAWatch
<1>2. Fork(i)
  BY DEF StartWatch, RestockStart, Respawn, Revive
<1>3. /\ state' \in [Pids -> States]
      /\ owner' \in [Pids -> Watches \cup {0}]
      /\ pid' \in [Watches -> Pids \cup {NoPid}]
      /\ dbPid' \in [Watches -> Pids \cup {NoPid}]
      /\ forkFailures' \in Nat /\ lost' \in Nat
  BY <1>1, <1>2, ForkKeepsTypes
<1>4. CASE StartWatch
  BY <1>3, <1>4, LoopBounds DEF StartWatch, TypeOK, phases, asked
<1>5. CASE RestockStart
  BY <1>3, <1>5, LoopBounds DEF RestockStart, TypeOK, phases, asked
<1>6. CASE Respawn
  BY <1>3, <1>6 DEF Respawn, TypeOK, loopVars, phases, asked, Labels
<1>7. CASE Revive
  BY <1>3, <1>7 DEF Revive, TypeOK, loopVars, phases, asked, Labels
<1> QED
  BY <1>4, <1>5, <1>6, <1>7

LEMMA LoopKeepsTypes ==
  ASSUME TypeOK, Places,
         \/ AllStarted \/ Return \/ CheckResume \/ CheckDown \/ Reload
         \/ RestockSkip \/ Restocked \/ NoChild \/ NoneEnded \/ OneEnded
         \/ StopsBegun \/ WithinLimits \/ ExceedsLimits \/ Monitored \/ Settled
         \/ JustKilled \/ RestartEnded \/ IgnoreEnded
  PROVE  TypeOK'
<1> USE DEF TypeOK, Labels, table, loopVars, vector, phases, asked, children,
            budgets
<1>1. CASE AllStarted \/ Return \/ OneEnded \/ Monitored \/ IgnoreEnded
  BY <1>1 DEF AllStarted, Return, OneEnded, Monitored, IgnoreEnded
<1>2. CASE CheckResume
  BY <1>2 DEF CheckResume
<1>3. CASE CheckDown
  BY <1>3 DEF CheckDown
<1>4. CASE Reload
  BY <1>4, LoopBounds DEF Reload
<1>5. CASE RestockSkip
  BY <1>5, LoopBounds DEF RestockSkip
<1>6. CASE Restocked \/ NoChild \/ StopsBegun
  BY <1>6 DEF Restocked, NoChild, StopsBegun
<1>7. CASE NoneEnded
  BY <1>7, LoopBounds DEF NoneEnded
<1>8. CASE WithinLimits
  BY <1>8, LoopBounds DEF WithinLimits
<1>9. CASE Settled
  <2>1. i \in 1 .. listed /\ limits > 0
    BY <1>9 DEF Settled, Places, AtAWatch
  <2>2. limits - 1 \in 0 .. 3
    BY <2>1
  <2> QED
    BY <1>9, <2>1, <2>2, LoopBounds DEF Settled
<1>12. CASE ExceedsLimits
  <2>1. PICK n \in 1 .. Measurable(pid[i]) :
          restarts + n <= MaxRestarts /\ restarts' = restarts + n
          /\ limits' = n
    BY <1>12 DEF ExceedsLimits
  <2>2. n \in 0 .. 3
    BY <2>1 DEF Measurable
  <2> QED
    BY <1>12, <2>1, <2>2 DEF ExceedsLimits
<1>10. CASE JustKilled
  BY <1>10 DEF JustKilled
<1>11. CASE RestartEnded
  <2>1. PICK w \in 1 .. listed :
          /\ pid[w] = childPid
          /\ lastPid' = [lastPid EXCEPT ![w] = childPid]
          /\ i' = w
    BY <1>11 DEF RestartEnded
  <2>2. w \in Watches /\ w \in 1 .. (NumWatches + 1)
    BY ConstantsAssumption DEF Watches
  <2>3. childPid \in Pids \cup {NoPid}
    BY <2>1, <2>2
  <2> QED
    BY <1>11, <2>1, <2>2, <2>3 DEF RestartEnded
<1> QED
  BY <1>1, <1>2, <1>3, <1>4, <1>5, <1>6, <1>7, <1>8, <1>9, <1>10, <1>11,
     <1>12

LEMMA StopsKeepTypes ==
  ASSUME TypeOK, Places, RestartsTold,
         Reap \/ StopOne \/ Stop \/ StopNobody \/ StopReaps \/ Verify
  PROVE  TypeOK'
<1> USE DEF TypeOK, Labels, table, loopVars, vector, phases, asked, children,
            budgets
<1>1. CASE Reap
  <2>1. PICK result \in Pids \cup {0, NoPid} :
          Waitpid(result) /\ childPid' = result
    BY <1>1 DEF Reap
  <2>2. state' \in [Pids -> States]
    BY <2>1, WaitpidKeepsTypes
  <2> QED
    BY <1>1, <2>1, <2>2 DEF Reap
<1>2. CASE StopOne
  <2>1. i \in Watches /\ i + 1 \in 1 .. (NumWatches + 1)
    BY <1>2, LoopBounds DEF StopOne
  <2>2. CASE pid[i] > 0
    <3>1. pid[i] \in Pids
      BY <2>1, <2>2 DEF NoPid
    <3>2. SendSigint(pid[i])
      BY <1>2, <2>2 DEF StopOne
    <3>3. state' \in [Pids -> States] /\ told' \subseteq Pids
      BY <3>1, <3>2, SigintKeepsTypes
    <3> QED
      BY <1>2, <2>1, <2>2, <3>1, <3>3 DEF StopOne, SavedPid
  <2>3. CASE ~(pid[i] > 0)
    BY <1>2, <2>1, <2>3 DEF StopOne
  <2> QED
    BY <2>2, <2>3
<1>3. CASE Stop
  <2>1. i \in Watches
    BY <1>3, LoopBounds DEF Stop, AtAWatch
  <2>2. pid[i] \in Pids
    BY <1>3, <2>1 DEF Stop, NoPid
  <2>3. state' \in [Pids -> States] /\ told' \subseteq Pids
    BY <1>3, <2>2, SigintKeepsTypes DEF Stop
  <2> QED
    BY <1>3, <2>1, <2>2, <2>3 DEF Stop
<1>6. CASE StopNobody
  <2>1. state' \in [Pids -> States] /\ told' \subseteq Pids
    BY <1>6, SigintToAllKeepsTypes DEF StopNobody
  <2> QED
    BY <1>6, <2>1 DEF StopNobody
<1>4. CASE StopReaps
  <2>1. state' \in [Pids -> States]
    BY <1>4, WaitpidKeepsTypes DEF StopReaps
  <2> QED
    BY <1>4, <2>1 DEF StopReaps
<1>5. CASE Verify
  BY <1>5 DEF Verify, States
<1> QED
  BY <1>1, <1>2, <1>3, <1>4, <1>5, <1>6

LEMMA OthersKeepTypes ==
  ASSUME TypeOK, Signal \/ AddWatch \/ \E p \in Pids : Child(p)
  PROVE  TypeOK'
<1> USE DEF TypeOK, table, loopVars, vector, phases, asked, children, budgets
<1>1. CASE Signal
  <2>1. PICK signal \in Signals : Handler(signal)
    BY <1>1 DEF Signal
  <2>2. run' \in BOOLEAN /\ paused' \in BOOLEAN /\ reload' \in BOOLEAN
    BY <2>1, ConstantsAssumption DEF Handler
  <2> QED
    BY <1>1, <2>2 DEF Signal
<1>2. CASE AddWatch
  BY <1>2, ConstantsAssumption DEF AddWatch
<1>3. ASSUME NEW p \in Pids, Child(p) PROVE TypeOK'
  BY <1>3 DEF Child, Ready, Ends, Dies, States
<1> QED
  BY <1>1, <1>2, <1>3

-----------------------------------------------------------------------------
(***************************************************************************)
(* What forks, signals and waitpid do to the children                      *)
(***************************************************************************)

LEMMA PidsArePositive ==
  /\ NoPid \notin Pids /\ 0 \notin Pids
  /\ NoPid < 0 /\ ~(NoPid > 0)
  /\ \A p \in Pids : p > 0 /\ ~(p < 0)
BY ConstantsAssumption DEF Pids, NoPid

\* A process that is gone stays so.
LEMMA GoneStaysGone ==
  ASSUME TypeOK, NEW p \in Pids, state[p] = "gone"
  PROVE  /\ \A w \in Watches : Fork(w) => state'[p] = "gone"
         /\ \A q \in Pids : SendSigint(q) => state'[p] = "gone"
         /\ SendSigintToAll => state'[p] = "gone"
         /\ \A result : Waitpid(result) => state'[p] = "gone"
<1>1. ASSUME NEW w \in Watches, Fork(w) PROVE state'[p] = "gone"
  BY <1>1 DEF Fork, TypeOK
<1>2. ASSUME NEW q \in Pids, SendSigint(q) PROVE state'[p] = "gone"
  BY <1>2 DEF SendSigint, AfterSigint, TypeOK
<1>3. ASSUME NEW result, Waitpid(result) PROVE state'[p] = "gone"
  BY <1>3 DEF Waitpid, Zombies, TypeOK
<1>4. SendSigintToAll => state'[p] = "gone"
  BY DEF SendSigintToAll, AfterSigint, TypeOK
<1> QED
  BY <1>1, <1>2, <1>3, <1>4

\* A watch whose children were all told may get another one.
LEMMA ForkKeepsKnown ==
  ASSUME TypeOK, Places, ChildrenKnown, NEW w \in 1 .. listed, Fork(w),
         told' = told, listed' = listed,
         lost = 0 => \A p \in Living \ told : owner[p] # w
  PROVE  ChildrenKnown'
<1>1. w \in Watches
  BY LoopBounds
<1> SUFFICES ASSUME lost' = 0, NEW q \in (Living \ told)'
             PROVE  (owner[q] \in 1 .. listed /\ pid[owner[q]] = q
                       /\ dbPid[owner[q]] = q)'
  BY DEF ChildrenKnown
<1>2. q \in Pids
  BY DEF Living
<1>3. CASE \E p \in Pids :
             /\ state' = [state EXCEPT ![p] = "young"]
             /\ owner' = [owner EXCEPT ![p] = w]
             /\ pid' = [pid EXCEPT ![w] = p]
             /\ SavedPid(w, p)
  <2>1. PICK p \in Pids :
             /\ state' = [state EXCEPT ![p] = "young"]
             /\ owner' = [owner EXCEPT ![p] = w]
             /\ pid' = [pid EXCEPT ![w] = p]
             /\ SavedPid(w, p)
    BY <1>3
  <2>2. dbPid' = [dbPid EXCEPT ![w] = p] /\ lost = 0
    BY <2>1 DEF SavedPid, TypeOK
  <2>3. CASE q = p
    BY <1>1, <2>1, <2>2, <2>3 DEF TypeOK
  <2>4. CASE q # p
    <3>1. q \in Living \ told /\ owner'[q] = owner[q]
      BY <1>2, <2>1, <2>4 DEF Living, TypeOK
    <3>2. owner[q] \in 1 .. listed /\ owner[q] # w /\ pid[owner[q]] = q
            /\ dbPid[owner[q]] = q
      BY <2>2, <3>1 DEF ChildrenKnown
    <3> QED
      BY <2>1, <2>2, <3>1, <3>2, LoopBounds DEF TypeOK
  <2> QED
    BY <2>3, <2>4
<1>4. CASE /\ pid' = [pid EXCEPT ![w] = NoPid]
           /\ UNCHANGED <<state, owner, dbPid, lost>>
  BY <1>4, LoopBounds DEF ChildrenKnown, Living, TypeOK
<1> QED
  BY <1>3, <1>4 DEF Fork

\* What is known stays known where nothing is started or forgotten.
LEMMA KnownStays ==
  ASSUME ChildrenKnown, (Living \ told)' \subseteq Living \ told,
         UNCHANGED <<owner, listed, pid, dbPid, lost>>
  PROVE  ChildrenKnown'
BY DEF ChildrenKnown

LEMMA SigintTells ==
  ASSUME TypeOK, NEW p \in Pids, SendSigint(p)
  PROVE  /\ (Living \ told)' \subseteq (Living \ told) \ {p}
         /\ p \in told'
BY DEF SendSigint, AfterSigint, Living, TypeOK

LEMMA SigintTellsAll ==
  ASSUME SendSigintToAll
  PROVE  (Living \ told)' = {}
BY DEF SendSigintToAll, AfterSigint, Living

LEMMA WaitpidReaps ==
  ASSUME TypeOK, NEW result \in Pids \cup {0, NoPid}, Waitpid(result)
  PROVE  /\ Living' \subseteq Living
         /\ result \in Pids => state'[result] = "gone"
BY PidsArePositive DEF Waitpid, Zombies, Living, TypeOK

-----------------------------------------------------------------------------
(***************************************************************************)
(* The invariant                                                           *)
(***************************************************************************)

Inv == Places /\ ChildrenKnown /\ StartsNew /\ RestartsTold /\ RevivesEnded
         /\ ForgetsTold

LEMMA StartsKeepInv ==
  ASSUME IInv, StartWatch \/ RestockStart \/ Respawn \/ Revive
  PROVE  Inv'
<1> USE DEF IInv
<1>1. /\ Fork(i) /\ i \in 1 .. listed /\ i \in Watches
      /\ UNCHANGED <<told, listed, rows, childPid, allStop, complete>>
      /\ pc \in {"starting", "restock", "respawn", "revive"}
  BY LoopBounds DEF StartWatch, RestockStart, Respawn, Revive, AtAWatch, Places,
                    phases, vector, table
<1>2. ASSUME lost = 0, NEW p \in Living \ told PROVE owner[p] # i
  <2>1. p \in Pids /\ pid[owner[p]] = p
    BY <1>2 DEF ChildrenKnown, Living
  <2>2. CASE StartWatch
    BY <1>1, <2>1, <2>2, PidsArePositive, LoopBounds
       DEF StartWatch, StartsNew, TypeOK, Watches
  <2>3. CASE RestockStart
    BY <2>1, <2>3, PidsArePositive DEF RestockStart
  <2>4. CASE Respawn
    BY <1>2, <2>1, <2>4, PidsArePositive DEF Respawn, RestartsTold
  <2>5. CASE Revive
    BY <1>2, <2>1, <2>5 DEF Revive, RevivesEnded, Living
  <2> QED
    BY <2>2, <2>3, <2>4, <2>5
<1>3. ChildrenKnown'
  BY <1>1, <1>2, ForkKeepsKnown
<1>4. ~allStop /\ ~complete
  BY <1>1 DEF Places, NotStopped, AtAWatch
<1>5. childPid' \in Pids => state'[childPid'] = "gone"
  BY <1>1, GoneStaysGone DEF RevivesEnded
<1>6. \A w \in Watches : w # i => pid'[w] = pid[w]
  BY <1>1 DEF Fork, TypeOK
<1>7. pc' \in {"starting", "restock", "settle", "head"}
        /\ (pc' = "starting" => pc = "starting" /\ i' = i + 1)
        /\ (pc' = "settle" => pc = "respawn" /\ i' = i /\ limits' = limits)
  BY DEF StartWatch, RestockStart, Respawn, Revive, loopVars
<1>8. StartsNew'
  <2>1. ASSUME pc' = "starting", NEW w \in Watches, w >= i + 1
        PROVE  pid'[w] = NoPid
    BY <1>1, <1>6, <1>7, <2>1 DEF StartsNew, Watches
  <2> QED
    BY <1>7, <2>1 DEF StartsNew
<1>9. Places'
  BY <1>1, <1>4, <1>7 DEF Places, AtAWatch, NotStopped
<1> QED
  BY <1>1, <1>3, <1>4, <1>5, <1>7, <1>8, <1>9
     DEF Inv, RestartsTold, RevivesEnded, ForgetsTold

LEMMA LoopKeepsInv ==
  ASSUME IInv,
         \/ AllStarted \/ Return \/ CheckResume \/ CheckDown
         \/ RestockSkip \/ Restocked \/ NoChild \/ NoneEnded \/ OneEnded
         \/ StopsBegun \/ WithinLimits \/ ExceedsLimits \/ Monitored \/ Settled
         \/ JustKilled \/ RestartEnded \/ IgnoreEnded
  PROVE  Inv'
<1> USE DEF IInv, table, loopVars, vector, phases, asked, children, budgets
<1>1. UNCHANGED <<state, owner, told, childPid, pid, dbPid, listed, rows, lost>>
  BY DEF AllStarted, Return, CheckResume, CheckDown, RestockSkip, Restocked,
         NoChild, NoneEnded, OneEnded, StopsBegun, WithinLimits,
         ExceedsLimits, Monitored, Settled, JustKilled, RestartEnded,
         IgnoreEnded
<1>2. ChildrenKnown'
  BY <1>1, KnownStays DEF Living
<1>3. \/ allStop' = allStop \/ ~allStop'
      \/ StopsBegun
  BY DEF AllStarted, Return, CheckResume, CheckDown, RestockSkip, Restocked,
         NoChild, NoneEnded, OneEnded, StopsBegun, WithinLimits,
         ExceedsLimits, Monitored, Settled, JustKilled, RestartEnded,
         IgnoreEnded
<1>4. allStop' => \A w \in 1 .. listed : pid[w] = NoPid
  <2>1. StopsBegun => \A w \in 1 .. listed : w < i
    BY DEF StopsBegun, TypeOK
  <2> QED
    BY <1>3, <2>1 DEF ForgetsTold, StopsBegun
<1>5. pc' # "starting"
  BY DEF AllStarted, Return, CheckResume, CheckDown, RestockSkip, Restocked,
         NoChild, NoneEnded, OneEnded, StopsBegun, WithinLimits,
         ExceedsLimits, Monitored, Settled, JustKilled, RestartEnded,
         IgnoreEnded
<1>6. pc' \notin {"stopping", "verify", "respawn", "settle"}
        /\ (pc' = "exceeds" => ExceedsLimits \/ Settled)
        /\ (pc' = "revive" => RestartEnded)
        /\ (pc' = "allstop" => NoneEnded)
        /\ (pc' = "exited" => Return)
        /\ (pc' = "notify" => OneEnded)
  BY DEF AllStarted, Return, CheckResume, CheckDown, RestockSkip, Restocked,
         NoChild, NoneEnded, OneEnded, StopsBegun, WithinLimits,
         ExceedsLimits, Monitored, Settled, JustKilled, RestartEnded,
         IgnoreEnded
<1>7. RestartEnded =>
        /\ childPid \in Pids /\ i' \in 1 .. listed /\ pid[i'] = childPid
        /\ ~allStop'
  <2> SUFFICES ASSUME RestartEnded
               PROVE  /\ childPid \in Pids /\ i' \in 1 .. listed
                      /\ pid[i'] = childPid /\ ~allStop'
    OBVIOUS
  <2>1. i' \in 1 .. listed /\ pid[i'] = childPid /\ lastPid[i'] # childPid
          /\ allStop' = allStop
    BY DEF RestartEnded
  <2>2. childPid \in Pids
    BY DEF RestartEnded, RevivesEnded
  <2> QED
    BY <2>1, <2>2, PidsArePositive DEF ForgetsTold
<1>8. Places'
  <2>1. (pc' \in NotStopped => ~allStop') /\ (complete' => allStop')
          /\ (pc' = "exited" => allStop')
    <3>1. CASE AllStarted \/ Return \/ OneEnded \/ Monitored \/ IgnoreEnded
      BY <3>1 DEF AllStarted, Return, OneEnded, Monitored, IgnoreEnded,
                  Places, NotStopped, AtAWatch, KeepsLooping
    <3>2. CASE CheckResume \/ CheckDown
      BY <3>2 DEF CheckResume, CheckDown, Places, NotStopped, AtAWatch, TypeOK
    <3>5. CASE NoChild
      BY <3>5 DEF NoChild, Places, NotStopped, AtAWatch, TypeOK
    <3>6. CASE NoneEnded \/ StopsBegun
      BY <3>6 DEF NoneEnded, StopsBegun, Places, NotStopped, AtAWatch
    <3>3. CASE RestockSkip \/ Restocked \/ WithinLimits \/ ExceedsLimits
                 \/ Settled \/ JustKilled
      BY <3>3 DEF RestockSkip, Restocked, WithinLimits, ExceedsLimits, Settled,
                  JustKilled,
                  Places, NotStopped, AtAWatch
    <3>4. CASE RestartEnded
      BY <1>7, <3>4 DEF RestartEnded, Places
    <3> QED
      BY <3>1, <3>2, <3>3, <3>4, <3>5, <3>6
  <2>3. pc' = "exceeds" => i' \in 1 .. listed /\ limits' > 0
    <3>1. CASE ExceedsLimits
      BY <3>1 DEF ExceedsLimits, TypeOK
    <3>2. CASE Settled
      BY <3>2 DEF Settled, Places, AtAWatch, TypeOK
    <3> QED
      BY <1>6, <3>1, <3>2
  <2>2. /\ pc' \in AtAWatch => i' \in 1 .. listed'
        /\ pc' \in AtAWatch \ {"revive"} => limits' > 0
    BY <1>1, <1>6, <1>7, <2>3 DEF AtAWatch
  <2> QED
    BY <1>1, <2>1, <2>2 DEF Places
<1>9. StartsNew' /\ RestartsTold'
  <2>1. pc' # "starting"
    BY DEF AllStarted, Return, CheckResume, CheckDown, RestockSkip, Restocked,
           NoChild, NoneEnded, OneEnded, StopsBegun, WithinLimits,
           ExceedsLimits, Monitored, Settled, JustKilled, RestartEnded,
           IgnoreEnded
  <2> QED
    BY <1>6, <2>1 DEF StartsNew, RestartsTold
<1>10. RevivesEnded'
  <2>1. OneEnded => childPid \in Pids
    BY PidsArePositive DEF OneEnded, TypeOK
  <2> QED
    BY <1>1, <1>6, <1>7, <2>1 DEF RevivesEnded
<1>11. ForgetsTold'
  BY <1>1, <1>4, <1>6 DEF ForgetsTold, NoneEnded
<1> QED
  BY <1>2, <1>8, <1>9, <1>10, <1>11 DEF Inv

LEMMA ReloadKeepsInv ==
  ASSUME IInv, Reload
  PROVE  Inv'
<1> USE DEF IInv, table, loopVars, vector, phases, asked, children, budgets
<1>1. UNCHANGED <<state, owner, told, childPid, dbPid, rows, allStop, complete,
                  lost>>
        /\ pc = "reload" /\ pc' \in {"restock", "react"}
  BY DEF Reload
<1>2. CASE UNCHANGED <<listed, pid>> /\ pc' = "react"
  <2>1. ChildrenKnown'
    BY <1>1, <1>2, KnownStays DEF Living
  <2> QED
    BY <1>1, <1>2, <2>1
       DEF Inv, Places, AtAWatch, NotStopped, StartsNew, RestartsTold,
           RevivesEnded, ForgetsTold
<1>3. CASE listed' = rows /\ pid' = dbPid /\ ~allStop /\ pc' = "restock"
  <2>1. ChildrenKnown'
    BY <1>1, <1>3 DEF ChildrenKnown, Living, Places, TypeOK
  <2>2. Places'
    BY <1>1, <1>3 DEF Places, AtAWatch, NotStopped, TypeOK
  <2> QED
    BY <1>1, <1>3, <2>1, <2>2
       DEF Inv, StartsNew, RestartsTold, RevivesEnded, ForgetsTold
<1> QED
  BY <1>2, <1>3 DEF Reload

LEMMA ReapKeepsInv ==
  ASSUME IInv, Reap \/ StopReaps
  PROVE  Inv'
<1> USE DEF IInv, table, loopVars, vector, phases, asked, children, budgets
<1>1. PICK result \in Pids \cup {0, NoPid} :
        Waitpid(result) /\ (Reap => childPid' = result)
  BY DEF Reap, StopReaps
<1>2. UNCHANGED <<owner, told, pid, dbPid, listed, rows, allStop, complete, i,
                  limits, lost>>
  BY DEF Reap, StopReaps
<1>3. ChildrenKnown'
  BY <1>1, <1>2, KnownStays, WaitpidReaps
<1>4. childPid' \in Pids => state'[childPid'] = "gone"
  <2>1. CASE Reap
    BY <1>1, <2>1, WaitpidReaps
  <2>2. CASE StopReaps
    BY <1>1, <2>2, GoneStaysGone DEF StopReaps, RevivesEnded
  <2> QED
    BY <2>1, <2>2
<1>5. \/ pc' = "resume" /\ pc = "head"
      \/ pc' = "verify" /\ pc = "stopping"
  BY DEF Reap, StopReaps
<1> QED
  BY <1>2, <1>3, <1>4, <1>5
     DEF Inv, Places, AtAWatch, NotStopped, StartsNew, RestartsTold,
         RevivesEnded, ForgetsTold

LEMMA StopOneKeepsInv ==
  ASSUME IInv, StopOne
  PROVE  Inv'
<1> USE DEF IInv, table, loopVars, vector, phases, asked, children, budgets
<1>1. /\ UNCHANGED <<owner, listed, rows, childPid, allStop, complete, pc>>
      /\ pc = "allstop" /\ i' = i + 1 /\ i \in 1 .. listed /\ i \in Watches
  BY LoopBounds DEF StopOne
<1>2. /\ pid'[i] = NoPid /\ \A w \in Watches : w # i => pid'[w] = pid[w]
  BY <1>1, PidsArePositive DEF StopOne, TypeOK
<1>3. ChildrenKnown' /\ (childPid \in Pids => state'[childPid] = "gone")
  <2>1. CASE pid[i] > 0
    <3>1. pid[i] \in Pids
      BY <1>1, <2>1, PidsArePositive DEF TypeOK
    <3>2. SendSigint(pid[i]) /\ pid' = [pid EXCEPT ![i] = NoPid]
            /\ SavedPid(i, NoPid)
      BY <2>1 DEF StopOne
    <3>3. (Living \ told)' \subseteq (Living \ told) \ {pid[i]}
      BY <3>1, <3>2, SigintTells
    <3>4. ASSUME lost' = 0, NEW q \in (Living \ told)'
          PROVE  (owner[q] \in 1 .. listed /\ pid[owner[q]] = q
                    /\ dbPid[owner[q]] = q)'
      <4>3. lost = 0 /\ dbPid' = [dbPid EXCEPT ![i] = NoPid]
        BY <3>2, <3>4 DEF SavedPid, TypeOK
      <4>1. q # pid[i] /\ owner[q] \in 1 .. listed /\ pid[owner[q]] = q
              /\ dbPid[owner[q]] = q
        BY <3>3, <3>4, <4>3 DEF ChildrenKnown
      <4>2. owner[q] # i /\ owner[q] \in Watches
        BY <4>1, LoopBounds
      <4> QED
        BY <1>1, <3>2, <4>1, <4>2, <4>3 DEF TypeOK
    <3>5. childPid \in Pids => state'[childPid] = "gone"
      BY <3>1, <3>2, GoneStaysGone DEF RevivesEnded
    <3> QED
      BY <3>4, <3>5 DEF ChildrenKnown
  <2>2. CASE ~(pid[i] > 0)
    <3>1. UNCHANGED <<state, told, pid, dbPid, lost>>
      BY <2>2 DEF StopOne
    <3> QED
      BY <1>1, <3>1, KnownStays DEF Living, RevivesEnded
  <2> QED
    BY <2>1, <2>2
<1>4. \A w \in 1 .. listed : w < i + 1 => pid'[w] = NoPid
  BY <1>1, <1>2, LoopBounds DEF ForgetsTold, TypeOK
<1>5. ~allStop
  BY <1>1 DEF Places, NotStopped
<1> QED
  BY <1>1, <1>3, <1>4, <1>5
     DEF Inv, Places, AtAWatch, NotStopped, StartsNew, RestartsTold,
         RevivesEnded, ForgetsTold

LEMMA MonitorKeepsInv ==
  ASSUME IInv, Stop \/ StopNobody \/ Verify
  PROVE  Inv'
<1> USE DEF IInv, table, loopVars, vector, phases, asked, children, budgets
<1>1. /\ UNCHANGED <<owner, listed, rows, childPid, allStop, complete, pid,
                     dbPid, i, limits, lost>>
      /\ pc \in {"exceeds", "verify"} /\ pc' \in {"stopping", "respawn"}
  BY DEF Stop, StopNobody, Verify
<1>2. i \in 1 .. listed /\ i \in Watches /\ limits > 0 /\ ~allStop
  BY <1>1, LoopBounds DEF Places, AtAWatch, NotStopped
<1>3. CASE Stop
  <2>1. pid[i] \in Pids /\ SendSigint(pid[i])
    BY <1>2, <1>3, PidsArePositive DEF Stop, TypeOK
  <2>2. (Living \ told)' \subseteq Living \ told /\ pid[i] \in told'
    BY <2>1, SigintTells
  <2>3. childPid \in Pids => state'[childPid] = "gone"
    BY <2>1, GoneStaysGone DEF RevivesEnded
  <2>4. pc' = "respawn" => pid[i] \notin Living'
    BY <1>3, <2>1, GoneStaysGone DEF Stop, Living
  <2>5. ChildrenKnown'
    BY <1>1, <2>2, KnownStays
  <2> QED
    BY <1>1, <1>2, <2>2, <2>3, <2>4, <2>5
       DEF Inv, Places, AtAWatch, NotStopped, StartsNew, RestartsTold,
           RevivesEnded, ForgetsTold
<1>4. CASE StopNobody
  <2>1. pid[i] = NoPid /\ SendSigintToAll
    BY <1>4 DEF StopNobody
  <2>2. (Living \ told)' = {}
    BY <2>1, SigintTellsAll
  <2>3. childPid \in Pids => state'[childPid] = "gone"
    BY <2>1, GoneStaysGone DEF RevivesEnded
  <2>4. pid[i] \notin Living'
    BY <2>1, PidsArePositive DEF Living
  <2>5. ChildrenKnown'
    BY <2>2 DEF ChildrenKnown
  <2> QED
    BY <1>1, <1>2, <2>1, <2>3, <2>4, <2>5
       DEF Inv, Places, AtAWatch, NotStopped, StartsNew, RestartsTold,
           RevivesEnded, ForgetsTold
<1>5. CASE Verify
  <2>1. /\ pid[i] \in told \cup {NoPid} /\ UNCHANGED told
        /\ pc = "verify" /\ pc' = "respawn"
    BY <1>5 DEF Verify, RestartsTold
  <2>2. Living' \subseteq Living /\ pid[i] \notin Living'
    BY <1>5 DEF Verify, Living, TypeOK
  <2>3. childPid \in Pids => state'[childPid] = "gone"
    BY <1>5 DEF Verify, RevivesEnded, Living, TypeOK
  <2>4. ChildrenKnown'
    BY <1>1, <2>1, <2>2, KnownStays
  <2> QED
    BY <1>1, <1>2, <2>1, <2>2, <2>3, <2>4
       DEF Inv, Places, AtAWatch, NotStopped, StartsNew, RestartsTold,
           RevivesEnded, ForgetsTold
<1> QED
  BY <1>3, <1>4, <1>5

LEMMA OthersKeepInv ==
  ASSUME IInv, Signal \/ AddWatch \/ \E p \in Pids : Child(p)
  PROVE  Inv'
<1> USE DEF IInv, table, loopVars, vector, phases, asked, children, budgets
<1>1. /\ UNCHANGED <<owner, told, listed, childPid, allStop, complete, pid,
                     dbPid, i, limits, pc, lost>>
      /\ rows' >= rows
  BY DEF Signal, AddWatch, Child, Ready, Ends, Dies, TypeOK
<1>2. CASE UNCHANGED state
  <2>1. ChildrenKnown'
    BY <1>1, <1>2, KnownStays DEF Living
  <2>2. Places'
    <3>1. rows' \in Nat
      BY OthersKeepTypes DEF TypeOK
    <3> QED
      BY <1>1, <3>1 DEF Places, TypeOK
  <2> QED
    BY <1>1, <1>2, <2>1, <2>2
       DEF Inv, StartsNew, RestartsTold, RevivesEnded, ForgetsTold, Living
<1>3. ASSUME NEW p \in Pids, Child(p) PROVE Inv'
  <2>1. Living' \subseteq Living /\ rows' = rows
    BY <1>3 DEF Child, Ready, Ends, Dies, Living, TypeOK
  <2>2. \A q \in Pids : state[q] = "gone" => state'[q] = "gone"
    BY <1>3 DEF Child, Ready, Ends, Dies, TypeOK
  <2>3. ChildrenKnown'
    BY <1>1, <2>1, KnownStays
  <2> QED
    BY <1>1, <2>1, <2>2, <2>3
       DEF Inv, Places, StartsNew, RestartsTold, RevivesEnded, ForgetsTold
<1> QED
  BY <1>2, <1>3 DEF Signal, AddWatch

LEMMA NextKeepsInv == IInv /\ [Next]_vars => IInv'
<1> SUFFICES ASSUME IInv, [Next]_vars PROVE TypeOK' /\ Inv'
  BY DEF IInv, Inv
<1>1. CASE UNCHANGED vars
  BY <1>1 DEF vars, table, loopVars, vector, phases, asked, children, budgets,
              IInv, Inv, TypeOK, Places, ChildrenKnown, StartsNew,
              RestartsTold, RevivesEnded, ForgetsTold, Living
<1>2. CASE Signal \/ AddWatch \/ \E p \in Pids : Child(p)
  BY <1>2, OthersKeepTypes, OthersKeepInv DEF IInv
<1>3. CASE StartWatch \/ RestockStart \/ Respawn \/ Revive
  BY <1>3, StartsKeepTypes, StartsKeepInv DEF IInv
<1>4. CASE \/ AllStarted \/ Return \/ CheckResume \/ CheckDown
           \/ RestockSkip \/ Restocked \/ NoChild \/ NoneEnded \/ OneEnded
           \/ StopsBegun \/ WithinLimits \/ ExceedsLimits \/ Monitored
           \/ Settled \/ JustKilled \/ RestartEnded \/ IgnoreEnded
  BY <1>4, LoopKeepsTypes, LoopKeepsInv DEF IInv
<1>5. CASE Reload
  BY <1>5, LoopKeepsTypes, ReloadKeepsInv DEF IInv
<1>6. CASE Reap \/ StopOne \/ Stop \/ StopNobody \/ StopReaps \/ Verify
  BY <1>6, StopsKeepTypes, ReapKeepsInv, StopOneKeepsInv, MonitorKeepsInv
     DEF IInv
<1> QED
  BY <1>1, <1>2, <1>3, <1>4, <1>5, <1>6 DEF Next, Service

LEMMA InvIsInvariant == Spec => []IInv
BY InitInv, NextKeepsInv, PTL DEF Spec

\* Every variable of the service keeps its type.
THEOREM TypeCorrect == Spec => []TypeOK
<1>1. IInv => TypeOK
  BY DEF IInv
<1> QED
  BY <1>1, InvIsInvariant, PTL

\* The service knows each child that it has not told to stop, whatever signals
\* it gets, whichever children end and whichever forks fail, as long as no
\* UPDATE of a pid is lost.
THEOREM ChildrenAreKnown == Spec => []KnownOrTold
<1>1. IInv => KnownOrTold
  BY DEF IInv, ChildrenKnown, KnownOrTold
<1> QED
  BY <1>1, InvIsInvariant, PTL

\* The service does not return before it has told every child to stop, as long
\* as no UPDATE of a pid is lost.
THEOREM ReturnIsTold == Spec => []ReturnTellsAll
<1>1. IInv => ReturnTellsAll
  <2> SUFFICES ASSUME IInv, pc = "exited", lost = 0, NEW p \in Living \ told
               PROVE  FALSE
    BY DEF ReturnTellsAll
  <2>1. p \in Pids /\ owner[p] \in 1 .. listed /\ pid[owner[p]] = p
    BY DEF IInv, ChildrenKnown, Living
  <2>2. pid[owner[p]] = NoPid
    BY <2>1 DEF IInv, Places, ForgetsTold
  <2> QED
    BY <2>1, <2>2, PidsArePositive
<1> QED
  BY <1>1, InvIsInvariant, PTL

\* The process that the monitor replaces has ended when its successor is
\* started, whatever signals come, children end and limits are exceeded.
THEOREM ReplacedHasEnded == Spec => []StoppedHasEnded
<1>1. IInv => StoppedHasEnded
  BY DEF IInv, RestartsTold, StoppedHasEnded
<1> QED
  BY <1>1, InvIsInvariant, PTL

\* Whatever signals come, two processes of one watch are never both unaware
\* that they should stop, as long as no UPDATE of a pid is lost: all of them
\* but one were told to.
AllToldButOne ==
  lost = 0 => \A p, q \in Living \ told : owner[p] = owner[q] => p = q

THEOREM OneUntoldProcess == Spec => []AllToldButOne
<1>1. IInv => AllToldButOne
  BY DEF IInv, ChildrenKnown, AllToldButOne
<1> QED
  BY <1>1, InvIsInvariant, PTL

==============================================================================
