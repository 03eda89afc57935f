----------------------------- MODULE Supervisor -----------------------------
(***************************************************************************)
(* The logport service: LogPort::startWatches forks one child per row of   *)
(* the watches table, restarts children that end, stops and restarts those *)
(* that use too much, and obeys the signals of its handlers.  Watch::start *)
(* and Watch::stop are its way to a child.                                 *)
(*                                                                         *)
(* The service is one thread: pc names the block of startWatches it is in. *)
(* Signal handlers change its flags between any two steps.  A child is     *)
(* "young" until it has registered handlers of its own: Watch::runNow      *)
(* first sleeps, and inherits the service's handler, so a SIGINT that      *)
(* comes early sets a flag nobody reads and is lost.                       *)
(*                                                                         *)
(* A watch is its place in the watches table, a pid is the number of the   *)
(* fork (pids are not reused).                                             *)
(***************************************************************************)
EXTENDS Integers, FiniteSets

CONSTANTS
  NumWatches,    \* bound: rows the watches table can get
  FirstWatches,  \* rows when the service starts
  Signals,       \* the signals the service may be sent
  MaxSignals,    \* bound: signals
  MaxDeaths,     \* bound: children that end on their own
  MaxRestarts,   \* bound: limits a child is found to exceed
  MaxForkFailures,  \* bound: forks that fail
  MaxLost,       \* bound: UPDATEs of a pid that are lost
  MaxForks       \* bound: forks that succeed (large enough never to bind)

ASSUME ConstantsAssumption ==
  /\ NumWatches \in Nat
  /\ FirstWatches \in 0 .. NumWatches
  /\ Signals \subseteq {"TERM", "HUP", "USR1", "USR2"}
  /\ MaxSignals \in Nat
  /\ MaxDeaths \in Nat
  /\ MaxRestarts \in Nat
  /\ MaxForkFailures \in Nat
  /\ MaxLost \in Nat
  /\ MaxForks \in Nat

Watches == 1 .. NumWatches
Pids    == 1 .. MaxForks
NoPid   == -1

VARIABLES
  \* the watches table
  rows,         \* its number of rows
  dbPid,        \* dbPid[w]: the pid column
  \* the service
  pc,
  i,            \* the watch its current loop is at
  limits,       \* limits found exceeded that the watch is still stopped for
  listed,       \* size of the vector watches
  pid, lastPid, \* Watch::pid and Watch::last_pid of each
  childPid,     \* result of waitpid
  allStop,      \* have_initiated_all_stop
  complete,     \* shutdown_complete
  resuming,     \* initiate_resuming_of_watches
  \* set by the signal handlers
  run, paused, reload,
  \* the child processes
  state,        \* state[p]
  owner,        \* owner[p]: the watch process p was forked for
  \* history
  told,         \* processes that were sent SIGINT or SIGKILL
  \* budgets
  signals, deaths, restarts, forkFailures, lost

table    == <<rows, dbPid>>
loopVars == <<i, limits>>
vector   == <<listed, pid, lastPid>>
phases   == <<allStop, complete, resuming>>
asked    == <<run, paused, reload>>
children == <<state, owner>>
budgets  == <<signals, deaths, restarts, forkFailures, lost>>

vars == <<table, pc, loopVars, vector, childPid, phases, asked, children,
          told, budgets>>

Labels == {"starting", "head", "resume", "down", "reload", "restock",
           "react", "allstop", "monitor", "exceeds", "stopping", "verify",
           "respawn", "settle", "notify", "revive", "exited"}

States == {"none", "young", "running", "stopping", "zombie", "gone"}

Living  == {p \in Pids : state[p] \in {"young", "running", "stopping"}}
Zombies == {p \in Pids : state[p] = "zombie"}
Of(w)   == {p \in Living : owner[p] = w}

-----------------------------------------------------------------------------
(***************************************************************************)
(* Watch::start, kill and waitpid                                          *)
(***************************************************************************)

\* Mutation: the pid of the new process is not saved.
SavedPid_Forgotten(w, p) == UNCHANGED <<dbPid, lost>>

\* Watch::savePid: the UPDATE gives up silently on a database that stays busy.
SavedPid(w, p) ==
  \/ dbPid' = [dbPid EXCEPT ![w] = p] /\ UNCHANGED lost
  \/ lost < MaxLost /\ lost' = lost + 1 /\ UNCHANGED dbPid

\* Watch::start( w ): the child sleeps before it does anything else.  When
\* fork fails, only the pid in memory is reset.
Fork(w) ==
  \/ \E p \in Pids :
       /\ state[p] = "none"
       /\ \A q \in 1 .. (p - 1) : state[q] # "none"
       /\ state' = [state EXCEPT ![p] = "young"]
       /\ owner' = [owner EXCEPT ![p] = w]
       /\ pid' = [pid EXCEPT ![w] = p]
       /\ SavedPid(w, p)
       /\ UNCHANGED forkFailures
  \/ /\ forkFailures < MaxForkFailures
     /\ forkFailures' = forkFailures + 1
     /\ pid' = [pid EXCEPT ![w] = NoPid]
     /\ UNCHANGED <<state, owner, dbPid, lost>>

\* What SIGINT makes of a process: a young one has the service's handler.
AfterSigint(s) == IF s = "running" THEN "stopping" ELSE s

\* kill( p, SIGINT )
SendSigint(p) ==
  /\ state' = [state EXCEPT ![p] = AfterSigint(@)]
  /\ told' = told \cup {p}

\* kill( -1, SIGINT ): to each process of the system but the service.
SendSigintToAll ==
  /\ state' = [p \in Pids |-> AfterSigint(state[p])]
  /\ told' = told \cup Living

\* waitpid( -1, &status, WNOHANG ): the pid of some child that has ended, 0
\* when none has, -1 when there is no child.
Waitpid(result) ==
  IF Zombies # {}
    THEN /\ result \in Zombies
         /\ state' = [state EXCEPT ![result] = "gone"]
    ELSE /\ result = IF Living # {} THEN 0 ELSE NoPid
         /\ UNCHANGED state

-----------------------------------------------------------------------------
(***************************************************************************)
(* The loop of startWatches                                                *)
(***************************************************************************)

Init ==
  /\ rows = FirstWatches
  /\ dbPid = [w \in Watches |-> NoPid]
  /\ pc = "starting"
  /\ i = 1 /\ limits = 0
  /\ listed = FirstWatches
  /\ pid = [w \in Watches |-> NoPid]
  /\ lastPid = [w \in Watches |-> NoPid]
  /\ childPid = 0
  /\ allStop = FALSE /\ complete = FALSE /\ resuming = FALSE
  /\ run = TRUE /\ paused = FALSE /\ reload = FALSE
  /\ state = [p \in Pids |-> "none"]
  /\ owner = [p \in Pids |-> 0]
  /\ told = {}
  /\ signals = 0 /\ deaths = 0 /\ restarts = 0 /\ forkFailures = 0 /\ lost = 0

\* Every watch of the table is started, whatever its pid column says.
StartWatch ==
  /\ pc = "starting"
  /\ i <= listed
  /\ Fork(i)
  /\ i' = i + 1
  /\ UNCHANGED <<rows, pc, limits, listed, lastPid, childPid, phases,
                 asked, told, signals, deaths, restarts>>

AllStarted ==
  /\ pc = "starting"
  /\ i > listed
  /\ pc' = "head"
  /\ UNCHANGED <<table, loopVars, vector, childPid, phases, asked,
                 children, told, budgets>>

KeepsLooping == run \/ (~complete /\ ~allStop) \/ paused

\* while( ... ) and the waitpid that opens the loop body.
Reap ==
  /\ pc = "head"
  /\ KeepsLooping
  /\ \E result \in Pids \cup {0, NoPid} :
       Waitpid(result) /\ childPid' = result
  /\ pc' = "resume"
  /\ UNCHANGED <<table, loopVars, vector, phases, asked, owner, told,
                 budgets>>

Return ==
  /\ pc = "head"
  /\ ~KeepsLooping
  /\ pc' = "exited"
  /\ UNCHANGED <<table, loopVars, vector, childPid, phases, asked,
                 children, told, budgets>>


\* "determine if we should resume watches after they were paused"
CheckResume ==
  /\ pc = "resume"
  /\ IF complete /\ run /\ ~paused /\ allStop
       THEN resuming' = TRUE /\ allStop' = FALSE /\ complete' = FALSE
       ELSE UNCHANGED phases
  /\ pc' = "down"
  /\ UNCHANGED <<table, loopVars, vector, childPid, asked, children,
                 told, budgets>>

\* "determine if all watches have shutdown": none has a pid any more, which
\* says only that each was told.
CheckDown ==
  /\ pc = "down"
  /\ complete' = (complete \/ (/\ ~run
                               /\ allStop
                               /\ \A w \in 1 .. listed : pid[w] < 0))
  /\ pc' = "reload"
  /\ UNCHANGED <<table, loopVars, vector, childPid, allStop, resuming,
                 asked, children, told, budgets>>

\* "determine if some watches should startup": the vector is read anew.
Reload ==
  /\ pc = "reload"
  /\ IF (reload \/ resuming) /\ run /\ ~allStop
       THEN /\ listed' = rows
            /\ pid' = dbPid
            /\ lastPid' = [w \in Watches |-> NoPid]
            /\ i' = 1
            /\ pc' = "restock"
       ELSE /\ pc' = "react"
            /\ UNCHANGED <<vector, i>>
  /\ UNCHANGED <<table, limits, childPid, phases, asked, children, told,
                 budgets>>

RestockSkip ==
  /\ pc = "restock"
  /\ i <= listed
  /\ pid[i] >= 0
  /\ i' = i + 1
  /\ UNCHANGED <<table, pc, limits, vector, childPid, phases, asked,
                 children, told, budgets>>

\* sleep( 10 ), loadOffset, start, whatever the child before has come to.
RestockStart ==
  /\ pc = "restock"
  /\ i <= listed
  /\ pid[i] < 0
  /\ Fork(i)
  /\ i' = i + 1
  /\ UNCHANGED <<rows, pc, limits, listed, lastPid, childPid, phases, asked,
                 told, signals, deaths, restarts>>

\* Requests that arrived while the watches were started are forgotten here.
Restocked ==
  /\ pc = "restock"
  /\ i > listed
  /\ reload' = FALSE
  /\ resuming' = FALSE /\ complete' = FALSE /\ allStop' = FALSE
  /\ pc' = "react"
  /\ UNCHANGED <<table, loopVars, vector, childPid, run, paused,
                 children, told, budgets>>

NoChild ==
  /\ pc = "react"
  /\ childPid = NoPid
  /\ complete' = (complete \/ allStop)
  /\ pc' = "head"
  /\ UNCHANGED <<table, loopVars, vector, childPid, allStop, resuming,
                 asked, children, told, budgets>>

NoneEnded ==
  /\ pc = "react"
  /\ childPid = 0
  /\ pc' = IF ~allStop THEN (IF run THEN "monitor" ELSE "allstop")
                       ELSE "head"
  /\ i' = 1
  /\ UNCHANGED <<table, limits, vector, childPid, phases, asked, children,
                 told, budgets>>

OneEnded ==
  /\ pc = "react"
  /\ childPid > 0
  /\ pc' = "notify"
  /\ UNCHANGED <<table, loopVars, vector, childPid, phases, asked,
                 children, told, budgets>>

-----------------------------------------------------------------------------
(***************************************************************************)
(* Stopping all children                                                   *)
(***************************************************************************)

\* SIGINT to one child; it is not waited for.
StopOne ==
  /\ pc = "allstop"
  /\ i <= listed
  /\ IF pid[i] > 0
       THEN /\ SendSigint(pid[i])
            /\ lastPid' = [lastPid EXCEPT ![i] = pid[i]]
            /\ pid' = [pid EXCEPT ![i] = NoPid]
            /\ SavedPid(i, NoPid)
       ELSE UNCHANGED <<state, told, lastPid, pid, dbPid, lost>>
  /\ i' = i + 1
  /\ UNCHANGED <<rows, pc, limits, listed, childPid, phases, asked, owner,
                 signals, deaths, restarts, forkFailures>>

\* Mutation: the last watch of the vector is not told.
StopsBegun_OneEarly ==
  /\ pc = "allstop"
  /\ i >= listed
  /\ allStop' = TRUE
  /\ pc' = "head"
  /\ UNCHANGED <<table, loopVars, vector, childPid, complete, resuming,
                 asked, children, told, budgets>>

\* Mutation: that they were told is not noted.
StopsBegun_NotNoted ==
  /\ pc = "allstop"
  /\ i > listed
  /\ pc' = "head"
  /\ UNCHANGED <<table, loopVars, vector, childPid, phases, asked,
                 children, told, budgets>>

StopsBegun ==
  /\ pc = "allstop"
  /\ i > listed
  /\ allStop' = TRUE
  /\ pc' = "head"
  /\ UNCHANGED <<table, loopVars, vector, childPid, complete, resuming,
                 asked, children, told, budgets>>

-----------------------------------------------------------------------------
(***************************************************************************)
(* The monitor: memory, cpu time, a stable undelivered log                 *)
(***************************************************************************)

\* A watch without a pid is passed over; so is one within its limits.
WithinLimits ==
  /\ pc = "monitor"
  /\ i <= listed
  /\ i' = i + 1
  /\ UNCHANGED <<table, pc, limits, vector, childPid, phases, asked, children,
                 told, budgets>>

\* How many limits process p may exceed: all, without memory once it ended,
\* the undelivered log alone once it is reaped.
Measurable(p) == CASE p \in Living -> 3 [] p \in Zombies -> 2 [] OTHER -> 1

\* Memory, cpu time and undelivered log are measured once, before the first
\* of them is tested.
ExceedsLimits ==
  /\ pc = "monitor"
  /\ i <= listed
  /\ pid[i] > 0
  /\ \E n \in 1 .. Measurable(pid[i]) :
       /\ restarts + n <= MaxRestarts
       /\ restarts' = restarts + n
       /\ limits' = n
  /\ pc' = "exceeds"
  /\ UNCHANGED <<table, i, vector, childPid, phases, asked, children, told,
                 signals, deaths, forkFailures, lost>>

Monitored ==
  /\ pc = "monitor"
  /\ i > listed
  /\ pc' = "head"
  /\ UNCHANGED <<table, loopVars, vector, childPid, phases, asked, children,
                 told, budgets>>

\* Watch::stop sends SIGINT, which fails when the process is gone ...
Stop ==
  /\ pc = "exceeds"
  /\ pid[i] > 0
  /\ lastPid' = [lastPid EXCEPT ![i] = pid[i]]
  /\ SendSigint(pid[i])
  /\ pc' = IF state[pid[i]] = "gone" THEN "respawn" ELSE "stopping"
  /\ UNCHANGED <<table, loopVars, listed, pid, childPid, phases, asked, owner,
                 budgets>>

\* ... and goes to every process when an earlier restart for a limit of the
\* same round failed to fork: pid is -1 then.
StopNobody ==
  /\ pc = "exceeds"
  /\ pid[i] = NoPid
  /\ lastPid' = [lastPid EXCEPT ![i] = NoPid]
  /\ SendSigintToAll
  /\ pc' \in {"stopping", "respawn"}
  /\ Living \cup Zombies # {} => pc' = "stopping"
  /\ UNCHANGED <<table, loopVars, listed, pid, childPid, phases, asked, owner,
                 budgets>>

\* ... sleeps, and clears some child that has ended, be it this one or not.
StopReaps ==
  /\ pc = "stopping"
  /\ \E result \in Pids \cup {0, NoPid} : Waitpid(result)
  /\ pc' = "verify"
  /\ UNCHANGED <<table, loopVars, vector, childPid, phases, asked,
                 owner, told, budgets>>

\* Mutation: no SIGKILL for a child that is still there.
Verify_Trusts ==
  /\ pc = "verify"
  /\ pc' = "respawn"
  /\ UNCHANGED <<table, loopVars, vector, childPid, phases, asked,
                 children, told, budgets>>

\* ... and sends SIGKILL if the child is still there.
Verify ==
  /\ pc = "verify"
  /\ IF pid[i] \in Living
       THEN state' = [state EXCEPT ![pid[i]] = "zombie"]
       ELSE UNCHANGED state
  /\ pc' = "respawn"
  /\ UNCHANGED <<table, loopVars, vector, childPid, phases, asked,
                 owner, told, budgets>>

Respawn ==
  /\ pc = "respawn"
  /\ Fork(i)
  /\ pc' = "settle"
  /\ UNCHANGED <<rows, loopVars, listed, lastPid, childPid, phases, asked,
                 told, signals, deaths, restarts>>

\* sleep( 5 ), and on to the next limit that was found exceeded.
Settled ==
  /\ pc = "settle"
  /\ limits' = limits - 1
  /\ IF limits > 1 THEN pc' = "exceeds" /\ UNCHANGED i
                   ELSE pc' = "monitor" /\ i' = i + 1
  /\ UNCHANGED <<table, vector, childPid, phases, asked, children, told,
                 budgets>>

-----------------------------------------------------------------------------
(***************************************************************************)
(* A child has ended                                                       *)
(***************************************************************************)

\* "we just killed this process; ignore that it died"
JustKilled ==
  /\ pc = "notify"
  /\ \E w \in 1 .. listed : lastPid[w] = childPid
  /\ lastPid' = [w \in Watches |->
                   IF lastPid[w] = childPid THEN NoPid ELSE lastPid[w]]
  /\ pc' = "head"
  /\ UNCHANGED <<table, loopVars, listed, pid, childPid, phases,
                 asked, children, told, budgets>>

\* It ended on its own and the service runs: the restart begins by a sleep.
RestartEnded ==
  /\ pc = "notify"
  /\ \A w \in 1 .. listed : lastPid[w] # childPid
  /\ run
  /\ \E w \in 1 .. listed :
       /\ pid[w] = childPid
       /\ lastPid' = [lastPid EXCEPT ![w] = childPid]
       /\ i' = w
  /\ pc' = "revive"
  /\ UNCHANGED <<table, limits, listed, pid, childPid, phases, asked,
                 children, told, budgets>>

IgnoreEnded ==
  /\ pc = "notify"
  /\ \A w \in 1 .. listed : lastPid[w] # childPid
  /\ ~run \/ \A w \in 1 .. listed : pid[w] # childPid
  /\ pc' = "head"
  /\ UNCHANGED <<table, loopVars, vector, childPid, phases, asked,
                 children, told, budgets>>

\* Mutation: the restart is left to the next loop.
Revive_Later ==
  /\ pc = "revive"
  /\ pc' = "head"
  /\ UNCHANGED <<table, loopVars, vector, childPid, phases, asked,
                 children, told, budgets>>

\* ... and ends in a start.
Revive ==
  /\ pc = "revive"
  /\ Fork(i)
  /\ pc' = "head"
  /\ UNCHANGED <<rows, loopVars, listed, lastPid, childPid, phases,
                 asked, told, signals, deaths, restarts>>

-----------------------------------------------------------------------------
(***************************************************************************)
(* Children and signals                                                    *)
(***************************************************************************)

\* The child has registered its own handlers (Watch::runNow).
Ready(p) ==
  /\ state[p] = "young"
  /\ state' = [state EXCEPT ![p] = "running"]
  /\ UNCHANGED <<table, pc, loopVars, vector, childPid, phases, asked,
                 owner, told, budgets>>

\* A child that got SIGINT ends.
Ends(p) ==
  /\ state[p] = "stopping"
  /\ state' = [state EXCEPT ![p] = "zombie"]
  /\ UNCHANGED <<table, pc, loopVars, vector, childPid, phases, asked,
                 owner, told, budgets>>

\* A child ends on its own: a rotation, an exception, a kill.
Dies(p) ==
  /\ state[p] \in {"young", "running"}
  /\ deaths < MaxDeaths
  /\ deaths' = deaths + 1
  /\ state' = [state EXCEPT ![p] = "zombie"]
  /\ UNCHANGED <<table, pc, loopVars, vector, childPid, phases, asked,
                 owner, told, signals, restarts, forkFailures, lost>>

\* signal_handler_stop, _reload_config and _pause_resume
Handler(signal) ==
  CASE signal = "TERM" -> run' = FALSE /\ paused' = FALSE /\ UNCHANGED reload
    [] signal = "HUP"  -> reload' = TRUE /\ UNCHANGED <<run, paused>>
    [] signal = "USR1" -> run' = FALSE /\ paused' = TRUE /\ UNCHANGED reload
    [] signal = "USR2" -> run' = TRUE /\ paused' = FALSE /\ UNCHANGED reload

Signal ==
  /\ pc # "exited"
  /\ signals < MaxSignals
  /\ \E signal \in Signals : Handler(signal)
  /\ signals' = signals + 1
  /\ UNCHANGED <<table, pc, loopVars, vector, childPid, phases, children,
                 told, deaths, restarts, forkFailures, lost>>

\* `logport watch`: a new row, and SIGHUP to the service (reloadIfRunning),
\* which is a signal like the others.
AddWatch ==
  /\ pc # "exited"
  /\ rows < NumWatches
  /\ rows' = rows + 1
  /\ reload' = TRUE
  /\ UNCHANGED <<dbPid, pc, loopVars, vector, childPid, phases, run, paused,
                 children, told, budgets>>

-----------------------------------------------------------------------------
Service ==
  \/ StartWatch \/ AllStarted \/ Reap \/ Return
  \/ CheckResume \/ CheckDown \/ Reload
  \/ RestockSkip \/ RestockStart \/ Restocked
  \/ NoChild \/ NoneEnded \/ OneEnded
  \/ StopOne \/ StopsBegun
  \/ WithinLimits \/ ExceedsLimits \/ Monitored
  \/ Stop \/ StopNobody \/ StopReaps \/ Verify \/ Respawn \/ Settled
  \/ JustKilled \/ RestartEnded \/ IgnoreEnded \/ Revive

Child(p) == Ready(p) \/ Ends(p) \/ Dies(p)

Next == Service \/ Signal \/ AddWatch \/ \E p \in Pids : Child(p)

Spec == Init /\ [][Next]_vars

\* The service keeps running.  Nothing is assumed of its children: one that
\* got SIGINT may stay as it is.
FairSpec == Spec /\ WF_vars(Service)

-----------------------------------------------------------------------------
(***************************************************************************)
(* Properties                                                              *)
(***************************************************************************)

\* Every variable keeps its type.
TypeOK ==
  /\ rows \in 0 .. NumWatches
  /\ listed \in 0 .. NumWatches
  /\ pc \in Labels
  /\ i \in 1 .. (NumWatches + 1)
  /\ limits \in 0 .. 3
  /\ dbPid \in [Watches -> Pids \cup {NoPid}]
  /\ pid \in [Watches -> Pids \cup {NoPid}]
  /\ lastPid \in [Watches -> Pids \cup {NoPid}]
  /\ childPid \in Pids \cup {0, NoPid}
  /\ allStop \in BOOLEAN /\ complete \in BOOLEAN /\ resuming \in BOOLEAN
  /\ run \in BOOLEAN /\ paused \in BOOLEAN /\ reload \in BOOLEAN
  /\ state \in [Pids -> States]
  /\ owner \in [Pids -> Watches \cup {0}]
  /\ told \subseteq Pids
  /\ signals \in Nat /\ deaths \in Nat /\ restarts \in Nat
  /\ forkFailures \in Nat /\ lost \in Nat

\* The service knows its children: each one that lives and was not told to
\* stop is the pid it holds for that watch, so that it can tell it to, also
\* after it read its vector anew from the table; unless an UPDATE of a pid was
\* lost.
KnownOrTold ==
  lost = 0 => \A p \in Living \ told : pid[owner[p]] = p

\* When the service returns, every child was told to stop, unless an UPDATE of
\* a pid was lost.
ReturnTellsAll == pc = "exited" /\ lost = 0 => Living \subseteq told

\* What the monitor replaces has ended: a child that was stopped because it
\* exceeds a limit does not read the file beside its successor, also when its
\* SIGINT came too early ("watch does not respond to SIGINT in certain
\* conditions").
StoppedHasEnded == pc = "respawn" => pid[i] \notin Living

\* A watch whose child ended on its own gets another one while the service
\* runs ("Automatically restarts watches if killed or on failure"), once the
\* monitor has restarted what it restarts and the forks succeed: also when
\* it ended while the service paused, reloaded or restarted another watch.
EndedIsReplaced ==
  \A w \in Watches :
    (/\ w <= listed /\ pid[w] \in Zombies
     /\ restarts = MaxRestarts /\ limits = 0
     /\ forkFailures = MaxForkFailures)
      ~> (Of(w) # {} \/ ~run \/ allStop)

\* The service returns when it is told to, if it has a child that it has not
\* told yet and that does not end on its own (a service without a child does
\* not return: only a waitpid that returns 0 leads to the all-stop), and the
\* forks succeed.
StopReturns ==
  (/\ ~run /\ ~paused /\ Living \ told # {}
   /\ deaths = MaxDeaths /\ forkFailures = MaxForkFailures)
    ~> (pc = "exited" \/ run \/ paused)


=============================================================================
