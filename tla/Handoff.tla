------------------------------ MODULE Handoff ------------------------------
(***************************************************************************)
(* What a producer promises to the watch that calls it (README: "Saves     *)
(* unsuccessful messages and replays them to ensure that no messages are   *)
(* lost"): a message that it took over is delivered or recorded in the     *)
(* undelivered log before the producer is gone.  A message it refuses is   *)
(* never its own, and a kill, which runs no handler, leaves messages with  *)
(* neither.                                                                *)
(***************************************************************************)
CONSTANT Messages

VARIABLES
  ledger,  \* ledger[m]: what became of message m
  phase    \* "open", "closed" (destroyed) or "killed"

vars == <<ledger, phase>>

Fates == {"new", "refused", "held", "delivered", "recorded"}

Init == /\ ledger = [m \in Messages |-> "new"]
        /\ phase = "open"

\* The producer takes responsibility for a message.
Hold(m) == /\ phase = "open"
           /\ ledger[m] = "new"
           /\ ledger' = [ledger EXCEPT ![m] = "held"]
           /\ UNCHANGED phase

\* It refuses one, and does not tell.
Refuse(m) == /\ phase = "open"
             /\ ledger[m] = "new"
             /\ ledger' = [ledger EXCEPT ![m] = "refused"]
             /\ UNCHANGED phase

\* It is relieved of it, one way or the other.
Settle(m) == /\ phase = "open"
             /\ ledger[m] = "held"
             /\ \E fate \in {"delivered", "recorded"} :
                  ledger' = [ledger EXCEPT ![m] = fate]
             /\ UNCHANGED phase

\* The producer may be destroyed when it holds nothing.
Close == /\ phase = "open"
         /\ \A m \in Messages : ledger[m] # "held"
         /\ phase' = "closed"
         /\ UNCHANGED ledger

Kill == /\ phase = "open"
        /\ phase' = "killed"
        /\ UNCHANGED ledger

Next == \/ \E m \in Messages : Hold(m) \/ Refuse(m) \/ Settle(m)
        \/ Close
        \/ Kill

Spec == Init /\ [][Next]_vars

=============================================================================
