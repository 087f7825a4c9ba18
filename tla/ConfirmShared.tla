---------------------------- MODULE ConfirmShared -----------------------------
(***************************************************************************)
(* What the agent promises about bookings and orders in every deployment,  *)
(* also where several tabs of a customer run on one thread: ConfirmFirst   *)
(* without "at most one is staged" and without "settled once", as a tab    *)
(* may act on its copy of what another has settled.  A message acts once:  *)
(* it stages one call, new to everybody, or executes one that an other     *)
(* message staged, never both, and never a call nobody holds any more.     *)
(***************************************************************************)
CONSTANTS
    Actions,   \* the calls that can be staged, each with the turn staging it
    Turns      \* the messages

VARIABLES
    held,      \* staged calls that a thread or a running request holds
    receipts,  \* executed calls, each with the message that executed it
    declined   \* calls the customers said no to

Init ==
    /\ held = {}
    /\ receipts = {}
    /\ declined = {}

\* The messages that staged what is held or was settled, or executed it.
Spent == {a.turn : a \in held \cup declined}
            \cup UNION {{r.turn, r.action.turn} : r \in receipts}

\* Another call that was held may be written over.
Stage(a) ==
    /\ a.turn \notin Spent
    /\ a \in held' /\ held' \subseteq held \cup {a}
    /\ UNCHANGED <<receipts, declined>>

Execute(a, t) ==
    /\ a \in held /\ a.turn # t
    /\ \A r \in receipts : r.turn # t
    /\ receipts' = receipts \cup {[action |-> a, turn |-> t]}
    /\ UNCHANGED <<held, declined>>

Decline(a) ==
    /\ a \in held
    /\ declined' = declined \cup {a}
    /\ held' \subseteq held
    /\ UNCHANGED receipts

\* The last copy is cleared, written over, or gone with the process.
Lose ==
    /\ held' \subseteq held
    /\ UNCHANGED <<receipts, declined>>

Next ==
    \/ \E a \in Actions : Stage(a) \/ Decline(a) \/ \E t \in Turns : Execute(a, t)
    \/ Lose

Spec == Init /\ [][Next]_<<held, receipts, declined>>
===============================================================================
