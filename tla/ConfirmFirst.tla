----------------------------- MODULE ConfirmFirst -----------------------------
(***************************************************************************)
(* What the agent promises a customer about bookings and orders, without   *)
(* the graph, its checkpoints or its failures: a call is staged, and then  *)
(* either executed once, declined, or forgotten in a restart.  At most one *)
(* call is staged per customer, and what was settled is never staged again.*)
(***************************************************************************)
CONSTANTS
    Customers,
    Actions,   \* the calls that can be staged; each names its customer
    Turns,     \* what identifies the request that executes a call
    NoAction

VARIABLES
    staged,    \* the call each customer is asked to confirm
    receipts,  \* executed calls, each with the request that executed it
    declined   \* calls the customers said no to

Init ==
    /\ staged = [c \in Customers |-> NoAction]
    /\ receipts = {}
    /\ declined = {}

Settled(a) == a \in declined \/ \E r \in receipts : r.action = a

Stage(c) ==
    /\ staged[c] = NoAction
    /\ \E a \in Actions :
          /\ a.customer = c
          /\ ~Settled(a)
          /\ staged' = [staged EXCEPT ![c] = a]
    /\ UNCHANGED <<receipts, declined>>

Execute(c) ==
    /\ staged[c] # NoAction
    /\ \E t \in Turns :
          receipts' = receipts \cup {[action |-> staged[c], turn |-> t]}
    /\ staged' = [staged EXCEPT ![c] = NoAction]
    /\ UNCHANGED declined

Decline(c) ==
    /\ staged[c] # NoAction
    /\ declined' = declined \cup {staged[c]}
    /\ staged' = [staged EXCEPT ![c] = NoAction]
    /\ UNCHANGED receipts

\* A restart forgets every staged call and nothing else.
Forget ==
    /\ staged' = [c \in Customers |-> NoAction]
    /\ UNCHANGED <<receipts, declined>>

Next ==
    \/ \E c \in Customers : Stage(c) \/ Execute(c) \/ Decline(c)
    \/ Forget

Spec == Init /\ [][Next]_<<staged, receipts, declined>>
===============================================================================
