------------------------------ MODULE RemoteCall ------------------------------
(***************************************************************************)
(* What a caller of backend_api._request can rely on, without connections, *)
(* status codes or waits: the call happens at the backend some number of   *)
(* times, never more than there are Attempts, possibly after the caller    *)
(* was told it failed; the caller is given one result, and is given the    *)
(* backend's value only if the call has happened.                          *)
(***************************************************************************)
CONSTANTS
    Calls,
    Attempts,   \* tells the executions of one call apart
    Results,    \* what a caller can be told
    NotYet      \* the caller has not been told

VARIABLES
    happened,   \* the executions at the backend: [call, attempt]
    told        \* what each caller was told

Init ==
    /\ happened = {}
    /\ told = [c \in Calls |-> NotYet]

Happen(c) ==
    /\ \E a \in Attempts :
          /\ [call |-> c, attempt |-> a] \notin happened
          /\ happened' = happened \cup {[call |-> c, attempt |-> a]}
    /\ UNCHANGED told

Tell(c) ==
    /\ told[c] = NotYet
    /\ \E r \in Results :
          /\ r = "value" => \E h \in happened : h.call = c
          /\ told' = [told EXCEPT ![c] = r]
    /\ UNCHANGED happened

Next == \E c \in Calls : Happen(c) \/ Tell(c)

Spec == Init /\ [][Next]_<<happened, told>>
===============================================================================
