---------------------------- MODULE ConfirmedCall -----------------------------
(***************************************************************************)
(* A confirmed booking or order on its way to the restaurant: what         *)
(* app/agents/nodes.py: _execute_pending makes of the POST that            *)
(* BackendRequest sends and retries, and the line app/memory.py keeps of   *)
(* it.  AgentGraph takes the whole of it as execute_pending, whose post is *)
(* ok when the tool's output carries no error, and record_executed.        *)
(***************************************************************************)
EXTENDS BackendRequest

CONSTANTS
    Confirmed,     \* the calls made for a confirmed create_reservation or create_order
    DiskMayFail    \* the episode file may be unwritable

ASSUME ConfirmedAssumption == Confirmed \subseteq Calls /\ DiskMayFail \in BOOLEAN

VARIABLES
    tool,        \* a confirmed call's tool: running, or what _exec_tool made of it
    remembered   \* calls with a line in the customer's episodes

confirmedVars == <<vars, tool, remembered>>

ConfirmedTypeOK ==
    /\ TypeOK
    /\ tool \in [Confirmed -> {"running", "output", "error", "over"}]
    /\ remembered \subseteq Confirmed

ConfirmedInit ==
    /\ Init
    /\ tool = [c \in Confirmed |-> "running"]
    /\ remembered = {}

\* What _exec_tool makes of a result.  A value becomes the tool's output,
\* unless ReservationOut or OrderOut refuses the body; whatever was raised is
\* data for the model.  A faulty one would take the message for an output, or
\* hand on what was raised as it is.
Outputs_raw(r) == {r}

Outputs_unguarded(r) == {"output"}

Outputs(r) == IF r = "value" THEN {"output", "error"} ELSE {"error"}

exec_tool(c) ==
    /\ pc[c] = "returned"
    /\ tool[c] = "running"
    /\ \E output \in Outputs(result[c]) : tool' = [tool EXCEPT ![c] = output]
    /\ UNCHANGED <<vars, remembered>>

\* An output without an error is remembered, as far as the disk allows.
append_episode(c) ==
    /\ tool[c] = "output"
    /\ \/ remembered' = remembered \cup {c}
       \/ DiskMayFail /\ UNCHANGED remembered
    /\ tool' = [tool EXCEPT ![c] = "over"]
    /\ UNCHANGED vars

\* The node ends with the error as its tool result.
relay_error(c) ==
    /\ tool[c] = "error"
    /\ tool' = [tool EXCEPT ![c] = "over"]
    /\ UNCHANGED <<vars, remembered>>

ConfirmedNext ==
    \/ Next /\ UNCHANGED <<tool, remembered>>
    \/ \E c \in Confirmed : exec_tool(c) \/ append_episode(c) \/ relay_error(c)

\* With the fairness of BackendRequest.
ConfirmedSpec ==
    /\ ConfirmedInit
    /\ [][ConfirmedNext]_confirmedVars
    /\ \A c \in Calls :
          WF_confirmedVars(request(c) /\ UNCHANGED <<tool, remembered>>)

-----------------------------------------------------------------------------
(* Properties *)

\* Every line of the episodes is of a booking or order the restaurant made,
\* however many attempts it took and whatever the last one was answered.
RememberedWasMade == \A c \in remembered : Happened(c)

-----------------------------------------------------------------------------
(* The inductive invariant behind the theorem of ConfirmedCallProofs *)

\* What has become an output, or a line of the episodes, was a value.
OutputInv ==
    \A c \in Confirmed :
        tool[c] = "output" \/ c \in remembered => result[c] = "value"
===============================================================================
