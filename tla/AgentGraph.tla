------------------------------ MODULE AgentGraph ------------------------------
(***************************************************************************)
(* The agent's turn: POST /agent/run (app/main.py) invoking the LangGraph  *)
(* workflow of app/agents/graph.py over the nodes of app/agents/nodes.py.  *)
(*                                                                         *)
(* A UI session (one Streamlit tab) sends one request at a time and waits  *)
(* for its reply.  A request runs graph.invoke() on the thread named after *)
(* the customer: it loads the newest checkpoint of that thread, works on   *)
(* its own copy of the channels, and puts a checkpoint after every node.   *)
(* Nothing locks a thread, so two sessions signed in as one customer run   *)
(* concurrently on it.  CustomerOf says which sessions share a customer.   *)
(***************************************************************************)
EXTENDS Integers, FiniteSets

CONSTANTS
    Sessions,      \* UI sessions, each with at most one request in flight
    Customers,     \* customer ids; also the checkpointer's thread ids
    CustomerOf,    \* the customer a session signed in as (POST /session)
    Queries,       \* the messages the users may send
    ReadIntents,   \* intents answered by one read-only tool
    NoAction,      \* pending_action is None
    MaxTurns,      \* bound: requests sent in one behaviour
    MaxTabs,       \* bound: sessions that send them
    MaxRestarts    \* bound: restarts of the API process

KnownIntents == ReadIntents \cup {"booking", "order"}

Tools == {"create_reservation", "create_order"}

Turns == 1..MaxTurns

\* A staged call: the tool, the customer_id in its args, and the turn that
\* staged it, which tells one staged booking or order from another.
Action == [tool : Tools, customer : Customers, turn : Turns]

\* What the nodes tell apart about a message: the guardrail accepts it, it
\* contains an affirmative or a negative phrase, a tier-1 keyword matches.
Query == [valid : BOOLEAN, affirm : BOOLEAN, decline : BOOLEAN,
          keyword : KnownIntents \cup {"none"}]

ASSUME CustomerOfAssumption == CustomerOf \in [Sessions -> Customers]
ASSUME QueriesAssumption    == Queries \subseteq Query
ASSUME NoActionAssumption   == NoAction \notin Action
ASSUME BoundsAssumption     == MaxTurns \in Nat /\ MaxTabs \in Nat /\ MaxRestarts \in Nat

\* One session per customer: the case of a user with a single open tab.
OneSessionEach ==
    \A s, t \in Sessions : CustomerOf[s] = CustomerOf[t] => s = t

\* The customers with one open tab, whatever tabs others share.
SingleTabs ==
    {c \in Customers :
        \A s, t \in Sessions : CustomerOf[s] = c /\ CustomerOf[t] = c => s = t}

VARIABLES
    ckpt,      \* newest checkpoint of each customer's thread (MemorySaver)
    chan,      \* the channels of the session's running invoke()
    pc,        \* the node the session's run executes next
    query,     \* the query of the session's request
    turn,      \* the number of the session's request
    resp,      \* the reply to the session's request, once it is there
    posts,     \* mutating tool calls made, each with the turn that made it
    declined,  \* staged calls the user declined
    asked,     \* staged calls a reply put to the user
    episodes,  \* turns with a line in the customer's memory/episodes file
    turns,     \* requests sent so far
    restarts   \* restarts so far

vars == <<ckpt, chan, pc, query, turn, resp, posts, declined, asked,
          episodes, turns, restarts>>

-----------------------------------------------------------------------------
(* State *)

Status == {"pending", "needs_clarification", "escalated", "done"}

(***************************************************************************)
(* AgentState.  current_query and customer_id are the request's own in     *)
(* every run (query[s], CustomerOf[s]); final_answer and tool_results keep *)
(* the turn that wrote them (0: never written), and tool_results whether   *)
(* they are the summary of a staged call (status awaiting_confirmation),   *)
(* an output, an error and a refusal to stage being alike to the graph;    *)
(* preferences_loaded stands for itself and for the preferences and        *)
(* episodes loaded with it.                                                *)
(***************************************************************************)
Channels == [intent               : KnownIntents \cup {"none", "unknown"},
             tool_results         : [turn : Nat, awaiting : BOOLEAN],
             needs_confirmation   : BOOLEAN,
             status               : Status,
             final_answer         : Nat,
             pending_action       : Action \cup {NoAction},
             route                : {"none", "continue", "respond", "end"},
             preferences_loaded   : BOOLEAN]

AgentState == [intent             |-> "none",
               tool_results       |-> [turn |-> 0, awaiting |-> FALSE],
               needs_confirmation |-> FALSE,
               status             |-> "pending",
               final_answer       |-> 0,
               pending_action     |-> NoAction,
               route              |-> "none",
               preferences_loaded |-> FALSE]

\* "recording": the confirmed call has returned, its node has not.
\* "repair": the first answer was malformed.  "end": the graph is at END.
Nodes == {"guardrail", "confirmation_gate", "recording", "intent_gate",
          "context_gate", "tool_exec", "respond", "repair", "end"}

Pc == Nodes \cup {"idle", "load", "begin"}

\* A reply: HTTP code (0: none, or the connection was lost), the turn it
\* answers, status and final_answer as returned, the cause of a 500.
Response == [code : {0, 200, 500}, turn : Nat, status : Status,
             final_answer : Nat, cause : {"none", "llm", "args", "tool"}]

NoResponse == [code |-> 0, turn |-> 0, status |-> "pending",
               final_answer |-> 0, cause |-> "none"]

\* One mutating call to the restaurant: what was called, by which turn,
\* and whether the tool returned without an error.
Post == [action : Action, turn : Turns, ok : BOOLEAN]

TypeOK ==
    /\ ckpt \in [Customers -> Channels]
    /\ chan \in [Sessions -> Channels]
    /\ pc \in [Sessions -> Pc]
    /\ query \in [Sessions -> Query]
    /\ turn \in [Sessions -> Turns \cup {0}]
    /\ resp \in [Sessions -> Response]
    /\ posts \subseteq Post
    /\ declined \subseteq Action
    /\ asked \subseteq Action
    /\ episodes \in [Customers -> SUBSET Turns]
    /\ turns \in Turns \cup {0}
    /\ restarts \in Nat

NoQuery == [valid |-> FALSE, affirm |-> FALSE, decline |-> FALSE,
            keyword |-> "none"]

Init ==
    /\ ckpt = [c \in Customers |-> AgentState]
    /\ chan = [s \in Sessions |-> AgentState]
    /\ pc = [s \in Sessions |-> "idle"]
    /\ query = [s \in Sessions |-> NoQuery]
    /\ turn = [s \in Sessions |-> 0]
    /\ resp = [s \in Sessions |-> NoResponse]
    /\ posts = {}
    /\ declined = {}
    /\ asked = {}
    /\ episodes = [c \in Customers |-> {}]
    /\ turns = 0
    /\ restarts = 0

-----------------------------------------------------------------------------
(* The request and the checkpointed run *)

\* The unconditional edges of the graph.  A faulty graph would take tool_exec
\* back to the confirmation gate.
add_edge_back == [intent_gate |-> "context_gate", context_gate |-> "tool_exec",
                  tool_exec |-> "confirmation_gate", respond |-> "end"]

add_edge == [intent_gate |-> "context_gate", context_gate |-> "tool_exec",
             tool_exec |-> "respond", respond |-> "end"]

\* The results of a node are applied to the run's channels, put as the
\* thread's newest checkpoint, and routed on, in one superstep.
SuperStep(s, channels, next) ==
    /\ chan' = [chan EXCEPT ![s] = channels]
    /\ ckpt' = [ckpt EXCEPT ![CustomerOf[s]] = channels]
    /\ pc' = [pc EXCEPT ![s] = next]
    /\ UNCHANGED <<query, turn, resp, turns, restarts>>

\* The bounds on what is sent.
MaySend(s) ==
    /\ turns < MaxTurns
    /\ Cardinality({s} \cup {t \in Sessions : turn[t] # 0}) <= MaxTabs

\* The user of session s sends query q.
Submit(s) ==
    /\ pc[s] = "idle"
    /\ MaySend(s)
    /\ \E q \in Queries : query' = [query EXCEPT ![s] = q]
    /\ turns' = turns + 1
    /\ turn' = [turn EXCEPT ![s] = turns + 1]
    /\ resp' = [resp EXCEPT ![s] = NoResponse]
    /\ pc' = [pc EXCEPT ![s] = "load"]
    /\ UNCHANGED <<ckpt, chan, posts, declined, asked, episodes, restarts>>

\* graph.invoke() reads the newest checkpoint of the thread ...
Load(s) ==
    /\ pc[s] = "load"
    /\ chan' = [chan EXCEPT ![s] = ckpt[CustomerOf[s]]]
    /\ pc' = [pc EXCEPT ![s] = "begin"]
    /\ UNCHANGED <<ckpt, query, turn, resp, posts, declined, asked, episodes,
                   turns, restarts>>

\* ... and checkpoints it again with the request's input applied.  A faulty
\* run() would send a fresh AgentState instead of this turn's delta.
Begin_fresh(s) ==
    /\ pc[s] = "begin"
    /\ SuperStep(s, AgentState, "guardrail")
    /\ UNCHANGED <<posts, declined, asked, episodes>>

Begin(s) ==
    /\ pc[s] = "begin"
    /\ SuperStep(s, chan[s], "guardrail")
    /\ UNCHANGED <<posts, declined, asked, episodes>>

\* The session's run is over; its channels die with it.
Reply(s, response) ==
    /\ resp' = [resp EXCEPT ![s] = response]
    /\ pc' = [pc EXCEPT ![s] = "idle"]
    /\ chan' = [chan EXCEPT ![s] = AgentState]
    /\ UNCHANGED <<ckpt, query, turn, posts, declined, episodes, turns, restarts>>

(***************************************************************************)
(* The graph reached END: run() returns the final state.  A reply with a   *)
(* staged call puts it to the user: respond_node was given its             *)
(* awaiting_confirmation summary, or the confirmation gate asked again.    *)
(***************************************************************************)
Finish(s) ==
    LET final == chan[s] IN
    /\ pc[s] = "end"
    /\ Reply(s, [code |-> 200, turn |-> turn[s], status |-> final.status,
                 final_answer |-> final.final_answer, cause |-> "none"])
    /\ asked' = IF final.status # "escalated" /\ final.needs_confirmation
                   /\ final.pending_action # NoAction
                THEN asked \cup {final.pending_action} ELSE asked

\* A node raised: the checkpoint stays at the last finished node and run()
\* turns the exception into a 500.  A faulty run() would answer all the same.
Fail_as_answer(s, why) ==
    /\ Reply(s, [code |-> 200, turn |-> turn[s], status |-> chan[s].status,
                 final_answer |-> turn[s], cause |-> why])
    /\ UNCHANGED asked

Fail(s, why) ==
    /\ Reply(s, [code |-> 500, turn |-> turn[s], status |-> "pending",
                 final_answer |-> 0, cause |-> why])
    /\ UNCHANGED asked

-----------------------------------------------------------------------------
(* guardrail_node *)

route_after_guardrail(channels) ==
    IF channels.status = "escalated" THEN "end" ELSE "confirmation_gate"

rejected(s) == [chan[s] EXCEPT !.status = "escalated", !.final_answer = turn[s]]

guardrail_node(s) ==
    /\ pc[s] = "guardrail"
    /\ LET channels == IF query[s].valid THEN chan[s] ELSE rejected(s)
       IN SuperStep(s, channels, route_after_guardrail(channels))
    /\ UNCHANGED <<posts, declined, asked, episodes>>

-----------------------------------------------------------------------------
(* confirmation_gate_node *)

\* A faulty path map would have no way to END.
route_without_end(channels) ==
    IF channels.route = "respond" THEN "respond" ELSE "intent_gate"

route_after_confirmation(channels) ==
    CASE channels.route \in {"none", "continue"} -> "intent_gate"
      [] channels.route = "respond" -> "respond"
      [] channels.route = "end" -> "end"

AwaitsConfirmation(channels) ==
    channels.needs_confirmation /\ channels.pending_action # NoAction

\* The gate's node ends with these channel values.
GateStep(s, channels) == SuperStep(s, channels, route_after_confirmation(channels))

\* Nothing is staged: carry on.  A faulty gate would leave the route of the
\* customer's previous turn in place.
pass_gate_stale(s) ==
    /\ pc[s] = "confirmation_gate"
    /\ ~AwaitsConfirmation(chan[s])
    /\ GateStep(s, chan[s])
    /\ UNCHANGED <<posts, declined, asked, episodes>>

pass_gate(s) ==
    /\ pc[s] = "confirmation_gate"
    /\ ~AwaitsConfirmation(chan[s])
    /\ GateStep(s, [chan[s] EXCEPT !.route = "continue"])
    /\ UNCHANGED <<posts, declined, asked, episodes>>

\* An affirmative phrase, looked for first: call the staged tool for real.
\* _exec_tool turns whatever the tool raises into an error output.
execute_pending(s) ==
    /\ pc[s] = "confirmation_gate"
    /\ AwaitsConfirmation(chan[s])
    /\ query[s].affirm
    /\ \E ok \in BOOLEAN :
          posts' = posts \cup {[action |-> chan[s].pending_action,
                                turn |-> turn[s], ok |-> ok]}
    /\ pc' = [pc EXCEPT ![s] = "recording"]
    /\ UNCHANGED <<ckpt, chan, query, turn, resp, declined, asked, episodes,
                   turns, restarts>>

\* The staged call was acted on.  A faulty variant would clear neither channel.
not_cleared(channels) == channels

cleared(channels) ==
    [channels EXCEPT !.pending_action = NoAction, !.needs_confirmation = FALSE]

\* The session's turn has made its call, whatever came of it.
Called(s) == \E p \in posts : p.turn = turn[s]

\* "error" is not in the tool's output.  A faulty gate would not look (Called).
Succeeded(s) == \E p \in posts : p.turn = turn[s] /\ p.ok

\* A successful call is appended to the episodes (unless the write fails,
\* which append_episode swallows) and the node clears what was staged.
record_executed(s) ==
    /\ pc[s] = "recording"
    /\ \/ /\ Succeeded(s)
          /\ episodes' = [episodes EXCEPT ![CustomerOf[s]] = @ \cup {turn[s]}]
       \/ UNCHANGED episodes
    /\ GateStep(s, [cleared(chan[s]) EXCEPT
          !.tool_results = [turn |-> turn[s], awaiting |-> FALSE],
          !.route = "respond"])
    /\ UNCHANGED <<posts, declined, asked>>

\* A negative phrase and no affirmative one: drop the staged call.
decline_pending(s) ==
    /\ pc[s] = "confirmation_gate"
    /\ AwaitsConfirmation(chan[s])
    /\ ~query[s].affirm
    /\ query[s].decline
    /\ declined' = declined \cup {chan[s].pending_action}
    /\ GateStep(s, [cleared(chan[s]) EXCEPT
          !.final_answer = turn[s],
          !.status = "done",
          !.route = "end"])
    /\ UNCHANGED <<posts, asked, episodes>>

\* Neither: ask again and keep the call staged.
ask_again(s) ==
    /\ pc[s] = "confirmation_gate"
    /\ AwaitsConfirmation(chan[s])
    /\ ~query[s].affirm
    /\ ~query[s].decline
    /\ GateStep(s, [chan[s] EXCEPT
          !.final_answer = turn[s],
          !.status = "needs_clarification",
          !.route = "end"])
    /\ UNCHANGED <<posts, declined, asked, episodes>>

confirmation_gate_node(s) ==
    \/ pass_gate(s)
    \/ execute_pending(s)
    \/ record_executed(s)
    \/ decline_pending(s)
    \/ ask_again(s)

-----------------------------------------------------------------------------
(* intent_gate_node and context_gate_node *)

\* The intents the model's reply can give: a word outside KNOWN_INTENTS counts
\* as "unknown".
tier2 == KnownIntents \cup {"unknown"}

\* A keyword settles the intent; otherwise the model does.
classify(s) ==
    /\ pc[s] = "intent_gate"
    /\ \E intent \in IF query[s].keyword # "none" THEN {query[s].keyword}
                     ELSE tier2 :
          SuperStep(s, [chan[s] EXCEPT !.intent = intent], add_edge.intent_gate)
    /\ UNCHANGED <<posts, declined, asked, episodes>>

\* chat_completion raised while classifying.
classify_fails(s) ==
    /\ pc[s] = "intent_gate"
    /\ query[s].keyword = "none"
    /\ Fail(s, "llm")

intent_gate_node(s) == classify(s) \/ classify_fails(s)

\* Loads the preferences and episodes once per thread, for a booking or an
\* order; a failed fetch leaves them unloaded for the next such turn.
context_gate_node(s) ==
    /\ pc[s] = "context_gate"
    /\ \E loaded \in IF chan[s].intent \in {"booking", "order"}
                     THEN {chan[s].preferences_loaded, TRUE}
                     ELSE {chan[s].preferences_loaded} :
          SuperStep(s, [chan[s] EXCEPT !.preferences_loaded = loaded],
                    add_edge.context_gate)
    /\ UNCHANGED <<posts, declined, asked, episodes>>

-----------------------------------------------------------------------------
(* tool_exec_node *)

\* The node ends with this turn's tool results.
ToolResults(s, awaiting) ==
    [chan[s] EXCEPT !.tool_results = [turn |-> turn[s], awaiting |-> awaiting]]

\* A read-only tool, or the echo placeholder for an unknown intent: whatever
\* the tool raises becomes an error output.
run_tool(s) ==
    /\ pc[s] = "tool_exec"
    /\ chan[s].intent \notin {"booking", "order"}
    /\ SuperStep(s, ToolResults(s, FALSE), add_edge.tool_exec)
    /\ UNCHANGED <<posts, declined, asked, episodes>>

\* The extracted arguments lack a required field, or (booking only)
\* _resolve_table_id raised a ValueError, no table being free.
stage_nothing(s) ==
    /\ pc[s] = "tool_exec"
    /\ chan[s].intent \in {"booking", "order"}
    /\ SuperStep(s, ToolResults(s, FALSE), add_edge.tool_exec)
    /\ UNCHANGED <<posts, declined, asked, episodes>>

ToolFor(intent) == IF intent = "booking" THEN "create_reservation" ELSE "create_order"

\* _prepare_booking and _prepare_order stage the call; customer_id is
\* attached from the state, never taken from the model.
stage_action(s) ==
    /\ pc[s] = "tool_exec"
    /\ chan[s].intent \in {"booking", "order"}
    /\ SuperStep(s,
          [ToolResults(s, TRUE) EXCEPT
              !.pending_action = [tool |-> ToolFor(chan[s].intent),
                                  customer |-> CustomerOf[s],
                                  turn |-> turn[s]],
              !.needs_confirmation = TRUE],
          add_edge.tool_exec)
    /\ UNCHANGED <<posts, declined, asked, episodes>>

(***************************************************************************)
(* The node raises.  Every intent but "unknown" asks the model for the     *)
(* arguments: chat_completion may raise ("llm") and arguments that are not *)
(* a JSON object do ("args").  _prepare_booking also raises "args" for an  *)
(* argument _resolve_table_id does not take, and calls get_availability    *)
(* outside _exec_tool: what the tool raises, unless it is a ValueError, is *)
(* raised on ("tool").                                                     *)
(***************************************************************************)
tool_exec_fails(s) ==
    /\ pc[s] = "tool_exec"
    /\ chan[s].intent \in KnownIntents
    /\ \E why \in {"llm", "args"} \cup
                  (IF chan[s].intent = "booking" THEN {"tool"} ELSE {}) :
          Fail(s, why)

tool_exec_node(s) ==
    run_tool(s) \/ stage_nothing(s) \/ stage_action(s) \/ tool_exec_fails(s)

-----------------------------------------------------------------------------
(* respond_node *)

\* A well-formed reply, to the first call or to the repair prompt.
answer(s) ==
    /\ pc[s] \in {"respond", "repair"}
    /\ SuperStep(s, [chan[s] EXCEPT !.final_answer = turn[s], !.status = "done"],
                 add_edge.respond)
    /\ UNCHANGED <<posts, declined, asked, episodes>>

\* A malformed first reply: one repair call follows, within the node.
ask_repair(s) ==
    /\ pc[s] = "respond"
    /\ pc' = [pc EXCEPT ![s] = "repair"]
    /\ UNCHANGED <<ckpt, chan, query, turn, resp, posts, declined, asked,
                   episodes, turns, restarts>>

\* A malformed reply to the repair prompt: escalate, answering nothing.
\* Faulty variants would not say so, or prompt again for as long as it takes.
escalate_silently(s) ==
    /\ pc[s] = "repair"
    /\ SuperStep(s, chan[s], add_edge.respond)
    /\ UNCHANGED <<posts, declined, asked, episodes>>

escalate_never(s) ==
    /\ pc[s] = "repair"
    /\ pc' = [pc EXCEPT ![s] = "respond"]
    /\ UNCHANGED <<ckpt, chan, query, turn, resp, posts, declined, asked,
                   episodes, turns, restarts>>

escalate(s) ==
    /\ pc[s] = "repair"
    /\ SuperStep(s, [chan[s] EXCEPT !.status = "escalated"], add_edge.respond)
    /\ UNCHANGED <<posts, declined, asked, episodes>>

respond_fails(s) ==
    /\ pc[s] \in {"respond", "repair"}
    /\ Fail(s, "llm")

respond_node(s) == answer(s) \/ ask_repair(s) \/ escalate(s) \/ respond_fails(s)

-----------------------------------------------------------------------------
(* Specification *)

\* The API process restarts: MemorySaver and every running request are
\* gone, the clients see a broken connection, the episode files stay.
Restart ==
    /\ restarts < MaxRestarts
    /\ restarts' = restarts + 1
    /\ ckpt' = [c \in Customers |-> AgentState]
    /\ chan' = [s \in Sessions |-> AgentState]
    /\ pc' = [s \in Sessions |-> "idle"]
    /\ UNCHANGED <<query, turn, resp, posts, declined, asked, episodes, turns>>

\* One step of the request that session s waits for.
RunStep(s) ==
    \/ Load(s)
    \/ Begin(s)
    \/ guardrail_node(s)
    \/ confirmation_gate_node(s)
    \/ intent_gate_node(s)
    \/ context_gate_node(s)
    \/ tool_exec_node(s)
    \/ respond_node(s)
    \/ Finish(s)

Next ==
    \/ \E s \in Sessions : Submit(s) \/ RunStep(s)
    \/ Restart

Spec == Init /\ [][Next]_vars

\* A request the server accepted keeps running: run() is synchronous, each
\* outgoing call has a timeout and every retry loop a bound.  Users need
\* not send anything and the process need not restart.
Fairness == \A s \in Sessions : WF_vars(RunStep(s))

FairSpec == Spec /\ Fairness

-----------------------------------------------------------------------------
(* Properties of every deployment, tabs shared or not *)

\* A thread says it awaits a confirmation exactly when it holds a staged
\* call: the two channels the confirmation gate tests never come apart,
\* neither in a checkpoint nor in a running turn.
PendingMatchesFlag ==
    /\ \A c \in Customers :
          ckpt[c].needs_confirmation <=> ckpt[c].pending_action # NoAction
    /\ \A s \in Sessions :
          chan[s].needs_confirmation <=> chan[s].pending_action # NoAction

\* respond_node never words an answer from an earlier turn's tool results,
\* although the channel is checkpointed and no node clears it.
ToolResultsFresh ==
    \A s \in Sessions :
        pc[s] \in {"respond", "repair"} => chan[s].tool_results.turn = turn[s]

\* What respond_node words its answer from and what the next yes will do
\* agree: it is given the summary of a staged call exactly when one is staged.
SummaryMatchesStaged ==
    \A s \in Sessions :
        pc[s] \in {"respond", "repair"} =>
            (chan[s].tool_results.awaiting <=> chan[s].pending_action # NoAction)

\* A reply whose status is done or needs_clarification carries an answer
\* written in the turn it replies to, although status and final_answer are
\* both left over from earlier turns until a node writes them.
DoneAnswerIsFresh ==
    \A s \in Sessions :
        resp[s].code = 200 /\ resp[s].status \in {"done", "needs_clarification"}
            => resp[s].final_answer = resp[s].turn

\* A customer's episodes name only turns in which a booking or order of
\* that customer went through: none for a failed call, a declined one, or
\* another customer's.
EpisodesTruthful ==
    \A c \in Customers : \A t \in episodes[c] :
        \E p \in posts : p.turn = t /\ p.ok /\ p.action.customer = c

\* Every request is answered (or its connection lost): no route through
\* the graph, its repair loop included, runs for ever or gets stuck.
EveryRequestAnswered ==
    \A s \in Sessions : []<>(pc[s] = "idle")

\* A yes on its way to the call it answers: the call that its run has read,
\* or will read from the thread, if no other tab settles it before.
YesUnderWay(s) ==
    LET thread == IF pc[s] = "load" THEN ckpt[CustomerOf[s]] ELSE chan[s] IN
    /\ \/ pc[s] \in {"begin", "guardrail", "confirmation_gate"}
       \/ pc[s] = "load" /\ CustomerOf[s] \in SingleTabs
    /\ query[s].valid /\ query[s].affirm
    /\ AwaitsConfirmation(thread)
    /\ thread.status # "escalated"

\* A yes to a staged call reaches the restaurant: whatever the model, other
\* customers and other tabs do, and unless the process restarts, the request
\* that carries it comes to the tool call.  It does so from the moment it is
\* sent in the customer's only tab; with several, from the moment its run has
\* read the call, even if another tab settles that call or stages the next.
ConfirmationHonoured ==
    /\ [][\A s \in Sessions : YesUnderWay(s) =>
             YesUnderWay(s)' \/ Called(s)' \/ restarts' # restarts]_vars
    /\ \A s \in Sessions : []<>~YesUnderWay(s)

-----------------------------------------------------------------------------
(* Properties of a customer with one open tab (OneSessionEach) *)

Executed(a) == \E p \in posts : p.action = a

\* Whatever was staged is acted on at most once: it is not executed by two
\* turns, and not executed after the user declined it.
SettledOnce ==
    /\ \A p, q \in posts : p.action = q.action => p = q
    /\ \A a \in declined : ~Executed(a)

\* The call a turn executes was staged by an earlier request: no single
\* message both assembles a booking and places it.
ExecutedInLaterTurn ==
    \A p \in posts : p.action.turn < p.turn

\* A call that no reply put to the user is on the thread of a customer who
\* waits for nothing only if the request that staged it was answered with an
\* error, or the thread is escalated and no request of it reaches the gate.
AskedOrFailed ==
    \A s \in Sessions :
        LET thread == ckpt[CustomerOf[s]]
            a == thread.pending_action
        IN  pc[s] = "idle" /\ a # NoAction /\ a \notin asked
              => \/ thread.status = "escalated"
                 \/ resp[s].code = 500 /\ resp[s].turn = a.turn

\* A staged call leaves its thread only by being executed, by being
\* declined, or with a restart: no failed turn and no later booking drops
\* or replaces what the user was asked to confirm.
PendingNeverReplaced ==
    [][\A c \in Customers :
          LET staged == ckpt[c].pending_action IN
          staged # NoAction /\ ckpt'[c].pending_action # staged
              => Executed(staged) \/ staged \in declined' \/ restarts' # restarts
      ]_vars

-----------------------------------------------------------------------------
(* What the repository says of the program, and the code does not do *)

\* graph.py: the rest of the graph is skipped "if the guardrail already
\* rejected the input".  A request the guardrail accepts is never skipped.
SkippedOnlyIfRejected ==
    [][\A s \in Sessions :
          pc[s] = "guardrail" /\ pc'[s] = "end" => ~query[s].valid]_vars

\* nodes.py: a mutating call "only happens once the user confirms".  What
\* is executed was put to the user in some reply.
ExecutedWasAsked ==
    \A p \in posts : p.action \in asked

-----------------------------------------------------------------------------
(***************************************************************************)
(* The promise to the user: ConfirmFirst, for the customers of SingleTabs. *)
(* A staged call counts as taken from the moment the confirmed tool call   *)
(* is made, before the node's checkpoint clears it.                        *)
(***************************************************************************)
staged == [c \in SingleTabs |->
             IF \E s \in Sessions : CustomerOf[s] = c /\ pc[s] = "recording"
             THEN NoAction ELSE ckpt[c].pending_action]

receipts == {[action |-> p.action, turn |-> p.turn] : p \in posts}

theirReceipts == {r \in receipts : r.action.customer \in SingleTabs}

theirDeclined == {a \in declined : a.customer \in SingleTabs}

Promise == INSTANCE ConfirmFirst WITH
               Customers <- SingleTabs,
               Actions   <- {a \in Action : a.customer \in SingleTabs},
               receipts  <- theirReceipts,
               declined  <- theirDeclined

Refinement == Promise!Spec

\* The promise that is left where tabs share a thread, one running on a copy
\* of what the other has settled: ConfirmShared.
held == ({ckpt[c].pending_action : c \in Customers}
            \cup {chan[s].pending_action : s \in Sessions}) \ {NoAction}

Shared == INSTANCE ConfirmShared WITH Actions <- Action

KeepsShared == Shared!Spec

-----------------------------------------------------------------------------
(* The inductive invariants behind the theorems of AgentGraphProofs *)

\* A session with a request in flight has a turn number: what the calls it
\* stages and makes are tagged with.
TurnAssigned == \A s \in Sessions : pc[s] # "idle" => turn[s] \in Turns

TypeInv == TypeOK /\ TurnAssigned

\* No two requests share a turn number.
TurnsUnique ==
    \A s, t \in Sessions :
        /\ turn[s] <= turns
        /\ turn[s] = turn[t] /\ turn[s] # 0 => s = t

\* A run that has loaded its thread works on the thread's newest checkpoint.
OwnThread ==
    \A s \in Sessions :
        pc[s] \notin {"idle", "load"} => chan[s] = ckpt[CustomerOf[s]]

\* What a thread has staged is its own customer's.
PendingOwned ==
    \A c \in Customers :
        ckpt[c].pending_action # NoAction => ckpt[c].pending_action.customer = c

\* The flag goes with the staged call, and the staged call is the customer's.
Sound(channels, c) ==
    /\ channels.needs_confirmation <=> channels.pending_action # NoAction
    /\ channels.pending_action # NoAction => channels.pending_action.customer = c

\* What the channels of turn t hold when the run is at a node: nothing staged
\* past the confirmation gate, its own tool results where they are worded, and
\* its own answer at the end.
AtNode(channels, node, t) ==
    /\ node \in {"intent_gate", "context_gate", "tool_exec"} =>
          channels.pending_action = NoAction
    /\ node \in {"respond", "repair"} =>
          /\ channels.tool_results.turn = t
          /\ channels.tool_results.awaiting <=> channels.pending_action # NoAction
    /\ node = "end" /\ channels.status \in {"done", "needs_clarification"} =>
          channels.final_answer = t

\* A call was made for the customer of the session whose turn made it.
PostsOwned ==
    \A p \in posts :
        /\ p.turn <= turns
        /\ \A s \in Sessions : turn[s] = p.turn => p.action.customer = CustomerOf[s]

\* The inductive invariant of every deployment, tabs shared or not.
ThreadInv ==
    /\ TypeInv
    /\ TurnsUnique
    /\ \A c \in Customers : Sound(ckpt[c], c)
    /\ \A s \in Sessions : /\ Sound(chan[s], CustomerOf[s])
                           /\ AtNode(chan[s], pc[s], turn[s])
    /\ DoneAnswerIsFresh
    /\ PostsOwned
    /\ EpisodesTruthful

\* Where a turn that has staged nothing yet can be.
Early == {"load", "begin", "guardrail", "confirmation_gate", "recording",
          "intent_gate", "context_gate", "tool_exec"}

Seen(a) ==
    \/ Executed(a)
    \/ a \in declined
    \/ \E c \in Customers : ckpt[c].pending_action = a

\* A staged call carries the number of a turn that was sent and has left
\* tool_exec, so the call a turn is about to stage is new.
StagedOnce ==
    \A a \in Action : Seen(a) =>
        /\ a.turn <= turns
        /\ \A s \in Sessions : pc[s] \in Early => a.turn # turn[s]

\* What is staged has been neither executed nor declined, except while the
\* node that executed it has yet to clear it.
PendingOpen ==
    \A c \in Customers :
        LET a == ckpt[c].pending_action IN
        /\ a # NoAction
        /\ \A s \in Sessions : CustomerOf[s] = c => pc[s] # "recording"
        => ~Executed(a) /\ a \notin declined

\* Past the confirmation gate nothing is staged.
GateZone == {"intent_gate", "context_gate", "tool_exec"}

GatePassed ==
    \A s \in Sessions : pc[s] \in GateZone => chan[s].pending_action = NoAction

\* The inductive invariant of a deployment with one open tab per customer.
OneTabInv ==
    /\ TypeInv
    /\ PendingMatchesFlag
    /\ TurnsUnique
    /\ OwnThread
    /\ PendingOwned
    /\ StagedOnce
    /\ PendingOpen
    /\ GatePassed
    /\ SettledOnce

===============================================================================
