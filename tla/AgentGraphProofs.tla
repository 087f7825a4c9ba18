--------------------------- MODULE AgentGraphProofs ---------------------------
(***************************************************************************)
(* Theorems about AgentGraph, for every number of sessions, customers,     *)
(* messages, turns and restarts.                                           *)
(***************************************************************************)
EXTENDS AgentGraph, TLAPS

-----------------------------------------------------------------------------
(* Type correctness, for every deployment *)

\* What a superstep does to the typed variables it writes.
LEMMA SuperStepType ==
    ASSUME TypeInv, NEW s \in Sessions, NEW channels \in Channels,
           NEW next \in Nodes, SuperStep(s, channels, next), pc[s] # "idle"
    PROVE  /\ ckpt' \in [Customers -> Channels]
           /\ chan' \in [Sessions -> Channels]
           /\ pc' \in [Sessions -> Pc]
           /\ query' \in [Sessions -> Query]
           /\ turn' \in [Sessions -> Turns \cup {0}]
           /\ resp' \in [Sessions -> Response]
           /\ turns' \in Turns \cup {0}
           /\ restarts' \in Nat
           /\ TurnAssigned'
BY CustomerOfAssumption DEF TypeInv, TypeOK, TurnAssigned, SuperStep, Pc

\* The initial channels are well typed.
LEMMA InitialChannels == AgentState \in Channels
BY DEF AgentState, Channels, Status

\* The program's initial states are well typed.
LEMMA InitTypes == Init => TypeInv
BY InitialChannels, BoundsAssumption
   DEF Init, TypeInv, TypeOK, TurnAssigned, Turns, NoQuery, Query, NoResponse,
       Response, Status, Pc

\* The results of the nodes are well typed.
LEMMA NodeResults ==
    ASSUME TypeInv, NEW s \in Sessions, pc[s] # "idle"
    PROVE  /\ chan[s] \in Channels
           /\ cleared(chan[s]) \in Channels
           /\ rejected(s) \in Channels
           /\ \A awaiting \in BOOLEAN : ToolResults(s, awaiting) \in Channels
<1>1. chan[s] \in Channels /\ turn[s] \in Nat
  BY DEF TypeInv, TypeOK, TurnAssigned, Turns
<1>2. cleared(chan[s]) \in Channels
  BY <1>1 DEF Channels, cleared
<1>3. rejected(s) \in Channels
  BY <1>1 DEF Channels, rejected, Status
<1>4. \A awaiting \in BOOLEAN : ToolResults(s, awaiting) \in Channels
  BY <1>1 DEF Channels, ToolResults
<1> QED BY <1>1, <1>2, <1>3, <1>4

\* Both routers name a node.
LEMMA RoutesAreNodes ==
    ASSUME NEW channels \in Channels
    PROVE  /\ route_after_guardrail(channels) \in Nodes
           /\ route_after_confirmation(channels) \in Nodes
BY DEF Channels, route_after_guardrail, route_after_confirmation, Nodes

\* Sending a request and loading its thread's checkpoint.
LEMMA RequestTypes ==
    ASSUME TypeInv, NEW s \in Sessions, Submit(s) \/ Load(s) \/ Begin(s)
    PROVE  TypeInv'
<1>1. CASE Submit(s)
  BY <1>1, QueriesAssumption, BoundsAssumption
     DEF TypeInv, TypeOK, TurnAssigned, Turns, Submit, MaySend, Pc, NoResponse, Response,
         Status
<1>2. CASE Load(s)
  BY <1>2, CustomerOfAssumption DEF TypeInv, TypeOK, TurnAssigned, Load, Pc
<1>3. CASE Begin(s)
  BY <1>3, NodeResults, SuperStepType DEF TypeInv, TypeOK, Begin, Nodes
<1> QED BY <1>1, <1>2, <1>3

\* A reply, be it the final state or a 500.
LEMMA ReplyTypes ==
    ASSUME TypeInv, NEW s \in Sessions, pc[s] # "idle",
           NEW response \in Response, Reply(s, response),
           asked' \subseteq Action
    PROVE  TypeInv'
BY InitialChannels DEF TypeInv, TypeOK, TurnAssigned, Reply, Pc

LEMMA FinishTypes ==
    ASSUME TypeInv, NEW s \in Sessions, Finish(s)
    PROVE  TypeInv'
<1> DEFINE response ==
      [code |-> 200, turn |-> turn[s], status |-> chan[s].status,
       final_answer |-> chan[s].final_answer, cause |-> "none"]
<1>1. pc[s] # "idle" /\ chan[s] \in Channels
  BY DEF Finish, TypeInv, TypeOK
<1>2. response \in Response
  BY <1>1 DEF TypeInv, TypeOK, Channels, Response, Turns
<1>3. asked' \subseteq Action
  BY <1>1 DEF Finish, TypeInv, TypeOK, Channels
<1>4. Reply(s, response)
  BY DEF Finish
<1> QED BY <1>1, <1>2, <1>3, <1>4, ReplyTypes

LEMMA FailTypes ==
    ASSUME TypeInv, NEW s \in Sessions, pc[s] # "idle",
           NEW why \in {"llm", "args", "tool"}, Fail(s, why)
    PROVE  TypeInv'
<1> DEFINE response == [code |-> 500, turn |-> turn[s], status |-> "pending",
                        final_answer |-> 0, cause |-> why]
<1>1. response \in Response
  BY DEF TypeInv, TypeOK, Response, Status, Turns
<1>2. asked' \subseteq Action /\ Reply(s, response)
  BY DEF Fail, TypeInv, TypeOK
<1> QED BY <1>1, <1>2, ReplyTypes

\* A superstep of a node whose results are channels keeps every type.
LEMMA NodeStepTypes ==
    ASSUME TypeInv, NEW s \in Sessions, pc[s] # "idle",
           NEW channels \in Channels, NEW next \in Nodes,
           SuperStep(s, channels, next),
           posts' \subseteq Post, declined' \subseteq Action,
           asked' \subseteq Action, episodes' \in [Customers -> SUBSET Turns]
    PROVE  TypeInv'
BY SuperStepType DEF TypeInv, TypeOK

LEMMA GuardrailTypes ==
    ASSUME TypeInv, NEW s \in Sessions, guardrail_node(s)
    PROVE  TypeInv'
<1> DEFINE channels == IF query[s].valid THEN chan[s] ELSE rejected(s)
<1>1. pc[s] # "idle"
  BY DEF guardrail_node
<1>2. channels \in Channels /\ route_after_guardrail(channels) \in Nodes
  BY <1>1, NodeResults, RoutesAreNodes
<1>3. SuperStep(s, channels, route_after_guardrail(channels))
  BY DEF guardrail_node
<1>4. UNCHANGED <<posts, declined, asked, episodes>>
  BY DEF guardrail_node
<1> HIDE DEF channels
<1> QED BY <1>1, <1>2, <1>3, <1>4, NodeStepTypes DEF TypeInv, TypeOK

\* The confirmation gate: every way through it.
LEMMA GateTypes ==
    ASSUME TypeInv, NEW s \in Sessions, confirmation_gate_node(s)
    PROVE  TypeInv'
<1>1. pc[s] # "idle"
  BY DEF confirmation_gate_node, pass_gate, execute_pending, record_executed,
         decline_pending, ask_again
<1>2. /\ chan[s] \in Channels /\ cleared(chan[s]) \in Channels
      /\ turn[s] \in Turns /\ turn[s] \in Nat
  BY <1>1, NodeResults DEF TypeInv, TurnAssigned, Turns
<1>3. AwaitsConfirmation(chan[s]) => chan[s].pending_action \in Action
  BY <1>2 DEF AwaitsConfirmation, Channels
<1>4. ASSUME NEW channels \in Channels, GateStep(s, channels),
             posts' \subseteq Post, declined' \subseteq Action,
             asked' \subseteq Action, episodes' \in [Customers -> SUBSET Turns]
      PROVE  TypeInv'
  BY <1>1, <1>4, RoutesAreNodes, NodeStepTypes DEF GateStep
<1>5. CASE pass_gate(s)
  <2>1. [chan[s] EXCEPT !.route = "continue"] \in Channels
    BY <1>2 DEF Channels
  <2> QED BY <1>4, <1>5, <2>1 DEF pass_gate, TypeInv, TypeOK
<1>6. CASE execute_pending(s)
  <2>1. \A ok \in BOOLEAN :
           [action |-> chan[s].pending_action, turn |-> turn[s], ok |-> ok] \in Post
    BY <1>2, <1>3, <1>6 DEF execute_pending, Post
  <2>2. posts' \subseteq Post
    BY <1>6, <2>1 DEF execute_pending, TypeInv, TypeOK
  <2> QED BY <1>6, <2>2 DEF execute_pending, TypeInv, TypeOK, TurnAssigned, Pc, Nodes
<1>7. CASE record_executed(s)
  <2>1. episodes' \in [Customers -> SUBSET Turns]
    BY <1>2, <1>7, CustomerOfAssumption DEF record_executed, TypeInv, TypeOK
  <2> DEFINE channels == [cleared(chan[s]) EXCEPT
                            !.tool_results = [turn |-> turn[s], awaiting |-> FALSE],
                            !.route = "respond"]
  <2>2. channels \in Channels
    BY <1>2 DEF Channels
  <2>3. GateStep(s, channels) /\ UNCHANGED <<posts, declined, asked>>
    BY <1>7 DEF record_executed
  <2> HIDE DEF channels
  <2> QED BY <1>4, <2>1, <2>2, <2>3 DEF TypeInv, TypeOK
<1>8. CASE decline_pending(s)
  <2> DEFINE channels == [cleared(chan[s]) EXCEPT
                            !.final_answer = turn[s],
                            !.status = "done",
                            !.route = "end"]
  <2>1. channels \in Channels
    BY <1>2 DEF Channels, Status
  <2>2. GateStep(s, channels) /\ UNCHANGED <<posts, asked, episodes>>
    BY <1>8 DEF decline_pending
  <2>3. declined' \subseteq Action
    BY <1>3, <1>8 DEF decline_pending, TypeInv, TypeOK
  <2> HIDE DEF channels
  <2> QED BY <1>4, <2>1, <2>2, <2>3 DEF TypeInv, TypeOK
<1>9. CASE ask_again(s)
  <2>1. [chan[s] EXCEPT !.final_answer = turn[s], !.status = "needs_clarification",
                        !.route = "end"] \in Channels
    BY <1>2 DEF Channels, Status
  <2> QED BY <1>4, <1>9, <2>1 DEF ask_again, TypeInv, TypeOK
<1> QED BY <1>5, <1>6, <1>7, <1>8, <1>9 DEF confirmation_gate_node

LEMMA IntentTypes ==
    ASSUME TypeInv, NEW s \in Sessions, intent_gate_node(s)
    PROVE  TypeInv'
<1>1. pc[s] # "idle" /\ chan[s] \in Channels
  BY DEF intent_gate_node, classify, classify_fails, Fail, TypeInv, TypeOK
<1>2. CASE classify(s)
  <2>1. PICK intent \in KnownIntents \cup {"none", "unknown"} :
           SuperStep(s, [chan[s] EXCEPT !.intent = intent], "context_gate")
    BY <1>2 DEF classify, TypeInv, TypeOK, Query, tier2, add_edge
  <2>2. [chan[s] EXCEPT !.intent = intent] \in Channels
    BY <1>1 DEF Channels
  <2> QED BY <1>1, <1>2, <2>1, <2>2, NodeStepTypes
             DEF classify, TypeInv, TypeOK, Nodes
<1>3. CASE classify_fails(s)
  BY <1>1, <1>3, FailTypes DEF classify_fails
<1> QED BY <1>2, <1>3 DEF intent_gate_node

LEMMA ContextTypes ==
    ASSUME TypeInv, NEW s \in Sessions, context_gate_node(s)
    PROVE  TypeInv'
<1>1. pc[s] # "idle" /\ chan[s] \in Channels
  BY DEF context_gate_node, TypeInv, TypeOK
<1>2. PICK loaded \in BOOLEAN :
         SuperStep(s, [chan[s] EXCEPT !.preferences_loaded = loaded], "tool_exec")
  BY <1>1 DEF context_gate_node, Channels, add_edge
<1>3. [chan[s] EXCEPT !.preferences_loaded = loaded] \in Channels
  BY <1>1 DEF Channels
<1> QED BY <1>1, <1>2, <1>3, NodeStepTypes
           DEF context_gate_node, TypeInv, TypeOK, Nodes

LEMMA ToolTypes ==
    ASSUME TypeInv, NEW s \in Sessions, tool_exec_node(s)
    PROVE  TypeInv'
<1>1. pc[s] # "idle" /\ chan[s] \in Channels /\ turn[s] \in Turns
  BY DEF tool_exec_node, run_tool, stage_nothing, stage_action, tool_exec_fails,
         TypeInv, TypeOK, TurnAssigned
<1>2. \A awaiting \in BOOLEAN : ToolResults(s, awaiting) \in Channels
  BY <1>1, NodeResults
<1>3. CASE run_tool(s) \/ stage_nothing(s)
  <2>1. SuperStep(s, ToolResults(s, FALSE), "respond")
    BY <1>3 DEF run_tool, stage_nothing, add_edge
  <2> QED BY <1>1, <1>2, <1>3, <2>1, NodeStepTypes
             DEF run_tool, stage_nothing, TypeInv, TypeOK, Nodes
<1>4. CASE stage_action(s)
  <2> DEFINE action == [tool |-> ToolFor(chan[s].intent),
                        customer |-> CustomerOf[s], turn |-> turn[s]]
             channels == [ToolResults(s, TRUE) EXCEPT
                            !.pending_action = action,
                            !.needs_confirmation = TRUE]
  <2>1. action \in Action
    BY <1>1, CustomerOfAssumption DEF Action, ToolFor, Tools
  <2>2. ToolResults(s, TRUE) \in Channels
    BY <1>2
  <2>3. SuperStep(s, channels, "respond")
    BY <1>4 DEF stage_action, add_edge
  <2> HIDE DEF action
  <2>4. channels \in Channels
    BY <2>1, <2>2 DEF Channels
  <2> HIDE DEF channels
  <2> QED BY <1>1, <1>4, <2>3, <2>4, NodeStepTypes
             DEF stage_action, TypeInv, TypeOK, Nodes
<1>5. CASE tool_exec_fails(s)
  BY <1>1, <1>5, FailTypes DEF tool_exec_fails
<1> QED BY <1>3, <1>4, <1>5 DEF tool_exec_node

LEMMA RespondTypes ==
    ASSUME TypeInv, NEW s \in Sessions, respond_node(s)
    PROVE  TypeInv'
<1>1. pc[s] # "idle" /\ chan[s] \in Channels /\ turn[s] \in Nat
  BY DEF respond_node, answer, ask_repair, escalate, respond_fails, TypeInv,
         TypeOK, Turns
<1>2. CASE answer(s)
  <2>1. [chan[s] EXCEPT !.final_answer = turn[s], !.status = "done"] \in Channels
    BY <1>1 DEF Channels, Status
  <2> QED BY <1>1, <1>2, <2>1, NodeStepTypes
             DEF answer, add_edge, TypeInv, TypeOK, Nodes
<1>3. CASE ask_repair(s)
  BY <1>1, <1>3 DEF ask_repair, TypeInv, TypeOK, TurnAssigned, Pc, Nodes
<1>4. CASE escalate(s)
  <2>1. [chan[s] EXCEPT !.status = "escalated"] \in Channels
    BY <1>1 DEF Channels, Status
  <2> QED BY <1>1, <1>4, <2>1, NodeStepTypes
             DEF escalate, add_edge, TypeInv, TypeOK, Nodes
<1>5. CASE respond_fails(s)
  BY <1>1, <1>5, FailTypes DEF respond_fails
<1> QED BY <1>2, <1>3, <1>4, <1>5 DEF respond_node

LEMMA RestartTypes ==
    ASSUME TypeInv, Restart
    PROVE  TypeInv'
BY InitialChannels
   DEF TypeInv, TypeOK, TurnAssigned, Restart, Pc

\* Every step keeps the types.
LEMMA NextTypes ==
    ASSUME TypeInv, [Next]_vars
    PROVE  TypeInv'
<1>1. ASSUME NEW s \in Sessions, Submit(s) \/ RunStep(s)
      PROVE  TypeInv'
  BY <1>1, RequestTypes, GuardrailTypes, GateTypes, IntentTypes, ContextTypes,
     ToolTypes, RespondTypes, FinishTypes DEF RunStep
<1>2. CASE Restart
  BY <1>2, RestartTypes
<1>3. CASE UNCHANGED vars
  BY <1>3 DEF vars, TypeInv, TypeOK, TurnAssigned
<1> QED BY <1>1, <1>2, <1>3 DEF Next

\* Type correctness: every channel, checkpoint, reply and record of the
\* outside world keeps its type, in every deployment; in particular what is
\* staged, made, declined or asked is always a booking or an order, of a known
\* customer, tagged with a turn that was really sent.
THEOREM TypeCorrect == Spec => []TypeOK
<1>1. Init => TypeInv
  BY InitTypes
<1>2. TypeInv /\ [Next]_vars => TypeInv'
  BY NextTypes
<1>3. TypeInv => TypeOK
  BY DEF TypeInv
<1> QED BY <1>1, <1>2, <1>3, PTL DEF Spec

-----------------------------------------------------------------------------
(* One open tab per customer: what is staged is settled at most once *)

\* The program's initial states satisfy the invariant.
LEMMA InitOneTab == Init => OneTabInv
<1> SUFFICES ASSUME Init PROVE OneTabInv
  OBVIOUS
<1>1. TypeInv
  BY InitTypes
<1>2. AgentState.pending_action = NoAction /\ ~AgentState.needs_confirmation
  BY DEF AgentState
<1>3. \A c \in Customers : ckpt[c] = AgentState
  BY DEF Init
<1>4. \A s \in Sessions : /\ chan[s] = AgentState /\ pc[s] = "idle"
                          /\ turn[s] = 0
  BY DEF Init
<1>5. posts = {} /\ declined = {} /\ turns = 0
  BY DEF Init
<1>6. PendingMatchesFlag /\ PendingOwned /\ PendingOpen
  BY <1>2, <1>3, <1>4 DEF PendingMatchesFlag, PendingOwned, PendingOpen
<1>7. TurnsUnique /\ OwnThread /\ GatePassed
  BY <1>4, <1>5 DEF TurnsUnique, OwnThread, GatePassed, GateZone
<1>8. \A a \in Action : ~Seen(a)
  BY <1>2, <1>3, <1>5, NoActionAssumption DEF Seen, Executed
<1>9. StagedOnce /\ SettledOnce
  BY <1>5, <1>8 DEF StagedOnce, SettledOnce
<1> QED BY <1>1, <1>6, <1>7, <1>9 DEF OneTabInv

\* A step that stages and settles nothing: the checkpoints keep what they hold
\* of the staged call, and no call is made or declined.
LEMMA QuietPending ==
    ASSUME OneTabInv, UNCHANGED <<posts, declined>>, turns <= turns',
           \A c \in Customers :
               ckpt'[c].pending_action = ckpt[c].pending_action,
           \A s \in Sessions : pc'[s] \in Early =>
               \/ pc[s] \in Early /\ turn'[s] = turn[s]
               \/ turn'[s] > turns,
           \A s \in Sessions : pc[s] = "recording" => pc'[s] = "recording",
           turns \in Nat, turns' \in Nat
    PROVE  PendingOwned' /\ StagedOnce' /\ PendingOpen' /\ SettledOnce'
<1>1. PendingOwned' /\ SettledOnce'
  BY DEF OneTabInv, PendingOwned, SettledOnce, Executed
<1>2. \A a \in Action : Executed(a)' = Executed(a)
  BY DEF Executed
<1>3. \A a \in Action : Seen(a)' => Seen(a)
  BY <1>2 DEF Seen
<1>4. StagedOnce'
  <2> SUFFICES ASSUME NEW a \in Action, Seen(a)'
               PROVE  /\ a.turn <= turns'
                      /\ \A s \in Sessions : pc'[s] \in Early => a.turn # turn'[s]
    BY DEF StagedOnce
  <2>1. a.turn <= turns /\ a.turn \in Int
    BY <1>3 DEF OneTabInv, StagedOnce, Action, Turns
  <2>2. \A s \in Sessions : pc[s] \in Early => a.turn # turn[s]
    BY <1>3 DEF OneTabInv, StagedOnce
  <2>3. \A s \in Sessions : turn'[s] > turns => a.turn # turn'[s]
    BY <2>1
  <2> QED BY <2>1, <2>2, <2>3
<1>5. PendingOpen'
  BY DEF OneTabInv, PendingOpen, Executed
<1> QED BY <1>1, <1>4, <1>5

\* What a superstep of a session does to its own thread and to the others'.
LEMMA StepEffect ==
    ASSUME OneSessionEach, OneTabInv, NEW s \in Sessions, NEW channels, NEW next,
           SuperStep(s, channels, next)
    PROVE  /\ CustomerOf[s] \in Customers
           /\ ckpt'[CustomerOf[s]] = channels
           /\ \A c \in Customers : c # CustomerOf[s] => ckpt'[c] = ckpt[c]
           /\ chan'[s] = channels /\ pc'[s] = next
           /\ \A t \in Sessions : t # s =>
                 /\ chan'[t] = chan[t] /\ pc'[t] = pc[t]
                 /\ CustomerOf[t] # CustomerOf[s]
           /\ UNCHANGED <<turn, turns>>
BY CustomerOfAssumption
   DEF OneSessionEach, OneTabInv, TypeInv, TypeOK, SuperStep

\* A superstep keeps the parts of the invariant that relate a run to its
\* thread, if its channels hold a staged call exactly when flagged.
LEMMA StepFrame ==
    ASSUME OneSessionEach, OneTabInv, NEW s \in Sessions, NEW channels,
           NEW next, SuperStep(s, channels, next),
           channels.needs_confirmation <=> channels.pending_action # NoAction,
           next \in GateZone => channels.pending_action = NoAction
    PROVE  TurnsUnique' /\ OwnThread' /\ PendingMatchesFlag' /\ GatePassed'
<1>1. TurnsUnique'
  BY StepEffect DEF OneTabInv, TurnsUnique
<1>2. OwnThread'
  BY StepEffect, CustomerOfAssumption DEF OneTabInv, OwnThread
<1>3. PendingMatchesFlag'
  BY StepEffect DEF OneTabInv, PendingMatchesFlag
<1>4. GatePassed'
  BY StepEffect DEF OneTabInv, GatePassed
<1> QED BY <1>1, <1>2, <1>3, <1>4

\* A superstep that leaves what is staged alone.
QuietStep(s, channels, next) ==
    /\ SuperStep(s, channels, next)
    /\ pc[s] \notin {"idle", "load", "recording"}
    /\ next # "recording"
    /\ channels.pending_action = chan[s].pending_action
    /\ channels.needs_confirmation = chan[s].needs_confirmation
    /\ UNCHANGED <<posts, declined>>
    /\ next \in Early => pc[s] \in Early
    /\ next \in GateZone => channels.pending_action = NoAction

\* What such a step keeps.
LEMMA QuietEffect ==
    ASSUME OneSessionEach, OneTabInv, NEW s \in Sessions, NEW channels, NEW next,
           QuietStep(s, channels, next)
    PROVE  /\ UNCHANGED <<posts, declined, turn, turns>>
           /\ \A c \in Customers : ckpt'[c].pending_action = ckpt[c].pending_action
           /\ \A t \in Sessions : pc'[t] = "recording" <=> pc[t] = "recording"
           /\ \A t \in Sessions : pc'[t] \in Early => pc[t] \in Early
<1>1. ckpt[CustomerOf[s]] = chan[s]
  BY DEF OneTabInv, OwnThread, QuietStep
<1> QED BY <1>1, StepEffect DEF QuietStep

LEMMA QuietOneTab ==
    ASSUME OneSessionEach, OneTabInv, TypeInv', NEW s \in Sessions,
           NEW channels, NEW next, QuietStep(s, channels, next)
    PROVE  OneTabInv'
<1>1. TurnsUnique' /\ OwnThread' /\ PendingMatchesFlag' /\ GatePassed'
  BY StepFrame DEF OneTabInv, PendingMatchesFlag, QuietStep
<1>2. turns \in Nat
  BY DEF OneTabInv, TypeInv, TypeOK, Turns
<1>3. PendingOwned' /\ StagedOnce' /\ PendingOpen' /\ SettledOnce'
  BY <1>2, QuietEffect, QuietPending
<1> QED BY <1>1, <1>3 DEF OneTabInv

\* The supersteps that leave what is staged alone, in every deployment ...
LEMMA QuietAnywhere ==
    ASSUME TypeInv, PendingMatchesFlag, GatePassed, NEW s \in Sessions,
           \/ Begin(s) \/ guardrail_node(s)
           \/ pass_gate(s) \/ ask_again(s) \/ classify(s) \/ context_gate_node(s)
           \/ run_tool(s) \/ stage_nothing(s) \/ answer(s) \/ escalate(s)
    PROVE  \E channels, next : QuietStep(s, channels, next)
<1>1. chan[s] \in Channels
  BY DEF TypeInv, TypeOK
<1>2. chan[s].needs_confirmation <=> chan[s].pending_action # NoAction
  BY DEF PendingMatchesFlag
<1>3. CASE Begin(s)
  BY <1>3 DEF QuietStep, Begin, Early, GateZone
<1>4. CASE guardrail_node(s)
  <2> DEFINE channels == IF query[s].valid THEN chan[s] ELSE rejected(s)
  <2>1. /\ channels.pending_action = chan[s].pending_action
        /\ channels.needs_confirmation = chan[s].needs_confirmation
    BY <1>1 DEF rejected, Channels
  <2>2. route_after_guardrail(channels) \in {"end", "confirmation_gate"}
    BY DEF route_after_guardrail
  <2>3. /\ pc[s] = "guardrail" /\ UNCHANGED <<posts, declined>>
        /\ SuperStep(s, channels, route_after_guardrail(channels))
    BY <1>4 DEF guardrail_node
  <2> HIDE DEF channels
  <2> QED BY <2>1, <2>2, <2>3 DEF QuietStep, Early, GateZone
<1>5. CASE pass_gate(s)
  <2> DEFINE channels == [chan[s] EXCEPT !.route = "continue"]
  <2>1. /\ channels.pending_action = chan[s].pending_action
        /\ channels.needs_confirmation = chan[s].needs_confirmation
        /\ channels.route = "continue"
    BY <1>1 DEF Channels
  <2>2. chan[s].pending_action = NoAction
    BY <1>2, <1>5 DEF pass_gate, AwaitsConfirmation
  <2>3. /\ pc[s] = "confirmation_gate" /\ UNCHANGED <<posts, declined>>
        /\ GateStep(s, channels)
    BY <1>5 DEF pass_gate
  <2> HIDE DEF channels
  <2>4. SuperStep(s, channels, "intent_gate")
    BY <2>1, <2>3 DEF GateStep, route_after_confirmation
  <2> QED BY <2>1, <2>2, <2>3, <2>4 DEF QuietStep, Early, GateZone
<1>6. CASE ask_again(s)
  <2> DEFINE channels == [chan[s] EXCEPT !.final_answer = turn[s],
                            !.status = "needs_clarification", !.route = "end"]
  <2>1. /\ channels.pending_action = chan[s].pending_action
        /\ channels.needs_confirmation = chan[s].needs_confirmation
        /\ channels.route = "end"
    BY <1>1 DEF Channels
  <2>2. /\ pc[s] = "confirmation_gate" /\ UNCHANGED <<posts, declined>>
        /\ GateStep(s, channels)
    BY <1>6 DEF ask_again
  <2> HIDE DEF channels
  <2>3. SuperStep(s, channels, "end")
    BY <2>1, <2>2 DEF GateStep, route_after_confirmation
  <2> QED BY <2>1, <2>2, <2>3 DEF QuietStep, Early, GateZone
<1>7. CASE classify(s)
  <2>1. PICK intent : SuperStep(s, [chan[s] EXCEPT !.intent = intent], "context_gate")
    BY <1>7 DEF classify, add_edge
  <2> DEFINE channels == [chan[s] EXCEPT !.intent = intent]
  <2>2. /\ channels.pending_action = chan[s].pending_action
        /\ channels.needs_confirmation = chan[s].needs_confirmation
    BY <1>1 DEF Channels
  <2>3. chan[s].pending_action = NoAction /\ pc[s] = "intent_gate"
    BY <1>7 DEF classify, GatePassed, GateZone
  <2> QED BY <1>7, <2>1, <2>2, <2>3 DEF QuietStep, classify, Early
<1>8. CASE context_gate_node(s)
  <2>1. PICK loaded :
           SuperStep(s, [chan[s] EXCEPT !.preferences_loaded = loaded], "tool_exec")
    BY <1>8 DEF context_gate_node, add_edge
  <2> DEFINE channels == [chan[s] EXCEPT !.preferences_loaded = loaded]
  <2>2. /\ channels.pending_action = chan[s].pending_action
        /\ channels.needs_confirmation = chan[s].needs_confirmation
    BY <1>1 DEF Channels
  <2>3. chan[s].pending_action = NoAction /\ pc[s] = "context_gate"
    BY <1>8 DEF context_gate_node, GatePassed, GateZone
  <2> QED BY <1>8, <2>1, <2>2, <2>3 DEF QuietStep, context_gate_node, Early
<1>9. CASE run_tool(s) \/ stage_nothing(s)
  <2> DEFINE channels == ToolResults(s, FALSE)
  <2>1. SuperStep(s, channels, "respond")
    BY <1>9 DEF run_tool, stage_nothing, add_edge
  <2>2. /\ channels.pending_action = chan[s].pending_action
        /\ channels.needs_confirmation = chan[s].needs_confirmation
    BY <1>1 DEF Channels, ToolResults
  <2>3. pc[s] = "tool_exec" /\ UNCHANGED <<posts, declined>>
    BY <1>9 DEF run_tool, stage_nothing
  <2> HIDE DEF channels
  <2>4. QuietStep(s, channels, "respond")
    BY <2>1, <2>2, <2>3 DEF QuietStep, Early, GateZone
  <2> QED BY <2>4
<1>10. CASE answer(s) \/ escalate(s)
  <2>1. PICK channels \in {[chan[s] EXCEPT !.final_answer = turn[s], !.status = "done"],
                           [chan[s] EXCEPT !.status = "escalated"]} :
           SuperStep(s, channels, "end")
    BY <1>10 DEF answer, escalate, add_edge
  <2>2. /\ channels.pending_action = chan[s].pending_action
        /\ channels.needs_confirmation = chan[s].needs_confirmation
    BY <1>1 DEF Channels
  <2>3. pc[s] \in {"respond", "repair"} /\ UNCHANGED <<posts, declined>>
    BY <1>10 DEF answer, escalate
  <2> QED BY <2>1, <2>2, <2>3 DEF QuietStep, Early, GateZone
<1> QED BY <1>3, <1>4, <1>5, <1>6, <1>7, <1>8, <1>9, <1>10

\* ... and so with one open tab per customer.
LEMMA QuietNodes ==
    ASSUME OneTabInv, NEW s \in Sessions,
           \/ Begin(s) \/ guardrail_node(s)
           \/ pass_gate(s) \/ ask_again(s) \/ classify(s) \/ context_gate_node(s)
           \/ run_tool(s) \/ stage_nothing(s) \/ answer(s) \/ escalate(s)
    PROVE  \E channels, next : QuietStep(s, channels, next)
BY QuietAnywhere DEF OneTabInv

\* A new request gets a number of its own, a run loads its thread, a repair
\* prompt follows a malformed reply: nothing staged is touched.
LEMMA QuietRequests ==
    ASSUME OneTabInv, TypeInv', NEW s \in Sessions,
           Submit(s) \/ Load(s) \/ ask_repair(s)
    PROVE  OneTabInv'
<1>1. /\ turns \in Nat /\ turns' \in Nat /\ turns <= turns'
      /\ UNCHANGED <<ckpt, posts, declined>>
      /\ \A t \in Sessions : turn[t] \in Nat /\ turn[t] <= turns
  BY DEF Submit, Load, ask_repair, OneTabInv, TypeInv, TypeOK, Turns, TurnsUnique
<1>2. CASE Submit(s)
  <2>1. /\ turn'[s] = turns + 1 /\ turns' = turns + 1 /\ pc'[s] = "load"
        /\ \A t \in Sessions : t # s => turn'[t] = turn[t] /\ pc'[t] = pc[t]
        /\ chan' = chan /\ pc[s] = "idle"
    BY <1>2 DEF Submit, OneTabInv, TypeInv, TypeOK
  <2>2. TurnsUnique'
    BY <1>1, <2>1 DEF OneTabInv, TurnsUnique
  <2>3. OwnThread' /\ PendingMatchesFlag' /\ GatePassed'
    BY <1>1, <2>1
       DEF OneTabInv, OwnThread, PendingMatchesFlag, GatePassed, GateZone
  <2>4. \A t \in Sessions : pc'[t] \in Early =>
           (pc[t] \in Early /\ turn'[t] = turn[t]) \/ turn'[t] > turns
    BY <1>1, <2>1
  <2>5. PendingOwned' /\ StagedOnce' /\ PendingOpen' /\ SettledOnce'
    BY <1>1, <2>1, <2>4, QuietPending
  <2> QED BY <2>2, <2>3, <2>5 DEF OneTabInv
<1>3. CASE Load(s) \/ ask_repair(s)
  <2>1. \/ pc[s] = "load" /\ pc'[s] = "begin" /\ chan'[s] = ckpt[CustomerOf[s]]
        \/ pc[s] = "respond" /\ pc'[s] = "repair" /\ chan'[s] = chan[s]
    BY <1>3 DEF Load, ask_repair, OneTabInv, TypeInv, TypeOK
  <2>2. /\ \A t \in Sessions : t # s => chan'[t] = chan[t] /\ pc'[t] = pc[t]
        /\ UNCHANGED <<turn, turns>>
    BY <1>3 DEF Load, ask_repair, OneTabInv, TypeInv, TypeOK
  <2>3. TurnsUnique' /\ OwnThread'
    BY <1>1, <2>1, <2>2 DEF OneTabInv, TurnsUnique, OwnThread
  <2>4. PendingMatchesFlag' /\ GatePassed'
    BY <1>1, <2>1, <2>2, CustomerOfAssumption
       DEF OneTabInv, PendingMatchesFlag, GatePassed, GateZone
  <2>5. PendingOwned' /\ StagedOnce' /\ PendingOpen' /\ SettledOnce'
    BY <1>1, <2>1, <2>2, QuietPending DEF Early
  <2> QED BY <2>3, <2>4, <2>5 DEF OneTabInv
<1> QED BY <1>2, <1>3

\* A reply ends the run and leaves the thread as it is.
LEMMA QuietReply ==
    ASSUME OneTabInv, TypeInv', NEW s \in Sessions, NEW response,
           Reply(s, response), pc[s] # "recording"
    PROVE  OneTabInv'
<1>1. /\ UNCHANGED <<ckpt, posts, declined, turn, turns>>
      /\ pc'[s] = "idle" /\ chan'[s] = AgentState
      /\ \A t \in Sessions : t # s => chan'[t] = chan[t] /\ pc'[t] = pc[t]
  BY DEF Reply, OneTabInv, TypeInv, TypeOK
<1>2. TurnsUnique' /\ OwnThread'
  BY <1>1 DEF OneTabInv, TurnsUnique, OwnThread
<1>3. PendingMatchesFlag' /\ GatePassed'
  BY <1>1 DEF OneTabInv, PendingMatchesFlag, GatePassed, GateZone, AgentState
<1>4. turns \in Nat /\ turns <= turns'
  BY <1>1 DEF OneTabInv, TypeInv, TypeOK, Turns
<1>5. PendingOwned' /\ StagedOnce' /\ PendingOpen' /\ SettledOnce'
  BY <1>1, <1>4, QuietPending DEF Early
<1> QED BY <1>2, <1>3, <1>5 DEF OneTabInv

\* What the staged call of a run that awaits a confirmation is.
LEMMA AwaitedCall ==
    ASSUME OneSessionEach, OneTabInv, NEW s \in Sessions,
           pc[s] = "confirmation_gate", AwaitsConfirmation(chan[s])
    PROVE  /\ CustomerOf[s] \in Customers
           /\ chan[s] = ckpt[CustomerOf[s]]
           /\ chan[s].pending_action \in Action
           /\ chan[s].pending_action.customer = CustomerOf[s]
           /\ Seen(chan[s].pending_action)
           /\ ~Executed(chan[s].pending_action)
           /\ chan[s].pending_action \notin declined
<1>1. CustomerOf[s] \in Customers /\ chan[s] = ckpt[CustomerOf[s]]
  BY CustomerOfAssumption DEF OneTabInv, OwnThread
<1>2. chan[s].pending_action \in Action /\ chan[s].pending_action # NoAction
  BY DEF AwaitsConfirmation, OneTabInv, TypeInv, TypeOK, Channels
<1>3. chan[s].pending_action.customer = CustomerOf[s]
  BY <1>1, <1>2 DEF OneTabInv, PendingOwned
<1>4. \A t \in Sessions : CustomerOf[t] = CustomerOf[s] => pc[t] # "recording"
  BY DEF OneSessionEach
<1>5. ~Executed(chan[s].pending_action) /\ chan[s].pending_action \notin declined
  BY <1>1, <1>2, <1>4 DEF OneTabInv, PendingOpen
<1> QED BY <1>1, <1>2, <1>3, <1>5 DEF Seen

\* A confirmed turn makes one call: the staged one.
LEMMA ExecuteResults ==
    ASSUME NEW s \in Sessions, execute_pending(s)
    PROVE  \E made : /\ posts' = posts \cup {made}
                    /\ made.action = chan[s].pending_action
                    /\ made.turn = turn[s]
<1>1. PICK ok \in BOOLEAN :
         posts' = posts \cup {[action |-> chan[s].pending_action,
                              turn |-> turn[s], ok |-> ok]}
  BY DEF execute_pending
<1> DEFINE call == [action |-> chan[s].pending_action, turn |-> turn[s], ok |-> ok]
<1>2. /\ posts' = posts \cup {call}
      /\ call.action = chan[s].pending_action /\ call.turn = turn[s]
  BY <1>1
<1> HIDE DEF call
<1> QED BY <1>2

\* The staged call is made.
LEMMA ExecuteOneTab ==
    ASSUME OneSessionEach, OneTabInv, TypeInv', NEW s \in Sessions,
           execute_pending(s)
    PROVE  OneTabInv'
<1> DEFINE a == chan[s].pending_action
<1>1. PICK made : posts' = posts \cup {made} /\ made.action = a
  BY ExecuteResults
<1>2. /\ a \in Action /\ a.customer = CustomerOf[s] /\ Seen(a)
      /\ ~Executed(a) /\ a \notin declined
      /\ ckpt[CustomerOf[s]].pending_action = a
  BY AwaitedCall DEF execute_pending
<1> HIDE DEF a
<1>3. /\ UNCHANGED <<ckpt, chan, turn, declined, turns>>
      /\ pc[s] = "confirmation_gate" /\ pc'[s] = "recording"
      /\ \A t \in Sessions : t # s => pc'[t] = pc[t]
  BY DEF execute_pending, OneTabInv, TypeInv, TypeOK
<1>4. \A b : Executed(b)' <=> Executed(b) \/ b = a
  BY <1>1 DEF Executed
<1>5. TurnsUnique' /\ OwnThread' /\ PendingMatchesFlag' /\ PendingOwned'
  BY <1>3 DEF OneTabInv, TurnsUnique, OwnThread, PendingMatchesFlag, PendingOwned
<1>6. GatePassed'
  BY <1>3 DEF OneTabInv, GatePassed, GateZone
<1>7. StagedOnce'
  <2>1. \A b \in Action : Seen(b)' => Seen(b)
    BY <1>2, <1>3, <1>4 DEF Seen
  <2>2. \A t \in Sessions : pc'[t] \in Early => pc[t] \in Early
    BY <1>3 DEF Early
  <2> QED BY <1>3, <2>1, <2>2 DEF OneTabInv, StagedOnce
<1>8. PendingOpen'
  <2> SUFFICES ASSUME NEW c \in Customers, ckpt[c].pending_action # NoAction,
                      \A t \in Sessions : CustomerOf[t] = c => pc'[t] # "recording"
               PROVE  /\ ~Executed(ckpt[c].pending_action)'
                      /\ ckpt[c].pending_action \notin declined
    BY <1>3 DEF PendingOpen
  <2>1. c # CustomerOf[s]
    BY <1>3
  <2>2. ckpt[c].pending_action # a
    BY <1>2, <2>1 DEF OneTabInv, PendingOwned
  <2>3. \A t \in Sessions : CustomerOf[t] = c => pc[t] # "recording"
    BY <1>3, <2>1
  <2> QED BY <1>3, <1>4, <2>2, <2>3 DEF OneTabInv, PendingOpen
<1>9. SettledOnce'
  <2>1. \A p, q \in posts' : p.action = q.action => p = q
    BY <1>1, <1>2 DEF OneTabInv, SettledOnce, Executed
  <2>2. \A b \in declined' : ~Executed(b)'
    BY <1>2, <1>3, <1>4 DEF OneTabInv, SettledOnce
  <2> QED BY <2>1, <2>2 DEF SettledOnce
<1> QED BY <1>5, <1>6, <1>7, <1>8, <1>9 DEF OneTabInv

\* A superstep that leaves nothing staged, and declines at most what was.
LEMMA ClearingStep ==
    ASSUME OneSessionEach, OneTabInv, TypeInv', NEW s \in Sessions,
           NEW channels, NEW next, SuperStep(s, channels, next),
           channels.pending_action = NoAction, ~channels.needs_confirmation,
           next \in {"respond", "end"}, posts' = posts,
           \/ declined' = declined
           \/ /\ pc[s] = "confirmation_gate" /\ AwaitsConfirmation(chan[s])
              /\ declined' = declined \cup {chan[s].pending_action}
    PROVE  OneTabInv'
<1>1. TurnsUnique' /\ OwnThread' /\ PendingMatchesFlag' /\ GatePassed'
  BY StepFrame
<1>2. PendingOwned'
  BY StepEffect DEF OneTabInv, PendingOwned
<1>3. \A a : Executed(a)' <=> Executed(a)
  BY DEF Executed
<1>4. \A a \in declined' \ declined :
         /\ Seen(a) /\ ~Executed(a) /\ a = ckpt[CustomerOf[s]].pending_action
         /\ a.customer = CustomerOf[s]
  BY AwaitedCall
<1>5. StagedOnce'
  <2>1. \A a \in Action : Seen(a)' => Seen(a)
    BY <1>3, <1>4, StepEffect, NoActionAssumption DEF Seen
  <2>2. \A t \in Sessions : pc'[t] \in Early => pc[t] \in Early
    BY StepEffect DEF Early
  <2>3. turn' = turn /\ turns' = turns
    BY StepEffect
  <2> QED BY <2>1, <2>2, <2>3 DEF OneTabInv, StagedOnce
<1>6. PendingOpen'
  <2> SUFFICES ASSUME NEW c \in Customers, ckpt'[c].pending_action # NoAction,
                      \A t \in Sessions : CustomerOf[t] = c => pc'[t] # "recording"
               PROVE  /\ ~Executed(ckpt[c].pending_action)'
                      /\ ckpt'[c].pending_action \notin declined'
    BY DEF PendingOpen
  <2>1. c # CustomerOf[s] /\ ckpt'[c] = ckpt[c]
    BY StepEffect
  <2>2. \A t \in Sessions : CustomerOf[t] = c => pc[t] # "recording"
    BY <2>1, StepEffect
  <2>3. ~Executed(ckpt[c].pending_action) /\ ckpt[c].pending_action \notin declined
    BY <2>1, <2>2 DEF OneTabInv, PendingOpen
  <2>4. ckpt[c].pending_action.customer = c
    BY <2>1 DEF OneTabInv, PendingOwned
  <2> QED BY <1>3, <1>4, <2>1, <2>3, <2>4
<1>7. SettledOnce'
  BY <1>3, <1>4 DEF OneTabInv, SettledOnce
<1> QED BY <1>1, <1>2, <1>5, <1>6, <1>7 DEF OneTabInv

\* The channels of a gate that has acted on the staged call.
LEMMA RecordResults ==
    ASSUME TypeInv, NEW s \in Sessions, record_executed(s)
    PROVE  \E channels :
              /\ SuperStep(s, channels, "respond")
              /\ channels.pending_action = NoAction /\ ~channels.needs_confirmation
              /\ pc[s] = "recording" /\ UNCHANGED <<posts, declined>>
<1> DEFINE channels == [cleared(chan[s]) EXCEPT
                          !.tool_results = [turn |-> turn[s], awaiting |-> FALSE],
                          !.route = "respond"]
<1>1. /\ pc[s] = "recording" /\ UNCHANGED <<posts, declined>>
      /\ GateStep(s, channels)
  BY DEF record_executed
<1>2. chan[s] \in Channels
  BY DEF TypeInv, TypeOK
<1>3. /\ channels.pending_action = NoAction /\ ~channels.needs_confirmation
      /\ channels.route = "respond"
  BY <1>2 DEF cleared, Channels
<1> HIDE DEF channels
<1> QED BY <1>1, <1>3 DEF GateStep, route_after_confirmation

LEMMA DeclineResults ==
    ASSUME TypeInv, NEW s \in Sessions, decline_pending(s)
    PROVE  \E channels :
              /\ SuperStep(s, channels, "end")
              /\ channels.pending_action = NoAction /\ ~channels.needs_confirmation
              /\ pc[s] = "confirmation_gate" /\ AwaitsConfirmation(chan[s])
              /\ posts' = posts /\ declined' = declined \cup {chan[s].pending_action}
<1> DEFINE channels == [cleared(chan[s]) EXCEPT
                          !.final_answer = turn[s], !.status = "done",
                          !.route = "end"]
<1>1. /\ pc[s] = "confirmation_gate" /\ AwaitsConfirmation(chan[s])
      /\ posts' = posts /\ declined' = declined \cup {chan[s].pending_action}
      /\ GateStep(s, channels)
  BY DEF decline_pending
<1>2. chan[s] \in Channels
  BY DEF TypeInv, TypeOK
<1>3. /\ channels.pending_action = NoAction /\ ~channels.needs_confirmation
      /\ channels.route = "end"
  BY <1>2 DEF cleared, Channels
<1> HIDE DEF channels
<1> QED BY <1>1, <1>3 DEF GateStep, route_after_confirmation

\* The node that made the call, or was refused it, clears what was staged.
LEMMA ClearOneTab ==
    ASSUME OneSessionEach, OneTabInv, TypeInv', NEW s \in Sessions,
           record_executed(s) \/ decline_pending(s)
    PROVE  OneTabInv'
<1>1. TypeInv
  BY DEF OneTabInv
<1>2. CASE record_executed(s)
  BY <1>1, <1>2, RecordResults, ClearingStep
<1>3. CASE decline_pending(s)
  BY <1>1, <1>3, DeclineResults, ClearingStep
<1> QED BY <1>2, <1>3

\* The call a booking or order turn stages, and the channels it leaves.
LEMMA StagedCall ==
    ASSUME OneSessionEach, OneTabInv, NEW s \in Sessions, stage_action(s)
    PROVE  \E channels :
              LET a == channels.pending_action IN
              /\ SuperStep(s, channels, "respond")
              /\ channels.needs_confirmation
              /\ a \in Action /\ a # NoAction
              /\ a.customer = CustomerOf[s] /\ a.turn = turn[s]
              /\ ~Seen(a)
              /\ ckpt[CustomerOf[s]].pending_action = NoAction
<1> DEFINE a == [tool |-> ToolFor(chan[s].intent), customer |-> CustomerOf[s],
                 turn |-> turn[s]]
           channels == [ToolResults(s, TRUE) EXCEPT
                          !.pending_action = a, !.needs_confirmation = TRUE]
<1>1. SuperStep(s, channels, "respond") /\ pc[s] = "tool_exec"
  BY DEF stage_action, add_edge
<1>2. chan[s] \in Channels /\ turn[s] \in Turns
  BY <1>1 DEF OneTabInv, TypeInv, TypeOK, TurnAssigned
<1>3. a \in Action /\ a # NoAction /\ a.customer = CustomerOf[s] /\ a.turn = turn[s]
  BY <1>2, CustomerOfAssumption, NoActionAssumption DEF Action, ToolFor, Tools
<1> HIDE DEF a
<1>4. channels.pending_action = a /\ channels.needs_confirmation
  BY <1>2 DEF ToolResults, Channels
<1> HIDE DEF channels
<1>5. ~Seen(a)
  BY <1>1, <1>3 DEF OneTabInv, StagedOnce, Early
<1>6. ckpt[CustomerOf[s]].pending_action = NoAction
  BY <1>1 DEF OneTabInv, OwnThread, GatePassed, GateZone
<1> QED BY <1>1, <1>3, <1>4, <1>5, <1>6

\* A booking or an order is staged.
LEMMA StageOneTab ==
    ASSUME OneSessionEach, OneTabInv, TypeInv', NEW s \in Sessions,
           stage_action(s)
    PROVE  OneTabInv'
<1>1. PICK channels :
         /\ SuperStep(s, channels, "respond")
         /\ channels.needs_confirmation
         /\ channels.pending_action \in Action
         /\ channels.pending_action # NoAction
         /\ channels.pending_action.customer = CustomerOf[s]
         /\ channels.pending_action.turn = turn[s]
         /\ ~Seen(channels.pending_action)
  BY StagedCall
<1> DEFINE a == channels.pending_action
<1>2. pc[s] = "tool_exec" /\ UNCHANGED <<posts, declined>>
  BY DEF stage_action
<1>3. TurnsUnique' /\ OwnThread' /\ PendingMatchesFlag' /\ GatePassed'
  BY <1>1, StepFrame DEF GateZone
<1>4. PendingOwned'
  BY <1>1, StepEffect DEF OneTabInv, PendingOwned
<1>5. \A b : Executed(b)' <=> Executed(b)
  BY <1>2 DEF Executed
<1>6. StagedOnce'
  <2>1. \A b \in Action : Seen(b)' => Seen(b) \/ b = a
    BY <1>1, <1>2, <1>5, StepEffect DEF Seen
  <2>2. \A t \in Sessions : pc'[t] \in Early => pc[t] \in Early /\ t # s
    BY <1>1, StepEffect DEF Early
  <2>3. turn' = turn /\ turns' = turns /\ turn[s] <= turns /\ turn[s] # 0
    BY <1>1, <1>2, StepEffect
       DEF OneTabInv, TurnsUnique, TypeInv, TurnAssigned, Turns
  <2>4. \A t \in Sessions : t # s => turn[t] # turn[s]
    BY <2>3 DEF OneTabInv, TurnsUnique
  <2> QED BY <1>1, <2>1, <2>2, <2>3, <2>4 DEF OneTabInv, StagedOnce
<1>7. PendingOpen'
  <2> SUFFICES ASSUME NEW c \in Customers, ckpt'[c].pending_action # NoAction,
                      \A t \in Sessions : CustomerOf[t] = c => pc'[t] # "recording"
               PROVE  /\ ~Executed(ckpt[c].pending_action)'
                      /\ ckpt'[c].pending_action \notin declined'
    BY DEF PendingOpen
  <2>1. CASE c = CustomerOf[s]
    BY <1>1, <1>2, <1>5, <2>1, StepEffect DEF Seen
  <2>2. CASE c # CustomerOf[s]
    <3>1. ckpt'[c] = ckpt[c]
      BY <1>1, <2>2, StepEffect
    <3>2. \A t \in Sessions : CustomerOf[t] = c => pc[t] # "recording"
      BY <1>1, <2>2, StepEffect
    <3>3. ~Executed(ckpt[c].pending_action) /\ ckpt[c].pending_action \notin declined
      BY <3>1, <3>2 DEF OneTabInv, PendingOpen
    <3> QED BY <1>2, <1>5, <3>1, <3>3
  <2> QED BY <2>1, <2>2
<1>8. SettledOnce'
  BY <1>2, <1>5 DEF OneTabInv, SettledOnce
<1> QED BY <1>3, <1>4, <1>6, <1>7, <1>8 DEF OneTabInv

\* A restart forgets what is staged, not what was settled.
LEMMA RestartOneTab ==
    ASSUME OneTabInv, TypeInv', Restart
    PROVE  OneTabInv'
<1>1. /\ \A c \in Customers : ckpt'[c] = AgentState
      /\ \A s \in Sessions : chan'[s] = AgentState /\ pc'[s] = "idle"
      /\ UNCHANGED <<turn, posts, declined, turns>>
  BY DEF Restart
<1>2. AgentState.pending_action = NoAction /\ ~AgentState.needs_confirmation
  BY DEF AgentState
<1>3. TurnsUnique' /\ OwnThread'
  BY <1>1 DEF OneTabInv, TurnsUnique, OwnThread
<1>4. PendingMatchesFlag' /\ PendingOwned' /\ PendingOpen' /\ GatePassed'
  BY <1>1, <1>2
     DEF PendingMatchesFlag, PendingOwned, PendingOpen, GatePassed, GateZone
<1>5. \A a : Executed(a)' <=> Executed(a)
  BY <1>1 DEF Executed
<1>6. \A a \in Action : Seen(a)' => Seen(a)
  BY <1>1, <1>2, <1>5, NoActionAssumption DEF Seen
<1>7. StagedOnce' /\ SettledOnce'
  BY <1>1, <1>5, <1>6 DEF OneTabInv, StagedOnce, SettledOnce, Early
<1> QED BY <1>3, <1>4, <1>7 DEF OneTabInv

\* Every step keeps the invariant.
LEMMA NextOneTab ==
    ASSUME OneSessionEach, OneTabInv, TypeInv', [Next]_vars
    PROVE  OneTabInv'
<1>1. ASSUME NEW s \in Sessions, Submit(s) \/ RunStep(s)
      PROVE  OneTabInv'
  <2>1. CASE \/ Begin(s) \/ guardrail_node(s)
             \/ pass_gate(s) \/ ask_again(s) \/ classify(s)
             \/ context_gate_node(s)
             \/ run_tool(s) \/ stage_nothing(s) \/ answer(s) \/ escalate(s)
    BY <2>1, QuietNodes, QuietOneTab
  <2>2. CASE Submit(s) \/ Load(s) \/ ask_repair(s)
    BY <2>2, QuietRequests
  <2>3. CASE Finish(s) \/ classify_fails(s) \/ tool_exec_fails(s) \/ respond_fails(s)
    <3>1. pc[s] # "recording"
      BY <2>3 DEF Finish, classify_fails, tool_exec_fails, respond_fails
    <3>2. \E response : Reply(s, response)
      BY <2>3 DEF Finish, classify_fails, tool_exec_fails, respond_fails, Fail
    <3> QED BY <3>1, <3>2, QuietReply
  <2>4. CASE execute_pending(s)
    BY <2>4, ExecuteOneTab
  <2>5. CASE record_executed(s) \/ decline_pending(s)
    BY <2>5, ClearOneTab
  <2>6. CASE stage_action(s)
    BY <2>6, StageOneTab
  <2> QED BY <1>1, <2>1, <2>2, <2>3, <2>4, <2>5, <2>6
             DEF RunStep, confirmation_gate_node, intent_gate_node,
                 tool_exec_node, respond_node
<1>2. CASE Restart
  BY <1>2, RestartOneTab
<1>3. CASE UNCHANGED vars
  BY <1>3
     DEF vars, OneTabInv, PendingMatchesFlag, TurnsUnique, OwnThread,
         PendingOwned, StagedOnce, Seen, Executed, PendingOpen, GatePassed,
         SettledOnce
<1> QED BY <1>1, <1>2, <1>3 DEF Next

\* What is staged is acted on at most once, in any deployment whose customers
\* have one open tab each: no call is made twice, and none after a refusal.
THEOREM SettledAtMostOnce == OneSessionEach => (Spec => []SettledOnce)
<1> SUFFICES ASSUME OneSessionEach
             PROVE  Spec => []SettledOnce
  OBVIOUS
<1>1. Init => OneTabInv
  BY InitOneTab
<1>2. OneTabInv /\ [Next]_vars => OneTabInv'
  BY NextTypes, NextOneTab DEF OneTabInv
<1>3. OneTabInv => SettledOnce
  BY DEF OneTabInv
<1> QED BY <1>1, <1>2, <1>3, PTL DEF Spec

-----------------------------------------------------------------------------
(* One open tab per customer: nothing staged is lost or replaced *)

\* A step that leaves what is staged and what is settled alone.
Keeps ==
    /\ UNCHANGED <<posts, declined>>
    /\ \A c \in Customers : ckpt'[c].pending_action = ckpt[c].pending_action
    /\ \A s \in Sessions : pc'[s] = "recording" <=> pc[s] = "recording"

\* Every step keeps what is staged and settled but for the five kinds that are
\* about it.
LEMMA StepKinds ==
    ASSUME OneSessionEach, OneTabInv, [Next]_vars
    PROVE  \/ Keeps
           \/ Restart
           \/ \E s \in Sessions : \/ execute_pending(s) \/ record_executed(s)
                                 \/ decline_pending(s) \/ stage_action(s)
<1>1. ASSUME NEW s \in Sessions,
             Submit(s) \/ Load(s) \/ ask_repair(s) \/ Finish(s)
             \/ classify_fails(s) \/ tool_exec_fails(s) \/ respond_fails(s)
      PROVE  Keeps
  <2>1. UNCHANGED <<ckpt, posts, declined>>
    BY <1>1 DEF Submit, Load, ask_repair, Finish, classify_fails,
       tool_exec_fails, respond_fails, Fail, Reply
  <2>2. /\ pc[s] # "recording" /\ pc'[s] # "recording"
        /\ \A t \in Sessions : t # s => pc'[t] = pc[t]
    BY <1>1 DEF Submit, Load, ask_repair, Finish, classify_fails,
       tool_exec_fails, respond_fails, Fail, Reply, OneTabInv, TypeInv, TypeOK
  <2> QED BY <2>1, <2>2 DEF Keeps
<1>2. ASSUME NEW s \in Sessions,
             \/ Begin(s) \/ guardrail_node(s)
             \/ pass_gate(s) \/ ask_again(s) \/ classify(s) \/ context_gate_node(s)
             \/ run_tool(s) \/ stage_nothing(s) \/ answer(s) \/ escalate(s)
      PROVE  Keeps
  <2>1. PICK channels, next : QuietStep(s, channels, next)
    BY <1>2, QuietNodes
  <2> QED BY <2>1, QuietEffect DEF Keeps
<1>3. CASE UNCHANGED vars
  BY <1>3 DEF vars, Keeps
<1> QED BY <1>1, <1>2, <1>3
           DEF Next, RunStep, confirmation_gate_node, intent_gate_node,
               tool_exec_node, respond_node

\* Between the confirmed call and the node that records it, the checkpoint
\* still holds the call, and the call has been made.
RecordingMade ==
    \A s \in Sessions :
        pc[s] = "recording" => Executed(ckpt[CustomerOf[s]].pending_action)

LEMMA NextRecording ==
    ASSUME OneSessionEach, OneTabInv, RecordingMade, [Next]_vars
    PROVE  RecordingMade'
<1>1. CASE Keeps
  <2>1. posts' = posts
    BY <1>1 DEF Keeps
  <2>2. \A s \in Sessions :
           ckpt'[CustomerOf[s]].pending_action = ckpt[CustomerOf[s]].pending_action
    BY <1>1, CustomerOfAssumption DEF Keeps
  <2> QED BY <1>1, <2>1, <2>2 DEF Keeps, RecordingMade, Executed
<1>2. CASE Restart
  BY <1>2 DEF Restart, RecordingMade
<1>3. ASSUME NEW s \in Sessions, execute_pending(s)
      PROVE  RecordingMade'
  <2>1. /\ ckpt' = ckpt /\ posts \subseteq posts'
        /\ \A t \in Sessions : t # s => pc'[t] = pc[t]
    BY <1>3 DEF execute_pending, OneTabInv, TypeInv, TypeOK
  <2>2. ckpt[CustomerOf[s]].pending_action = chan[s].pending_action
    BY <1>3, AwaitedCall DEF execute_pending
  <2>3. \E p \in posts' : p.action = chan[s].pending_action
    BY <1>3, ExecuteResults
  <2> QED BY <2>1, <2>2, <2>3 DEF RecordingMade, Executed
<1>4. ASSUME NEW s \in Sessions,
             record_executed(s) \/ decline_pending(s) \/ stage_action(s)
      PROVE  RecordingMade'
  <2>1. PICK next \in {"respond", "end"} :
           \E channels : SuperStep(s, channels, next)
    BY <1>4, RecordResults, DeclineResults, StagedCall DEF OneTabInv
  <2>2. posts' = posts
    BY <1>4 DEF record_executed, decline_pending, stage_action
  <2>3. \A t \in Sessions : pc'[t] = "recording" =>
           /\ pc[t] = "recording"
           /\ ckpt'[CustomerOf[t]] = ckpt[CustomerOf[t]]
    BY <2>1, StepEffect, CustomerOfAssumption
  <2> QED BY <2>2, <2>3 DEF RecordingMade, Executed
<1> QED BY <1>1, <1>2, <1>3, <1>4, StepKinds

\* No failed turn, later request or crash of a node drops or replaces what a
\* customer was asked to confirm: only a yes, a no or a restart does.
THEOREM StagedUntilSettled == OneSessionEach => (Spec => PendingNeverReplaced)
<1> SUFFICES ASSUME OneSessionEach
             PROVE  Spec => PendingNeverReplaced
  OBVIOUS
<1> DEFINE Kept ==
      \A c \in Customers :
          LET a == ckpt[c].pending_action IN
          a # NoAction /\ ckpt'[c].pending_action # a
              => Executed(a) \/ a \in declined' \/ restarts' # restarts
<1>1. Init => OneTabInv /\ RecordingMade
  BY InitOneTab DEF Init, RecordingMade
<1>2. OneTabInv /\ RecordingMade /\ [Next]_vars => (OneTabInv /\ RecordingMade)'
  BY NextTypes, NextOneTab, NextRecording DEF OneTabInv
<1>3. OneTabInv /\ RecordingMade /\ [Next]_vars => Kept
  <2> SUFFICES ASSUME OneTabInv, RecordingMade, [Next]_vars
               PROVE  Kept
    OBVIOUS
  <2>1. CASE Keeps
    BY <2>1 DEF Keeps
  <2>2. CASE Restart
    BY <2>2 DEF Restart, OneTabInv, TypeInv, TypeOK
  <2>3. ASSUME NEW s \in Sessions, execute_pending(s)
        PROVE  Kept
    BY <2>3 DEF execute_pending
  <2>4. ASSUME NEW s \in Sessions, record_executed(s)
        PROVE  Kept
    <3>1. \A c \in Customers : c # CustomerOf[s] => ckpt'[c] = ckpt[c]
      BY <2>4, RecordResults, StepEffect DEF OneTabInv
    <3>2. Executed(ckpt[CustomerOf[s]].pending_action)
      BY <2>4 DEF record_executed, RecordingMade
    <3> QED BY <3>1, <3>2
  <2>5. ASSUME NEW s \in Sessions, decline_pending(s)
        PROVE  Kept
    <3>1. \A c \in Customers : c # CustomerOf[s] => ckpt'[c] = ckpt[c]
      BY <2>5, DeclineResults, StepEffect DEF OneTabInv
    <3>2. ckpt[CustomerOf[s]].pending_action \in declined'
      BY <2>5, AwaitedCall DEF decline_pending
    <3> QED BY <3>1, <3>2
  <2>6. ASSUME NEW s \in Sessions, stage_action(s)
        PROVE  Kept
    <3>1. \A c \in Customers : c # CustomerOf[s] => ckpt'[c] = ckpt[c]
      BY <2>6, StagedCall, StepEffect
    <3>2. ckpt[CustomerOf[s]].pending_action = NoAction
      BY <2>6, StagedCall
    <3> QED BY <3>1, <3>2
  <2> QED BY <2>1, <2>2, <2>3, <2>4, <2>5, <2>6, StepKinds
<1> QED BY <1>1, <1>2, <1>3, PTL DEF Spec, PendingNeverReplaced

-----------------------------------------------------------------------------
(* Every deployment: a request moves forward *)

\* Where a step of a request takes it.
Way(here, next) ==
    \/ here = "load" /\ next = "begin"
    \/ here = "begin" /\ next = "guardrail"
    \/ here = "guardrail" /\ next \in {"confirmation_gate", "end"}
    \/ here = "confirmation_gate" /\ next \in {"recording", "intent_gate", "end"}
    \/ here = "recording" /\ next = "respond"
    \/ here = "intent_gate" /\ next \in {"context_gate", "idle"}
    \/ here = "context_gate" /\ next = "tool_exec"
    \/ here = "tool_exec" /\ next \in {"respond", "idle"}
    \/ here = "respond" /\ next \in {"repair", "end", "idle"}
    \/ here = "repair" /\ next \in {"end", "idle"}
    \/ here = "end" /\ next = "idle"

LEMMA WayOn ==
    ASSUME TypeInv, NEW s \in Sessions, RunStep(s)
    PROVE  \E next \in Pc : pc' = [pc EXCEPT ![s] = next] /\ Way(pc[s], next)
<1>1. ASSUME NEW channels, NEW next \in Pc, SuperStep(s, channels, next),
             Way(pc[s], next)
      PROVE  \E n \in Pc : pc' = [pc EXCEPT ![s] = n] /\ Way(pc[s], n)
  BY <1>1 DEF SuperStep
<1>2. CASE Begin(s) \/ guardrail_node(s)
  <2>1. \A channels : route_after_guardrail(channels) \in {"confirmation_gate", "end"}
    BY DEF route_after_guardrail
  <2> QED BY <1>2, <2>1 DEF Begin, guardrail_node, SuperStep, Way, Pc, Nodes
<1>3. CASE pass_gate(s) \/ ask_again(s)
  <2>1. pc[s] = "confirmation_gate" /\ chan[s] \in Channels
    BY <1>3 DEF pass_gate, ask_again, TypeInv, TypeOK
  <2>2. CASE pass_gate(s)
    <3> DEFINE channels == [chan[s] EXCEPT !.route = "continue"]
    <3>1. GateStep(s, channels)
      BY <2>2 DEF pass_gate
    <3>2. channels.route = "continue"
      BY <2>1 DEF Channels
    <3> HIDE DEF channels
    <3> QED BY <1>1, <2>1, <3>1, <3>2
            DEF GateStep, route_after_confirmation, Way, Pc, Nodes
  <2>3. CASE ask_again(s)
    <3> DEFINE channels == [chan[s] EXCEPT !.final_answer = turn[s],
                              !.status = "needs_clarification", !.route = "end"]
    <3>1. GateStep(s, channels)
      BY <2>3 DEF ask_again
    <3>2. channels.route = "end"
      BY <2>1 DEF Channels
    <3> HIDE DEF channels
    <3> QED BY <1>1, <2>1, <3>1, <3>2
            DEF GateStep, route_after_confirmation, Way, Pc, Nodes
  <2> QED BY <1>3, <2>2, <2>3
<1>4. CASE record_executed(s) \/ decline_pending(s)
  BY <1>1, <1>4, RecordResults, DeclineResults DEF Way, Pc, Nodes
<1>5. CASE Load(s) \/ execute_pending(s) \/ ask_repair(s)
  BY <1>5 DEF Load, execute_pending, ask_repair, Way, Pc, Nodes
<1>6. CASE \/ classify(s) \/ context_gate_node(s) \/ run_tool(s)
           \/ stage_nothing(s) \/ stage_action(s) \/ answer(s) \/ escalate(s)
  BY <1>6 DEF classify, context_gate_node, run_tool, stage_nothing, stage_action,
              answer, escalate, add_edge, SuperStep, Way, Pc, Nodes
<1>7. CASE Finish(s) \/ classify_fails(s) \/ tool_exec_fails(s) \/ respond_fails(s)
  BY <1>7 DEF Finish, classify_fails, tool_exec_fails, respond_fails, Fail, Reply,
              Way, Pc
<1> QED BY <1>2, <1>3, <1>4, <1>5, <1>6, <1>7
           DEF RunStep, confirmation_gate_node, intent_gate_node,
               tool_exec_node, respond_node

\* How far a request has come.
Progress == [load |-> 1, begin |-> 2, guardrail |-> 3, confirmation_gate |-> 4,
             recording |-> 5, intent_gate |-> 5, context_gate |-> 6,
             tool_exec |-> 7, respond |-> 8, repair |-> 9, end |-> 10]

\* No route through the graph leads back, its repair included: every step of
\* a request takes it further or is its reply, and nobody else moves it but a
\* restart.  So a request is over after ten steps of its own at the most.
THEOREM ForwardOnly ==
    Spec => [][\A s \in Sessions :
                  /\ RunStep(s) =>
                        pc'[s] = "idle" \/ Progress[pc[s]] < Progress[pc'[s]]
                  /\ pc[s] # "idle" /\ ~RunStep(s) => pc'[s] \in {pc[s], "idle"}]_vars
<1> DEFINE Forward(s) ==
      /\ RunStep(s) => pc'[s] = "idle" \/ Progress[pc[s]] < Progress[pc'[s]]
      /\ pc[s] # "idle" /\ ~RunStep(s) => pc'[s] \in {pc[s], "idle"}
<1>1. ASSUME TypeInv, Next, NEW s \in Sessions
      PROVE  Forward(s)
  <2>1. \A here, next : Way(here, next) =>
           next = "idle" \/ Progress[here] < Progress[next]
    BY DEF Way, Progress
  <2>2. \A t \in Sessions : RunStep(t) =>
           \E next \in Pc : pc' = [pc EXCEPT ![t] = next] /\ Way(pc[t], next)
    BY <1>1, WayOn
  <2>3. pc \in [Sessions -> Pc]
    BY <1>1 DEF TypeInv, TypeOK
  <2>4. RunStep(s) => pc'[s] = "idle" \/ Progress[pc[s]] < Progress[pc'[s]]
    BY <2>1, <2>2, <2>3
  <2>5. ASSUME pc[s] # "idle", ~RunStep(s) PROVE pc'[s] \in {pc[s], "idle"}
    <3>1. CASE \E t \in Sessions : RunStep(t)
      BY <2>2, <2>3, <2>5, <3>1
    <3>2. CASE \E t \in Sessions : Submit(t)
      BY <2>3, <2>5, <3>2 DEF Submit
    <3>3. CASE Restart
      BY <3>3 DEF Restart
    <3> QED BY <1>1, <3>1, <3>2, <3>3 DEF Next
  <2> QED BY <2>4, <2>5
<1>2. TypeInv /\ [Next]_vars => [\A s \in Sessions : Forward(s)]_vars
  <2> HIDE DEF Forward
  <2> QED BY <1>1
<1>3. Init => TypeInv
  BY InitTypes
<1>4. TypeInv /\ [Next]_vars => TypeInv'
  BY NextTypes
<1> HIDE DEF Forward
<1>5. Spec => [][\A s \in Sessions : Forward(s)]_vars
  BY <1>2, <1>3, <1>4, PTL DEF Spec
<1> QED BY <1>5 DEF Forward

-----------------------------------------------------------------------------
(* One open tab per customer: a staged call is put to the user, or its *)
(* request is seen to fail                                             *)

\* The call a thread holds while its answer is worded was staged by the same
\* request.
StagedHere ==
    \A s \in Sessions :
        LET a == chan[s].pending_action IN
        pc[s] \in {"respond", "repair"} /\ a # NoAction => a.turn = turn[s]

\* What the other sessions know is not touched by a step of one of them.
LEMMA OthersAsked ==
    ASSUME AskedOrFailed, StagedHere, NEW s \in Sessions, asked \subseteq asked',
           \A t \in Sessions : t # s =>
              /\ pc'[t] = pc[t] /\ chan'[t] = chan[t] /\ turn'[t] = turn[t]
              /\ resp'[t] = resp[t] /\ ckpt'[CustomerOf[t]] = ckpt[CustomerOf[t]],
           \/ pc'[s] # "idle"
           \/ LET thread == ckpt'[CustomerOf[s]]
                  a == thread.pending_action
              IN  a # NoAction /\ a \notin asked'
                    => \/ thread.status = "escalated"
                       \/ resp'[s].code = 500 /\ resp'[s].turn = a.turn,
           \/ pc'[s] \notin {"respond", "repair"}
           \/ chan'[s].pending_action = NoAction
           \/ chan'[s].pending_action.turn = turn'[s]
    PROVE  AskedOrFailed' /\ StagedHere'
<1>1. AskedOrFailed'
  BY DEF AskedOrFailed
<1>2. StagedHere'
  BY DEF StagedHere
<1> QED BY <1>1, <1>2

\* A superstep of a session, put in the terms of that lemma.
LEMMA StepAsked ==
    ASSUME OneSessionEach, OneTabInv, AskedOrFailed, StagedHere, NEW s \in Sessions,
           NEW channels, NEW next, SuperStep(s, channels, next), next # "idle",
           asked' = asked,
           \/ next \notin {"respond", "repair"}
           \/ channels.pending_action = NoAction
           \/ channels.pending_action.turn = turn[s]
    PROVE  AskedOrFailed' /\ StagedHere'
<1>1. UNCHANGED <<turn, resp>>
  BY DEF SuperStep
<1>2. \A t \in Sessions : t # s =>
         /\ pc'[t] = pc[t] /\ chan'[t] = chan[t]
         /\ ckpt'[CustomerOf[t]] = ckpt[CustomerOf[t]]
  BY StepEffect, CustomerOfAssumption
<1>3. pc'[s] = next /\ chan'[s] = channels
  BY StepEffect
<1> QED BY <1>1, <1>2, <1>3, OthersAsked

\* The reply to a request: what its thread still holds was put to the user, or
\* the reply or the thread says that it failed.
LEMMA ReplyAsked ==
    ASSUME OneSessionEach, OneTabInv, AskedOrFailed, StagedHere, NEW s \in Sessions,
           Finish(s) \/ classify_fails(s) \/ tool_exec_fails(s) \/ respond_fails(s)
    PROVE  AskedOrFailed' /\ StagedHere'
<1> DEFINE a == chan[s].pending_action
<1>1. /\ pc[s] \notin {"idle", "load"} /\ UNCHANGED <<ckpt, turn>>
      /\ pc'[s] = "idle" /\ asked \subseteq asked'
      /\ \A t \in Sessions : t # s =>
            pc'[t] = pc[t] /\ chan'[t] = chan[t] /\ resp'[t] = resp[t]
  BY DEF Finish, classify_fails, tool_exec_fails, respond_fails, Fail, Reply,
         OneTabInv, TypeInv, TypeOK
<1>2. chan[s] = ckpt[CustomerOf[s]] /\ (chan[s].needs_confirmation <=> a # NoAction)
  BY <1>1 DEF OneTabInv, OwnThread, PendingMatchesFlag
<1>3. ASSUME a # NoAction, a \notin asked'
      PROVE  \/ chan[s].status = "escalated"
             \/ resp'[s].code = 500 /\ resp'[s].turn = a.turn
  <2>1. CASE Finish(s)
    <3>1. chan[s].status = "escalated" \/ asked' = asked \cup {a}
      BY <1>2, <1>3, <2>1 DEF Finish
    <3> QED BY <1>3, <3>1
  <2>2. CASE classify_fails(s) \/ tool_exec_fails(s)
    BY <1>3, <2>2 DEF classify_fails, tool_exec_fails, OneTabInv, GatePassed, GateZone
  <2>3. CASE respond_fails(s)
    <3>1. resp' = [resp EXCEPT ![s] = [code |-> 500, turn |-> turn[s],
                      status |-> "pending", final_answer |-> 0, cause |-> "llm"]]
      BY <2>3 DEF respond_fails, Fail, Reply
    <3>2. resp'[s].code = 500 /\ resp'[s].turn = turn[s]
      BY <3>1 DEF OneTabInv, TypeInv, TypeOK
    <3>3. a.turn = turn[s]
      BY <1>3, <2>3 DEF respond_fails, StagedHere
    <3> QED BY <3>2, <3>3
  <2> QED BY <2>1, <2>2, <2>3
<1> QED BY <1>1, <1>2, <1>3, OthersAsked

LEMMA NextAsked ==
    ASSUME OneSessionEach, OneTabInv, AskedOrFailed, StagedHere, [Next]_vars
    PROVE  AskedOrFailed' /\ StagedHere'
<1>1. ASSUME NEW s \in Sessions,
             \/ Begin(s) \/ guardrail_node(s)
             \/ pass_gate(s) \/ ask_again(s) \/ classify(s) \/ context_gate_node(s)
             \/ run_tool(s) \/ stage_nothing(s) \/ answer(s) \/ escalate(s)
      PROVE  AskedOrFailed' /\ StagedHere'
  <2>1. PICK channels, next : QuietStep(s, channels, next)
    BY <1>1, QuietNodes
  <2>2. PICK there \in Pc : pc' = [pc EXCEPT ![s] = there] /\ Way(pc[s], there)
    BY <1>1, WayOn
       DEF OneTabInv, RunStep, confirmation_gate_node, intent_gate_node,
           tool_exec_node, respond_node
  <2>3. pc'[s] = there /\ pc'[s] = next
    BY <2>1, <2>2, StepEffect DEF QuietStep, OneTabInv, TypeInv, TypeOK
  <2>4. pc[s] \notin {"respond", "recording"} \/ answer(s)
    BY <1>1 DEF Begin, guardrail_node, pass_gate, ask_again, classify,
       context_gate_node, run_tool, stage_nothing, answer, escalate
  <2>5. asked' = asked /\ next # "idle" /\ (answer(s) => next = "end")
    <3>1. asked' = asked
      BY <1>1 DEF Begin, guardrail_node, pass_gate, ask_again, classify,
         context_gate_node, run_tool, stage_nothing, answer, escalate
    <3>2. CASE Begin(s) \/ guardrail_node(s) \/ pass_gate(s) \/ ask_again(s)
      <4>1. pc[s] \in {"begin", "guardrail", "confirmation_gate"}
        BY <3>2 DEF Begin, guardrail_node, pass_gate, ask_again
      <4>2. ~answer(s)
        BY <4>1 DEF answer
      <4> QED BY <2>2, <2>3, <3>1, <4>1, <4>2 DEF Way
    <3>3. CASE \/ classify(s) \/ context_gate_node(s) \/ run_tool(s)
               \/ stage_nothing(s) \/ answer(s) \/ escalate(s)
      <4>1. pc'[s] \in {"context_gate", "tool_exec", "respond", "end"}
        BY <3>3 DEF classify, context_gate_node, run_tool, stage_nothing, answer,
           escalate, add_edge, SuperStep, OneTabInv, TypeInv, TypeOK
      <4>2. answer(s) => pc'[s] = "end"
        BY DEF answer, add_edge, SuperStep, OneTabInv, TypeInv, TypeOK
      <4> QED BY <2>3, <3>1, <4>1, <4>2
    <3> QED BY <1>1, <3>2, <3>3
  <2>6. next \in {"respond", "repair"} => channels.pending_action = NoAction
    BY <2>1, <2>2, <2>3, <2>4, <2>5
       DEF Way, QuietStep, OneTabInv, GatePassed, GateZone
  <2> QED BY <2>1, <2>5, <2>6, StepAsked DEF QuietStep
<1>2. ASSUME NEW s \in Sessions, Submit(s) \/ Load(s) \/ execute_pending(s) \/ ask_repair(s)
      PROVE  AskedOrFailed' /\ StagedHere'
  <2>1. /\ UNCHANGED <<ckpt, asked>> /\ pc'[s] # "idle"
        /\ \A t \in Sessions : t # s =>
              /\ pc'[t] = pc[t] /\ chan'[t] = chan[t] /\ turn'[t] = turn[t]
              /\ resp'[t] = resp[t]
        /\ pc'[s] \in {"respond", "repair"} =>
              pc[s] = "respond" /\ UNCHANGED <<chan, turn>>
    BY <1>2 DEF Submit, Load, execute_pending, ask_repair, OneTabInv, TypeInv, TypeOK
  <2> QED BY <2>1, OthersAsked DEF StagedHere
<1>3. ASSUME NEW s \in Sessions, record_executed(s) \/ decline_pending(s)
      PROVE  AskedOrFailed' /\ StagedHere'
  <2>1. asked' = asked
    BY <1>3 DEF record_executed, decline_pending
  <2> QED BY <1>3, <2>1, RecordResults, DeclineResults, StepAsked DEF OneTabInv
<1>4. ASSUME NEW s \in Sessions, stage_action(s)
      PROVE  AskedOrFailed' /\ StagedHere'
  <2>1. asked' = asked
    BY <1>4 DEF stage_action
  <2> QED BY <1>4, <2>1, StagedCall, StepAsked
<1>5. CASE Restart
  <2>1. \A c \in Customers : ckpt'[c] = AgentState
    BY <1>5 DEF Restart
  <2>2. \A s \in Sessions : pc'[s] = "idle"
    BY <1>5 DEF Restart
  <2> QED BY <2>1, <2>2, CustomerOfAssumption DEF AskedOrFailed, StagedHere, AgentState
<1>6. CASE UNCHANGED vars
  BY <1>6 DEF vars, AskedOrFailed, StagedHere
<1> QED BY <1>1, <1>2, <1>3, <1>4, <1>5, <1>6, ReplyAsked
        DEF Next, RunStep, confirmation_gate_node, intent_gate_node,
            tool_exec_node, respond_node

\* A booking may be executed which no reply asked about, but not behind the
\* back of a customer who saw every request succeed: where such a call waits
\* on a thread, the request that staged it was answered with an error, or the
\* thread is escalated and the gate out of its reach.
THEOREM UnaskedOnlyAfterFailure == OneSessionEach => (Spec => []AskedOrFailed)
<1> SUFFICES ASSUME OneSessionEach
             PROVE  Spec => []AskedOrFailed
  OBVIOUS
<1> DEFINE Inv == OneTabInv /\ AskedOrFailed /\ StagedHere
<1>1. Init => Inv
  BY InitOneTab, CustomerOfAssumption
     DEF Init, AskedOrFailed, StagedHere, AgentState
<1>2. Inv /\ [Next]_vars => Inv'
  BY NextTypes, NextOneTab, NextAsked DEF OneTabInv
<1>3. Inv => AskedOrFailed
  OBVIOUS
<1> HIDE DEF Inv
<1> QED BY <1>1, <1>2, <1>3, PTL DEF Spec

-----------------------------------------------------------------------------
(* One open tab per customer: an escalated thread stays so *)

\* The nodes past the guardrail.
Working == {"confirmation_gate", "recording", "intent_gate", "context_gate",
            "tool_exec", "respond", "repair"}

\* No run whose thread is escalated gets past it.
StoppedByGuardrail ==
    \A s \in Sessions : pc[s] \in Working => chan[s].status # "escalated"

\* What the nodes do to the status on the way to one of these, and what the
\* two before them do to an escalated one.
LEMMA StatusKept ==
    ASSUME TypeInv, NEW s \in Sessions,
           \/ Begin(s) \/ guardrail_node(s) \/ pass_gate(s) \/ record_executed(s)
           \/ decline_pending(s) \/ ask_again(s) \/ classify(s)
           \/ context_gate_node(s) \/ run_tool(s) \/ stage_nothing(s)
           \/ stage_action(s) \/ answer(s) \/ escalate(s)
    PROVE  \E channels, next :
              /\ SuperStep(s, channels, next) /\ UNCHANGED posts
              /\ pc[s] \in Working \cup {"begin", "guardrail"}
              /\ next \in Working =>
                    /\ channels.status = chan[s].status
                    /\ pc[s] \in Working \/ chan[s].status # "escalated"
              /\ pc[s] \in {"begin", "guardrail"} /\ chan[s].status = "escalated"
                    => channels.status = "escalated"
<1> DEFINE Kept(channels, next) ==
      /\ SuperStep(s, channels, next) /\ UNCHANGED posts
      /\ pc[s] \in Working \cup {"begin", "guardrail"}
      /\ next \in Working =>
            /\ channels.status = chan[s].status
            /\ pc[s] \in Working \/ chan[s].status # "escalated"
      /\ pc[s] \in {"begin", "guardrail"} /\ chan[s].status = "escalated"
            => channels.status = "escalated"
<1> SUFFICES \E channels, next : Kept(channels, next)
  OBVIOUS
<1>1. chan[s] \in Channels
  BY DEF TypeInv, TypeOK
<1>2. ASSUME NEW channels, GateStep(s, channels), UNCHANGED posts,
             pc[s] \in {"confirmation_gate", "recording"},
             channels.status = chan[s].status \/ channels.route = "end"
      PROVE  \E next : Kept(channels, next)
  <2>1. channels.route = "end" => route_after_confirmation(channels) = "end"
    BY DEF route_after_confirmation
  <2> QED BY <1>2, <2>1 DEF GateStep, Working
<1>3. CASE Begin(s)
  BY <1>3 DEF Begin, Working
<1>4. CASE guardrail_node(s)
  <2> DEFINE channels == IF query[s].valid THEN chan[s] ELSE rejected(s)
  <2>1. channels.status \in {chan[s].status, "escalated"}
    BY <1>1 DEF rejected, Channels
  <2>2. pc[s] = "guardrail" /\ UNCHANGED posts
        /\ SuperStep(s, channels, route_after_guardrail(channels))
    BY <1>4 DEF guardrail_node
  <2> HIDE DEF channels
  <2>3. Kept(channels, route_after_guardrail(channels))
    BY <2>1, <2>2 DEF route_after_guardrail, Working
  <2> QED BY <2>3
<1>5. CASE pass_gate(s)
  <2> DEFINE channels == [chan[s] EXCEPT !.route = "continue"]
  <2>1. GateStep(s, channels) /\ pc[s] = "confirmation_gate" /\ UNCHANGED posts
    BY <1>5 DEF pass_gate
  <2>2. channels.status = chan[s].status
    BY <1>1 DEF Channels
  <2> HIDE DEF channels
  <2> QED BY <1>2, <2>1, <2>2
<1>6. CASE record_executed(s)
  <2> DEFINE channels == [cleared(chan[s]) EXCEPT
                            !.tool_results = [turn |-> turn[s], awaiting |-> FALSE],
                            !.route = "respond"]
  <2>1. GateStep(s, channels) /\ pc[s] = "recording" /\ UNCHANGED posts
    BY <1>6 DEF record_executed
  <2>2. channels.status = chan[s].status
    BY <1>1 DEF Channels, cleared
  <2> HIDE DEF channels
  <2> QED BY <1>2, <2>1, <2>2
<1>7. CASE decline_pending(s)
  <2> DEFINE channels == [cleared(chan[s]) EXCEPT !.final_answer = turn[s],
                            !.status = "done", !.route = "end"]
  <2>1. GateStep(s, channels) /\ pc[s] = "confirmation_gate" /\ UNCHANGED posts
    BY <1>7 DEF decline_pending
  <2>2. channels.route = "end"
    BY <1>1 DEF Channels, cleared
  <2> HIDE DEF channels
  <2> QED BY <1>2, <2>1, <2>2
<1>8. CASE ask_again(s)
  <2> DEFINE channels == [chan[s] EXCEPT !.final_answer = turn[s],
                            !.status = "needs_clarification", !.route = "end"]
  <2>1. GateStep(s, channels) /\ pc[s] = "confirmation_gate" /\ UNCHANGED posts
    BY <1>8 DEF ask_again
  <2>2. channels.route = "end"
    BY <1>1 DEF Channels
  <2> HIDE DEF channels
  <2> QED BY <1>2, <2>1, <2>2
<1>9. CASE classify(s) \/ context_gate_node(s)
  BY <1>1, <1>9 DEF classify, context_gate_node, Channels, Working
<1>10. CASE run_tool(s) \/ stage_nothing(s)
  <2>1. ToolResults(s, FALSE).status = chan[s].status
    BY <1>1 DEF ToolResults, Channels
  <2> QED BY <1>10, <2>1 DEF run_tool, stage_nothing, Working
<1>11. CASE stage_action(s)
  <2> DEFINE a == [tool |-> ToolFor(chan[s].intent), customer |-> CustomerOf[s],
                   turn |-> turn[s]]
             channels == [ToolResults(s, TRUE) EXCEPT
                            !.pending_action = a, !.needs_confirmation = TRUE]
  <2>1. /\ SuperStep(s, channels, "respond") /\ pc[s] = "tool_exec"
        /\ UNCHANGED posts
    BY <1>11 DEF stage_action, add_edge
  <2> HIDE DEF a
  <2>2. channels.status = chan[s].status
    BY <1>1 DEF ToolResults, Channels
  <2> HIDE DEF channels
  <2> QED BY <2>1, <2>2 DEF Working
<1>12. CASE answer(s) \/ escalate(s)
  BY <1>12 DEF answer, escalate, add_edge, Working
<1> QED BY <1>3, <1>4, <1>5, <1>6, <1>7, <1>8, <1>9, <1>10, <1>11, <1>12

\* What a step does to an escalated thread of customer c.
StaysEscalated(c) ==
    ckpt[c].status = "escalated" =>
        \/ restarts' # restarts
        \/ /\ ckpt'[c].status = "escalated"
           /\ \A p \in posts' \ posts : p.action.customer # c

LEMMA NextEscalated ==
    ASSUME OneSessionEach, OneTabInv, StoppedByGuardrail, [Next]_vars
    PROVE  StoppedByGuardrail' /\ \A c \in Customers : StaysEscalated(c)
<1>0. TypeInv
  BY DEF OneTabInv
<1>1. ASSUME NEW s \in Sessions,
             \/ Begin(s) \/ guardrail_node(s) \/ pass_gate(s) \/ record_executed(s)
             \/ decline_pending(s) \/ ask_again(s) \/ classify(s)
             \/ context_gate_node(s) \/ run_tool(s) \/ stage_nothing(s)
             \/ stage_action(s) \/ answer(s) \/ escalate(s)
      PROVE  StoppedByGuardrail' /\ \A c \in Customers : StaysEscalated(c)
  <2>1. PICK channels, next :
           /\ SuperStep(s, channels, next) /\ UNCHANGED posts
           /\ pc[s] \in Working \cup {"begin", "guardrail"}
           /\ next \in Working =>
                 /\ channels.status = chan[s].status
                 /\ pc[s] \in Working \/ chan[s].status # "escalated"
           /\ pc[s] \in {"begin", "guardrail"} /\ chan[s].status = "escalated"
                 => channels.status = "escalated"
    BY <1>0, <1>1, StatusKept
  <2>2. StoppedByGuardrail'
    BY <2>1, StepEffect DEF StoppedByGuardrail
  <2>3. chan[s] = ckpt[CustomerOf[s]]
    BY <2>1 DEF OneTabInv, OwnThread, Working
  <2>4. ASSUME NEW c \in Customers PROVE StaysEscalated(c)
    BY <2>1, <2>3, StepEffect DEF StoppedByGuardrail, StaysEscalated
  <2> QED BY <2>2, <2>4
<1>2. ASSUME NEW s \in Sessions,
             Submit(s) \/ Load(s) \/ ask_repair(s) \/ Finish(s)
             \/ classify_fails(s) \/ tool_exec_fails(s) \/ respond_fails(s)
      PROVE  StoppedByGuardrail' /\ \A c \in Customers : StaysEscalated(c)
  <2>1. /\ UNCHANGED <<ckpt, posts>>
        /\ \A t \in Sessions : t # s => pc'[t] = pc[t] /\ chan'[t] = chan[t]
        /\ pc'[s] \in Working => pc[s] \in Working /\ chan' = chan
    BY <1>2 DEF Submit, Load, ask_repair, Finish, classify_fails, tool_exec_fails,
                respond_fails, Fail, Reply, Working, OneTabInv, TypeInv, TypeOK
  <2> QED BY <2>1 DEF StoppedByGuardrail, StaysEscalated
<1>3. ASSUME NEW s \in Sessions, execute_pending(s)
      PROVE  StoppedByGuardrail' /\ \A c \in Customers : StaysEscalated(c)
  <2>1. /\ pc[s] = "confirmation_gate" /\ UNCHANGED <<ckpt, chan>>
        /\ \A t \in Sessions : pc'[t] \in Working => pc[t] \in Working
    BY <1>3 DEF execute_pending, OneTabInv, TypeInv, TypeOK, Working
  <2>2. PICK made : posts' = posts \cup {made} /\ made.action = chan[s].pending_action
    BY <1>3, ExecuteResults
  <2>3. chan[s] = ckpt[CustomerOf[s]] /\ made.action.customer = CustomerOf[s]
    BY <1>3, <2>2, AwaitedCall DEF execute_pending
  <2>4. chan[s].status # "escalated"
    BY <2>1 DEF StoppedByGuardrail, Working
  <2> QED BY <2>1, <2>2, <2>3, <2>4 DEF StoppedByGuardrail, StaysEscalated
<1>4. CASE Restart
  <2>1. restarts' # restarts /\ \A s \in Sessions : pc'[s] = "idle"
    BY <1>4 DEF Restart, OneTabInv, TypeInv, TypeOK
  <2> QED BY <2>1 DEF StoppedByGuardrail, StaysEscalated, Working
<1>5. CASE UNCHANGED vars
  BY <1>5 DEF vars, StoppedByGuardrail, StaysEscalated
<1> QED BY <1>1, <1>2, <1>3, <1>4, <1>5
        DEF Next, RunStep, confirmation_gate_node, intent_gate_node,
            tool_exec_node, respond_node

\* One message the guardrail rejects, or one repair that fails, and the thread
\* is out of order: it stays escalated until the process restarts, and until
\* then no booking or order is made for its customer, confirmed or not.
THEOREM EscalatedForGood ==
    OneSessionEach => (Spec => [][\A c \in Customers : StaysEscalated(c)]_vars)
<1> SUFFICES ASSUME OneSessionEach
             PROVE  Spec => [][\A c \in Customers : StaysEscalated(c)]_vars
  OBVIOUS
<1> DEFINE Inv == OneTabInv /\ StoppedByGuardrail
           Stays == \A c \in Customers : StaysEscalated(c)
<1>1. Init => Inv
  BY InitOneTab DEF Init, StoppedByGuardrail, Working
<1>2. Inv /\ [Next]_vars => Inv' /\ [Stays]_vars
  BY NextTypes, NextOneTab, NextEscalated DEF OneTabInv
<1> HIDE DEF Inv, Stays
<1>3. Spec => [][Stays]_vars
  BY <1>1, <1>2, PTL DEF Spec
<1> QED BY <1>3 DEF Stays

=============================================================================
