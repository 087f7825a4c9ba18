----------------------------- MODULE ThreadProofs -----------------------------
(***************************************************************************)
(* Theorems about AgentGraph that hold in every deployment, also when      *)
(* several tabs of one customer run concurrently on one thread with stale  *)
(* copies of its checkpoint.                                               *)
(***************************************************************************)
EXTENDS AgentGraphProofs, ThreadHistory, SequenceTheorems

LEMMA InitialSound == \A c : Sound(AgentState, c)
  BY DEF Sound, AgentState

LEMMA InitThread == Init => ThreadInv
<1> SUFFICES ASSUME Init PROVE ThreadInv
  OBVIOUS
<1>1. TypeInv
  BY InitTypes
<1>2. \A c \in Customers : Sound(ckpt[c], c)
  BY InitialSound DEF Init
<1>3. \A s \in Sessions : Sound(chan[s], CustomerOf[s]) /\ AtNode(chan[s], pc[s], turn[s])
  BY InitialSound DEF Init, AtNode
<1>4. TurnsUnique /\ DoneAnswerIsFresh /\ PostsOwned /\ EpisodesTruthful
  BY DEF Init, TurnsUnique, DoneAnswerIsFresh, NoResponse, PostsOwned, EpisodesTruthful
<1> QED BY <1>1, <1>2, <1>3, <1>4 DEF ThreadInv

\* A superstep whose results are sound and fit the node it routes to.
LEMMA SuperStepThread ==
    ASSUME ThreadInv, TypeInv', NEW s \in Sessions, NEW channels, NEW next,
           SuperStep(s, channels, next),
           Sound(channels, CustomerOf[s]), AtNode(channels, next, turn[s]),
           UNCHANGED posts, EpisodesTruthful'
    PROVE  ThreadInv'
<1>1. /\ ckpt' = [ckpt EXCEPT ![CustomerOf[s]] = channels]
      /\ chan' = [chan EXCEPT ![s] = channels] /\ pc' = [pc EXCEPT ![s] = next]
      /\ UNCHANGED <<turn, turns, resp>>
  BY DEF SuperStep
<1>2. ckpt \in [Customers -> Channels] /\ chan \in [Sessions -> Channels] /\ pc \in [Sessions -> Pc]
  BY DEF ThreadInv, TypeInv, TypeOK
<1>3. \A c \in Customers : Sound(ckpt[c], c)'
  BY <1>1, <1>2 DEF ThreadInv, Sound
<1>4. \A t \in Sessions : Sound(chan[t], CustomerOf[t])'
  BY <1>1, <1>2 DEF ThreadInv, Sound
<1>5. \A t \in Sessions : AtNode(chan[t], pc[t], turn[t])'
  BY <1>1, <1>2 DEF ThreadInv, AtNode
<1>6. TurnsUnique' /\ DoneAnswerIsFresh' /\ PostsOwned'
  BY <1>1 DEF ThreadInv, TurnsUnique, DoneAnswerIsFresh, PostsOwned
<1> QED BY <1>3, <1>4, <1>5, <1>6 DEF ThreadInv

\* No session's own state changes but that of s, which ends up idle or
\* elsewhere with channels that are sound and fit.
LEMMA SessionThread ==
    ASSUME ThreadInv, TypeInv', NEW s \in Sessions, NEW channels, NEW next,
           chan' = [chan EXCEPT ![s] = channels], pc' = [pc EXCEPT ![s] = next],
           Sound(channels, CustomerOf[s]), AtNode(channels, next, turn'[s]),
           \A t \in Sessions \ {s} : turn'[t] = turn[t],
           UNCHANGED ckpt, TurnsUnique', DoneAnswerIsFresh', PostsOwned', EpisodesTruthful'
    PROVE  ThreadInv'
<1>1. chan \in [Sessions -> Channels] /\ pc \in [Sessions -> Pc]
  BY DEF ThreadInv, TypeInv, TypeOK
<1>2. \A c \in Customers : Sound(ckpt[c], c)'
  BY DEF ThreadInv, Sound
<1>3. \A t \in Sessions : Sound(chan[t], CustomerOf[t])'
  BY <1>1 DEF ThreadInv, Sound
<1>4. \A t \in Sessions : AtNode(chan[t], pc[t], turn[t])'
  BY <1>1 DEF ThreadInv, AtNode
<1> QED BY <1>2, <1>3, <1>4 DEF ThreadInv

LEMMA SubmitThread ==
    ASSUME ThreadInv, TypeInv', NEW s \in Sessions, Submit(s)
    PROVE  ThreadInv'
<1>1. /\ pc' = [pc EXCEPT ![s] = "load"] /\ turn' = [turn EXCEPT ![s] = turns + 1]
      /\ turns' = turns + 1 /\ resp' = [resp EXCEPT ![s] = NoResponse]
      /\ UNCHANGED <<ckpt, chan, posts, episodes>>
  BY DEF Submit
<1>2. turn \in [Sessions -> Turns \cup {0}] /\ turns \in Nat /\ resp \in [Sessions -> Response]
      /\ chan \in [Sessions -> Channels] /\ posts \subseteq Post
  BY DEF ThreadInv, TypeInv, TypeOK, Turns
<1>3. \A t \in Sessions : turn[t] \in Nat /\ turn[t] <= turns
  BY <1>2 DEF ThreadInv, TurnsUnique, Turns
<1>4. TurnsUnique'
  BY <1>1, <1>2, <1>3 DEF ThreadInv, TurnsUnique
<1>5. DoneAnswerIsFresh'
  BY <1>1, <1>2 DEF ThreadInv, DoneAnswerIsFresh, NoResponse
<1>6. PostsOwned'
  <2>1. \A p \in posts : p.turn \in Nat
    BY <1>2 DEF Post, Turns
  <2> QED BY <1>1, <1>2, <2>1 DEF ThreadInv, PostsOwned
<1>7. EpisodesTruthful'
  BY <1>1 DEF ThreadInv, EpisodesTruthful
<1>8. chan' = [chan EXCEPT ![s] = chan[s]]
  BY <1>1, <1>2
<1>9. Sound(chan[s], CustomerOf[s]) /\ AtNode(chan[s], "load", turn'[s])
  BY DEF ThreadInv, AtNode
<1>10. \A t \in Sessions \ {s} : turn'[t] = turn[t]
  BY <1>1, <1>2
<1> QED BY <1>1, <1>4, <1>5, <1>6, <1>7, <1>8, <1>9, <1>10, SessionThread

LEMMA LoadThread ==
    ASSUME ThreadInv, TypeInv', NEW s \in Sessions, Load(s)
    PROVE  ThreadInv'
<1>1. /\ chan' = [chan EXCEPT ![s] = ckpt[CustomerOf[s]]] /\ pc' = [pc EXCEPT ![s] = "begin"]
      /\ UNCHANGED <<ckpt, turn, turns, resp, posts, episodes>>
  BY DEF Load
<1>2. Sound(ckpt[CustomerOf[s]], CustomerOf[s]) /\ AtNode(ckpt[CustomerOf[s]], "begin", turn'[s])
  BY CustomerOfAssumption DEF ThreadInv, AtNode
<1>3. TurnsUnique' /\ DoneAnswerIsFresh' /\ PostsOwned' /\ EpisodesTruthful'
  BY <1>1 DEF ThreadInv, TurnsUnique, DoneAnswerIsFresh, PostsOwned, EpisodesTruthful
<1> QED BY <1>1, <1>2, <1>3, SessionThread

LEMMA ReplyThread ==
    ASSUME ThreadInv, TypeInv', NEW s \in Sessions, NEW response, Reply(s, response),
           response.code = 200 /\ response.status \in {"done", "needs_clarification"}
               => response.final_answer = response.turn
    PROVE  ThreadInv'
<1>1. /\ chan' = [chan EXCEPT ![s] = AgentState] /\ pc' = [pc EXCEPT ![s] = "idle"]
      /\ resp' = [resp EXCEPT ![s] = response]
      /\ UNCHANGED <<ckpt, turn, turns, posts, episodes>>
  BY DEF Reply
<1>2. resp \in [Sessions -> Response]
  BY DEF ThreadInv, TypeInv, TypeOK
<1>3. DoneAnswerIsFresh'
  BY <1>1, <1>2 DEF ThreadInv, DoneAnswerIsFresh
<1>4. TurnsUnique' /\ PostsOwned' /\ EpisodesTruthful'
  BY <1>1 DEF ThreadInv, TurnsUnique, PostsOwned, EpisodesTruthful
<1>5. Sound(AgentState, CustomerOf[s]) /\ AtNode(AgentState, "idle", turn'[s])
  BY InitialSound DEF AtNode
<1> QED BY <1>1, <1>3, <1>4, <1>5, SessionThread

\* The final state of a run, or a 500.
LEMMA OverThread ==
    ASSUME ThreadInv, TypeInv', NEW s \in Sessions,
           Finish(s) \/ \E why : Fail(s, why)
    PROVE  ThreadInv'
<1>1. CASE Finish(s)
  <2> DEFINE response == [code |-> 200, turn |-> turn[s], status |-> chan[s].status,
                          final_answer |-> chan[s].final_answer, cause |-> "none"]
  <2>1. pc[s] = "end" /\ Reply(s, response)
    BY <1>1 DEF Finish
  <2>2. response.status \in {"done", "needs_clarification"} => response.final_answer = response.turn
    BY <2>1 DEF ThreadInv, AtNode
  <2> QED BY <2>1, <2>2, ReplyThread
<1>2. CASE \E why : Fail(s, why)
  <2>1. PICK why : Reply(s, [code |-> 500, turn |-> turn[s], status |-> "pending",
                             final_answer |-> 0, cause |-> why])
    BY <1>2 DEF Fail
  <2> QED BY <2>1, ReplyThread
<1> QED BY <1>1, <1>2

LEMMA RestartThread ==
    ASSUME ThreadInv, TypeInv', Restart
    PROVE  ThreadInv'
<1>1. /\ ckpt' = [c \in Customers |-> AgentState] /\ chan' = [s \in Sessions |-> AgentState]
      /\ pc' = [s \in Sessions |-> "idle"]
      /\ UNCHANGED <<turn, turns, resp, posts, episodes>>
  BY DEF Restart
<1>2. \A c \in Customers : Sound(ckpt[c], c)'
  BY <1>1, InitialSound DEF Sound
<1>3. \A s \in Sessions : Sound(chan[s], CustomerOf[s])' /\ AtNode(chan[s], pc[s], turn[s])'
  BY <1>1, InitialSound DEF Sound, AtNode
<1>4. TurnsUnique' /\ DoneAnswerIsFresh' /\ PostsOwned' /\ EpisodesTruthful'
  BY <1>1 DEF ThreadInv, TurnsUnique, DoneAnswerIsFresh, PostsOwned, EpisodesTruthful
<1> QED BY <1>2, <1>3, <1>4 DEF ThreadInv

-----------------------------------------------------------------------------
(* The nodes *)

\* A node that calls nothing: its superstep leaves posts and episodes alone.
LEMMA QuietThread ==
    ASSUME ThreadInv, TypeInv', NEW s \in Sessions, NEW channels, NEW next,
           SuperStep(s, channels, next),
           Sound(channels, CustomerOf[s]), AtNode(channels, next, turn[s]),
           UNCHANGED <<posts, episodes>>
    PROVE  ThreadInv'
<1>1. EpisodesTruthful'
  BY DEF ThreadInv, EpisodesTruthful
<1> QED BY <1>1, SuperStepThread

\* What the lemmas about single nodes start from.
LEMMA AtWork ==
    ASSUME ThreadInv, NEW s \in Sessions, pc[s] # "idle"
    PROVE  /\ chan[s] \in Channels /\ turn[s] \in Turns
           /\ Sound(chan[s], CustomerOf[s]) /\ AtNode(chan[s], pc[s], turn[s])
BY DEF ThreadInv, TypeInv, TypeOK, TurnAssigned

LEMMA GuardrailThread ==
    ASSUME ThreadInv, TypeInv', NEW s \in Sessions, Begin(s) \/ guardrail_node(s)
    PROVE  ThreadInv'
<1>1. chan[s] \in Channels /\ Sound(chan[s], CustomerOf[s])
  BY AtWork DEF Begin, guardrail_node
<1>2. CASE Begin(s)
  <2>1. SuperStep(s, chan[s], "guardrail") /\ UNCHANGED <<posts, episodes>>
    BY <1>2 DEF Begin
  <2>2. AtNode(chan[s], "guardrail", turn[s])
    BY DEF AtNode
  <2> QED BY <1>1, <2>1, <2>2, QuietThread
<1>3. CASE guardrail_node(s)
  <2> DEFINE channels == IF query[s].valid THEN chan[s] ELSE rejected(s)
             next == route_after_guardrail(channels)
  <2>1. SuperStep(s, channels, next) /\ UNCHANGED <<posts, episodes>>
    BY <1>3 DEF guardrail_node
  <2>2. Sound(rejected(s), CustomerOf[s])
    BY <1>1 DEF Channels, rejected, Sound
  <2>3. AtNode(channels, next, turn[s])
    BY DEF AtNode, route_after_guardrail
  <2> HIDE DEF channels, next
  <2>4. Sound(channels, CustomerOf[s])
    BY <1>1, <2>2 DEF channels
  <2> QED BY <2>1, <2>3, <2>4, QuietThread
<1> QED BY <1>2, <1>3

\* The gate: nothing staged, a no, or neither.
LEMMA GateThread ==
    ASSUME ThreadInv, TypeInv', NEW s \in Sessions,
           pass_gate(s) \/ decline_pending(s) \/ ask_again(s)
    PROVE  ThreadInv'
<1>1. /\ chan[s] \in Channels /\ Sound(chan[s], CustomerOf[s])
      /\ UNCHANGED <<posts, episodes>>
  BY AtWork DEF pass_gate, decline_pending, ask_again
<1>2. ASSUME NEW channels, GateStep(s, channels), Sound(channels, CustomerOf[s]),
             AtNode(channels, route_after_confirmation(channels), turn[s])
      PROVE  ThreadInv'
  BY <1>1, <1>2, QuietThread DEF GateStep
<1>3. CASE pass_gate(s)
  <2> DEFINE channels == [chan[s] EXCEPT !.route = "continue"]
  <2>1. GateStep(s, channels) /\ ~AwaitsConfirmation(chan[s])
    BY <1>3 DEF pass_gate
  <2>2. /\ channels.needs_confirmation = chan[s].needs_confirmation
        /\ channels.pending_action = chan[s].pending_action
        /\ channels.route = "continue"
    BY <1>1 DEF Channels
  <2> HIDE DEF channels
  <2>3. Sound(channels, CustomerOf[s]) /\ channels.pending_action = NoAction
    BY <1>1, <2>1, <2>2 DEF Sound, AwaitsConfirmation
  <2>4. AtNode(channels, route_after_confirmation(channels), turn[s])
    BY <2>2, <2>3 DEF AtNode, route_after_confirmation
  <2> QED BY <1>2, <2>1, <2>3, <2>4
<1>4. CASE decline_pending(s)
  <2> DEFINE channels == [cleared(chan[s]) EXCEPT
                            !.final_answer = turn[s], !.status = "done", !.route = "end"]
  <2>1. GateStep(s, channels)
    BY <1>4 DEF decline_pending
  <2>2. /\ channels.pending_action = NoAction /\ ~channels.needs_confirmation
        /\ channels.final_answer = turn[s] /\ channels.route = "end"
    BY <1>1 DEF Channels, cleared
  <2> HIDE DEF channels
  <2>3. Sound(channels, CustomerOf[s])
    BY <2>2 DEF Sound
  <2>4. AtNode(channels, route_after_confirmation(channels), turn[s])
    BY <2>2 DEF AtNode, route_after_confirmation
  <2> QED BY <1>2, <2>1, <2>3, <2>4
<1>5. CASE ask_again(s)
  <2> DEFINE channels == [chan[s] EXCEPT !.final_answer = turn[s],
                            !.status = "needs_clarification", !.route = "end"]
  <2>1. GateStep(s, channels)
    BY <1>5 DEF ask_again
  <2>2. /\ channels.needs_confirmation = chan[s].needs_confirmation
        /\ channels.pending_action = chan[s].pending_action
        /\ channels.final_answer = turn[s] /\ channels.route = "end"
    BY <1>1 DEF Channels
  <2> HIDE DEF channels
  <2>3. Sound(channels, CustomerOf[s])
    BY <1>1, <2>2 DEF Sound
  <2>4. AtNode(channels, route_after_confirmation(channels), turn[s])
    BY <2>2 DEF AtNode, route_after_confirmation
  <2> QED BY <1>2, <2>1, <2>3, <2>4
<1> QED BY <1>3, <1>4, <1>5

\* The confirmed call is made for the customer whose thread held it.
LEMMA ExecuteThread ==
    ASSUME ThreadInv, TypeInv', NEW s \in Sessions, execute_pending(s)
    PROVE  ThreadInv'
<1> DEFINE call(ok) == [action |-> chan[s].pending_action, turn |-> turn[s], ok |-> ok]
<1>1. /\ pc[s] = "confirmation_gate" /\ AwaitsConfirmation(chan[s])
      /\ pc' = [pc EXCEPT ![s] = "recording"]
      /\ UNCHANGED <<ckpt, chan, turn, resp, episodes, turns>>
  BY DEF execute_pending
<1>2. PICK ok \in BOOLEAN : posts' = posts \cup {call(ok)}
  BY DEF execute_pending
<1>3. turn[s] \in Turns /\ Sound(chan[s], CustomerOf[s])
  BY <1>1, AtWork
<1>4. PostsOwned'
  <2>1. call(ok).turn = turn[s] /\ call(ok).action.customer = CustomerOf[s]
    BY <1>1, <1>3 DEF Sound, AwaitsConfirmation
  <2>2. turn[s] <= turns /\ \A t \in Sessions : turn[t] = turn[s] => t = s
    BY <1>3 DEF ThreadInv, TurnsUnique, Turns
  <2> HIDE DEF call
  <2> QED BY <1>1, <1>2, <2>1, <2>2 DEF ThreadInv, PostsOwned
<1>5. EpisodesTruthful'
  <2> HIDE DEF call
  <2> QED BY <1>1, <1>2 DEF ThreadInv, EpisodesTruthful
<1>6. TurnsUnique' /\ DoneAnswerIsFresh'
  BY <1>1 DEF ThreadInv, TurnsUnique, DoneAnswerIsFresh
<1>7. chan' = [chan EXCEPT ![s] = chan[s]]
  BY <1>1 DEF ThreadInv, TypeInv, TypeOK
<1>8. AtNode(chan[s], "recording", turn'[s])
  BY DEF AtNode
<1>9. \A t \in Sessions \ {s} : turn'[t] = turn[t]
  BY <1>1
<1> QED BY <1>1, <1>3, <1>4, <1>5, <1>6, <1>7, <1>8, <1>9, SessionThread

\* What is remembered is the call just made, for the customer it was made for.
LEMMA RecordThread ==
    ASSUME ThreadInv, TypeInv', NEW s \in Sessions, record_executed(s)
    PROVE  ThreadInv'
<1> DEFINE channels == [cleared(chan[s]) EXCEPT
                          !.tool_results = [turn |-> turn[s], awaiting |-> FALSE],
                          !.route = "respond"]
<1>1. GateStep(s, channels) /\ UNCHANGED posts
  BY DEF record_executed
<1>2. chan[s] \in Channels
  BY AtWork DEF record_executed
<1>3. /\ channels.pending_action = NoAction /\ ~channels.needs_confirmation
      /\ channels.tool_results = [turn |-> turn[s], awaiting |-> FALSE]
      /\ channels.route = "respond"
  BY <1>2 DEF Channels, cleared
<1> HIDE DEF channels
<1>4. Sound(channels, CustomerOf[s])
  BY <1>3 DEF Sound
<1>5. AtNode(channels, route_after_confirmation(channels), turn[s])
  BY <1>3 DEF AtNode, route_after_confirmation
<1>6. EpisodesTruthful'
  <2>1. CASE UNCHANGED episodes
    BY <1>1, <2>1 DEF ThreadInv, EpisodesTruthful
  <2>2. CASE Succeeded(s) /\ episodes' = [episodes EXCEPT ![CustomerOf[s]] = @ \cup {turn[s]}]
    <3>1. \E p \in posts : p.turn = turn[s] /\ p.ok /\ p.action.customer = CustomerOf[s]
      BY <2>2 DEF Succeeded, ThreadInv, PostsOwned
    <3>2. /\ episodes'[CustomerOf[s]] = episodes[CustomerOf[s]] \cup {turn[s]}
          /\ \A c \in Customers : c # CustomerOf[s] => episodes'[c] = episodes[c]
      BY <2>2, CustomerOfAssumption DEF ThreadInv, TypeInv, TypeOK
    <3> QED BY <1>1, <3>1, <3>2, CustomerOfAssumption DEF ThreadInv, EpisodesTruthful
  <2> QED BY <2>1, <2>2 DEF record_executed
<1> QED BY <1>1, <1>4, <1>5, <1>6, SuperStepThread DEF GateStep

LEMMA IntentThread ==
    ASSUME ThreadInv, TypeInv', NEW s \in Sessions, classify(s) \/ context_gate_node(s)
    PROVE  ThreadInv'
<1>1. /\ chan[s] \in Channels /\ Sound(chan[s], CustomerOf[s])
      /\ chan[s].pending_action = NoAction /\ UNCHANGED <<posts, episodes>>
  BY AtWork DEF classify, context_gate_node, AtNode
<1>2. ASSUME NEW channels, NEW next \in {"context_gate", "tool_exec"},
             SuperStep(s, channels, next),
             channels.needs_confirmation = chan[s].needs_confirmation,
             channels.pending_action = chan[s].pending_action
      PROVE  ThreadInv'
  <2>1. Sound(channels, CustomerOf[s]) /\ AtNode(channels, next, turn[s])
    BY <1>1, <1>2 DEF Sound, AtNode
  <2> QED BY <1>1, <1>2, <2>1, QuietThread
<1>3. CASE classify(s)
  <2>1. PICK intent : SuperStep(s, [chan[s] EXCEPT !.intent = intent], "context_gate")
    BY <1>3 DEF classify, add_edge
  <2>2. /\ [chan[s] EXCEPT !.intent = intent].needs_confirmation = chan[s].needs_confirmation
        /\ [chan[s] EXCEPT !.intent = intent].pending_action = chan[s].pending_action
    BY <1>1 DEF Channels
  <2> QED BY <1>2, <2>1, <2>2
<1>4. CASE context_gate_node(s)
  <2>1. PICK loaded : SuperStep(s, [chan[s] EXCEPT !.preferences_loaded = loaded], "tool_exec")
    BY <1>4 DEF context_gate_node, add_edge
  <2>2. /\ [chan[s] EXCEPT !.preferences_loaded = loaded].needs_confirmation
              = chan[s].needs_confirmation
        /\ [chan[s] EXCEPT !.preferences_loaded = loaded].pending_action
              = chan[s].pending_action
    BY <1>1 DEF Channels
  <2> QED BY <1>2, <2>1, <2>2
<1> QED BY <1>3, <1>4

LEMMA ToolThread ==
    ASSUME ThreadInv, TypeInv', NEW s \in Sessions,
           run_tool(s) \/ stage_nothing(s) \/ stage_action(s)
    PROVE  ThreadInv'
<1>1. /\ chan[s] \in Channels /\ Sound(chan[s], CustomerOf[s]) /\ turn[s] \in Turns
      /\ chan[s].pending_action = NoAction /\ UNCHANGED <<posts, episodes>>
  BY AtWork DEF run_tool, stage_nothing, stage_action, AtNode
<1>2. ASSUME NEW channels, SuperStep(s, channels, "respond"),
             Sound(channels, CustomerOf[s]), AtNode(channels, "respond", turn[s])
      PROVE  ThreadInv'
  BY <1>1, <1>2, QuietThread
<1>3. CASE run_tool(s) \/ stage_nothing(s)
  <2> DEFINE channels == ToolResults(s, FALSE)
  <2>1. SuperStep(s, channels, "respond")
    BY <1>3 DEF run_tool, stage_nothing, add_edge
  <2>2. /\ channels.tool_results = [turn |-> turn[s], awaiting |-> FALSE]
        /\ channels.pending_action = chan[s].pending_action
        /\ channels.needs_confirmation = chan[s].needs_confirmation
    BY <1>1 DEF Channels, ToolResults
  <2> HIDE DEF channels
  <2>3. channels.tool_results.turn = turn[s] /\ ~channels.tool_results.awaiting
    BY <2>2
  <2>4. Sound(channels, CustomerOf[s])
    BY <1>1, <2>2 DEF Sound
  <2>5. AtNode(channels, "respond", turn[s])
    BY <1>1, <2>2, <2>3 DEF AtNode
  <2> QED BY <1>2, <2>1, <2>4, <2>5
<1>4. CASE stage_action(s)
  <2> DEFINE a == [tool |-> ToolFor(chan[s].intent), customer |-> CustomerOf[s],
                   turn |-> turn[s]]
             channels == [ToolResults(s, TRUE) EXCEPT !.pending_action = a,
                                                      !.needs_confirmation = TRUE]
  <2>1. SuperStep(s, channels, "respond")
    BY <1>4 DEF stage_action, add_edge
  <2>2. /\ channels.tool_results = [turn |-> turn[s], awaiting |-> TRUE]
        /\ channels.pending_action = a /\ channels.needs_confirmation
    BY <1>1 DEF Channels, ToolResults
  <2>3. a \in Action /\ a.customer = CustomerOf[s]
    BY <1>1, CustomerOfAssumption DEF Action, Tools, ToolFor
  <2> HIDE DEF channels, a
  <2>4. a # NoAction
    BY <2>3, NoActionAssumption
  <2>5. Sound(channels, CustomerOf[s])
    BY <2>2, <2>3, <2>4 DEF Sound
  <2>6. AtNode(channels, "respond", turn[s])
    BY <2>2, <2>4 DEF AtNode
  <2> QED BY <1>2, <2>1, <2>5, <2>6
<1> QED BY <1>3, <1>4

LEMMA RespondThread ==
    ASSUME ThreadInv, TypeInv', NEW s \in Sessions,
           answer(s) \/ ask_repair(s) \/ escalate(s)
    PROVE  ThreadInv'
<1>1. /\ chan[s] \in Channels /\ Sound(chan[s], CustomerOf[s])
      /\ AtNode(chan[s], pc[s], turn[s]) /\ UNCHANGED <<posts, episodes>>
  BY AtWork DEF answer, ask_repair, escalate
<1>2. ASSUME NEW channels, SuperStep(s, channels, "end"),
             channels.needs_confirmation = chan[s].needs_confirmation,
             channels.pending_action = chan[s].pending_action,
             channels.final_answer = turn[s] \/ channels.status = "escalated"
      PROVE  ThreadInv'
  <2>1. Sound(channels, CustomerOf[s]) /\ AtNode(channels, "end", turn[s])
    BY <1>1, <1>2 DEF Sound, AtNode
  <2> QED BY <1>1, <1>2, <2>1, QuietThread
<1>3. CASE answer(s)
  <2> DEFINE channels == [chan[s] EXCEPT !.final_answer = turn[s], !.status = "done"]
  <2>1. SuperStep(s, channels, "end")
    BY <1>3 DEF answer, add_edge
  <2>2. /\ channels.needs_confirmation = chan[s].needs_confirmation
        /\ channels.pending_action = chan[s].pending_action
        /\ channels.final_answer = turn[s]
    BY <1>1 DEF Channels
  <2> HIDE DEF channels
  <2> QED BY <1>2, <2>1, <2>2
<1>4. CASE escalate(s)
  <2> DEFINE channels == [chan[s] EXCEPT !.status = "escalated"]
  <2>1. SuperStep(s, channels, "end")
    BY <1>4 DEF escalate, add_edge
  <2>2. /\ channels.needs_confirmation = chan[s].needs_confirmation
        /\ channels.pending_action = chan[s].pending_action
        /\ channels.status = "escalated"
    BY <1>1 DEF Channels
  <2> HIDE DEF channels
  <2> QED BY <1>2, <2>1, <2>2
<1>5. CASE ask_repair(s)
  <2>1. /\ pc[s] = "respond" /\ pc' = [pc EXCEPT ![s] = "repair"]
        /\ UNCHANGED <<ckpt, chan, turn, resp, posts, episodes, turns>>
    BY <1>5 DEF ask_repair
  <2>2. chan' = [chan EXCEPT ![s] = chan[s]]
    BY <2>1 DEF ThreadInv, TypeInv, TypeOK
  <2>3. AtNode(chan[s], "repair", turn'[s])
    BY <1>1, <2>1 DEF AtNode
  <2>4. TurnsUnique' /\ DoneAnswerIsFresh' /\ PostsOwned' /\ EpisodesTruthful'
    BY <2>1 DEF ThreadInv, TurnsUnique, DoneAnswerIsFresh, PostsOwned, EpisodesTruthful
  <2>5. \A t \in Sessions \ {s} : turn'[t] = turn[t]
    BY <2>1
  <2> QED BY <1>1, <2>1, <2>2, <2>3, <2>4, <2>5, SessionThread
<1> QED BY <1>3, <1>4, <1>5

LEMMA NextThread ==
    ASSUME ThreadInv, [Next]_vars
    PROVE  ThreadInv'
<1>1. TypeInv'
  BY NextTypes DEF ThreadInv
<1>2. ASSUME NEW s \in Sessions, Submit(s) \/ RunStep(s)
      PROVE  ThreadInv'
  <2>1. CASE Submit(s) \/ Load(s) \/ Begin(s) \/ guardrail_node(s)
    BY <1>1, <2>1, SubmitThread, LoadThread, GuardrailThread
  <2>2. CASE confirmation_gate_node(s)
    BY <1>1, <2>2, GateThread, ExecuteThread, RecordThread DEF confirmation_gate_node
  <2>3. CASE intent_gate_node(s) \/ context_gate_node(s)
    BY <1>1, <2>3, IntentThread, OverThread DEF intent_gate_node, classify_fails
  <2>4. CASE tool_exec_node(s)
    BY <1>1, <2>4, ToolThread, OverThread DEF tool_exec_node, tool_exec_fails
  <2>5. CASE respond_node(s) \/ Finish(s)
    BY <1>1, <2>5, RespondThread, OverThread DEF respond_node, respond_fails
  <2> QED BY <1>2, <2>1, <2>2, <2>3, <2>4, <2>5 DEF RunStep
<1>3. CASE Restart
  BY <1>1, <1>3, RestartThread
<1>4. CASE UNCHANGED vars
  BY <1>1, <1>4 DEF vars, ThreadInv, TurnsUnique, Sound, AtNode, DoneAnswerIsFresh,
                    PostsOwned, EpisodesTruthful
<1> QED BY <1>2, <1>3, <1>4 DEF Next

-----------------------------------------------------------------------------
(* Theorems about every deployment *)

\* However many tabs of a customer run at once, with whatever stale copies of
\* the thread: every channel value, checkpoint, call, reply and episode is one
\* that the invariant allows.
THEOREM ThreadsSound == Spec => []ThreadInv
<1>1. Init => ThreadInv
  BY InitThread
<1>2. ThreadInv /\ [Next]_vars => ThreadInv'
  BY NextThread
<1> QED BY <1>1, <1>2, PTL DEF Spec

\* The two channels the confirmation gate tests never come apart, in any
\* checkpoint or running turn.
THEOREM FlagGoesWithCall == Spec => []PendingMatchesFlag
<1>1. ThreadInv => PendingMatchesFlag
  BY DEF ThreadInv, Sound, PendingMatchesFlag
<1> QED BY <1>1, ThreadsSound, PTL

\* respond_node words only tool results of the turn it answers, although the
\* channel is never cleared.
THEOREM ResultsOfThisTurn == Spec => []ToolResultsFresh
<1>1. ThreadInv => ToolResultsFresh
  BY DEF ThreadInv, AtNode, ToolResultsFresh
<1> QED BY <1>1, ThreadsSound, PTL

\* The model is given a summary to confirm exactly when a call is staged.
THEOREM SummaryOfStaged == Spec => []SummaryMatchesStaged
<1>1. ThreadInv => SummaryMatchesStaged
  BY DEF ThreadInv, AtNode, SummaryMatchesStaged
<1> QED BY <1>1, ThreadsSound, PTL

\* A reply marked done, or asking for clarification, carries an answer written
\* in the turn it replies to.
THEOREM AnswersFresh == Spec => []DoneAnswerIsFresh
<1>1. ThreadInv => DoneAnswerIsFresh
  BY DEF ThreadInv
<1> QED BY <1>1, ThreadsSound, PTL

\* A customer's episodes name only calls that went through for that customer.
THEOREM EpisodesAreTrue == Spec => []EpisodesTruthful
<1>1. ThreadInv => EpisodesTruthful
  BY DEF ThreadInv
<1> QED BY <1>1, ThreadsSound, PTL

-----------------------------------------------------------------------------
(* Every deployment: what is left of the promise where tabs share a thread *)

\* What every step keeps or adds: the calls that are held or were settled
\* carry the numbers of turns that were sent and have left tool_exec, and a
\* turn that has not passed the confirmation gate has made no call.
SharedInv ==
    /\ \A a \in held \cup declined \cup {p.action : p \in posts} :
          /\ a \in Action /\ a.turn <= turns
          /\ \A s \in Sessions : pc[s] \in Early => a.turn # turn[s]
    /\ \A p \in posts, s \in Sessions :
          pc[s] \in Early \ {"recording"} => p.turn # turn[s]

\* Turns are numbered in the order they are sent, and keep their number.
LEMMA TurnsGrow ==
    ASSUME TypeInv, [Next]_vars
    PROVE  /\ turns \in Nat /\ turns <= turns'
           /\ \A s \in Sessions : RunStep(s) => UNCHANGED <<turn, turns>>
<1>1. ASSUME NEW s \in Sessions, RunStep(s)
      PROVE  UNCHANGED <<turn, turns>>
  BY <1>1 DEF RunStep, confirmation_gate_node, intent_gate_node, tool_exec_node,
     respond_node, Load, Begin, guardrail_node, pass_gate, execute_pending,
     record_executed, decline_pending, ask_again, classify, classify_fails,
     context_gate_node, run_tool, stage_nothing, stage_action, tool_exec_fails,
     answer, ask_repair, escalate, respond_fails, Finish, Fail, Reply,
     GateStep, SuperStep
<1>2. turns \in Nat
  BY DEF TypeInv, TypeOK, Turns
<1> QED BY <1>1, <1>2 DEF Next, Submit, Restart, vars

\* The steps of a run leave alone what was asked.
LEMMA QueryKept ==
    ASSUME NEW s \in Sessions, RunStep(s)
    PROVE  query' = query
  BY DEF RunStep, confirmation_gate_node, intent_gate_node, tool_exec_node,
     respond_node, Load, Begin, guardrail_node, pass_gate, execute_pending,
     record_executed, decline_pending, ask_again, classify, classify_fails,
     context_gate_node, run_tool, stage_nothing, stage_action, tool_exec_fails,
     answer, ask_repair, escalate, respond_fails, Finish, Fail, Reply,
     GateStep, SuperStep

\* A turn before tool_exec, or before its call, was there a step ago or is new.
LEMMA StillEarly ==
    ASSUME TypeInv, [Next]_vars, NEW s \in Sessions
    PROVE  /\ pc'[s] \in Early =>
                 \/ pc[s] \in Early /\ turn'[s] = turn[s]
                 \/ turn'[s] = turns + 1
           /\ pc'[s] \in Early \ {"recording"} =>
                 \/ pc[s] \in Early \ {"recording"} /\ turn'[s] = turn[s]
                 \/ turn'[s] = turns + 1
<1>1. pc \in [Sessions -> Pc] /\ turn \in [Sessions -> Turns \cup {0}]
  BY DEF TypeInv, TypeOK
<1>2. \A here, next : Way(here, next) =>
         /\ next \in Early => here \in Early
         /\ next \in Early \ {"recording"} => here \in Early \ {"recording"}
  BY DEF Way, Early
<1>3. CASE \E t \in Sessions : RunStep(t)
  <2>1. PICK t \in Sessions : RunStep(t)
    BY <1>3
  <2>2. \E next \in Pc : pc' = [pc EXCEPT ![t] = next] /\ Way(pc[t], next)
    BY <2>1, WayOn
  <2> QED BY <1>1, <1>2, <2>1, <2>2, TurnsGrow
<1>4. CASE \E t \in Sessions : Submit(t)
  BY <1>1, <1>4 DEF Submit
<1>5. CASE Restart
  BY <1>1, <1>5 DEF Restart, Early
<1>6. CASE UNCHANGED vars
  BY <1>1, <1>6 DEF vars
<1> QED BY <1>3, <1>4, <1>5, <1>6 DEF Next

\* A superstep holds what was held before and what its channels stage.
LEMMA HeldAfter ==
    ASSUME TypeInv, NEW s \in Sessions, NEW channels, NEW next,
           SuperStep(s, channels, next)
    PROVE  /\ held' \subseteq held \cup {channels.pending_action}
           /\ channels.pending_action # NoAction => channels.pending_action \in held'
<1>1. /\ \A c \in Customers : ckpt'[c] = ckpt[c] \/ ckpt'[c] = channels
      /\ \A t \in Sessions : chan'[t] = chan[t] \/ chan'[t] = channels
      /\ chan'[s] = channels
  BY DEF SuperStep, TypeInv, TypeOK
<1> QED BY <1>1 DEF held

\* The steps that neither stage nor settle a call: copies of staged calls are
\* made from copies, and get lost.
HoldsNoMore == UNCHANGED <<posts, declined>> /\ held' \subseteq held

\* What a step of a session does to the calls that are held.
LEMMA SessionKinds ==
    ASSUME ThreadInv, NEW s \in Sessions, Submit(s) \/ RunStep(s)
    PROVE  \/ HoldsNoMore
           \/ execute_pending(s) \/ decline_pending(s) \/ stage_action(s)
<1>0. TypeInv /\ PendingMatchesFlag /\ GatePassed
  BY DEF ThreadInv, Sound, AtNode, PendingMatchesFlag, GatePassed, GateZone
<1>1. ASSUME NEW channels, NEW next,
             SuperStep(s, channels, next), UNCHANGED <<posts, declined>>,
             channels.pending_action \in {chan[s].pending_action, NoAction}
      PROVE  HoldsNoMore
  <2>1. held' \subseteq held \cup {channels.pending_action}
    BY <1>0, <1>1, HeldAfter
  <2>2. NoAction \notin held'
    BY DEF held
  <2>3. chan[s].pending_action \in held \cup {NoAction}
    BY DEF held
  <2> QED BY <1>1, <2>1, <2>2, <2>3 DEF HoldsNoMore
<1>2. CASE \/ Begin(s) \/ guardrail_node(s)
           \/ pass_gate(s) \/ ask_again(s) \/ classify(s) \/ context_gate_node(s)
           \/ run_tool(s) \/ stage_nothing(s) \/ answer(s) \/ escalate(s)
  <2>1. PICK channels, next : QuietStep(s, channels, next)
    BY <1>0, <1>2, QuietAnywhere
  <2> QED BY <1>1, <2>1 DEF QuietStep
<1>3. CASE record_executed(s)
  BY <1>0, <1>1, <1>3, RecordResults
<1>4. CASE Submit(s) \/ ask_repair(s)
  BY <1>4 DEF Submit, ask_repair, HoldsNoMore, held
<1>5. CASE Load(s)
  <2>1. /\ UNCHANGED <<ckpt, posts, declined>>
        /\ \A t \in Sessions : chan'[t] = chan[t] \/ chan'[t] = ckpt[CustomerOf[s]]
    BY <1>0, <1>5 DEF Load, TypeInv, TypeOK
  <2> QED BY <2>1, CustomerOfAssumption DEF HoldsNoMore, held
<1>6. CASE Finish(s) \/ classify_fails(s) \/ tool_exec_fails(s) \/ respond_fails(s)
  <2>1. /\ UNCHANGED <<ckpt, posts, declined>>
        /\ \A t \in Sessions : chan'[t] = chan[t] \/ chan'[t] = AgentState
    BY <1>0, <1>6 DEF Finish, classify_fails, tool_exec_fails, respond_fails, Fail,
                      Reply, TypeInv, TypeOK
  <2> QED BY <2>1 DEF HoldsNoMore, held, AgentState
<1> QED BY <1>2, <1>3, <1>4, <1>5, <1>6
        DEF RunStep, confirmation_gate_node, intent_gate_node,
            tool_exec_node, respond_node

LEMMA SharedKinds ==
    ASSUME ThreadInv, [Next]_vars
    PROVE  \/ HoldsNoMore
           \/ \E s \in Sessions :
                 execute_pending(s) \/ decline_pending(s) \/ stage_action(s)
<1>1. CASE Restart
  BY <1>1 DEF Restart, HoldsNoMore, held, AgentState
<1>2. CASE UNCHANGED vars
  BY <1>2 DEF vars, HoldsNoMore, held
<1> QED BY <1>1, <1>2, SessionKinds DEF Next

\* A confirmed turn makes the call its channels hold.
LEMMA SharedExecute ==
    ASSUME ThreadInv, SharedInv, NEW s \in Sessions, execute_pending(s)
    PROVE  /\ chan[s].pending_action \in held
           /\ pc[s] = "confirmation_gate" /\ turn[s] \in Turns
           /\ UNCHANGED <<held, declined, turn>>
           /\ \E made : /\ posts' = posts \cup {made}
                       /\ made.action = chan[s].pending_action
                       /\ made.turn = turn[s]
<1>1. PICK made : /\ posts' = posts \cup {made}
                  /\ made.action = chan[s].pending_action
                  /\ made.turn = turn[s]
  BY ExecuteResults
<1>2. pc[s] = "confirmation_gate" /\ UNCHANGED <<ckpt, chan, declined, turn>>
  BY DEF execute_pending
<1>3. chan[s].pending_action \in held
  BY DEF execute_pending, AwaitsConfirmation, held
<1>4. turn[s] \in Turns
  BY <1>2 DEF ThreadInv, TypeInv, TurnAssigned
<1>5. UNCHANGED held
  BY <1>2 DEF held
<1> QED BY <1>1, <1>2, <1>3, <1>4, <1>5

\* A refusal is noted of the call the channels hold.
LEMMA SharedDecline ==
    ASSUME ThreadInv, NEW s \in Sessions, decline_pending(s)
    PROVE  /\ chan[s].pending_action \in held
           /\ declined' = declined \cup {chan[s].pending_action}
           /\ held' \subseteq held /\ posts' = posts
<1>1. PICK channels :
         /\ SuperStep(s, channels, "end") /\ channels.pending_action = NoAction
         /\ posts' = posts /\ declined' = declined \cup {chan[s].pending_action}
         /\ AwaitsConfirmation(chan[s])
  BY DeclineResults DEF ThreadInv
<1>2. held' \subseteq held \cup {NoAction}
  BY <1>1, HeldAfter DEF ThreadInv
<1>3. NoAction \notin held'
  BY DEF held
<1> QED BY <1>1, <1>2, <1>3 DEF AwaitsConfirmation, held

\* A booking or order turn stages one call, of its own number and customer.
LEMMA StagingStep ==
    ASSUME TypeInv, NEW s \in Sessions, stage_action(s)
    PROVE  \E channels :
              LET a == channels.pending_action IN
              /\ SuperStep(s, channels, "respond") /\ pc[s] = "tool_exec"
              /\ UNCHANGED <<posts, declined>>
              /\ a \in Action /\ a # NoAction
              /\ a.customer = CustomerOf[s] /\ a.turn = turn[s]
<1> DEFINE a == [tool |-> ToolFor(chan[s].intent), customer |-> CustomerOf[s],
                 turn |-> turn[s]]
           channels == [ToolResults(s, TRUE) EXCEPT
                          !.pending_action = a, !.needs_confirmation = TRUE]
<1>1. /\ SuperStep(s, channels, "respond") /\ pc[s] = "tool_exec"
      /\ UNCHANGED <<posts, declined>>
  BY DEF stage_action, add_edge
<1>2. chan[s] \in Channels /\ turn[s] \in Turns
  BY <1>1 DEF TypeInv, TypeOK, TurnAssigned
<1>3. a \in Action /\ a # NoAction /\ a.customer = CustomerOf[s] /\ a.turn = turn[s]
  BY <1>2, CustomerOfAssumption, NoActionAssumption DEF Action, ToolFor, Tools
<1> HIDE DEF a
<1>4. channels.pending_action = a
  BY <1>2 DEF ToolResults, Channels
<1> HIDE DEF channels
<1> QED BY <1>1, <1>3, <1>4

LEMMA SharedStage ==
    ASSUME ThreadInv, NEW s \in Sessions, stage_action(s)
    PROVE  \E a \in Action :
              /\ pc[s] = "tool_exec" /\ pc'[s] = "respond" /\ a.turn = turn[s]
              /\ a \in held' /\ held' \subseteq held \cup {a}
              /\ UNCHANGED <<posts, declined, turn, turns>>
<1>1. TypeInv
  BY DEF ThreadInv
<1>2. PICK channels :
         /\ SuperStep(s, channels, "respond") /\ pc[s] = "tool_exec"
         /\ UNCHANGED <<posts, declined>>
         /\ channels.pending_action \in Action
         /\ channels.pending_action # NoAction
         /\ channels.pending_action.turn = turn[s]
  BY <1>1, StagingStep
<1>3. /\ held' \subseteq held \cup {channels.pending_action}
      /\ channels.pending_action \in held'
  BY <1>1, <1>2, HeldAfter
<1>4. pc'[s] = "respond" /\ UNCHANGED <<turn, turns>>
  BY <1>1, <1>2 DEF SuperStep, TypeInv, TypeOK
<1> QED BY <1>2, <1>3, <1>4

\* A number that was sent, and is not that of a turn in such a zone, stays so.
LEMMA SpentStays ==
    ASSUME TypeInv, [Next]_vars, NEW n \in Turns, n <= turns,
           NEW s \in Sessions, NEW zone \in {Early, Early \ {"recording"}},
           pc'[s] \in zone, (pc[s] \in zone) => (n # turn[s])
    PROVE  n # turn'[s]
<1>1. \/ pc[s] \in zone /\ turn'[s] = turn[s]
      \/ turn'[s] = turns + 1
  BY StillEarly
<1>2. n # turns + 1
  BY TurnsGrow DEF Turns
<1> QED BY <1>1, <1>2

LEMMA InitShared == Init => SharedInv
<1> SUFFICES ASSUME Init PROVE SharedInv
  OBVIOUS
<1>1. held = {} /\ posts = {} /\ declined = {}
  BY DEF Init, held, AgentState
<1> QED BY <1>1 DEF SharedInv

LEMMA NextShared ==
    ASSUME ThreadInv, SharedInv, [Next]_vars
    PROVE  SharedInv'
<1> DEFINE Marked == held \cup declined \cup {p.action : p \in posts}
           MarkedOK == \A a \in Marked :
              /\ a \in Action /\ a.turn <= turns
              /\ \A s \in Sessions : pc[s] \in Early => a.turn # turn[s]
           MadeOK == \A p \in posts, s \in Sessions :
              pc[s] \in Early \ {"recording"} => p.turn # turn[s]
<1>1. TypeInv /\ MarkedOK /\ MadeOK
  BY DEF ThreadInv, SharedInv
<1>2. ASSUME NEW a \in Marked
      PROVE  /\ a \in Action /\ a.turn <= turns'
             /\ \A s \in Sessions : pc'[s] \in Early => a.turn # turn'[s]
  <2>1. a \in Action /\ a.turn \in Turns /\ a.turn <= turns
    BY <1>1, <1>2 DEF Action
  <2>2. turns <= turns' /\ turns \in Nat /\ turns' \in Nat
    BY <1>1, NextTypes, TurnsGrow DEF TypeInv, TypeOK, Turns
  <2>3. a.turn <= turns'
    BY <2>1, <2>2 DEF Turns
  <2>4. ASSUME NEW s \in Sessions, pc'[s] \in Early PROVE a.turn # turn'[s]
    <3>1. pc[s] \in Early => a.turn # turn[s]
      BY <1>1, <1>2
    <3> HIDE DEF Marked
    <3> QED BY <1>1, <2>1, <2>4, <3>1, SpentStays
  <2> QED BY <2>1, <2>3, <2>4
<1>3. ASSUME NEW p \in posts, NEW s \in Sessions, pc'[s] \in Early \ {"recording"}
      PROVE  p.turn # turn'[s]
  <2>1. p.turn \in Turns /\ p.turn <= turns
    BY DEF ThreadInv, TypeInv, TypeOK, Post, PostsOwned
  <2> QED BY <1>1, <1>3, <2>1, SpentStays
<1>4. CASE HoldsNoMore
  <2>1. Marked' \subseteq Marked /\ posts' = posts
    BY <1>4 DEF HoldsNoMore
  <2> HIDE DEF Marked
  <2>2. MarkedOK' /\ MadeOK'
    BY <1>2, <1>3, <2>1
  <2> QED BY <2>2 DEF SharedInv, Marked
<1>5. ASSUME NEW s \in Sessions, decline_pending(s)
      PROVE  SharedInv'
  <2>1. Marked' \subseteq Marked /\ posts' = posts
    BY <1>5, SharedDecline
  <2> HIDE DEF Marked
  <2>2. MarkedOK' /\ MadeOK'
    BY <1>2, <1>3, <2>1
  <2> QED BY <2>2 DEF SharedInv, Marked
<1>6. ASSUME NEW s \in Sessions, execute_pending(s)
      PROVE  SharedInv'
  <2>1. PICK made : posts' = posts \cup {made}
                    /\ made.action = chan[s].pending_action /\ made.turn = turn[s]
    BY <1>6, SharedExecute
  <2>2. /\ chan[s].pending_action \in held /\ UNCHANGED <<held, declined, turn>>
        /\ turn[s] \in Turns
    BY <1>6, SharedExecute
  <2>3. Marked' \subseteq Marked
    BY <2>1, <2>2
  <2>4. pc'[s] = "recording"
    BY <1>6, <1>1 DEF execute_pending, TypeInv, TypeOK
  <2>5. \A t \in Sessions : t # s => turn[t] # turn[s]
    BY <2>2 DEF ThreadInv, TurnsUnique, Turns
  <2> HIDE DEF Marked
  <2>6. MarkedOK'
    BY <1>2, <2>3
  <2>7. MadeOK'
    BY <1>3, <2>1, <2>2, <2>4, <2>5
  <2> QED BY <2>6, <2>7 DEF SharedInv, Marked
<1>7. ASSUME NEW s \in Sessions, stage_action(s)
      PROVE  SharedInv'
  <2>1. PICK a \in Action :
           /\ pc[s] = "tool_exec" /\ pc'[s] = "respond" /\ a.turn = turn[s]
           /\ held' \subseteq held \cup {a}
           /\ UNCHANGED <<posts, declined, turn, turns>>
    BY <1>7, SharedStage
  <2>2. Marked' \subseteq Marked \cup {a} /\ posts' = posts
    BY <2>1
  <2>3. turn[s] # 0 /\ turn[s] <= turns
    BY <1>1, <2>1 DEF TypeInv, TurnAssigned, Turns, ThreadInv, TurnsUnique
  <2>4. \A t \in Sessions : pc'[t] \in Early => turn'[t] # a.turn
    BY <2>1, <2>3 DEF ThreadInv, TurnsUnique, Early
  <2> HIDE DEF Marked
  <2>5. MarkedOK' /\ MadeOK'
    BY <1>2, <1>3, <2>1, <2>2, <2>3, <2>4
  <2> QED BY <2>5 DEF SharedInv, Marked
<1> QED BY <1>1, <1>4, <1>5, <1>6, <1>7, SharedKinds

\* Every step is a step of what is left of the promise.
LEMMA NextKeepsShared ==
    ASSUME ThreadInv, SharedInv, [Next]_vars
    PROVE  [Shared!Next]_<<held, receipts, declined>>
<1>1. CASE HoldsNoMore
  BY <1>1 DEF HoldsNoMore, receipts, Shared!Next, Shared!Lose
<1>2. ASSUME NEW s \in Sessions, decline_pending(s)
      PROVE  Shared!Next
  <2>1. chan[s].pending_action \in Action
    BY <1>2, SharedDecline DEF SharedInv
  <2>2. Shared!Decline(chan[s].pending_action)
    BY <1>2, SharedDecline DEF Shared!Decline, receipts
  <2> QED BY <2>1, <2>2 DEF Shared!Next
<1>3. ASSUME NEW s \in Sessions, execute_pending(s)
      PROVE  Shared!Next
  <2> DEFINE a == chan[s].pending_action
  <2>1. PICK made : /\ posts' = posts \cup {made}
                    /\ made.action = a /\ made.turn = turn[s]
    BY <1>3, SharedExecute
  <2>2. /\ a \in held /\ pc[s] = "confirmation_gate" /\ turn[s] \in Turns
        /\ UNCHANGED <<held, declined>>
    BY <1>3, SharedExecute
  <2> HIDE DEF a
  <2>3. a \in Action /\ a.turn # turn[s]
    BY <2>2 DEF SharedInv, Early
  <2>4. \A r \in receipts : r.turn # turn[s]
    BY <2>2 DEF SharedInv, Early, receipts
  <2>5. receipts' = receipts \cup {[action |-> a, turn |-> turn[s]]}
    BY <2>1 DEF receipts
  <2>6. Shared!Execute(a, turn[s])
    BY <2>2, <2>3, <2>4, <2>5 DEF Shared!Execute
  <2> QED BY <2>2, <2>3, <2>6 DEF Shared!Next
<1>4. ASSUME NEW s \in Sessions, stage_action(s)
      PROVE  Shared!Next
  <2>1. PICK a \in Action :
           /\ pc[s] = "tool_exec" /\ a.turn = turn[s]
           /\ a \in held' /\ held' \subseteq held \cup {a}
           /\ UNCHANGED <<posts, declined>>
    BY <1>4, SharedStage
  <2>2. \A b \in held \cup declined : b.turn # a.turn
    BY <2>1 DEF SharedInv, Early
  <2>3. \A r \in receipts : r.turn # a.turn /\ r.action.turn # a.turn
    BY <2>1 DEF SharedInv, Early, receipts
  <2>4. Shared!Stage(a)
    BY <2>1, <2>2, <2>3 DEF Shared!Stage, Shared!Spent, receipts
  <2> QED BY <2>4 DEF Shared!Next
<1> QED BY <1>1, <1>2, <1>3, <1>4, SharedKinds DEF ThreadInv

\* In every deployment, however many tabs run on one thread: a message acts at
\* most once, a call is made only while some thread or running request holds
\* it, and never by the message that staged it; what a restart or the last
\* clearing took away is not made any more.
THEOREM ImplementsShared == Spec => KeepsShared
<1>1. Init => ThreadInv /\ SharedInv /\ Shared!Init
  BY InitThread, InitShared DEF Init, AgentState, held, Shared!Init, receipts
<1>2. ThreadInv /\ SharedInv /\ [Next]_vars => (ThreadInv /\ SharedInv)'
  BY NextTypes, NextThread, NextShared DEF ThreadInv
<1>3. ThreadInv /\ SharedInv /\ [Next]_vars
         => [Shared!Next]_<<held, receipts, declined>>
  BY NextKeepsShared
<1> QED BY <1>1, <1>2, <1>3, PTL DEF Spec, KeepsShared, Shared!Spec

-----------------------------------------------------------------------------
(* Customers with one open tab, in every deployment: AgentGraph implements   *)
(* ConfirmFirst for them                                                     *)

\* The run of a customer's only tab works on the newest checkpoint, whatever
\* the tabs of the others do to theirs.
SinglesOwn ==
    \A s \in Sessions :
        CustomerOf[s] \in SingleTabs /\ pc[s] \notin {"idle", "load"} =>
            chan[s] = ckpt[CustomerOf[s]]

\* What the step of a session does to its own thread and run, and what not to
\* the others'.
LEMMA StepOnThread ==
    ASSUME ThreadInv, NEW s \in Sessions, Submit(s) \/ RunStep(s)
    PROVE  /\ \A c \in Customers : c # CustomerOf[s] => ckpt'[c] = ckpt[c]
           /\ \A t \in Sessions : t # s => chan'[t] = chan[t] /\ pc'[t] = pc[t]
           /\ \/ pc'[s] \in {"idle", "load"}
              \/ chan'[s] = ckpt'[CustomerOf[s]]
              \/ UNCHANGED <<ckpt, chan>> /\ pc[s] \notin {"idle", "load"}
<1>0. TypeInv /\ PendingMatchesFlag /\ GatePassed
  BY DEF ThreadInv, Sound, AtNode, PendingMatchesFlag, GatePassed, GateZone
<1>1. /\ CustomerOf[s] \in Customers /\ ckpt \in [Customers -> Channels]
      /\ chan \in [Sessions -> Channels] /\ pc \in [Sessions -> Pc]
  BY <1>0, CustomerOfAssumption DEF TypeInv, TypeOK
<1>2. CASE \E channels, next : SuperStep(s, channels, next)
  BY <1>1, <1>2 DEF SuperStep
<1>3. CASE Submit(s) \/ Load(s) \/ ask_repair(s) \/ execute_pending(s)
  BY <1>1, <1>3 DEF Submit, Load, ask_repair, execute_pending
<1>4. CASE Finish(s) \/ classify_fails(s) \/ tool_exec_fails(s) \/ respond_fails(s)
  BY <1>1, <1>4 DEF Finish, classify_fails, tool_exec_fails, respond_fails, Fail, Reply
<1>5. CASE \/ Begin(s) \/ guardrail_node(s)
           \/ pass_gate(s) \/ ask_again(s) \/ classify(s) \/ context_gate_node(s)
           \/ run_tool(s) \/ stage_nothing(s) \/ answer(s) \/ escalate(s)
  BY <1>0, <1>2, <1>5, QuietAnywhere DEF QuietStep
<1>6. CASE record_executed(s) \/ decline_pending(s) \/ stage_action(s)
  BY <1>0, <1>2, <1>6, RecordResults, DeclineResults, StagingStep
<1> QED BY <1>3, <1>4, <1>5, <1>6
        DEF RunStep, confirmation_gate_node, intent_gate_node,
            tool_exec_node, respond_node

LEMMA NextSinglesOwn ==
    ASSUME ThreadInv, SinglesOwn, [Next]_vars
    PROVE  SinglesOwn'
<1>1. CASE Restart
  BY <1>1 DEF Restart, SinglesOwn
<1>2. CASE UNCHANGED vars
  BY <1>2 DEF vars, SinglesOwn
<1>3. ASSUME NEW u \in Sessions, Submit(u) \/ RunStep(u),
             NEW s \in Sessions, CustomerOf[s] \in SingleTabs,
             pc'[s] \notin {"idle", "load"}
      PROVE  chan'[s] = ckpt'[CustomerOf[s]]
  <2>1. CASE u = s
    BY <1>3, <2>1, StepOnThread DEF SinglesOwn
  <2>2. CASE u # s
    <3>1. CustomerOf[s] # CustomerOf[u]
      BY <1>3, <2>2 DEF SingleTabs
    <3> QED BY <1>3, <2>2, <3>1, StepOnThread, CustomerOfAssumption DEF SinglesOwn
  <2> QED BY <2>1, <2>2
<1> QED BY <1>1, <1>2, <1>3 DEF Next, SinglesOwn

\* What is staged for the customer of the tab, now and after a step.
LEMMA StagedByTab ==
    ASSUME NEW s \in Sessions, CustomerOf[s] \in SingleTabs
    PROVE  /\ staged[CustomerOf[s]] = IF pc[s] = "recording" THEN NoAction
                                      ELSE ckpt[CustomerOf[s]].pending_action
           /\ staged'[CustomerOf[s]] = IF pc'[s] = "recording" THEN NoAction
                                       ELSE ckpt'[CustomerOf[s]].pending_action
BY DEF staged, SingleTabs

\* The step of a session leaves alone what is staged for other customers ...
LEMMA StagedElsewhere ==
    ASSUME ThreadInv, NEW s \in Sessions, Submit(s) \/ RunStep(s),
           NEW c \in SingleTabs, c # CustomerOf[s]
    PROVE  staged'[c] = staged[c]
<1>1. ckpt'[c] = ckpt[c]
  BY StepOnThread DEF SingleTabs
<1>2. \A t \in Sessions : CustomerOf[t] = c => pc'[t] = pc[t]
  BY StepOnThread
<1> QED BY <1>1, <1>2 DEF staged

LEMMA StagedUpdate ==
    ASSUME ThreadInv, NEW s \in Sessions, Submit(s) \/ RunStep(s),
           NEW a, CustomerOf[s] \in SingleTabs => staged'[CustomerOf[s]] = a
    PROVE  staged' = [staged EXCEPT ![CustomerOf[s]] = a]
<1>1. /\ staged = [c \in SingleTabs |-> staged[c]]
      /\ staged' = [c \in SingleTabs |-> staged'[c]]
  BY DEF staged
<1> QED BY <1>1, StagedElsewhere

\* ... so that nobody who has one tab notices the customers who have several.
LEMMA OthersUnnoticed ==
    ASSUME ThreadInv, NEW s \in Sessions, Submit(s) \/ RunStep(s),
           CustomerOf[s] \notin SingleTabs
    PROVE  UNCHANGED <<staged, theirReceipts, theirDeclined>>
<1>1. staged' = staged
  <2>1. /\ staged = [c \in SingleTabs |-> staged[c]]
        /\ staged' = [c \in SingleTabs |-> staged'[c]]
    BY DEF staged
  <2> QED BY <2>1, StagedElsewhere
<1>2. chan[s].pending_action \in held => chan[s].pending_action.customer \notin SingleTabs
  BY DEF ThreadInv, Sound, held
<1>3. CASE HoldsNoMore \/ stage_action(s)
  BY <1>1, <1>3 DEF HoldsNoMore, stage_action, theirReceipts, theirDeclined, receipts
<1>4. CASE decline_pending(s)
  BY <1>1, <1>2, <1>4, SharedDecline DEF theirReceipts, theirDeclined, receipts
<1>5. CASE execute_pending(s)
  <2>1. PICK made : /\ posts' = posts \cup {made}
                    /\ made.action = chan[s].pending_action
                    /\ made.turn = turn[s]
    BY <1>5, ExecuteResults
  <2>2. /\ chan[s].pending_action.customer \notin SingleTabs
        /\ declined' = declined
    BY <1>2, <1>5 DEF execute_pending, AwaitsConfirmation, held
  <2>3. receipts' = receipts \cup {[action |-> chan[s].pending_action, turn |-> turn[s]]}
    BY <2>1 DEF receipts
  <2> QED BY <1>1, <2>2, <2>3 DEF theirReceipts, theirDeclined
<1> QED BY <1>3, <1>4, <1>5, SessionKinds

\* The steps of a customer's only tab that its promise does not notice.
LEMMA QuietPromise ==
    ASSUME ThreadInv, SinglesOwn, NEW s \in Sessions, Submit(s) \/ RunStep(s),
           CustomerOf[s] \in SingleTabs,
           ~execute_pending(s), ~decline_pending(s), ~stage_action(s)
    PROVE  UNCHANGED <<staged, theirReceipts, theirDeclined>>
<1> DEFINE c == CustomerOf[s]
<1>0. /\ TypeInv /\ PendingMatchesFlag /\ GatePassed
      /\ c \in Customers /\ pc \in [Sessions -> Pc]
  BY CustomerOfAssumption
     DEF ThreadInv, Sound, AtNode, PendingMatchesFlag, GatePassed, GateZone,
         TypeInv, TypeOK
<1>1. UNCHANGED <<posts, declined>>
  BY SessionKinds DEF HoldsNoMore
<1>2. staged'[c] = staged[c]
  <2>1. CASE /\ ckpt'[c].pending_action = ckpt[c].pending_action
             /\ pc[s] # "recording" /\ pc'[s] # "recording"
    BY <2>1, StagedByTab
  <2>2. CASE \/ Begin(s) \/ guardrail_node(s)
             \/ pass_gate(s) \/ ask_again(s) \/ classify(s) \/ context_gate_node(s)
             \/ run_tool(s) \/ stage_nothing(s) \/ answer(s) \/ escalate(s)
    <3>1. PICK channels, next : QuietStep(s, channels, next)
      BY <1>0, <2>2, QuietAnywhere
    <3>2. chan[s] = ckpt[c]
      BY <3>1 DEF SinglesOwn, QuietStep
    <3>3. ckpt'[c] = channels /\ pc'[s] = next
      BY <1>0, <3>1 DEF QuietStep, SuperStep, TypeInv, TypeOK
    <3> QED BY <2>1, <3>1, <3>2, <3>3 DEF QuietStep
  <2>3. CASE \/ Submit(s) \/ Load(s) \/ ask_repair(s) \/ Finish(s)
             \/ classify_fails(s) \/ tool_exec_fails(s) \/ respond_fails(s)
    <3>1. ckpt' = ckpt /\ pc[s] # "recording" /\ pc'[s] # "recording"
      BY <1>0, <2>3 DEF Submit, Load, ask_repair, Finish, classify_fails,
         tool_exec_fails, respond_fails, Fail, Reply
    <3> QED BY <2>1, <3>1
  <2>4. CASE record_executed(s)
    <3>1. PICK channels : /\ SuperStep(s, channels, "respond")
                          /\ channels.pending_action = NoAction
                          /\ pc[s] = "recording"
      BY <1>0, <2>4, RecordResults
    <3>2. ckpt'[c] = channels /\ pc'[s] = "respond"
      BY <1>0, <3>1 DEF SuperStep, TypeInv, TypeOK
    <3> QED BY <3>1, <3>2, StagedByTab
  <2> QED BY <2>2, <2>3, <2>4
          DEF RunStep, confirmation_gate_node, intent_gate_node,
              tool_exec_node, respond_node
<1>3. staged' = [staged EXCEPT ![c] = staged[c]]
  BY <1>2, StagedUpdate
<1>4. staged' = staged
  BY <1>3 DEF staged
<1> QED BY <1>1, <1>4 DEF theirReceipts, theirDeclined, receipts

\* The confirmed call is the promised execution, and recording it is one of
\* the steps above.
LEMMA ExecutePromise ==
    ASSUME ThreadInv, SinglesOwn, NEW s \in Sessions, execute_pending(s),
           CustomerOf[s] \in SingleTabs
    PROVE  Promise!Execute(CustomerOf[s])
<1> DEFINE c == CustomerOf[s]
           a == chan[s].pending_action
<1>1. /\ RunStep(s) /\ pc[s] = "confirmation_gate" /\ pc'[s] = "recording"
      /\ AwaitsConfirmation(chan[s]) /\ declined' = declined
  BY DEF RunStep, confirmation_gate_node, execute_pending, ThreadInv, TypeInv, TypeOK
<1>2. ckpt[c].pending_action = a /\ a # NoAction /\ a.customer = c
  BY <1>1 DEF SinglesOwn, AwaitsConfirmation, ThreadInv, Sound
<1>3. staged[c] = a /\ staged'[c] = NoAction
  BY <1>1, <1>2, StagedByTab
<1>4. staged' = [staged EXCEPT ![c] = NoAction]
  BY <1>1, <1>3, StagedUpdate
<1>5. PICK made : posts' = posts \cup {made} /\ made.action = a /\ made.turn = turn[s]
  BY ExecuteResults
<1> HIDE DEF a
<1>6. receipts' = receipts \cup {[action |-> a, turn |-> turn[s]]}
  BY <1>5 DEF receipts
<1>7. theirReceipts' = theirReceipts \cup {[action |-> a, turn |-> turn[s]]}
  BY <1>2, <1>6 DEF theirReceipts
<1>8. turn[s] \in Turns
  BY <1>1 DEF ThreadInv, TypeInv, TurnAssigned
<1> QED BY <1>1, <1>2, <1>3, <1>4, <1>7, <1>8 DEF Promise!Execute, theirDeclined

LEMMA DeclinePromise ==
    ASSUME ThreadInv, SinglesOwn, NEW s \in Sessions, decline_pending(s),
           CustomerOf[s] \in SingleTabs
    PROVE  Promise!Decline(CustomerOf[s])
<1> DEFINE c == CustomerOf[s]
           a == chan[s].pending_action
<1>0. TypeInv /\ c \in Customers /\ RunStep(s)
  BY CustomerOfAssumption DEF ThreadInv, RunStep, confirmation_gate_node
<1>1. PICK channels :
         /\ SuperStep(s, channels, "end") /\ channels.pending_action = NoAction
         /\ pc[s] = "confirmation_gate" /\ AwaitsConfirmation(chan[s])
         /\ posts' = posts /\ declined' = declined \cup {a}
  BY <1>0, DeclineResults
<1>2. ckpt[c].pending_action = a /\ a # NoAction /\ a.customer = c
  BY <1>1 DEF SinglesOwn, AwaitsConfirmation, ThreadInv, Sound
<1>3. ckpt'[c] = channels /\ pc'[s] = "end"
  BY <1>0, <1>1 DEF SuperStep, TypeInv, TypeOK
<1>4. staged[c] = a /\ staged'[c] = NoAction
  BY <1>1, <1>2, <1>3, StagedByTab
<1>5. staged' = [staged EXCEPT ![c] = NoAction]
  BY <1>0, <1>4, StagedUpdate
<1> HIDE DEF a
<1>6. theirDeclined' = theirDeclined \cup {a}
  BY <1>1, <1>2 DEF theirDeclined
<1>7. theirReceipts' = theirReceipts
  BY <1>1 DEF theirReceipts, receipts
<1> QED BY <1>2, <1>4, <1>5, <1>6, <1>7 DEF Promise!Decline

\* A booking or an order is staged where none was, and it is new.
LEMMA StagePromise ==
    ASSUME ThreadInv, SharedInv, SinglesOwn, NEW s \in Sessions, stage_action(s),
           CustomerOf[s] \in SingleTabs
    PROVE  Promise!Stage(CustomerOf[s])
<1> DEFINE c == CustomerOf[s]
<1>0. TypeInv /\ c \in Customers /\ RunStep(s)
  BY CustomerOfAssumption DEF ThreadInv, RunStep, tool_exec_node
<1>1. PICK channels : LET a == channels.pending_action IN
         /\ SuperStep(s, channels, "respond") /\ pc[s] = "tool_exec"
         /\ UNCHANGED <<posts, declined>>
         /\ a \in Action /\ a.customer = c /\ a.turn = turn[s]
  BY <1>0, StagingStep
<1> DEFINE a == channels.pending_action
<1>2. ckpt[c].pending_action = NoAction
  BY <1>1 DEF SinglesOwn, ThreadInv, AtNode
<1>3. ckpt'[c] = channels /\ pc'[s] = "respond"
  BY <1>0, <1>1 DEF SuperStep, TypeInv, TypeOK
<1>4. staged[c] = NoAction /\ staged'[c] = a
  BY <1>1, <1>2, <1>3, StagedByTab
<1>5. staged' = [staged EXCEPT ![c] = a]
  BY <1>0, <1>4, StagedUpdate
<1>6. ~Promise!Settled(a)
  BY <1>1 DEF Promise!Settled, theirDeclined, theirReceipts, receipts, SharedInv, Early
<1>7. UNCHANGED <<theirReceipts, theirDeclined>>
  BY <1>1 DEF theirReceipts, theirDeclined, receipts
<1> QED BY <1>1, <1>4, <1>5, <1>6, <1>7 DEF Promise!Stage

LEMMA RestartPromise == Restart => Promise!Forget
<1> SUFFICES ASSUME Restart
             PROVE  Promise!Forget
  OBVIOUS
<1>1. UNCHANGED <<theirReceipts, theirDeclined>>
  BY DEF Restart, theirReceipts, theirDeclined, receipts
<1>2. staged' = [c \in SingleTabs |-> NoAction]
  BY DEF Restart, staged, SingleTabs, AgentState
<1> QED BY <1>1, <1>2 DEF Promise!Forget

\* Every step is a step of the promise, or is not noticed.
LEMMA NextPromise ==
    ASSUME ThreadInv, SharedInv, SinglesOwn, [Next]_vars
    PROVE  [Promise!Next]_<<staged, theirReceipts, theirDeclined>>
<1>1. CASE Restart
  BY <1>1, RestartPromise DEF Promise!Next
<1>2. CASE UNCHANGED vars
  BY <1>2 DEF vars, staged, theirReceipts, theirDeclined, receipts
<1>3. ASSUME NEW s \in Sessions, Submit(s) \/ RunStep(s)
      PROVE  Promise!Next \/ UNCHANGED <<staged, theirReceipts, theirDeclined>>
  <2>1. CASE CustomerOf[s] \notin SingleTabs
    BY <1>3, <2>1, OthersUnnoticed
  <2>2. CASE /\ CustomerOf[s] \in SingleTabs
             /\ execute_pending(s) \/ decline_pending(s) \/ stage_action(s)
    BY <2>2, ExecutePromise, DeclinePromise, StagePromise DEF Promise!Next
  <2>3. CASE /\ CustomerOf[s] \in SingleTabs
             /\ ~execute_pending(s) /\ ~decline_pending(s) /\ ~stage_action(s)
    BY <1>3, <2>3, QuietPromise
  <2> QED BY <2>1, <2>2, <2>3
<1> QED BY <1>1, <1>2, <1>3 DEF Next

\* For every customer with one open tab, whatever tabs the others share, the
\* graph, its checkpoints, its failures and its restarts amount to the promise:
\* stage one call at a time, execute it once or drop it, and never stage again
\* what was settled.
THEOREM ImplementsConfirmFirst == Spec => Refinement
<1>1. Init => ThreadInv /\ SharedInv /\ SinglesOwn /\ Promise!Init
  <2>1. ASSUME Init PROVE SinglesOwn /\ Promise!Init
    BY <2>1 DEF Init, SinglesOwn, SingleTabs, Promise!Init, staged, theirReceipts,
       theirDeclined, receipts, AgentState
  <2> QED BY <2>1, InitThread, InitShared
<1>2. ThreadInv /\ SharedInv /\ SinglesOwn /\ [Next]_vars
         => (ThreadInv /\ SharedInv /\ SinglesOwn)'
  BY NextTypes, NextThread, NextShared, NextSinglesOwn DEF ThreadInv
<1>3. ThreadInv /\ SharedInv /\ SinglesOwn /\ [Next]_vars
         => [Promise!Next]_<<staged, theirReceipts, theirDeclined>>
  BY NextPromise
<1> QED BY <1>1, <1>2, <1>3, PTL DEF Spec, Refinement, Promise!Spec

-----------------------------------------------------------------------------
(* A yes reaches the restaurant *)

\* Up to the confirmation gate, a run is where its next node is.
LEMMA StepAt ==
    ASSUME NEW s \in Sessions, RunStep(s)
    PROVE  /\ pc[s] = "load" => Load(s)
           /\ pc[s] = "begin" => Begin(s)
           /\ pc[s] = "guardrail" => guardrail_node(s)
           /\ pc[s] = "confirmation_gate" => confirmation_gate_node(s)
<1>1. /\ Load(s) => pc[s] = "load"
      /\ Begin(s) => pc[s] = "begin"
      /\ guardrail_node(s) => pc[s] = "guardrail"
      /\ confirmation_gate_node(s) => pc[s] \in {"confirmation_gate", "recording"}
  BY DEF Load, Begin, guardrail_node, confirmation_gate_node, pass_gate,
     execute_pending, record_executed, decline_pending, ask_again
<1>2. /\ intent_gate_node(s) => pc[s] = "intent_gate"
      /\ context_gate_node(s) => pc[s] = "context_gate"
      /\ tool_exec_node(s) => pc[s] = "tool_exec"
      /\ respond_node(s) => pc[s] \in {"respond", "repair"}
      /\ Finish(s) => pc[s] = "end"
  BY DEF intent_gate_node, classify, classify_fails, context_gate_node, tool_exec_node,
     run_tool, stage_nothing, stage_action, tool_exec_fails, respond_node, answer,
     ask_repair, escalate, respond_fails, Finish
<1> QED BY <1>1, <1>2 DEF RunStep

\* The run of a yes goes on to the tool call, by its own steps.
LEMMA YesGoesOn ==
    ASSUME ThreadInv, NEW s \in Sessions, RunStep(s), YesUnderWay(s)
    PROVE  YesUnderWay(s)' \/ Called(s)'
<1>1. /\ chan \in [Sessions -> Channels] /\ pc \in [Sessions -> Pc]
      /\ query' = query /\ turn' = turn
  BY TurnsGrow, QueryKept DEF ThreadInv, TypeInv, TypeOK, Next
<1>2. CASE pc[s] = "load"
  <2>1. Load(s)
    BY <1>2, StepAt
  <2> QED BY <1>1, <1>2, <2>1 DEF Load, YesUnderWay
<1>3. CASE pc[s] = "begin"
  <2>1. Begin(s)
    BY <1>3, StepAt
  <2> QED BY <1>1, <1>3, <2>1 DEF Begin, SuperStep, YesUnderWay
<1>4. CASE pc[s] = "guardrail"
  <2>1. guardrail_node(s)
    BY <1>4, StepAt
  <2>2. SuperStep(s, chan[s], "confirmation_gate")
    BY <1>4, <2>1 DEF guardrail_node, route_after_guardrail, YesUnderWay
  <2> QED BY <1>1, <1>4, <2>2 DEF SuperStep, YesUnderWay
<1>5. CASE pc[s] = "confirmation_gate"
  <2>1. execute_pending(s)
    BY <1>5, StepAt DEF YesUnderWay, confirmation_gate_node, pass_gate,
       execute_pending, record_executed, decline_pending, ask_again
  <2> QED BY <1>1, <2>1, ExecuteResults DEF Called
<1> QED BY <1>2, <1>3, <1>4, <1>5 DEF YesUnderWay

\* Nothing that other sessions do takes it off its way.
LEMMA YesStays ==
    ASSUME ThreadInv, NEW s \in Sessions, NEW u \in Sessions, u # s,
           Submit(u) \/ RunStep(u), YesUnderWay(s)
    PROVE  YesUnderWay(s)'
<1>1. pc'[s] = pc[s] /\ chan'[s] = chan[s]
  BY StepOnThread
<1>2. query'[s] = query[s]
  BY QueryKept DEF Submit, ThreadInv, TypeInv, TypeOK
<1>3. CustomerOf[s] \in SingleTabs => ckpt'[CustomerOf[s]] = ckpt[CustomerOf[s]]
  BY StepOnThread, CustomerOfAssumption DEF SingleTabs
<1> QED BY <1>1, <1>2, <1>3 DEF YesUnderWay

\* In every deployment, for any number of sessions, tabs and requests: a yes to
\* a staged call ends in the tool call, if every request ends; it is not lost
\* on the way, whatever else the same run, another tab or another customer
\* does, but for a restart of the process.
THEOREM YesReachesRestaurant ==
    Spec /\ EveryRequestAnswered => ConfirmationHonoured
<1>1. ASSUME ThreadInv, [Next]_vars, NEW s \in Sessions, YesUnderWay(s)
      PROVE  YesUnderWay(s)' \/ Called(s)' \/ restarts' # restarts
  <2>1. CASE Restart
    BY <1>1, <2>1 DEF Restart, ThreadInv, TypeInv, TypeOK
  <2>2. CASE UNCHANGED vars
    BY <1>1, <2>2 DEF vars, YesUnderWay
  <2>3. ASSUME NEW u \in Sessions, Submit(u) \/ RunStep(u)
        PROVE  YesUnderWay(s)' \/ Called(s)'
    <3>1. CASE u # s
      BY <1>1, <2>3, <3>1, YesStays
    <3>2. CASE u = s
      <4>1. ~Submit(s)
        BY <1>1 DEF YesUnderWay, Submit
      <4> QED BY <1>1, <2>3, <3>2, <4>1, YesGoesOn
    <3> QED BY <3>1, <3>2
  <2> QED BY <1>1, <2>1, <2>2, <2>3 DEF Next
<1>2. ThreadInv /\ [Next]_vars
         => [\A s \in Sessions : YesUnderWay(s) =>
                YesUnderWay(s)' \/ Called(s)' \/ restarts' # restarts]_vars
  BY <1>1
<1>3. Spec => [][\A s \in Sessions : YesUnderWay(s) =>
                    YesUnderWay(s)' \/ Called(s)' \/ restarts' # restarts]_vars
  BY <1>2, ThreadsSound, PTL DEF Spec
<1>4. ASSUME NEW s \in Sessions
      PROVE  []<>(pc[s] = "idle") => []<>~YesUnderWay(s)
  <2>1. pc[s] = "idle" => ~YesUnderWay(s)
    BY DEF YesUnderWay
  <2> QED BY <2>1, PTL
<1>5. EveryRequestAnswered => \A s \in Sessions : []<>~YesUnderWay(s)
  BY <1>4 DEF EveryRequestAnswered
<1> QED BY <1>3, <1>5 DEF ConfirmationHonoured

-----------------------------------------------------------------------------
(* One open tab per customer: a call is staged by an earlier request *)

\* The invariant of a deployment with one open tab per customer holds.
THEOREM OneTabSound == OneSessionEach => (Spec => []OneTabInv)
<1> SUFFICES ASSUME OneSessionEach
             PROVE  Spec => []OneTabInv
  OBVIOUS
<1>1. Init => OneTabInv
  BY InitOneTab
<1>2. OneTabInv /\ [Next]_vars => OneTabInv'
  BY NextTypes, NextOneTab DEF OneTabInv
<1> QED BY <1>1, <1>2, PTL DEF Spec

\* What a thread has staged is older than the request at work on it.
StagedBefore ==
    \A s \in Sessions :
        LET a == ckpt[CustomerOf[s]].pending_action IN
        pc[s] \in Early /\ a # NoAction => a.turn < turn[s]

\* A step that stages nothing, and sends no request, keeps it.
LEMMA StagedBeforeKept ==
    ASSUME StagedBefore, UNCHANGED turn,
           \A c \in Customers : ckpt'[c].pending_action = ckpt[c].pending_action,
           \A s \in Sessions : pc'[s] \in Early => pc[s] \in Early
    PROVE  StagedBefore'
BY CustomerOfAssumption DEF StagedBefore

LEMMA NextStagedBefore ==
    ASSUME OneSessionEach, OneTabInv, StagedBefore, [Next]_vars
    PROVE  StagedBefore'
<1>1. ASSUME NEW s \in Sessions, Submit(s)
      PROVE  StagedBefore'
  <2>1. /\ UNCHANGED ckpt /\ turn'[s] = turns + 1
        /\ \A t \in Sessions : t # s => pc'[t] = pc[t] /\ turn'[t] = turn[t]
    BY <1>1 DEF Submit, OneTabInv, TypeInv, TypeOK
  <2>2. ASSUME ckpt[CustomerOf[s]].pending_action # NoAction
        PROVE  ckpt[CustomerOf[s]].pending_action.turn < turns + 1
    <3> DEFINE a == ckpt[CustomerOf[s]].pending_action
    <3>1. a \in Action /\ turns \in Nat
      BY <2>2, CustomerOfAssumption DEF OneTabInv, TypeInv, TypeOK, Channels, Turns
    <3>2. Seen(a)
      BY CustomerOfAssumption DEF Seen
    <3>3. a.turn \in Nat /\ a.turn <= turns
      BY <3>1, <3>2 DEF OneTabInv, StagedOnce, Action, Turns
    <3> QED BY <3>1, <3>3
  <2> QED BY <2>1, <2>2 DEF StagedBefore
<1>2. ASSUME NEW s \in Sessions,
             Load(s) \/ ask_repair(s) \/ execute_pending(s)
             \/ Finish(s) \/ classify_fails(s) \/ tool_exec_fails(s) \/ respond_fails(s)
      PROVE  StagedBefore'
  <2>1. /\ UNCHANGED <<ckpt, turn>>
        /\ \A t \in Sessions : pc'[t] \in Early => pc[t] \in Early
    BY <1>2 DEF Load, ask_repair, execute_pending, Finish, classify_fails, tool_exec_fails,
                respond_fails, Fail, Reply, Early, OneTabInv, TypeInv, TypeOK
  <2> QED BY <2>1, StagedBeforeKept
<1>3. ASSUME NEW s \in Sessions,
             \/ Begin(s) \/ guardrail_node(s)
             \/ pass_gate(s) \/ ask_again(s) \/ classify(s) \/ context_gate_node(s)
             \/ run_tool(s) \/ stage_nothing(s) \/ answer(s) \/ escalate(s)
      PROVE  StagedBefore'
  <2>1. PICK channels, next : QuietStep(s, channels, next)
    BY <1>3, QuietNodes
  <2> QED BY <2>1, QuietEffect, StagedBeforeKept
<1>4. ASSUME NEW s \in Sessions,
             record_executed(s) \/ decline_pending(s) \/ stage_action(s)
      PROVE  StagedBefore'
  <2>1. PICK next \in {"respond", "end"} :
           \E channels : SuperStep(s, channels, next)
    BY <1>4, RecordResults, DeclineResults, StagedCall DEF OneTabInv
  <2>2. /\ pc'[s] \notin Early /\ UNCHANGED turn
        /\ \A t \in Sessions : t # s =>
              pc'[t] = pc[t] /\ ckpt'[CustomerOf[t]] = ckpt[CustomerOf[t]]
    BY <2>1, StepEffect, CustomerOfAssumption DEF Early, OneSessionEach
  <2> QED BY <2>2 DEF StagedBefore
<1>5. CASE Restart
  BY <1>5 DEF Restart, StagedBefore, Early
<1>6. CASE UNCHANGED vars
  BY <1>6 DEF vars, StagedBefore
<1> QED BY <1>1, <1>2, <1>3, <1>4, <1>5, <1>6
           DEF Next, RunStep, confirmation_gate_node, intent_gate_node,
               tool_exec_node, respond_node

\* Only a confirmed call is added to the calls made, and what it executes was
\* staged before the request that executes it.
LEMMA NextExecuted ==
    ASSUME OneSessionEach, OneTabInv, StagedBefore, ExecutedInLaterTurn, [Next]_vars
    PROVE  ExecutedInLaterTurn'
<1>1. ASSUME NEW s \in Sessions, execute_pending(s)
      PROVE  ExecutedInLaterTurn'
  <2> DEFINE a == chan[s].pending_action
             call(ok) == [action |-> a, turn |-> turn[s], ok |-> ok]
  <2>1. PICK ok \in BOOLEAN : posts' = posts \cup {call(ok)}
    BY <1>1 DEF execute_pending
  <2>2. a = ckpt[CustomerOf[s]].pending_action /\ a # NoAction
    BY <1>1, AwaitedCall DEF execute_pending, AwaitsConfirmation
  <2>3. a.turn < turn[s]
    BY <1>1, <2>2 DEF StagedBefore, execute_pending, Early
  <2>4. call(ok).action.turn < call(ok).turn
    BY <2>3
  <2> HIDE DEF call
  <2> QED BY <2>1, <2>4 DEF ExecutedInLaterTurn
<1>2. ASSUME NEW s \in Sessions,
             record_executed(s) \/ decline_pending(s) \/ stage_action(s)
      PROVE  UNCHANGED posts
  BY <1>2 DEF record_executed, decline_pending, stage_action
<1>3. Keeps \/ Restart => UNCHANGED posts
  BY DEF Keeps, Restart
<1> QED BY <1>1, <1>2, <1>3, StepKinds DEF ExecutedInLaterTurn

\* No message both assembles a booking and places it: the call a turn makes
\* was staged, and could be summarised to the user, by an earlier request.
THEOREM StagedEarlier == OneSessionEach => (Spec => []ExecutedInLaterTurn)
<1> SUFFICES ASSUME OneSessionEach
             PROVE  Spec => []ExecutedInLaterTurn
  OBVIOUS
<1> DEFINE Inv == OneTabInv /\ StagedBefore /\ ExecutedInLaterTurn
<1>1. Init => Inv
  BY InitOneTab DEF Init, StagedBefore, Early, ExecutedInLaterTurn
<1>2. Inv /\ [Next]_vars => Inv'
  BY NextTypes, NextOneTab, NextStagedBefore, NextExecuted DEF OneTabInv
<1>3. Inv => ExecutedInLaterTurn
  OBVIOUS
<1> HIDE DEF Inv
<1> QED BY <1>1, <1>2, <1>3, PTL DEF Spec
-----------------------------------------------------------------------------
(* One open tab per customer: the trace a reply shows *)

\* Where a run goes from a node that ends with a checkpoint.
LEMMA NodeStepWay ==
    ASSUME TypeInv, NEW s \in Sessions, NodeStep(s)
    PROVE  /\ pc[s] \notin {"idle", "load", "end"}
           /\ UNCHANGED <<turn, turns>>
           /\ \E next \in Nodes :
                 /\ pc' = [pc EXCEPT ![s] = next]
                 /\ pc[s] = "begin" <=> next = "guardrail"
                 /\ \/ UNCHANGED historyVars /\ pc[s] # "guardrail" /\ pc[s] # "begin"
                    \/ \E n \in {0, 1} : Log(s, n) /\ (pc[s] = "guardrail" => n = 1)
<1>1. \A channels \in Channels : route_after_guardrail(channels) \in {"end", "confirmation_gate"}
  BY DEF route_after_guardrail
<1>2. CASE (Begin(s) \/ pass_gate(s)) /\ Log(s, 0)
  <2>1. CASE Begin(s)
    BY <1>2, <2>1 DEF Begin, SuperStep, Nodes
  <2>2. CASE pass_gate(s)
    <3> DEFINE channels == [chan[s] EXCEPT !.route = "continue"]
    <3>1. pc[s] = "confirmation_gate" /\ GateStep(s, channels)
      BY <2>2 DEF pass_gate
    <3>2. chan[s] \in Channels
      BY <3>1, NodeResults
    <3>3. channels.route = "continue"
      BY <3>2 DEF Channels
    <3> HIDE DEF channels
    <3>4. route_after_confirmation(channels) = "intent_gate"
      BY <3>3 DEF route_after_confirmation
    <3> QED BY <1>2, <3>1, <3>4 DEF GateStep, SuperStep, Nodes
  <2> QED BY <1>2, <2>1, <2>2
<1>3. CASE guardrail_node(s) /\ Log(s, 1)
  <2>1. pc[s] # "idle" /\ pc[s] = "guardrail"
    BY <1>3 DEF guardrail_node
  <2>2. chan[s] \in Channels /\ rejected(s) \in Channels
    BY <2>1, NodeResults
  <2> QED BY <1>1, <1>3, <2>1, <2>2 DEF guardrail_node, SuperStep, Nodes
<1>4. CASE (record_executed(s) \/ decline_pending(s) \/ ask_again(s)) /\ Log(s, 1)
  <2>1. pc[s] \in {"recording", "confirmation_gate"}
    BY <1>4 DEF record_executed, decline_pending, ask_again
  <2>2. \E channels : GateStep(s, channels) /\ channels.route \in {"respond", "end"}
    <3>1. cleared(chan[s]) \in Channels /\ chan[s] \in Channels
      BY <2>1, NodeResults
    <3>2. CASE record_executed(s)
      <4> DEFINE channels == [cleared(chan[s]) EXCEPT
                                 !.tool_results = [turn |-> turn[s], awaiting |-> FALSE],
                                 !.route = "respond"]
      <4>1. GateStep(s, channels)
        BY <3>2 DEF record_executed
      <4>2. channels.route = "respond"
        BY <3>1 DEF Channels
      <4> QED BY <4>1, <4>2
    <3>3. CASE decline_pending(s)
      <4> DEFINE channels == [cleared(chan[s]) EXCEPT !.final_answer = turn[s],
                                 !.status = "done", !.route = "end"]
      <4>1. GateStep(s, channels)
        BY <3>3 DEF decline_pending
      <4>2. channels.route = "end"
        BY <3>1 DEF Channels
      <4> QED BY <4>1, <4>2
    <3>4. CASE ask_again(s)
      <4> DEFINE channels == [chan[s] EXCEPT !.final_answer = turn[s],
                                 !.status = "needs_clarification", !.route = "end"]
      <4>1. GateStep(s, channels)
        BY <3>4 DEF ask_again
      <4>2. channels.route = "end"
        BY <3>1 DEF Channels
      <4> QED BY <4>1, <4>2
    <3> QED BY <1>4, <3>2, <3>3, <3>4
  <2>3. PICK channels : GateStep(s, channels) /\ channels.route \in {"respond", "end"}
    BY <2>2
  <2>4. route_after_confirmation(channels) \in {"respond", "end"}
    BY <2>3 DEF route_after_confirmation
  <2> QED BY <1>4, <2>1, <2>3, <2>4 DEF GateStep, SuperStep, Nodes
<1>5. CASE (classify(s) \/ run_tool(s) \/ stage_nothing(s) \/ stage_action(s)
             \/ answer(s) \/ escalate(s)) /\ Log(s, 1)
  BY <1>5 DEF classify, run_tool, stage_nothing, stage_action, answer, escalate,
              SuperStep, add_edge, Nodes
<1>6. CASE context_gate_node(s) /\ Log(s, ContextLines(s))
  BY <1>6 DEF context_gate_node, ContextLines, SuperStep, add_edge, Nodes
<1>7. CASE (execute_pending(s) \/ ask_repair(s)) /\ UNCHANGED historyVars
  BY <1>7 DEF execute_pending, ask_repair, Nodes
<1> QED BY <1>2, <1>3, <1>4, <1>5, <1>6, <1>7 DEF NodeStep

\* The trace goes with the steps of AgentGraph and adds none.
LEMMA HistoryStep == [HistoryNext]_<<vars, historyVars>> => [Next]_vars
<1>1. ASSUME NEW s \in Sessions, NodeStep(s) PROVE RunStep(s)
  BY <1>1 DEF NodeStep, RunStep, confirmation_gate_node, intent_gate_node, tool_exec_node, respond_node
<1>2. ASSUME NEW s \in Sessions, no_trace(s) PROVE RunStep(s)
  BY <1>2 DEF no_trace, RunStep, intent_gate_node, tool_exec_node, respond_node
<1>3. ASSUME NEW s \in Sessions, submit(s) \/ load_trace(s) \/ reply_trace(s)
      PROVE  Submit(s) \/ RunStep(s)
  BY <1>3 DEF submit, load_trace, reply_trace, RunStep
<1>4. ASSUME NEW s \in Sessions, read_length(s) PROVE UNCHANGED vars
  BY <1>4 DEF read_length
<1>5. restart => Restart
  BY DEF restart
<1> QED BY <1>1, <1>2, <1>3, <1>4, <1>5 DEF HistoryNext, Next

\* Lines added to a trace leave those before them in place.
LEMMA LinesAdded ==
    ASSUME NEW lines \in Seq(Turns), NEW t \in Turns, NEW n \in Nat
    PROVE  LET longer == reduce(lines, LinesOf(t, n)) IN
           /\ longer \in Seq(Turns) /\ Len(lines) \in Nat
           /\ Len(longer) = Len(lines) + n
           /\ DOMAIN lines = 1..Len(lines) /\ DOMAIN longer = 1..Len(longer)
           /\ \A i \in DOMAIN lines : longer[i] = lines[i]
           /\ \A i \in DOMAIN longer \ DOMAIN lines : longer[i] = t
           /\ SubSeq(longer, 1, Len(lines)) = lines
<1> DEFINE more == LinesOf(t, n)
           longer == reduce(lines, more)
<1>1. more \in Seq(Turns)
  BY IsASeq DEF LinesOf
<1>2. Len(more) = n /\ \A i \in 1..n : more[i] = t
  <2>1. DOMAIN more = 1..n /\ n \in Nat /\ \A i \in 1..n : more[i] = t
    BY DEF LinesOf
  <2>2. DOMAIN more = 1..Len(more) /\ Len(more) \in Nat
    BY <1>1, LenProperties
  <2>3. Len(more) = n
    BY <2>1, <2>2
  <2> QED BY <2>1, <2>3
<1> HIDE DEF more
<1>3. longer = lines \o more
  BY DEF reduce
<1> HIDE DEF longer
<1>4. /\ longer \in Seq(Turns) /\ Len(longer) = Len(lines) + Len(more)
      /\ \A i \in 1..(Len(lines) + Len(more)) :
            longer[i] = IF i <= Len(lines) THEN lines[i] ELSE more[i - Len(lines)]
  <2>1. /\ lines \o more \in Seq(Turns) /\ Len(lines \o more) = Len(lines) + Len(more)
        /\ \A i \in 1..(Len(lines) + Len(more)) :
              (lines \o more)[i] = IF i <= Len(lines) THEN lines[i] ELSE more[i - Len(lines)]
    BY <1>1, ConcatProperties, Zenon
  <2> QED BY <1>3, <2>1, Zenon
<1>5. /\ Len(lines) \in Nat /\ DOMAIN lines = 1..Len(lines)
      /\ DOMAIN longer = 1..Len(longer)
  BY <1>4, LenProperties
<1>6. /\ \A i \in DOMAIN lines : longer[i] = lines[i]
      /\ \A i \in DOMAIN longer \ DOMAIN lines : longer[i] = t
  <2>1. n \in Nat /\ Len(longer) = Len(lines) + n
    BY <1>2, <1>4
  <2>2. ASSUME NEW i \in DOMAIN lines PROVE longer[i] = lines[i]
    <3>1. i \in 1..(Len(lines) + Len(more)) /\ i <= Len(lines)
      BY <1>2, <1>5, <2>1
    <3> QED BY <1>4, <3>1
  <2>3. ASSUME NEW i \in DOMAIN longer \ DOMAIN lines PROVE longer[i] = t
    <3>1. i \in 1..(Len(lines) + Len(more)) /\ ~(i <= Len(lines)) /\ i - Len(lines) \in 1..n
      BY <1>2, <1>5, <2>1
    <3>2. longer[i] = more[i - Len(lines)]
      BY <1>4, <3>1
    <3> QED BY <1>2, <3>1, <3>2
  <2> QED BY <2>2, <2>3
<1>7. SubSeq(longer, 1, Len(lines)) = lines
  <2>1. \A i \in 1..Len(lines) : longer[i] \in Turns
    BY <1>5, <1>6, ElementOfSeq
  <2>2. /\ SubSeq(longer, 1, Len(lines)) \in Seq(Turns)
        /\ Len(SubSeq(longer, 1, Len(lines))) = Len(lines)
        /\ \A i \in 1..Len(lines) : SubSeq(longer, 1, Len(lines))[i] = longer[i]
    BY <1>5, <2>1, SubSeqProperties
  <2> QED BY <1>5, <1>6, <2>2, SeqEqual
<1> QED BY <1>2, <1>4, <1>5, <1>6, <1>7 DEF longer, more

\* Only the session that takes a step has to be looked at again.
LEMMA OthersKeepLines ==
    ASSUME OneSessionEach, HistoryInv, NEW s \in Sessions,
           thread_trace' \in [Customers -> Seq(Turns)],
           prior_trace_len' \in [Sessions -> Nat \cup {NotRead}],
           trace' \in [Sessions -> Seq(Turns)], shown' \in [Sessions -> Seq(Turns)],
           \A c \in Customers \ {CustomerOf[s]} : thread_trace'[c] = thread_trace[c],
           \A t \in Sessions \ {s} :
               /\ pc'[t] = pc[t] /\ turn'[t] = turn[t] /\ trace'[t] = trace[t]
               /\ prior_trace_len'[t] = prior_trace_len[t],
           turns \in Nat, turns' \in Nat, turns <= turns',
           \A i \in DOMAIN thread_trace'[CustomerOf[s]] : thread_trace'[CustomerOf[s]][i] <= turns',
           OwnLines(s, thread_trace[CustomerOf[s]])'
    PROVE  HistoryInv'
<1>1. \A t \in Sessions \ {s} : CustomerOf[t] \in Customers \ {CustomerOf[s]}
  BY CustomerOfAssumption DEF OneSessionEach
<1>2. ASSUME NEW t \in Sessions \ {s} PROVE OwnLines(t, thread_trace[CustomerOf[t]])'
  <2>1. thread_trace'[CustomerOf[t]] = thread_trace[CustomerOf[t]]
    BY <1>1, <1>2
  <2>2. OwnLines(t, thread_trace[CustomerOf[t]])
    BY DEF HistoryInv
  <2> QED BY <2>1, <2>2 DEF OwnLines
<1>3. ASSUME NEW c \in Customers \ {CustomerOf[s]}, NEW i \in DOMAIN thread_trace'[c]
      PROVE  thread_trace'[c][i] <= turns'
  <2>1. i \in DOMAIN thread_trace[c] /\ thread_trace'[c] = thread_trace[c]
    BY <1>3
  <2>2. thread_trace[c][i] <= turns /\ thread_trace[c][i] \in Nat
    <3>1. i \in 1..Len(thread_trace[c]) /\ thread_trace[c] \in Seq(Turns)
      BY <2>1, LenProperties DEF HistoryInv
    <3>2. thread_trace[c][i] \in Turns
      BY <3>1, ElementOfSeq
    <3> QED BY <2>1, <3>2 DEF HistoryInv, Turns
  <2> QED BY <2>1, <2>2
<1>4. \A c \in Customers : \A i \in DOMAIN thread_trace'[c] : thread_trace'[c][i] <= turns'
  BY <1>3
<1>5. \A t \in Sessions : OwnLines(t, thread_trace[CustomerOf[t]])'
  BY <1>2
<1> QED BY <1>4, <1>5 DEF HistoryInv

\* What a session finds in its customer's thread.
LEMMA FoundLines ==
    ASSUME ThreadInv, HistoryInv, NEW s \in Sessions
    PROVE  LET lines == thread_trace[CustomerOf[s]] IN
           /\ CustomerOf[s] \in Customers
           /\ lines \in Seq(Turns) /\ Len(lines) \in Nat /\ DOMAIN lines = 1..Len(lines)
           /\ \A i \in DOMAIN lines : lines[i] \in Nat /\ lines[i] <= turns
           /\ turns \in Nat /\ turn[s] \in Nat /\ turn[s] <= turns
<1> DEFINE lines == thread_trace[CustomerOf[s]]
<1>1. CustomerOf[s] \in Customers
  BY CustomerOfAssumption
<1>2. lines \in Seq(Turns)
  BY <1>1 DEF HistoryInv
<1>3. Len(lines) \in Nat /\ DOMAIN lines = 1..Len(lines)
  BY <1>2, LenProperties
<1>4. ASSUME NEW i \in DOMAIN lines PROVE lines[i] \in Nat /\ lines[i] <= turns
  <2>1. lines[i] \in Turns
    BY <1>2, <1>3, ElementOfSeq
  <2> QED BY <1>1, <2>1 DEF HistoryInv, Turns
<1>5. turns \in Nat /\ turn[s] \in Nat /\ turn[s] <= turns
  BY DEF ThreadInv, TypeInv, TypeOK, TurnsUnique, Turns
<1> QED BY <1>1, <1>2, <1>3, <1>4, <1>5

LEMMA SubmitHistory ==
    ASSUME OneSessionEach, ThreadInv, HistoryInv, NEW s \in Sessions, submit(s)
    PROVE  HistoryInv'
<1>1. /\ pc[s] = "idle" /\ pc' = [pc EXCEPT ![s] = "load"]
      /\ turn' = [turn EXCEPT ![s] = turns + 1] /\ turns' = turns + 1
      /\ shown' = [shown EXCEPT ![s] = <<>>]
      /\ UNCHANGED <<thread_trace, trace, prior_trace_len>>
  BY DEF submit, Submit
<1>2. pc \in [Sessions -> Pc] /\ turn \in [Sessions -> Turns \cup {0}]
  BY DEF ThreadInv, TypeInv, TypeOK
<1>3. OwnLines(s, thread_trace[CustomerOf[s]])'
  BY <1>1, <1>2, FoundLines DEF HistoryInv, OwnLines
<1>4. \A i \in DOMAIN thread_trace'[CustomerOf[s]] : thread_trace'[CustomerOf[s]][i] <= turns'
  <2>1. \A i \in DOMAIN thread_trace[CustomerOf[s]] :
            /\ thread_trace[CustomerOf[s]][i] \in Nat /\ turns \in Nat
            /\ thread_trace[CustomerOf[s]][i] <= turns
    BY FoundLines
  <2> QED BY <1>1, <2>1
<1>5. /\ thread_trace' \in [Customers -> Seq(Turns)]
      /\ prior_trace_len' \in [Sessions -> Nat \cup {NotRead}]
      /\ trace' \in [Sessions -> Seq(Turns)] /\ shown' \in [Sessions -> Seq(Turns)]
  BY <1>1, EmptySeq DEF HistoryInv
<1>6. turns \in Nat /\ turns' \in Nat /\ turns <= turns'
  BY <1>1, FoundLines
<1> QED BY <1>1, <1>2, <1>3, <1>4, <1>5, <1>6, OthersKeepLines

LEMMA ReadHistory ==
    ASSUME OneSessionEach, ThreadInv, HistoryInv, NEW s \in Sessions,
           read_length(s) \/ load_trace(s)
    PROVE  HistoryInv'
<1> DEFINE lines == thread_trace[CustomerOf[s]]
<1>1. pc \in [Sessions -> Pc] /\ turn \in [Sessions -> Turns \cup {0}]
  BY DEF ThreadInv, TypeInv, TypeOK
<1>2. /\ pc[s] = "load" /\ UNCHANGED <<turn, turns, thread_trace, shown>>
      /\ \/ /\ prior_trace_len' = [prior_trace_len EXCEPT ![s] = Len(lines)]
            /\ UNCHANGED <<pc, trace>>
         \/ /\ prior_trace_len[s] # NotRead /\ UNCHANGED prior_trace_len
            /\ pc' = [pc EXCEPT ![s] = "begin"] /\ trace' = [trace EXCEPT ![s] = lines]
  BY DEF read_length, get_state, load_trace, Load, vars
<1>3. OwnLines(s, lines)
  BY DEF HistoryInv
<1>4. /\ \A i \in DOMAIN lines : lines[i] # turn[s]
      /\ prior_trace_len[s] \in {NotRead, Len(lines)}
  BY <1>2, <1>3 DEF OwnLines
<1>5. OwnLines(s, lines)'
  <2>1. trace \in [Sessions -> Seq(Turns)] /\ prior_trace_len \in [Sessions -> Nat \cup {NotRead}]
    BY DEF HistoryInv
  <2> HIDE DEF lines
  <2>2. lines' = lines
    BY <1>2 DEF lines
  <2>3. Len(lines) \in Nat /\ DOMAIN lines = 1..Len(lines)
    BY FoundLines DEF lines
  <2>4. CASE UNCHANGED pc /\ prior_trace_len' = [prior_trace_len EXCEPT ![s] = Len(lines)]
    BY <1>2, <1>4, <2>1, <2>2, <2>4 DEF OwnLines
  <2>5. CASE /\ prior_trace_len[s] # NotRead /\ UNCHANGED prior_trace_len
             /\ pc' = [pc EXCEPT ![s] = "begin"] /\ trace' = [trace EXCEPT ![s] = lines]
    <3>1. pc'[s] = "begin" /\ trace'[s] = lines /\ prior_trace_len'[s] = Len(lines)
      BY <1>1, <1>4, <2>1, <2>5
    <3>2. \A i \in DOMAIN lines : ~(i > Len(lines)) /\ lines[i] # turn'[s]
      BY <1>2, <1>4, <2>3
    <3> QED BY <2>2, <2>3, <3>1, <3>2 DEF OwnLines
  <2> QED BY <1>2, <2>4, <2>5 DEF lines
<1>6. \A i \in DOMAIN thread_trace'[CustomerOf[s]] : thread_trace'[CustomerOf[s]][i] <= turns'
  BY <1>2, FoundLines
<1>7. /\ thread_trace' \in [Customers -> Seq(Turns)]
      /\ prior_trace_len' \in [Sessions -> Nat \cup {NotRead}]
      /\ trace' \in [Sessions -> Seq(Turns)] /\ shown' \in [Sessions -> Seq(Turns)]
  BY <1>2, FoundLines DEF HistoryInv
<1>8. turns \in Nat /\ turns' \in Nat /\ turns <= turns'
  BY <1>2, FoundLines
<1>9. \A t \in Sessions \ {s} :
          /\ pc'[t] = pc[t] /\ turn'[t] = turn[t] /\ trace'[t] = trace[t]
          /\ prior_trace_len'[t] = prior_trace_len[t]
  BY <1>1, <1>2 DEF HistoryInv
<1> HIDE DEF lines
<1>10. OwnLines(s, thread_trace[CustomerOf[s]])'
  BY <1>5 DEF lines
<1> QED BY <1>2, <1>6, <1>7, <1>8, <1>9, <1>10, OthersKeepLines

\* A node adds lines of its own turn, or none.
LEMMA NodeHistory ==
    ASSUME OneSessionEach, ThreadInv, HistoryInv, NEW s \in Sessions, NodeStep(s)
    PROVE  /\ HistoryInv'
           /\ \A c \in Customers :
                 /\ Len(thread_trace[c]) <= Len(thread_trace'[c])
                 /\ SubSeq(thread_trace'[c], 1, Len(thread_trace[c])) = thread_trace[c]
<1> DEFINE lines == thread_trace[CustomerOf[s]]
<1>1. /\ pc \in [Sessions -> Pc] /\ turn[s] \in Turns \cup {0} /\ TurnAssigned /\ TypeInv
      /\ trace \in [Sessions -> Seq(Turns)] /\ shown \in [Sessions -> Seq(Turns)]
      /\ thread_trace \in [Customers -> Seq(Turns)]
      /\ prior_trace_len \in [Sessions -> Nat \cup {NotRead}]
      /\ OwnLines(s, lines)
  BY DEF ThreadInv, TypeInv, TypeOK, HistoryInv
<1>2. PICK next \in Nodes :
          /\ pc[s] \notin {"idle", "load", "end"} /\ UNCHANGED <<turn, turns>>
          /\ pc' = [pc EXCEPT ![s] = next]
          /\ pc[s] = "begin" <=> next = "guardrail"
          /\ \/ UNCHANGED historyVars /\ pc[s] # "guardrail" /\ pc[s] # "begin"
             \/ \E n \in {0, 1} : Log(s, n) /\ (pc[s] = "guardrail" => n = 1)
  BY <1>1, NodeStepWay
<1>3. /\ trace[s] = lines /\ prior_trace_len[s] \in 0..Len(lines)
      /\ \A i \in DOMAIN lines : lines[i] = turn[s] <=> i > prior_trace_len[s]
      /\ pc[s] \notin {"begin", "guardrail"} => prior_trace_len[s] < Len(lines)
  BY <1>1, <1>2 DEF OwnLines
<1>4. turn[s] \in Turns
  BY <1>1, <1>2 DEF TurnAssigned
<1>5. PICK n \in {0, 1} :
          LET longer == reduce(lines, LinesOf(turn[s], n)) IN
          /\ thread_trace' = [thread_trace EXCEPT ![CustomerOf[s]] = longer]
          /\ trace' = [trace EXCEPT ![s] = longer] /\ UNCHANGED <<prior_trace_len, shown>>
          /\ pc[s] = "guardrail" => n = 1
  <2>1. CASE UNCHANGED historyVars /\ pc[s] # "guardrail"
    <3>1. reduce(lines, LinesOf(turn[s], 0)) = lines
      <4>1. lines \in Seq(Turns)
        BY FoundLines
      <4>2. LinesOf(turn[s], 0) = <<>>
        BY DEF LinesOf
      <4> QED BY <4>1, <4>2, ConcatEmptySeq DEF reduce
    <3>2. /\ thread_trace' = [thread_trace EXCEPT ![CustomerOf[s]] = lines]
          /\ trace' = [trace EXCEPT ![s] = lines]
      BY <1>1, <1>3, <2>1 DEF historyVars
    <3> QED BY <2>1, <3>1, <3>2 DEF historyVars
  <2>2. CASE \E n \in {0, 1} : Log(s, n) /\ (pc[s] = "guardrail" => n = 1)
    BY <1>3, <2>2 DEF Log
  <2> QED BY <1>2, <2>1, <2>2
<1> DEFINE longer == reduce(lines, LinesOf(turn[s], n))
<1>6. /\ longer \in Seq(Turns) /\ Len(lines) \in Nat
      /\ Len(longer) = Len(lines) + n
      /\ DOMAIN lines = 1..Len(lines) /\ DOMAIN longer = 1..Len(longer)
      /\ \A i \in DOMAIN lines : longer[i] = lines[i]
      /\ \A i \in DOMAIN longer \ DOMAIN lines : longer[i] = turn[s]
      /\ SubSeq(longer, 1, Len(lines)) = lines
  <2>1. lines \in Seq(Turns) /\ n \in Nat
    BY FoundLines
  <2> HIDE DEF lines
  <2> QED BY <1>4, <2>1, LinesAdded, Zenon
<1>7. /\ thread_trace' = [thread_trace EXCEPT ![CustomerOf[s]] = longer]
      /\ trace' = [trace EXCEPT ![s] = longer] /\ UNCHANGED <<prior_trace_len, shown>>
      /\ pc[s] = "guardrail" => n = 1
  BY <1>5
<1> HIDE DEF longer
<1>8. CustomerOf[s] \in Customers /\ thread_trace'[CustomerOf[s]] = longer /\ trace'[s] = longer
  BY <1>1, <1>7, CustomerOfAssumption
<1>9. \A c \in Customers \ {CustomerOf[s]} : thread_trace'[c] = thread_trace[c]
  BY <1>1, <1>7
<1>10. /\ thread_trace' \in [Customers -> Seq(Turns)]
       /\ prior_trace_len' \in [Sessions -> Nat \cup {NotRead}]
       /\ trace' \in [Sessions -> Seq(Turns)] /\ shown' \in [Sessions -> Seq(Turns)]
  BY <1>1, <1>6, <1>7
<1>11. \A i \in DOMAIN longer : longer[i] <= turns
  <2>1. \A i \in DOMAIN lines : lines[i] <= turns
    BY FoundLines
  <2>2. turn[s] <= turns
    BY FoundLines
  <2> QED BY <1>6, <2>1, <2>2
<1>12. OwnLines(s, thread_trace[CustomerOf[s]])'
  <2>1. pc'[s] = next /\ turn'[s] = turn[s] /\ prior_trace_len'[s] = prior_trace_len[s]
    BY <1>1, <1>2, <1>7
  <2>2. prior_trace_len[s] \in 0..Len(longer)
    BY <1>3, <1>6, <1>7
  <2>3. \A i \in DOMAIN longer : longer[i] = turn[s] <=> i > prior_trace_len[s]
    <3>1. ASSUME NEW i \in DOMAIN longer \ DOMAIN lines PROVE i > prior_trace_len[s]
      BY <1>3, <1>6
    <3> QED BY <1>3, <1>6, <3>1
  <2>4. next \notin {"begin", "guardrail"} => prior_trace_len[s] < Len(longer)
    <3>1. CASE pc[s] = "guardrail"
      BY <1>3, <1>6, <1>7, <3>1
    <3>2. CASE pc[s] \notin {"begin", "guardrail"}
      BY <1>3, <1>6, <1>7, <3>2
    <3> QED BY <1>2, <3>1, <3>2
  <2>5. next \notin {"idle", "load"}
    BY DEF Nodes
  <2> QED BY <1>8, <2>1, <2>2, <2>3, <2>4, <2>5 DEF OwnLines
<1>13. HistoryInv'
  <2>1. turns \in Nat /\ turns' = turns /\ turns <= turns'
    BY <1>2, FoundLines
  <2>2. \A t \in Sessions \ {s} :
          /\ pc'[t] = pc[t] /\ turn'[t] = turn[t] /\ trace'[t] = trace[t]
          /\ prior_trace_len'[t] = prior_trace_len[t]
    BY <1>1, <1>2, <1>7
  <2>3. \A i \in DOMAIN thread_trace'[CustomerOf[s]] : thread_trace'[CustomerOf[s]][i] <= turns'
    BY <1>8, <1>11, <2>1
  <2> QED BY <1>9, <1>10, <1>12, <2>1, <2>2, <2>3, OthersKeepLines
<1>14. ASSUME NEW c \in Customers
       PROVE  /\ Len(thread_trace[c]) <= Len(thread_trace'[c])
              /\ SubSeq(thread_trace'[c], 1, Len(thread_trace[c])) = thread_trace[c]
  <2>1. CASE c = CustomerOf[s]
    <3>1. Len(lines) <= Len(longer)
      BY <1>6
    <3>2. thread_trace[c] = lines /\ thread_trace'[c] = longer
      BY <1>8, <2>1
    <3> HIDE DEF lines
    <3> QED BY <1>6, <3>1, <3>2
  <2>2. CASE c # CustomerOf[s]
    <3>1. thread_trace'[c] = thread_trace[c] /\ thread_trace[c] \in Seq(Turns)
      BY <1>1, <1>9, <2>2
    <3> QED BY <3>1, LenProperties, SubSeqFull
  <2> QED BY <2>1, <2>2
<1> QED BY <1>13, <1>14

\* The end of a request, with a reply or without.
LEMMA OverHistory ==
    ASSUME OneSessionEach, ThreadInv, HistoryInv, NEW s \in Sessions,
           NEW reply \in Seq(Turns), Over(s, reply),
           pc' = [pc EXCEPT ![s] = "idle"], UNCHANGED <<turn, turns>>
    PROVE  HistoryInv'
<1>1. /\ shown' = [shown EXCEPT ![s] = reply] /\ trace' = [trace EXCEPT ![s] = <<>>]
      /\ prior_trace_len' = [prior_trace_len EXCEPT ![s] = NotRead]
      /\ UNCHANGED thread_trace
  BY DEF Over
<1>2. /\ thread_trace' \in [Customers -> Seq(Turns)]
      /\ prior_trace_len' \in [Sessions -> Nat \cup {NotRead}]
      /\ trace' \in [Sessions -> Seq(Turns)] /\ shown' \in [Sessions -> Seq(Turns)]
  BY <1>1, EmptySeq DEF HistoryInv
<1>3. pc \in [Sessions -> Pc] /\ pc'[s] = "idle"
  BY DEF ThreadInv, TypeInv, TypeOK
<1>4. prior_trace_len'[s] = NotRead
  BY <1>1 DEF HistoryInv
<1>5. OwnLines(s, thread_trace[CustomerOf[s]])'
  BY <1>3, <1>4 DEF OwnLines
<1>6. \A t \in Sessions \ {s} :
          /\ pc'[t] = pc[t] /\ turn'[t] = turn[t] /\ trace'[t] = trace[t]
          /\ prior_trace_len'[t] = prior_trace_len[t]
  BY <1>1, <1>3 DEF HistoryInv
<1>7. turns \in Nat /\ turns' = turns /\ turns <= turns'
  BY FoundLines
<1>8. \A i \in DOMAIN thread_trace'[CustomerOf[s]] : thread_trace'[CustomerOf[s]][i] <= turns'
  BY <1>1, <1>7, FoundLines
<1> QED BY <1>1, <1>2, <1>5, <1>6, <1>7, <1>8, OthersKeepLines

\* The part of the run's trace that a reply shows.
LEMMA ShownLines ==
    ASSUME ThreadInv, HistoryInv, NEW s \in Sessions, reply_trace(s)
    PROVE  LET prior == prior_trace_len[s]
               reply == SubSeq(trace[s], prior + 1, Len(trace[s])) IN
           /\ reply \in Seq(Turns) /\ Over(s, reply)
           /\ pc' = [pc EXCEPT ![s] = "idle"] /\ UNCHANGED <<turn, turns>>
           /\ shown'[s] = reply
           /\ prior \in 0..(Len(trace[s]) - 1)
           /\ \A i \in DOMAIN trace[s] : trace[s][i] = turn[s] <=> i > prior
<1> DEFINE prior == prior_trace_len[s]
           reply == SubSeq(trace[s], prior + 1, Len(trace[s]))
<1>1. /\ pc[s] = "end" /\ pc' = [pc EXCEPT ![s] = "idle"] /\ UNCHANGED <<turn, turns>>
      /\ Over(s, reply)
  BY DEF reply_trace, Finish, Reply
<1>2. OwnLines(s, thread_trace[CustomerOf[s]])
  BY DEF HistoryInv
<1>3. /\ trace[s] = thread_trace[CustomerOf[s]] /\ prior \in 0..Len(trace[s])
      /\ \A i \in DOMAIN trace[s] : trace[s][i] = turn[s] <=> i > prior
      /\ prior < Len(trace[s])
  BY <1>1, <1>2 DEF OwnLines
<1>4. trace[s] \in Seq(Turns) /\ Len(trace[s]) \in Nat
  BY <1>3, FoundLines
<1>5. prior \in 0..(Len(trace[s]) - 1)
  BY <1>3, <1>4
<1>6. reply \in Seq(Turns)
  <2>1. \A i \in (prior + 1)..Len(trace[s]) : i \in 1..Len(trace[s])
    BY <1>4, <1>5
  <2>2. \A i \in (prior + 1)..Len(trace[s]) : trace[s][i] \in Turns
    BY <1>4, <2>1, ElementOfSeq
  <2>3. prior + 1 \in Int /\ Len(trace[s]) \in Int
    BY <1>4, <1>5
  <2> QED BY <2>2, <2>3, SubSeqProperties
<1>7. shown'[s] = reply
  <2>1. shown' = [shown EXCEPT ![s] = reply]
    BY <1>1 DEF Over
  <2> HIDE DEF reply
  <2> QED BY <2>1 DEF HistoryInv
<1> QED BY <1>1, <1>3, <1>5, <1>6, <1>7

LEMMA RestartHistory ==
    ASSUME ThreadInv, HistoryInv, restart
    PROVE  HistoryInv'
<1>1. /\ thread_trace' = [c \in Customers |-> <<>>] /\ trace' = [s \in Sessions |-> <<>>]
      /\ prior_trace_len' = [s \in Sessions |-> NotRead] /\ UNCHANGED shown
      /\ pc' = [s \in Sessions |-> "idle"]
  BY DEF restart, Restart
<1>2. <<>> \in Seq(Turns) /\ DOMAIN <<>> = {}
  BY EmptySeq
<1>3. /\ thread_trace' \in [Customers -> Seq(Turns)]
      /\ prior_trace_len' \in [Sessions -> Nat \cup {NotRead}]
      /\ trace' \in [Sessions -> Seq(Turns)] /\ shown' \in [Sessions -> Seq(Turns)]
  BY <1>1, <1>2 DEF HistoryInv
<1>4. \A c \in Customers : \A i \in DOMAIN thread_trace'[c] : thread_trace'[c][i] <= turns'
  BY <1>1, <1>2
<1>5. \A s \in Sessions : OwnLines(s, thread_trace[CustomerOf[s]])'
  BY <1>1 DEF OwnLines
<1> QED BY <1>3, <1>4, <1>5 DEF HistoryInv

LEMMA NextHistory ==
    ASSUME OneSessionEach, ThreadInv, HistoryInv, [HistoryNext]_<<vars, historyVars>>
    PROVE  HistoryInv'
<1>1. ASSUME NEW s \in Sessions, no_trace(s) PROVE HistoryInv'
  <2>1. pc' = [pc EXCEPT ![s] = "idle"] /\ UNCHANGED <<turn, turns>> /\ Over(s, <<>>)
    BY <1>1 DEF no_trace, classify_fails, tool_exec_fails, respond_fails, Fail, Reply
  <2>2. <<>> \in Seq(Turns)
    BY EmptySeq
  <2> QED BY <2>1, <2>2, OverHistory
<1>2. ASSUME NEW s \in Sessions, reply_trace(s) PROVE HistoryInv'
  BY <1>2, ShownLines, OverHistory
<1>3. ASSUME NEW s \in Sessions, submit(s) \/ read_length(s) \/ load_trace(s) \/ NodeStep(s)
      PROVE  HistoryInv'
  BY <1>3, SubmitHistory, ReadHistory, NodeHistory
<1>4. CASE UNCHANGED <<vars, historyVars>>
  BY <1>4 DEF vars, historyVars, HistoryInv, OwnLines
<1> QED BY <1>1, <1>2, <1>3, <1>4, RestartHistory DEF HistoryNext

\* With one open tab per customer every request finds in its thread's trace the
\* lines of earlier turns only, and works on that trace alone.
THEOREM OwnTrace == OneSessionEach => (HistorySpec => []HistoryInv)
<1> SUFFICES ASSUME OneSessionEach
             PROVE  HistorySpec => []HistoryInv
  OBVIOUS
<1>1. HistoryInit => ThreadInv /\ HistoryInv
  <2> SUFFICES ASSUME HistoryInit PROVE ThreadInv /\ HistoryInv
    OBVIOUS
  <2>1. Init /\ ThreadInv
    BY InitThread DEF HistoryInit
  <2>2. <<>> \in Seq(Turns) /\ DOMAIN <<>> = {}
    BY EmptySeq
  <2>3. \A s \in Sessions : OwnLines(s, thread_trace[CustomerOf[s]])
    <3>1. \A s \in Sessions : pc[s] = "idle" /\ prior_trace_len[s] = NotRead
      BY <2>1 DEF HistoryInit, Init
    <3> QED BY <3>1 DEF OwnLines
  <2>4. \A c \in Customers : thread_trace[c] = <<>>
    BY DEF HistoryInit
  <2>5. /\ thread_trace \in [Customers -> Seq(Turns)]
        /\ prior_trace_len \in [Sessions -> Nat \cup {NotRead}]
        /\ trace \in [Sessions -> Seq(Turns)] /\ shown \in [Sessions -> Seq(Turns)]
    BY <2>2 DEF HistoryInit
  <2> QED BY <2>1, <2>2, <2>3, <2>4, <2>5 DEF HistoryInv
<1>2. ThreadInv /\ HistoryInv /\ [HistoryNext]_<<vars, historyVars>> => ThreadInv' /\ HistoryInv'
  BY HistoryStep, NextThread, NextHistory
<1> QED BY <1>1, <1>2, PTL DEF HistorySpec

\* AgentGraph with the trace takes the steps of AgentGraph and no others.
THEOREM TraceAddsNothing == HistorySpec => Spec
<1>1. HistoryInit => Init
  BY DEF HistoryInit
<1>2. [HistoryNext]_<<vars, historyVars>> => [Next]_vars
  BY HistoryStep
<1> QED BY <1>1, <1>2, PTL DEF HistorySpec, Spec

\* What is proved of AgentGraph holds of it with the trace: the promises to
\* the customers of every deployment ...
THEOREM TraceKeepsThreads ==
    HistorySpec => /\ []ThreadInv /\ []PendingMatchesFlag /\ []ToolResultsFresh
                   /\ []SummaryMatchesStaged /\ []DoneAnswerIsFresh
                   /\ []EpisodesTruthful /\ KeepsShared /\ Refinement
  BY TraceAddsNothing, ThreadsSound, FlagGoesWithCall, ResultsOfThisTurn,
     SummaryOfStaged, AnswersFresh, EpisodesAreTrue, ImplementsShared,
     ImplementsConfirmFirst, PTL

\* ... and those to the customers of one with one open tab each.
THEOREM TraceKeepsPromise ==
    OneSessionEach =>
       (HistorySpec => /\ []SettledOnce /\ []ExecutedInLaterTurn
                       /\ []AskedOrFailed /\ PendingNeverReplaced)
<1> SUFFICES ASSUME OneSessionEach
             PROVE  HistorySpec => /\ []SettledOnce /\ []ExecutedInLaterTurn
                                   /\ []AskedOrFailed /\ PendingNeverReplaced
  OBVIOUS
<1> QED
  BY TraceAddsNothing, SettledAtMostOnce, StagedEarlier, UnaskedOnlyAfterFailure,
     StagedUntilSettled, PTL

\* The trace of a thread is appended to and never replaced while the process runs.
THEOREM TraceGrows == OneSessionEach => (HistorySpec => TraceAppended)
<1> SUFFICES ASSUME OneSessionEach
             PROVE  HistorySpec => TraceAppended
  OBVIOUS
<1> DEFINE Appended ==
      \A c \in Customers :
          \/ restarts' # restarts
          \/ /\ Len(thread_trace[c]) <= Len(thread_trace'[c])
             /\ SubSeq(thread_trace'[c], 1, Len(thread_trace[c])) = thread_trace[c]
<1>1. ASSUME HistoryInv, UNCHANGED thread_trace PROVE Appended
  <2>1. \A c \in Customers : thread_trace[c] \in Seq(Turns)
    BY <1>1 DEF HistoryInv
  <2>2. \A c \in Customers : /\ Len(thread_trace[c]) \in Nat
                             /\ SubSeq(thread_trace[c], 1, Len(thread_trace[c])) = thread_trace[c]
    BY <2>1, LenProperties, SubSeqFull
  <2> QED BY <1>1, <2>2
<1>2. ASSUME ThreadInv, HistoryInv, HistoryNext PROVE Appended
  <2>1. ASSUME NEW s \in Sessions, NodeStep(s) PROVE Appended
    BY <1>2, <2>1, NodeHistory
  <2>2. ASSUME NEW s \in Sessions,
               submit(s) \/ read_length(s) \/ load_trace(s) \/ reply_trace(s) \/ no_trace(s)
        PROVE  UNCHANGED thread_trace
    BY <2>2 DEF submit, read_length, load_trace, reply_trace, no_trace, Over
  <2>3. CASE restart
    <3>1. restarts' # restarts
      <4>1. restarts' = restarts + 1 /\ restarts \in Nat
        BY <1>2, <2>3 DEF restart, Restart, ThreadInv, TypeInv, TypeOK
      <4> QED BY <4>1
    <3> QED BY <3>1
  <2> HIDE DEF Appended
  <2> QED BY <1>1, <1>2, <2>1, <2>2, <2>3 DEF HistoryNext
<1>3. ThreadInv /\ HistoryInv /\ [HistoryNext]_<<vars, historyVars>>
        => [Appended]_<<vars, historyVars>>
  BY <1>2
<1>4. HistorySpec => []ThreadInv
  BY TraceAddsNothing, ThreadsSound, PTL
<1> HIDE DEF Appended
<1>5. HistorySpec => [][Appended]_<<vars, historyVars>>
  BY <1>3, <1>4, OwnTrace, PTL DEF HistorySpec
<1> QED BY <1>5 DEF Appended, TraceAppended

\* A reply shows the lines of its own turn, all of them and no others.
THEOREM ReplyShowsOwn == OneSessionEach => (HistorySpec => ReplyShowsItsTurn)
<1> SUFFICES ASSUME OneSessionEach
             PROVE  HistorySpec => ReplyShowsItsTurn
  OBVIOUS
<1> DEFINE Shows(s) ==
      \E k \in 0..(Len(trace[s]) - 1) :
          /\ shown'[s] = SubSeq(trace[s], k + 1, Len(trace[s]))
          /\ \A i \in DOMAIN trace[s] : trace[s][i] = turn[s] <=> i > k
        Shown ==
      \A s \in Sessions :
          pc[s] = "end" /\ pc'[s] = "idle" /\ restarts' = restarts => Shows(s)
<1>1. ASSUME ThreadInv, HistoryInv, HistoryNext, NEW t \in Sessions,
             pc[t] = "end", pc'[t] = "idle", restarts' = restarts
      PROVE  Shows(t)
  <2>0. pc \in [Sessions -> Pc] /\ restarts \in Nat /\ TypeInv
    BY <1>1 DEF ThreadInv, TypeInv, TypeOK
  <2>1. ASSUME NEW s \in Sessions, NodeStep(s) PROVE FALSE
    <3>1. pc[s] \notin {"idle", "load", "end"} /\ \E next \in Nodes : pc' = [pc EXCEPT ![s] = next]
      BY <2>0, <2>1, NodeStepWay
    <3> QED BY <1>1, <2>0, <3>1 DEF Nodes
  <2>2. ASSUME NEW s \in Sessions, submit(s) \/ read_length(s) \/ load_trace(s) \/ no_trace(s)
        PROVE  FALSE
    BY <1>1, <2>0, <2>2 DEF submit, Submit, read_length, vars, load_trace, Load, no_trace,
       classify_fails, tool_exec_fails, respond_fails, Fail, Reply
  <2>3. ASSUME restart PROVE FALSE
    BY <1>1, <2>0, <2>3 DEF restart, Restart
  <2>4. ASSUME NEW s \in Sessions, reply_trace(s) PROVE s = t
    BY <1>1, <2>0, <2>4 DEF reply_trace, Finish, Reply
  <2>5. reply_trace(t)
    BY <1>1, <2>1, <2>2, <2>3, <2>4 DEF HistoryNext
  <2> QED BY <1>1, <2>5, ShownLines
<1>2. ThreadInv /\ HistoryInv /\ [HistoryNext]_<<vars, historyVars>>
        => [Shown]_<<vars, historyVars>>
  <2> HIDE DEF Shows
  <2> QED BY <1>1
<1>3. HistorySpec => []ThreadInv
  BY TraceAddsNothing, ThreadsSound, PTL
<1> HIDE DEF Shown
<1>4. HistorySpec => [][Shown]_<<vars, historyVars>>
  BY <1>2, <1>3, OwnTrace, PTL DEF HistorySpec
<1> QED BY <1>4 DEF Shown, ReplyShowsItsTurn

===============================================================================
