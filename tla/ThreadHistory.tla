---------------------------- MODULE ThreadHistory -----------------------------
(***************************************************************************)
(* AgentGraph with the trace: the channel every node appends its lines to, *)
(* which is kept with the thread's checkpoint and never emptied, and from  *)
(* which POST /agent/run (app/main.py) cuts the lines of its own turn by   *)
(* the length the trace had before graph.invoke() loaded the thread.       *)
(***************************************************************************)
EXTENDS AgentGraph, Sequences

VARIABLES
    \* A line of a trace is the turn that wrote it.
    thread_trace,      \* the trace in the newest checkpoint of each thread
    trace,             \* the trace of the session's running invoke()
    prior_trace_len,   \* the length the session's request found, or NotRead
    shown              \* the trace in the reply to the session's request

historyVars == <<thread_trace, trace, prior_trace_len, shown>>

NotRead == -1

HistoryInit ==
    /\ Init
    /\ thread_trace = [c \in Customers |-> <<>>]
    /\ trace = [s \in Sessions |-> <<>>]
    /\ prior_trace_len = [s \in Sessions |-> NotRead]
    /\ shown = [s \in Sessions |-> <<>>]

submit(s) ==
    /\ Submit(s)
    /\ shown' = [shown EXCEPT ![s] = <<>>]
    /\ UNCHANGED <<thread_trace, trace, prior_trace_len>>

\* graph.get_state() before graph.invoke().  A faulty run() would not look.
get_no_state(s) == 0

get_state(s) == Len(thread_trace[CustomerOf[s]])

read_length(s) ==
    /\ pc[s] = "load"
    /\ prior_trace_len[s] = NotRead
    /\ prior_trace_len' = [prior_trace_len EXCEPT ![s] = get_state(s)]
    /\ UNCHANGED <<vars, thread_trace, trace, shown>>

load_trace(s) ==
    /\ prior_trace_len[s] # NotRead
    /\ Load(s)
    /\ trace' = [trace EXCEPT ![s] = thread_trace[CustomerOf[s]]]
    /\ UNCHANGED <<thread_trace, prior_trace_len, shown>>

\* The reducer of the channel adds the node's lines to those before it.  A
\* faulty one would replace them.
reduce_last(before, lines) == IF lines = <<>> THEN before ELSE lines

reduce(before, lines) == before \o lines

LinesOf(t, n) == [i \in 1..n |-> t]

\* The step ends a node that wrote so many lines, and its checkpoint.
Log(s, n) ==
    LET lines == reduce(trace[s], LinesOf(turn[s], n)) IN
    /\ trace' = [trace EXCEPT ![s] = lines]
    /\ thread_trace' = [thread_trace EXCEPT ![CustomerOf[s]] = lines]
    /\ UNCHANGED <<prior_trace_len, shown>>

\* Every node writes one line, except the confirmation gate when nothing is
\* staged and the context gate when it has nothing to do.
ContextLines(s) ==
    IF chan[s].intent \in {"booking", "order"} /\ ~chan[s].preferences_loaded THEN 1 ELSE 0

NodeStep(s) ==
    \/ (Begin(s) \/ pass_gate(s)) /\ Log(s, 0)
    \/ /\ \/ guardrail_node(s)
          \/ record_executed(s) \/ decline_pending(s) \/ ask_again(s)
          \/ classify(s)
          \/ run_tool(s) \/ stage_nothing(s) \/ stage_action(s)
          \/ answer(s) \/ escalate(s)
       /\ Log(s, 1)
    \/ context_gate_node(s) /\ Log(s, ContextLines(s))
    \/ (execute_pending(s) \/ ask_repair(s)) /\ UNCHANGED historyVars

\* The request is over: the trace it shows is what follows the length found.
Over(s, reply) ==
    /\ shown' = [shown EXCEPT ![s] = reply]
    /\ trace' = [trace EXCEPT ![s] = <<>>]
    /\ prior_trace_len' = [prior_trace_len EXCEPT ![s] = NotRead]
    /\ UNCHANGED thread_trace

reply_trace(s) == Finish(s) /\ Over(s, SubSeq(trace[s], prior_trace_len[s] + 1, Len(trace[s])))

no_trace(s) ==
    /\ classify_fails(s) \/ tool_exec_fails(s) \/ respond_fails(s)
    /\ Over(s, <<>>)

restart ==
    /\ Restart
    /\ thread_trace' = [c \in Customers |-> <<>>]
    /\ trace' = [s \in Sessions |-> <<>>]
    /\ prior_trace_len' = [s \in Sessions |-> NotRead]
    /\ UNCHANGED shown

HistoryNext ==
    \/ \E s \in Sessions :
          \/ submit(s)
          \/ read_length(s)
          \/ load_trace(s)
          \/ NodeStep(s)
          \/ reply_trace(s)
          \/ no_trace(s)
    \/ restart

HistorySpec == HistoryInit /\ [][HistoryNext]_<<vars, historyVars>>

-----------------------------------------------------------------------------
(* Properties of a customer with one open tab (OneSessionEach) *)

\* A reply shows the lines its own turn wrote, all of them and no others,
\* whatever earlier turns wrote, failed or were lost in: it is the part of the
\* run's trace after some line k, exactly the lines after k being the turn's.
ReplyShowsItsTurn ==
    [][\A s \in Sessions :
          pc[s] = "end" /\ pc'[s] = "idle" /\ restarts' = restarts =>
              \E k \in 0..(Len(trace[s]) - 1) :
                  /\ shown'[s] = SubSeq(trace[s], k + 1, Len(trace[s]))
                  /\ \A i \in DOMAIN trace[s] : trace[s][i] = turn[s] <=> i > k
      ]_<<vars, historyVars>>

\* The trace of a thread is appended to and never replaced, so no turn that
\* left a line is forgotten before the process ends.
TraceAppended ==
    [][\A c \in Customers :
          \/ restarts' # restarts
          \/ /\ Len(thread_trace[c]) <= Len(thread_trace'[c])
             /\ SubSeq(thread_trace'[c], 1, Len(thread_trace[c])) = thread_trace[c]
      ]_<<vars, historyVars>>

-----------------------------------------------------------------------------
(* The inductive invariant behind the theorems on the trace *)

\* What the reply rests on.  A request that has loaded its thread works on the
\* thread's own trace, which holds the turn's lines from the length found on;
\* one that has not, finds only lines of earlier turns.  Any node after the
\* guardrail comes after a line of its turn.
OwnLines(s, lines) ==
    LET prior == prior_trace_len[s] IN
    /\ pc[s] = "idle" => prior = NotRead
    /\ pc[s] = "load" => /\ prior \in {NotRead, Len(lines)}
                         /\ \A i \in DOMAIN lines : lines[i] # turn[s]
    /\ pc[s] \notin {"idle", "load"} =>
          /\ trace[s] = lines
          /\ prior \in 0..Len(lines)
          /\ \A i \in DOMAIN lines : lines[i] = turn[s] <=> i > prior
          /\ pc[s] \notin {"begin", "guardrail"} => prior < Len(lines)

\* Traces hold lines of requests sent, and each session finds its own.
HistoryInv ==
    /\ thread_trace \in [Customers -> Seq(Turns)]
    /\ prior_trace_len \in [Sessions -> Nat \cup {NotRead}]
    /\ trace \in [Sessions -> Seq(Turns)] /\ shown \in [Sessions -> Seq(Turns)]
    /\ \A c \in Customers : \A i \in DOMAIN thread_trace[c] : thread_trace[c][i] <= turns
    /\ \A s \in Sessions : OwnLines(s, thread_trace[CustomerOf[s]])
===============================================================================
