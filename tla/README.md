# A verification of the restaurant agent

TLA+ modules for the agent of this repository: a FastAPI service whose
`POST /agent/run` runs one LangGraph workflow per message, talks to a language
model and to the restaurant's HTTP backend, and keeps each customer's
conversation in a checkpointer. TLC checks the modules on small instances; TLAPS
proves the theorems for every value of the constants.

## The system

| component | source | state | operations | hard behaviour |
|---|---|---|---|---|
| agent turn | `app/main.py`, `app/agents/` | a checkpoint of `AgentState` per customer (`MemorySaver`), the channels of each running `invoke()` | guardrail, confirmation gate, intent gate, context gate, tool execution, respond with one repair | channels survive from turn to turn; a node that raises leaves the last node's checkpoint behind; nothing locks a thread; a restart forgets the threads |
| backend client | `app/backend_api.py` | none between calls | `_request`: retry with backoff on connection error, timeout and 5xx | a POST that timed out may have been carried out |
| model client | `app/llm_client.py` | the lazily built client | `chat_completion`: sleep as told on 429, back off on 5xx | attempts, waits, `max_retries = 0` |
| tools | `app/tools/*.py`, `nodes.py:294-402` | none | menu, availability, reservations, orders, preferences; preparing a call | names, tables and reservations are resolved at different times, while others book and the menu changes |
| episodic memory | `app/memory.py` | one file per customer | append, read the last five | swallowed write failures, stale reads |
| sign-in | `app/main.py` `/session` | none | look up, else create | two sign-ins of one new customer; both calls are retried |
| chat UI | `ui/streamlit_app.py` | messages of one tab | send, show the reply | two tabs of one customer |
| configuration, logging, schemas, `models.py`, echo | `app/config`, `app/tools/schemas.py`, ... | constants | - | - |

A tab sends one message at a time. `run()` invokes the graph on the thread named
after the customer; nodes call the model client and the tools, the tools call the
backend client, the confirmed booking or order and the preferences touch the
memory. The components share the checkpointer (all runs of a customer) and the
backend (everybody).

What makes each part correct:

* *agent turn*: nothing is booked but what the user was asked and said yes to,
  once; a no is final; an answer belongs to the question; a conversation is never
  stuck; one customer's turn does not touch another's.
* *backend client*: bounded attempts; a call is carried out at most once, or at
  least reported as what happened.
* *model client*: bounded attempts; waits as documented.
* *tools*: an id is resolved to the thing the user named, or an error is reported.
* *memory*: the lines are true, and those of past sessions are seen.
* *sign-in*: one customer per phone or e-mail.

## The modules

| module | what it is |
|---|---|
| `AgentGraph` | the agent turn: one action per node, or per outcome of a node |
| `ThreadHistory` | `AgentGraph` with the trace that the turns append to and each reply cuts its own part from |
| `Reading` | what a message is taken for before the model is asked: the phrases and the keywords |
| `ConfirmFirst` | what the agent promises a customer with one open tab about bookings and orders, with no graph, no checkpoint and no failure in it |
| `ConfirmShared` | what is left of that promise where tabs of a customer share a thread |
| `BackendRequest` | `_request`: every attempt, wait and way out of the retry loop, under concurrent calls, with a backend and a network around it |
| `RemoteCall` | what a caller of `_request` can rely on |
| `ConfirmedCall` | `BackendRequest` composed with `_execute_pending` and the episode line of a confirmed call |
| `StartSession` | `BackendRequest` composed with `POST /session`: the lookup and the creation of a customer |
| `CustomerRegister` | what sign-in promises the restaurant and its customers |
| `ChatCompletion` | `chat_completion`: attempts, waits, errors, and the shared client that is built lazily |
| `RestaurantTools` | the booking and the ordering tool, and the preparation of their calls, while the restaurant changes |
| `AgentGraphProofs`, `ThreadProofs` | theorems about `AgentGraph` and, in the second, about the copies of its threads and about `ThreadHistory` |
| `ReadingProofs`, `BackendRequestProofs`, `ConfirmedCallProofs`, `StartSessionProofs`, `ChatCompletionProofs`, `RestaurantToolsProofs` | theorems about the module named |
| `MC...` | messages, tabs, customers, words, calls, tables and dishes for TLC |

Definitions whose comment says "a faulty ..." are wrong on purpose and nothing
uses them: put in the place of the definition that follows them, each breaks a
property of a run.

### AgentGraph and the code

| in the module | in the code |
|---|---|
| `ckpt[c]` | the newest checkpoint of thread `str(customer_id)` in the `MemorySaver` built at import (`graph.py:59-64`) |
| `chan[s]` | the channels of the running `graph.invoke()`: the fields of `AgentState` |
| `pc[s]` | the node that runs next; `load` and `begin` are what `invoke()` does before the first node |
| `query`, `turn`, `resp` | the request a tab has in flight, its number, the reply once it is there |
| `posts`, `declined`, `asked`, `episodes` | what happened outside: tool calls made, refusals, what replies put to the user, episode lines |

The semantics of a run is LangGraph's, as `run()` uses it. `invoke()` reads the
thread's newest checkpoint (`Load`), puts one with the request's input applied
(`Begin`), and after each node applies the node's partial dict to the channels,
puts a checkpoint and routes (`SuperStep`). There is no lock on a thread and each
run works on its own copy of the channels, so the runs of two tabs of one customer
interleave between any two of these steps and the last one to put a checkpoint
wins. A node that raises leaves the checkpoint of the node before it; `run()`
answers 500 (`Fail`). `MemorySaver` is memory: a restart of the process at any
moment forgets the threads and the running requests (`Restart`), not what the
restaurant holds nor the episode files.

A node that does two things the outside can see apart is two steps:
`_execute_pending` makes the call (`execute_pending`), then writes the episode and
returns (`record_executed`); `respond_node` asks the model, then once more to
repair its reply (`ask_repair`). Everything a node decides by is kept; what the
model, the tools and the backend answer is a choice. A message is the record of
what the nodes tell apart about it: the guardrail takes it, it contains an
affirmative phrase, a negative one, a keyword of tier 1. `final_answer` and
`tool_results` keep the turn that wrote them, which is what makes staleness
visible; `tool_results` also keeps whether it is the summary of a staged call.
`preferences_loaded` stands for the three channels set with it.

`ThreadHistory` adds the `trace` channel. Each of its actions is an action of
`AgentGraph` together with the lines the node writes, but for `read_length`: `run()`
asks for the length of the thread's trace (`main.py:85`) in a step of its own, before
`invoke()` loads the thread. A line is modelled by the turn that wrote it.

### Reading and the code

A message is a sequence of words. `_matches_any` looks for one-word phrases among the
words and for longer ones among the letters, and the keywords are looked for among
the letters (`nodes.py:25-35`, `141-168`): `Substring` says when the letters of one
sequence are in those of another, given which words start with, end with or contain
which. The three gates are actions; the phrases, the keywords and the order of the
intents are the source's. The result is the part of `AgentGraph`'s input
`Query` that does not come from the model. (Punctuation belongs to the word it touches:
"yes, please" has the word "yes,", so it is no yes for the agent, who asks again.)

### BackendRequest and the code

`attempt[c]` is the loop variable, `answer[c]` what the HTTP call returned or
raised (`lost` for `ConnectionError` and `Timeout`, the two the code catches;
`broken` for every other exception and for a 2xx that is not JSON), `result[c]`
what `_request` returned or raised, `slept[c]` what it gave to `time.sleep`, one after the other.
Outside the code, `wire` holds the requests under way and `carried` those the
backend carried out. `Handle` is the backend: it takes what it accepts, refuses a
slot that is taken, and may fail with a 5xx before or after the fact; the reply may
be lost, break off, or find that its caller has stopped waiting. After `time_out` a
request may still be on the wire and be handled later, also when its call has
returned. `ConfirmedCall` adds what `_exec_tool` makes of the result and the line
`append_episode` writes.

### StartSession and the code

`step[i]` is where the handler of sign-in `i` is; the lookup and the creation are two
calls of `BackendRequest`, so each may be sent several times, be lost, or be carried
out after its sign-in has ended. A customer is named after the request that created
it. Whether the backend keeps a phone or an e-mail to one customer is not in this
repository: `Exclusive` says for which contacts it does, and the properties that need it
say so. Nor are its rules: any of the two calls may be refused for what is in it
(`Rejected`), and the handler relays every such refusal as a 422 (`main.py:72-73`). So a
422 says that the rules reject the sign-in or that its exclusive contact has a customer,
and that this one adds nobody any more (its own lost attempt may have, before).

### ChatCompletion and the code

`attempt`, `result` as in `BackendRequest`; `failures[c]` and `waits[c]` are the
history of the call's attempts and `sleep`s. `max_retries` is read once, so it is a
variable that `Init` chooses. `client` is the global `_client`; `_get_client` is three
steps (test, build and assign, hook the tracing in), since nothing locks it. What the
`openai` library sends again by itself is inside an attempt. A negative Retry-After is
what `time.sleep` raises on (`sleep_raises`).

### RestaurantTools and the code

`at[c]` is where the customer's call is: staged, or at one of the calls the tool makes
after the yes (`create_order` resolves the reservation, then the dish, then posts).
Between any two steps others take tables, reservations end and dishes sell out.
`resolve_table_id` and `resolve_menu_item_id` are operators over what the backend
returned; dish names are related by "is" and "is part of". `reservation_id` 0 and
"not given" are one value, as in the code (`orders.py:38`). The tools' ownership of a
`reservation_id` the model names is the backend's to check; nothing is claimed of it.

## The runs

| run | instance | shows |
|---|---|---|
| `one_tab` | 1 tab, 4 requests, 1 restart, every kind of message, the trace | the inductive invariants of one tab's thread and trace; a staged call nobody was asked about means that its request was answered with an error, or that the thread is escalated; answers come from this turn's tool results, and those are a confirmation summary exactly when a call is staged; a reply that claims an answer has this turn's; episodes are true; no message both stages and executes; a staged call is settled once and never dropped or replaced; a reply shows the trace lines of its own turn, all and only those; the trace only grows; `ConfirmFirst` is implemented |
| `requests_answered` | 3 tabs of 2 customers; any two of them book, with 3 requests, and each alone says anything, with 1 restart; fairness | with stale copies of a shared thread, and with threads side by side: the inductive invariant of every copy (memory never mixes customers); `ConfirmShared` is implemented; every request is answered; a yes that met a staged call ends in the call |
| `reading` | every message of up to 4 words out of 14, with and without a staged call | a known answer settles the call; without one, a message with the keywords of a view is taken for a view or the menu, and for no action; one with those of an order for no booking |
| `confirmed_calls` | a confirmed booking and a lookup, `max_retries = 3`, failing disk | truthful first answers, doubling waits, `RemoteCall` implemented, every call returns, a remembered booking was made, the inductive invariant of the proofs |
| `sign_in` | 2 sign-ins with one contact that is one customer's, or 2 of which the rules reject the one's contact and the other's name; `max_retries = 1`, fairness | a known customer is found and never created anew; both sign-ins open the same customer's session; who is refused is rejected by the rules or finds the contact taken; `CustomerRegister` is implemented; every sign-in is answered |
| `model_calls` | 2 calls of the model, `max_retries` 0, 1 or 3, headers readable, unreadable and negative, fairness | attempts and reasons; waits as the provider asked or doubled; the client in use gets its hook; every call ends |
| `tools` | 1 customer, 1 other, 3 tables in 2 places, 2 reservations, 2 dishes, one named in the other | the staged table is the best of the free ones; an order that names no reservation goes to an own one that was open at the yes; a full name is taken before a part of one |

and where the program does something else than the repository says of it:

| run | the repository | the program |
|---|---|---|
| `status_wedge` | `graph.py:17`: the rest is skipped "if the guardrail already rejected the input" | `status` is checkpointed and nothing resets it: after one rejected message, or one failed repair, every later message of the customer is skipped |
| `unasked_execution` | `nodes.py:296`: the call "only happens once the user confirms" | a turn that stages a booking and then fails in `respond_node` is a 500 to the user, and the next yes executes a booking that was never shown |
| `tabs_execute_twice` | `state.py:32`: the pending action is "cleared once confirmation_gate_node acts on it" | a second run of the thread acts on its own copy: two bookings, or a booking after a no |
| `refusal_executes` | `nodes.py:106`: the call is run "now that the user confirmed" | phrases of several words are looked for as substrings, affirmatives first: "please don't" contains "please do" and places the booking |
| `another_dish` | `orders.py:11`: the name is "resolved against a real GET /menu call, not guessed" | the menu read is the available one: if the dish is sold out, the first dish whose name contains the words is ordered instead |

Met on the way, and visible in the models though no run is spent on them: the reply to
an escalated repair carries an earlier request's `final_answer` (`nodes.py:469`);
`get_availability` called from `_resolve_table_id` is outside `_exec_tool`, so its
failure is a 500 and not a tool result (`nodes.py:357`); a POST whose reply is lost is
sent again and may be refused because of itself, and one that was carried out but ended
in an error is not remembered (`backend_api.py:50-56`, `nodes.py:110`); "undo it" is a
yes ("do it"), "my food order" asks for the menu and so does whatever contains "seat"
("eat"); an attempt that takes the shared model client before its builder hooks it is
not traced.

### The bounds

`MaxTurns`, `MaxTabs` and `MaxRestarts` bound the requests, the tabs that send them and the
restarts in a behaviour, `Parties` the sign-ins.
Four requests are enough for what `one_tab` looks for: a call is staged, answered
unclearly or lost in a failed turn, settled, and a further request comes late enough to
settle it again or to stage over it; every channel left by one turn meets every kind of
later turn, and the trace has lines of answered, failed and forgotten turns. In
`requests_answered` three requests are a staging, a yes to it, and one that another tab
sends before, between or during them: on the same thread, where it works on a copy that
is stale when it is put, or on the other customer's. Where two tabs send, both say "sure,
book a table", which stages where nothing is staged and affirms where something is, and
the process stays up (the constraint `TogetherBook`); a tab alone sends a message for every
way through the confirmation gate, and one that the guardrail rejects. The constraint cuts off requests and restarts only, which no
fairness asks for, so it leaves whole behaviours for the liveness properties. The theorems
have no such bound.

Four words hold the longest phrases that can meet (two of two words each) and every
overlap of a word of a phrase with another's letters; the vocabulary has words inside,
at the beginning and at the end of which another is ("undo", "not", "seat").

`confirmed_calls` has the deployed `max_retries`, 3. A call meets the others only in the
slot they want, and a booking finds its slot taken by its own earlier attempt as it would
by a rival's, so two calls are enough. `sign_in` sends each call up to twice, so that a
creation can be lost, late or repeated against itself and against the other's; two
sign-ins are enough for one to find, race or follow the other. (A sign-in that the rules
refuse races only another such; next to one that gets through it is the theorems' case.)
In `model_calls` three attempts put a rate limit before and after a back-off. In `tools` one
customer with the assistant is enough, since other customers act on the restaurant only,
as `reserve_elsewhere` does. The theorems are about any number of all of these.

Deadlock is not checked: when the bound on requests is reached and all are answered
the models stop, as the service does when nobody writes.

### Fairness

`AgentGraph` and `BackendRequest` have a `Spec` without fairness, which the safety
theorems are about, and a `FairSpec`. `AgentGraph` assumes weak
fairness of each running request (`RunStep(s)`): `run()` is
a synchronous handler in a thread of its own, the backend calls have a timeout, the
model client's loop is bounded, and nothing else can disable its next step for ever.
`BackendRequest` assumes it of each call (`request(c)`, with `time_out`): `requests`
is given a timeout and `sleep` ends. (The timeout bounds the wait for each read,
not the whole body: a backend that sends one byte at a time is not covered.)
`ChatCompletion` assumes it of each call, whose attempts the client library ends, and
`StartSession` of each handler, from when the form is sent, and of the calls it waits
for. Users are not made to write or to sign in, the backend is not made to answer and the
process is not made to restart.

`ConfirmationHonoured` is about a yes under way to a staged call: once its run has read
the call, and from when it is sent where the customer has no other tab. It stays under
way until the call is made, and it does not stay so for ever. It excuses a restart,
which loses what is staged, and a thread that is wedged by an escalated `status`.
`RestaurantTools` and `Reading` claim no liveness.

## The proofs

The theorems hold for every value of the constants under the named `ASSUME`s, most of
which only give the constants their types. Each module keeps its inductive invariant
next to its properties; TLC checks it in the module's run, unless it only gives the
types (`TypeOK`, `ConfirmedTypeOK`) or is next to that (`ReadingInv`).

**AgentGraph, every deployment** (`ThreadProofs`; `TypeCorrect` and `ForwardOnly` in
`AgentGraphProofs`). Several tabs of a customer work on
stale copies of one thread, so `chan` and `ckpt` say nothing of each other. `ThreadInv`
is about each copy alone: any channels, wherever they come from, are `Sound` (flag and
staged call go together, and the call is the thread's customer's), and those of a run
fit its node (`AtNode`: nothing staged past the gate, this turn's tool results where they
are worded, this turn's answer at the end). `PostsOwned` says for whom a turn's calls
were made. From it `FlagGoesWithCall`, `ResultsOfThisTurn`, `SummaryOfStaged`,
`AnswersFresh`, `EpisodesAreTrue`.

`ImplementsShared` is the promise that survives shared threads. `held` collects the
staged calls of all copies; a step copies, loses or settles them, or adds one
(`SharedKinds`). `SharedInv` says that a call which is held or settled carries the number
of a turn that has left `tool_exec`, and a call made that of a turn past the gate, so a
message stages something new and acts once.

`ImplementsConfirmFirst` needs no condition on the deployment: the refinement mapping
shows the customers with one open tab (`SingleTabs`), and what the others do, tabs
sharing a thread included, stutters (`OthersUnnoticed`). To `ThreadInv` and `SharedInv` it
adds `SinglesOwn`: a run of a customer's only tab works on the thread's newest
checkpoint. The mapping takes a staged call as gone from the moment its tool call is
made, before the checkpoint says so: `execute_pending` maps to `Execute`,
`record_executed` to a stutter.

`YesReachesRestaurant` needs none either: if every request is answered, every yes under
way ends in its call. A yes with a staged call on its copy goes from the load through the
guardrail and the gate to the call by its own steps (`YesGoesOn`), which no other
session's step can touch, since each run reads its own channels and in the only tab the
thread is its own as well (`YesStays`); an idle tab has no yes under way.

`ForwardOnly` is the safety half of `EveryRequestAnswered`: each step of a request takes
it on one way through the nodes (`WayOn`), of at most ten steps. What is missing for the
other half is that a step is always enabled.

**AgentGraph, one open tab per customer** (`AgentGraphProofs`, and `OneTabSound`,
`StagedEarlier` in `ThreadProofs`). `SettledAtMostOnce`, `StagedUntilSettled`,
`StagedEarlier`, `UnaskedOnlyAfterFailure` and `EscalatedForGood` assume `OneSessionEach`;
`tabs_execute_twice` is the counterexample without it for
settling twice. `SettledOnce` is not inductive: that a staged call
has not been executed depends on where the run of its thread is. `OneTabInv` adds what is
missing. `OwnThread`: with one tab, a run that has loaded its thread works on the
newest checkpoint, so `chan` and `ckpt` agree. `TurnsUnique`, `StagedOnce`: turn
numbers are fresh, a staged call carries the number of a turn that is past
`tool_exec`, so the call a turn is about to stage was never seen. `PendingOpen`: what is
staged is not settled, except between the call and the checkpoint that clears it.
`GatePassed`: past the confirmation gate nothing is staged, so nothing is replaced.
`PendingMatchesFlag` links the two channels the gate tests, `PendingOwned` a staged call
to the customer of its thread. `RecordingMade` (in the proofs) says that a run which is
about to clear a call has made it. The lemma `StepKinds` sorts the steps: those that
keep what is staged and what is settled (`Keeps`), a restart, and the four that do not.
`StagedEarlier` adds `StagedBefore`: what a thread has staged is older than the request
at work on it.

What nobody was asked about: `unasked_execution` shows that such a call can be made;
`UnaskedOnlyAfterFailure` says when it is there at all. It adds `StagedHere`: the call
a thread holds while an answer is worded is the request's own, so its reply asks for it.
`EscalatedForGood` is the general form of `status_wedge`: with `StoppedByGuardrail` (no run
of an escalated thread gets past the guardrail) no step but a restart ends an escalation,
and no call is made for its customer until then.

**ThreadHistory** (`ThreadProofs`). `TraceAddsNothing`: its steps are `AgentGraph`'s, so what
is proved of `AgentGraph` holds of it (`TraceKeepsThreads`, `TraceKeepsPromise`). With
one tab per customer, `HistoryInv` (`OwnTrace`) says that a run's trace is its thread's,
that the length read before the load separates the lines of earlier turns from those of
this one, and that a node after the guardrail comes after a line of its turn; from it
`TraceGrows` and `ReplyShowsOwn`. With two tabs on one thread a reply may show the other's
lines, and nothing is claimed.

**Reading** (`ReadingProofs`). `ReadOnce`, `AnswersTaken`, `ViewsFirst`, for
any words, any relation of letters between them and any length of message: the words
said are among the letters (`Says` implies `Substring`), and an intent whose keywords are
there is not passed over for a later one of the dictionary.

**BackendRequest, ConfirmedCall**. `RequestsKnown`, `FirstAnswerCorrect`,
`WaitsDoubled`, `ImplementsRemoteCall`, for any number of concurrent calls, slots, verdicts
and any `max_retries`. `RequestInv` says what a call knows about its current
attempt: a 2xx means carried out and no longer on the wire, a 4xx neither
(`KnowsAttempt`); and that requests on the wire or carried out, which are disjoint, are of
attempts already made. Most of the work is that a late request of a call, handled after
the call went on, is not its current attempt (`HandleStep`). That the waits double is shown
for the whole list of them at once (`DoublingAppend`), so no induction is needed.
`ConfirmedCallProofs` lifts all of this to the confirmed calls (`ConfirmedKeepPromise`: their
steps are those of `BackendRequest`) and adds `RememberedOnlyIfMade`: an output is made of a
value only (`OutputInv`), a result stays (from the refinement: `RemoteCall` tells a caller
once), and a value knows its attempt was carried out. `ConfirmedAssumption` says the
confirmed calls are calls.

**StartSession**. `SignInsInStep`, `KnownIsFound`, `SignedInCorrectly`,
`RefusedCorrectly`, `SameCustomer`, and `SignInsKeepPromise`, which lifts what is proved of
`BackendRequest`. `SignInInv` says what a sign-in knows of its two
calls: the lookup finds nobody only if nobody was registered when the sign-in was sent
(`LookupInv`); a creation is on its way, in any of its attempts, only after that
(`CreateInv`), and is refused by the rules or because the contact is taken, as the lookup
by the rules alone; an exclusive contact is created once (`CreatedOnce`). `InOrder` ties where a
handler is to what it has asked for; with it every creation the backend carries out,
however late, is an `Add` of the register, and what else happens on the wire a stutter
(`ImplementsRegister`). `SignInCallsAssumption`
ties the calls of `BackendRequest` to the sign-ins that make them; of the backend it says
only that a lookup which is not refused answers according to who was there before.

**ChatCompletion**. `BooksKept`, `WaitsCorrect`, `ReasonCorrect`, `ClientHooked`.
`CompletionInv` counts the failed attempts of a call by its loop variable
(`FailuresCounted`) and says that a client without its hook is about to get it from the
call that built it (`BuilderHooks`), which is stronger than `ClientSettles`: some call's
being about to hook a client does not make it the client in use.

**RestaurantTools**. `ToolsInStep`, `BestTableStaged`, `UnnamedOrderAttached`,
`FullNameTaken`. `ToolsInv` says that an order without a reservation of its own has been
attached, from the lookup on, to one of the customer's that was not over at the yes
(`Attached`), which reservations ending in between cannot undo.

Only model-checked: the liveness properties (`EveryRequestAnswered`,
`ConfirmationHonoured`, `EveryCallReturns`, `EveryCallEnds`, `EverySignInEnds`); the prover
has no rule for fairness and ENABLED here. (That `ConfirmationHonoured`
follows from the first of them is proved.) And what the doc-against-code runs refute.

## Not modelled, and why

* The guardrail's limit on the length of a message and repeated blanks in it: `Reading`
  has messages that the guardrail takes, as words.
* That building the model client or hooking its tracing raises (`ChatCompletion`).

* `app/config`, logging, the Mermaid dump of the graph, `models.py` and the echo stub
  have no state of their own.
* The wording of prompts and answers, what the model answers to them, and the shapes in
  `schemas.py` that are only passed on: a choice, or an outcome, of the node that asks.
* `memory.read_episodes`: `context_gate_node` writes its result to the state and no code
  reads it, so neither its limit of five lines nor its staleness (once per thread, not
  per session) can show.
* The read-only tools that pass a filter on and return what the backend says are an
  outcome of `run_tool`.
* The restaurant's backend, the model's provider and the libraries (`requests`, `openai`,
  LangGraph's executor) are modelled as far as the code meets them.
* The chat UI beyond its request loop: rendering, and the session state Streamlit keeps.
