---------------------------- MODULE ChatCompletion ----------------------------
(***************************************************************************)
(* app/llm_client.py: chat_completion, every call to the model.  The calls *)
(* run concurrently, one per request being served; they share the module's *)
(* lazily built _client, which nothing locks.                              *)
(*                                                                         *)
(* The provider and its client library are external: an attempt is one     *)
(* chat.completions.create, whatever the library itself sends again within *)
(* it, and ends in a completion, a rate limit with or without a readable   *)
(* Retry-After header, a transient failure or a refusal.                   *)
(***************************************************************************)
EXTENDS Integers, Sequences

CONSTANTS
    Calls,           \* the calls of chat_completion in one behaviour
    RetrySettings,   \* the values settings.max_retries may be started with
    Headers,         \* the seconds a Retry-After header may name
    Unreadable,      \* ... when it names none: missing, or not a number
    NoClient         \* _client is None

ASSUME SettingsAssumption == RetrySettings \subseteq Nat
ASSUME HeadersAssumption  == Headers \subseteq Int /\ Unreadable \notin Headers
ASSUME ClientAssumption   == NoClient \notin Calls

VARIABLES
    max_retries,    \* settings.max_retries, read once at start-up
    client,         \* the global _client, named after the call that built it
    instrumented,   \* the clients logfire has been hooked into
    pc,             \* where each call is
    attempt,        \* the loop variable of each call
    failures,       \* what its failed attempts came to
    waits,          \* the time.sleep calls it made
    result          \* what it returned or raised

vars == <<max_retries, client, instrumented, pc, attempt, failures, waits, result>>

DEFAULT_RETRY_AFTER_SECONDS == 5

\* A 429 with its header, or else a lost connection, a timeout or a 5xx.
Failure == [limited : BOOLEAN, header : Headers \cup {Unreadable}]

Results == {"none", "completion", "RateLimitError", "TransientLLMError", "raised"}

\* (What waits holds is WaitsAsAsked's business.)
TypeOK ==
    /\ max_retries \in RetrySettings
    /\ client \in Calls \cup {NoClient}
    /\ instrumented \subseteq Calls
    /\ pc \in [Calls -> {"ready", "build", "instrument", "create", "over"}]
    /\ attempt \in [Calls -> Nat]
    /\ failures \in [Calls -> Seq(Failure)]
    /\ result \in [Calls -> Results]

Init ==
    /\ max_retries \in RetrySettings
    /\ client = NoClient
    /\ instrumented = {}
    /\ pc = [c \in Calls |-> "ready"]
    /\ attempt = [c \in Calls |-> 1]
    /\ failures = [c \in Calls |-> <<>>]
    /\ waits = [c \in Calls |-> <<>>]
    /\ result = [c \in Calls |-> "none"]

-----------------------------------------------------------------------------
(* _get_client *)

\* The next attempt finds the client there ...
use_client(c) ==
    /\ pc[c] = "ready"
    /\ attempt[c] <= max_retries
    /\ client # NoClient
    /\ pc' = [pc EXCEPT ![c] = "create"]
    /\ UNCHANGED <<max_retries, client, instrumented, attempt, failures, waits, result>>

\* ... or finds none ...
find_no_client(c) ==
    /\ pc[c] = "ready"
    /\ attempt[c] <= max_retries
    /\ client = NoClient
    /\ pc' = [pc EXCEPT ![c] = "build"]
    /\ UNCHANGED <<max_retries, client, instrumented, attempt, failures, waits, result>>

\* ... builds one, which may replace another call's, and only then hooks
\* logfire into whatever the global holds by now.  A faulty one would return
\* what it built.
build_client_bare(c) ==
    /\ pc[c] = "build"
    /\ client' = c
    /\ pc' = [pc EXCEPT ![c] = "create"]
    /\ UNCHANGED <<max_retries, instrumented, attempt, failures, waits, result>>

build_client(c) ==
    /\ pc[c] = "build"
    /\ client' = c
    /\ pc' = [pc EXCEPT ![c] = "instrument"]
    /\ UNCHANGED <<max_retries, instrumented, attempt, failures, waits, result>>

instrument_openai(c) ==
    /\ pc[c] = "instrument"
    /\ instrumented' = instrumented \cup {client}
    /\ pc' = [pc EXCEPT ![c] = "create"]
    /\ UNCHANGED <<max_retries, client, attempt, failures, waits, result>>

get_client(c) ==
    use_client(c) \/ find_no_client(c) \/ build_client(c) \/ instrument_openai(c)

-----------------------------------------------------------------------------
(* chat_completion *)

retry_after_from(header) ==
    IF header = Unreadable THEN DEFAULT_RETRY_AFTER_SECONDS ELSE header

\* A faulty client would back off from a rate limit as from any failure.
Wait_backoff(f, n) == 2 ^ n

Wait(f, n) == IF f.limited THEN retry_after_from(f.header) ELSE 2 ^ n

\* The attempt of call c is over, with these failures so far.
Attempted(c, so_far) ==
    /\ pc[c] = "create"
    /\ failures' = [failures EXCEPT ![c] = so_far]
    /\ UNCHANGED <<max_retries, client, instrumented>>

Return(c, r) ==
    /\ result' = [result EXCEPT ![c] = r]
    /\ pc' = [pc EXCEPT ![c] = "over"]
    /\ UNCHANGED <<attempt, waits>>

\* Sleep and try again, unless this was the last attempt.  A faulty loop
\* would count as the backend client's does, from 0 to max_retries.
sleep_again_once_more(c) ==
    \E f \in Failure :
        /\ Attempted(c, Append(failures[c], f))
        /\ attempt[c] <= max_retries
        /\ Wait(f, attempt[c]) >= 0
        /\ waits' = [waits EXCEPT ![c] = Append(@, Wait(f, attempt[c]))]
        /\ attempt' = [attempt EXCEPT ![c] = @ + 1]
        /\ pc' = [pc EXCEPT ![c] = "ready"]
        /\ UNCHANGED result

sleep_again(c) ==
    \E f \in Failure :
        /\ Attempted(c, Append(failures[c], f))
        /\ attempt[c] < max_retries
        /\ Wait(f, attempt[c]) >= 0
        /\ waits' = [waits EXCEPT ![c] = Append(@, Wait(f, attempt[c]))]
        /\ attempt' = [attempt EXCEPT ![c] = @ + 1]
        /\ pc' = [pc EXCEPT ![c] = "ready"]
        /\ UNCHANGED result

\* time.sleep raises for a header that names a negative wait.
sleep_raises(c) ==
    \E f \in Failure :
        /\ Attempted(c, Append(failures[c], f))
        /\ attempt[c] < max_retries
        /\ Wait(f, attempt[c]) < 0
        /\ Return(c, "raised")

\* The last attempt's failure becomes one of the errors of errors.py.  A
\* faulty client would give up on the first rate limit.
give_up_early(c) ==
    \E f \in Failure :
        /\ Attempted(c, Append(failures[c], f))
        /\ attempt[c] = max_retries \/ f.limited
        /\ Return(c, IF f.limited THEN "RateLimitError" ELSE "TransientLLMError")

give_up(c) ==
    \E f \in Failure :
        /\ Attempted(c, Append(failures[c], f))
        /\ attempt[c] = max_retries
        /\ Return(c, IF f.limited THEN "RateLimitError" ELSE "TransientLLMError")

\* Any other 4xx, or an error that is not the provider's.
refused(c) ==
    /\ Attempted(c, failures[c])
    /\ Return(c, "raised")

completed(c) ==
    /\ Attempted(c, failures[c])
    /\ Return(c, "completion")

\* The loop has run out without an attempt that returned or raised.  A faulty
\* client would go round it again.
exhausted_start_over(c) ==
    /\ pc[c] = "ready"
    /\ attempt[c] > max_retries
    /\ attempt' = [attempt EXCEPT ![c] = 1]
    /\ UNCHANGED <<max_retries, client, instrumented, pc, failures, waits, result>>

exhausted(c) ==
    /\ pc[c] = "ready"
    /\ attempt[c] > max_retries
    /\ Return(c, "TransientLLMError")
    /\ UNCHANGED <<max_retries, client, instrumented, failures>>

chat_completion(c) ==
    \/ get_client(c)
    \/ sleep_again(c)
    \/ sleep_raises(c)
    \/ give_up(c)
    \/ refused(c)
    \/ completed(c)
    \/ exhausted(c)

Next == \E c \in Calls : chat_completion(c)

\* The client library has a timeout and every sleep an end.
Spec == Init /\ [][Next]_vars /\ \A c \in Calls : WF_vars(chat_completion(c))

-----------------------------------------------------------------------------
(* Properties *)

\* Between two attempts a call waits as long as the provider asked for, or
\* 2, 4, 8 ... seconds by the attempt that failed, a rate limit in between
\* counting; it never waits after its last attempt.
WaitsAsAsked ==
    \A c \in Calls :
        /\ Len(waits[c]) = attempt[c] - 1
        /\ \A n \in DOMAIN waits[c] :
              LET f == failures[c][n] IN
              waits[c][n] = IF ~f.limited THEN 2 ^ n
                            ELSE IF f.header = Unreadable
                                 THEN DEFAULT_RETRY_AFTER_SECONDS ELSE f.header

\* The error a call ends in says how it went: a RateLimitError or
\* TransientLLMError that all max_retries attempts failed, the last of them
\* for that reason (with no attempts allowed, a TransientLLMError); and no
\* call makes more than max_retries attempts.
GivesUpWithReason ==
    \A c \in Calls :
        LET tried == Len(failures[c]) IN
        /\ tried <= max_retries
        /\ result[c] = "RateLimitError" =>
              tried = max_retries /\ tried > 0 /\ failures[c][tried].limited
        /\ result[c] = "TransientLLMError" =>
              tried = max_retries /\ (tried > 0 => ~failures[c][tried].limited)

\* While the shared client has no logfire hook some call is still about to
\* hook it, however many calls build a client at once: only attempts that
\* take the client in that window go untraced.
ClientSettles ==
    client = NoClient \/ client \in instrumented \/ \E c \in Calls : pc[c] = "instrument"

\* Every call ends, whatever the provider answers.
EveryCallEnds == \A c \in Calls : <>(pc[c] = "over")

-----------------------------------------------------------------------------
(* The inductive invariant behind the theorems of ChatCompletionProofs *)

\* A call in the loop has failed once per attempt before the current one.
FailuresCounted ==
    \A c \in Calls :
        /\ pc[c] # "over" => Len(failures[c]) = attempt[c] - 1 /\ result[c] = "none"
        /\ pc[c] \in {"build", "instrument", "create"} => attempt[c] <= max_retries
        /\ attempt[c] = 1 \/ attempt[c] <= max_retries

\* The client that is not hooked yet is about to be, by the call that built it.
BuilderHooks ==
    IF client = NoClient THEN \A c \in Calls : pc[c] # "instrument"
    ELSE client \in instrumented \/ pc[client] = "instrument"

CompletionInv == TypeOK /\ FailuresCounted /\ BuilderHooks
===============================================================================
