---------------------------- MODULE BackendRequest ----------------------------
(***************************************************************************)
(* app/backend_api.py: _request, the retry policy of every call to the     *)
(* restaurant backend.  The calls run concurrently, one per request being  *)
(* served; each sends the same HTTP request again, max_retries times at    *)
(* most, when it cannot tell what became of it.                            *)
(*                                                                         *)
(* The backend and the network are external.  The backend carries out what *)
(* it accepts, validates that a slot is free (create_reservation) and      *)
(* finds a customer once there is one (lookup_customer); the network may   *)
(* lose a request or a reply, and deliver a request long after its sender  *)
(* stopped waiting for it.                                                 *)
(***************************************************************************)
EXTENDS Integers, Sequences

CONSTANTS
    Calls,        \* the calls of _request in one behaviour
    Slots,        \* what a call can take: a table at a time, a customer's contact
    Exclusive,    \* the slots that are free for one holder only
    SlotOf,       \* the slot a create_reservation or create_customer call asks for
    LooksFor,     \* the slot whose holder a lookup_customer call asks for
    NoSlot,       \* ... and every other call
    Verdict,      \* the backend's answer to the call, any slot being free
    NotFoundOk,   \* the calls made with not_found_ok=True
    max_retries   \* settings.max_retries

ASSUME CallsAssumption ==
    /\ SlotOf \in [Calls -> Slots \cup {NoSlot}]
    /\ LooksFor \in [Calls -> Slots \cup {NoSlot}]
    /\ Exclusive \subseteq Slots
    /\ NoSlot \notin Slots
    /\ Verdict \in [Calls -> {"2xx", "404", "4xx"}]
    /\ NotFoundOk \subseteq Calls

ASSUME RetriesAssumption == max_retries \in Nat

VARIABLES
    pc,       \* where each call is in the loop
    attempt,  \* the loop variable of each call
    answer,   \* what the attempt's HTTP call returned or raised
    result,   \* what _request returned or raised
    slept,    \* the time.sleep calls of each call, in seconds
    wire,     \* requests under way to the backend
    carried   \* requests the backend carried out

vars == <<pc, attempt, answer, result, slept, wire, carried>>

Attempts == 0..max_retries

Request == [call : Calls, attempt : Attempts]

\* A status code; "lost": ConnectionError or Timeout; "broken": any other
\* exception of the HTTP library, or a 2xx whose body is not JSON.
Answers == {"none", "2xx", "404", "4xx", "5xx", "lost", "broken"}

\* The parsed body; None; BackendValidationError; any other exception.
Results == {"value", "None", "validation", "raised"}

\* (What slept holds is WaitsDouble's business.)
TypeOK ==
    /\ pc \in [Calls -> {"ready", "waiting", "answered", "returned"}]
    /\ attempt \in [Calls -> Attempts]
    /\ answer \in [Calls -> Answers]
    /\ result \in [Calls -> Results \cup {"none"}]
    /\ wire \subseteq Request
    /\ carried \subseteq Request

Init ==
    /\ pc = [c \in Calls |-> "ready"]
    /\ attempt = [c \in Calls |-> 0]
    /\ answer = [c \in Calls |-> "none"]
    /\ result = [c \in Calls |-> "none"]
    /\ slept = [c \in Calls |-> <<>>]
    /\ wire = {}
    /\ carried = {}

Current(c) == [call |-> c, attempt |-> attempt[c]]

-----------------------------------------------------------------------------
(* The backend and the network *)

Taken(slot) == slot # NoSlot /\ \E r \in carried : SlotOf[r.call] = slot

\* The status code the backend gives a call it handles without failing: an
\* exclusive slot is refused once taken, a lookup succeeds once someone holds
\* what it looks for.
StatusFor(c) ==
    CASE Verdict[c] = "2xx" /\ SlotOf[c] \in Exclusive /\ Taken(SlotOf[c]) -> "4xx"
      [] Verdict[c] = "404" /\ Taken(LooksFor[c]) -> "2xx"
      [] OTHER -> Verdict[c]

\* The reply to r, which is lost on a caller that has stopped waiting for it,
\* may be lost on the way, or break off.
Reply(r, code) ==
    IF pc[r.call] = "waiting" /\ r = Current(r.call)
    THEN /\ \E got \in {code, "lost", "broken"} :
               answer' = [answer EXCEPT ![r.call] = got]
         /\ pc' = [pc EXCEPT ![r.call] = "answered"]
    ELSE UNCHANGED <<pc, answer>>

\* The backend handles a request; it may fail after the fact as well as
\* before.
Handle(r) ==
    /\ r \in wire
    /\ wire' = wire \ {r}
    /\ \/ /\ StatusFor(r.call) = "2xx"
          /\ carried' = carried \cup {r}
          /\ \E code \in {"2xx", "5xx"} : Reply(r, code)
       \/ /\ carried' = carried
          /\ \E code \in {StatusFor(r.call), "5xx"} \ {"2xx"} : Reply(r, code)
    /\ UNCHANGED <<attempt, result, slept>>

-----------------------------------------------------------------------------
(* _request *)

send(c) ==
    /\ pc[c] = "ready"
    /\ wire' = wire \cup {Current(c)}
    /\ pc' = [pc EXCEPT ![c] = "waiting"]
    /\ UNCHANGED <<attempt, answer, result, slept, carried>>

\* backend_api_timeout passes or the connection fails: the request may never
\* have left, or still be under way.
time_out(c) ==
    /\ pc[c] = "waiting"
    /\ wire' \in {wire, wire \ {Current(c)}}
    /\ answer' = [answer EXCEPT ![c] = "lost"]
    /\ pc' = [pc EXCEPT ![c] = "answered"]
    /\ UNCHANGED <<attempt, result, slept, carried>>

\* A faulty client would take a server error for a refusal.
Transient_lost_only(code) == code = "lost"

Transient(code) == code \in {"lost", "5xx"}

Answered(c) == pc[c] = "answered"

Return(c, r) ==
    /\ Answered(c)
    /\ result' = [result EXCEPT ![c] = r]
    /\ pc' = [pc EXCEPT ![c] = "returned"]
    /\ UNCHANGED <<attempt, answer, slept, wire, carried>>

\* time.sleep(2**attempt), and round the loop.  A faulty client would count
\* one attempt too many, or wait as long as the model client does.
Again_once_more(c, wait) ==
    /\ Answered(c)
    /\ Transient(answer[c])
    /\ attempt[c] <= max_retries
    /\ attempt' = [attempt EXCEPT ![c] = @ + 1]
    /\ slept' = [slept EXCEPT ![c] = Append(@, wait)]
    /\ answer' = [answer EXCEPT ![c] = "none"]
    /\ pc' = [pc EXCEPT ![c] = "ready"]
    /\ UNCHANGED <<result, wire, carried>>

Again(c, wait) ==
    /\ Answered(c)
    /\ Transient(answer[c])
    /\ attempt[c] < max_retries
    /\ attempt' = [attempt EXCEPT ![c] = @ + 1]
    /\ slept' = [slept EXCEPT ![c] = Append(@, wait)]
    /\ answer' = [answer EXCEPT ![c] = "none"]
    /\ pc' = [pc EXCEPT ![c] = "ready"]
    /\ UNCHANGED <<result, wire, carried>>

back_off_double(c) == Again(c, 2 ^ (attempt[c] + 1))

back_off(c) == Again(c, 2 ^ attempt[c])

\* The last attempt's failure is raised.  Faulty clients would count the
\* first attempt as a retry and never leave the loop, or leave it without a
\* result.
give_up_none(c) ==
    /\ Transient(answer[c])
    /\ attempt[c] = max_retries
    /\ Return(c, "None")

give_up_late(c) ==
    /\ Transient(answer[c])
    /\ attempt[c] = max_retries + 1
    /\ Return(c, "raised")

give_up(c) ==
    /\ Transient(answer[c])
    /\ attempt[c] = max_retries
    /\ Return(c, "raised")

break_off(c) ==
    /\ answer[c] = "broken"
    /\ Return(c, "raised")

NotFound(c) == answer[c] = "404" /\ c \in NotFoundOk

not_found(c) ==
    /\ NotFound(c)
    /\ Return(c, "None")

reject(c) ==
    /\ ~Transient(answer[c])
    /\ ~NotFound(c)
    /\ answer[c] \in {"404", "4xx", "5xx"}
    /\ Return(c, "validation")

\* A faulty client would parse whatever body came.
return_unchecked(c) ==
    /\ answer[c] \in {"2xx", "404", "4xx"}
    /\ Return(c, "value")

return_json(c) ==
    /\ answer[c] = "2xx"
    /\ Return(c, "value")

request(c) ==
    \/ send(c)
    \/ time_out(c)
    \/ back_off(c)
    \/ give_up(c)
    \/ not_found(c)
    \/ reject(c)
    \/ break_off(c)
    \/ return_json(c)

Next ==
    \/ \E c \in Calls : request(c)
    \/ \E r \in wire : Handle(r)

Spec == Init /\ [][Next]_vars

\* Every HTTP call has a timeout and every sleep an end; the backend need
\* not answer.
FairSpec == Spec /\ \A c \in Calls : WF_vars(request(c))

-----------------------------------------------------------------------------
(* Properties *)

Happened(c) == \E r \in carried : r.call = c

\* A call that was answered at the first attempt reports what became of it:
\* a value exactly if the backend carried it out, and nothing of it is left
\* on the way.  (After a retry this is not so: a booking whose reply was lost
\* is refused because it has its own slot.)
FirstAnswerIsTrue ==
    \A c \in Calls :
        attempt[c] = 0 /\ result[c] \in {"value", "None", "validation"} =>
            /\ result[c] = "value" <=> Happened(c)
            /\ \A r \in wire : r.call # c

\* The waits double from one second: a call that has come to attempt n has
\* slept n times, once after each attempt that failed, for 1, 2, 4, ... seconds.
WaitsDouble ==
    slept = [c \in Calls |-> [n \in 1..attempt[c] |-> 2 ^ (n - 1)]]

\* Every call ends, however the backend and the network behave.
EveryCallReturns ==
    \A c \in Calls : <>(pc[c] = "returned")

\* What the tools rely on, whatever is lost or late: a value means that the
\* call was carried out, and no call is carried out more than max_retries + 1
\* times.
Promise == INSTANCE RemoteCall WITH NotYet <- "none", happened <- carried,
                                   told <- result

AtMostSoOften == Promise!Spec

-----------------------------------------------------------------------------
(* The inductive invariant behind the theorems of BackendRequestProofs *)

Untouched(r) == r \notin wire /\ r \notin carried

\* What a call that has heard of its current attempt knows: an answer or a
\* result other than a failure says what became of that attempt, and that it
\* is no longer under way.
KnowsAttempt(c) ==
    /\ answer[c] = "2xx" \/ result[c] = "value" =>
           Current(c) \in carried /\ Current(c) \notin wire
    /\ answer[c] \in {"404", "4xx"} \/ result[c] \in {"None", "validation"} =>
           Untouched(Current(c))

AttemptInv ==
    \A c \in Calls :
        /\ pc[c] = "ready" => answer[c] = "none" /\ Untouched(Current(c))
        /\ pc[c] = "waiting" => /\ answer[c] = "none"
                                /\ Current(c) \in wire
        /\ pc[c] # "returned" => result[c] = "none"
        /\ pc[c] = "returned" => result[c] # "none"
        /\ KnowsAttempt(c)

\* A request is under way or carried out, of an attempt already made.
WireInv ==
    /\ wire \cap carried = {}
    /\ \A r \in wire \cup carried : r.attempt <= attempt[r.call]

RequestInv == TypeOK /\ AttemptInv /\ WireInv
===============================================================================
