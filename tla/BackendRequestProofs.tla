------------------------- MODULE BackendRequestProofs -------------------------
(***************************************************************************)
(* Theorems about BackendRequest, for any number of concurrent calls, any  *)
(* slots and verdicts, and any max_retries.                                *)
(***************************************************************************)
EXTENDS BackendRequest, SequenceTheorems, TLAPS

\* The invariant holds when nothing has been sent.
LEMMA InvInit == Init => RequestInv
<1> SUFFICES ASSUME Init PROVE RequestInv
  OBVIOUS
<1>1. \A c \in Calls : pc[c] = "ready" /\ answer[c] = "none" /\ result[c] = "none"
  BY DEF Init
<1>2. wire = {} /\ carried = {}
  BY DEF Init
<1>3. TypeOK
  BY RetriesAssumption DEF Init, TypeOK, Attempts, Answers, Results
<1>4. AttemptInv
  BY <1>1, <1>2 DEF AttemptInv, KnowsAttempt, Untouched
<1>5. WireInv
  BY <1>2 DEF WireInv
<1> QED BY <1>3, <1>4, <1>5 DEF RequestInv

\* A step of call c that touches no other call's variables keeps what the
\* others know, as the requests it adds or takes away are its own.
OwnStep(c) ==
    /\ \A d \in Calls : d # c =>
          /\ pc'[d] = pc[d]
          /\ attempt'[d] = attempt[d]
          /\ answer'[d] = answer[d]
          /\ result'[d] = result[d]
    /\ \A r \in Request : r.call # c =>
          (r \in wire' <=> r \in wire) /\ (r \in carried' <=> r \in carried)

\* AttemptInv for one call.
CallInv(c) ==
    /\ pc[c] = "ready" => answer[c] = "none" /\ Untouched(Current(c))
    /\ pc[c] = "waiting" => /\ answer[c] = "none"
                            /\ Current(c) \in wire
    /\ pc[c] # "returned" => result[c] = "none"
    /\ pc[c] = "returned" => result[c] # "none"
    /\ KnowsAttempt(c)

LEMMA OthersKeep ==
    ASSUME TypeOK, AttemptInv, NEW c \in Calls, OwnStep(c), CallInv(c)'
    PROVE  AttemptInv'
<1> SUFFICES ASSUME NEW d \in Calls, d # c PROVE CallInv(d)'
  BY DEF AttemptInv, CallInv
<1>1. /\ pc'[d] = pc[d] /\ attempt'[d] = attempt[d]
      /\ answer'[d] = answer[d] /\ result'[d] = result[d]
  BY DEF OwnStep
<1>2. Current(d)' = Current(d) /\ Current(d) \in Request /\ Current(d).call # c
  BY <1>1 DEF Current, Request, TypeOK
<1>3. /\ Current(d)' \in wire' <=> Current(d) \in wire
      /\ Current(d)' \in carried' <=> Current(d) \in carried
  BY <1>2 DEF OwnStep
<1>4. CallInv(d)
  BY DEF AttemptInv, CallInv
<1> QED BY <1>1, <1>3, <1>4 DEF CallInv, KnowsAttempt, Untouched

\* Every step keeps the types.
LEMMA TypeStep == TypeOK /\ [Next]_vars => TypeOK'
<1> SUFFICES ASSUME TypeOK, [Next]_vars PROVE TypeOK'
  OBVIOUS
<1> USE DEF TypeOK
<1>1. ASSUME NEW c \in Calls PROVE Current(c) \in Request
  BY DEF Current, Request
<1>2. ASSUME NEW c \in Calls, send(c) PROVE TypeOK'
  BY <1>1, <1>2 DEF send
<1>3. ASSUME NEW c \in Calls, time_out(c) PROVE TypeOK'
  BY <1>3 DEF time_out, Answers
<1>4. ASSUME NEW c \in Calls, back_off(c) PROVE TypeOK'
  <2>1. attempt[c] + 1 \in Attempts
    BY <1>4, RetriesAssumption DEF back_off, Again, Attempts
  <2> QED BY <1>4, <2>1 DEF back_off, Again, Answers
<1>5. ASSUME NEW c \in Calls, NEW r \in Results, Return(c, r) PROVE TypeOK'
  BY <1>5 DEF Return
<1>6. ASSUME NEW r \in wire, Handle(r) PROVE TypeOK'
  <2>1. wire' \subseteq Request /\ carried' \subseteq Request
    BY <1>6 DEF Handle
  <2>2. StatusFor(r.call) \in Answers
    BY CallsAssumption DEF StatusFor, Answers, Request
  <2>3. PICK code \in Answers : Reply(r, code)
    BY <1>6, <2>2 DEF Handle, Answers
  <2>4. answer' \in [Calls -> Answers] /\
        pc' \in [Calls -> {"ready", "waiting", "answered", "returned"}]
    BY <2>3 DEF Reply, Answers
  <2> QED BY <1>6, <2>1, <2>4 DEF Handle
<1>7. CASE UNCHANGED vars
  BY <1>7 DEF vars
<1> QED
  BY <1>2, <1>3, <1>4, <1>5, <1>6, <1>7
     DEF Next, request, give_up, not_found, reject, break_off, return_json, Results

\* ... and the invariant, one lemma per kind of step.
LEMMA SendStep ==
    ASSUME RequestInv, TypeOK', NEW c \in Calls, send(c)
    PROVE  RequestInv'
<1> USE DEF RequestInv
<1>1. /\ pc[c] = "ready" /\ pc'[c] = "waiting" /\ wire' = wire \cup {Current(c)}
      /\ Current(c)' = Current(c) /\ Current(c) \in Request
      /\ UNCHANGED <<attempt, answer, result, carried>>
      /\ \A d \in Calls : d # c => pc'[d] = pc[d]
  BY DEF send, Current, Request, TypeOK
<1>2. OwnStep(c)
  BY <1>1 DEF OwnStep, Current
<1>3. /\ answer[c] = "none" /\ result[c] = "none" /\ Untouched(Current(c))
  BY <1>1 DEF AttemptInv
<1>4. CallInv(c)'
  BY <1>1, <1>3 DEF CallInv, KnowsAttempt
<1>5. WireInv'
  BY <1>1, <1>3 DEF WireInv, Untouched, Current, TypeOK, Attempts
<1> QED BY <1>2, <1>4, <1>5, OthersKeep

LEMMA TimeOutStep ==
    ASSUME RequestInv, TypeOK', NEW c \in Calls, time_out(c)
    PROVE  RequestInv'
<1> USE DEF RequestInv
<1>1. /\ pc[c] = "waiting" /\ pc'[c] = "answered" /\ answer'[c] = "lost"
      /\ wire' \in {wire, wire \ {Current(c)}}
      /\ UNCHANGED <<attempt, result, carried>>
      /\ \A d \in Calls : d # c => pc'[d] = pc[d] /\ answer'[d] = answer[d]
  BY DEF time_out, TypeOK
<1>2. OwnStep(c)
  BY <1>1 DEF OwnStep, Current
<1>3. result[c] = "none"
  BY <1>1 DEF AttemptInv
<1>4. CallInv(c)'
  BY <1>1, <1>3 DEF CallInv, KnowsAttempt
<1>5. WireInv'
  BY <1>1 DEF WireInv
<1> QED BY <1>2, <1>4, <1>5, OthersKeep

LEMMA BackOffStep ==
    ASSUME RequestInv, TypeOK', NEW c \in Calls, back_off(c)
    PROVE  RequestInv'
<1> USE DEF RequestInv
<1>1. /\ pc[c] = "answered" /\ pc'[c] = "ready" /\ answer'[c] = "none"
      /\ attempt'[c] = attempt[c] + 1 /\ attempt[c] \in Nat
      /\ UNCHANGED <<result, wire, carried>>
      /\ \A d \in Calls : d # c => /\ pc'[d] = pc[d] /\ answer'[d] = answer[d]
                                   /\ attempt'[d] = attempt[d]
  BY DEF back_off, Again, Answered, TypeOK, Attempts
<1>2. OwnStep(c)
  BY <1>1 DEF OwnStep
<1>3. result[c] = "none"
  BY <1>1 DEF AttemptInv
<1>4. Untouched(Current(c))'
  <2>1. Current(c)'.call = c /\ Current(c)'.attempt = attempt[c] + 1
    BY <1>1 DEF Current
  <2>2. \A r \in wire \cup carried : r.call = c => r.attempt <= attempt[c]
    BY DEF WireInv
  <2>3. Current(c)' \notin wire \cup carried
    BY <1>1, <2>1, <2>2
  <2> QED BY <1>1, <2>3 DEF Untouched
<1>5. CallInv(c)'
  BY <1>1, <1>3, <1>4 DEF CallInv, KnowsAttempt
<1>6. WireInv'
  <2> SUFFICES ASSUME NEW r \in wire \cup carried PROVE r.attempt <= attempt'[r.call]
    BY <1>1 DEF WireInv
  <2>1. r.call \in Calls /\ r.attempt \in Nat /\ r.attempt <= attempt[r.call]
    BY DEF WireInv, TypeOK, Request, Attempts
  <2> QED BY <1>1, <2>1
<1> QED BY <1>2, <1>5, <1>6, OthersKeep

\* What a result says about the answer it is given for.
Says(r, got) ==
    /\ r = "value" => got = "2xx"
    /\ r \in {"None", "validation"} => got \in {"404", "4xx"}

LEMMA ReturnStep ==
    ASSUME RequestInv, TypeOK', NEW c \in Calls, NEW r \in Results,
           Return(c, r), Says(r, answer[c])
    PROVE  RequestInv'
<1> USE DEF RequestInv
<1>1. /\ pc'[c] = "returned" /\ result'[c] = r /\ r # "none"
      /\ UNCHANGED <<attempt, answer, wire, carried>>
      /\ \A d \in Calls : d # c => pc'[d] = pc[d] /\ result'[d] = result[d]
  BY DEF Return, TypeOK, Results
<1>2. OwnStep(c)
  BY <1>1 DEF OwnStep
<1>3. KnowsAttempt(c)'
  BY <1>1 DEF AttemptInv, KnowsAttempt, Says, Untouched, Current
<1>4. CallInv(c)'
  BY <1>1, <1>3 DEF CallInv
<1>5. WireInv'
  BY <1>1 DEF WireInv
<1> QED BY <1>2, <1>4, <1>5, OthersKeep

\* The backend carries out only what it then answers with a 2xx or fails on.
LEMMA HandleStep ==
    ASSUME RequestInv, TypeOK', NEW r \in wire, Handle(r)
    PROVE  RequestInv'
<1> USE DEF RequestInv
<1> DEFINE c == r.call
<1>1. c \in Calls /\ r \in Request /\ r \notin carried /\ c = r.call
  BY DEF TypeOK, Request, WireInv
<1>2. wire' = wire \ {r} /\ UNCHANGED <<attempt, result>>
  BY DEF Handle
<1>3. carried' \in {carried, carried \cup {r}}
  BY DEF Handle
<1>4. PICK code : /\ Reply(r, code)
                  /\ code = "2xx" => r \in carried'
                  /\ code \in {"404", "4xx"} => carried' = carried
                  /\ code # "none"
  <2>1. StatusFor(c) \in {"2xx", "404", "4xx"}
    BY <1>1, CallsAssumption DEF StatusFor
  <2> QED BY <2>1 DEF Handle
<1>5. WireInv'
  <2>1. wire' \cap carried' = {} /\ wire' \cup carried' \subseteq wire \cup carried
    BY <1>2, <1>3 DEF WireInv
  <2> QED BY <1>2, <2>1 DEF WireInv
<1> HIDE DEF c
<1>6. CASE pc[c] = "waiting" /\ r = Current(c)
  <2>1. /\ pc'[c] = "answered" /\ answer'[c] \in {code, "lost", "broken"}
        /\ \A d \in Calls : d # c => pc'[d] = pc[d] /\ answer'[d] = answer[d]
    BY <1>1, <1>4, <1>6 DEF Reply, TypeOK
  <2>2. OwnStep(c)
    BY <1>1, <1>2, <1>3, <2>1 DEF OwnStep
  <2>3. Current(c)' = r /\ result'[c] = "none"
    BY <1>1, <1>2, <1>6 DEF Current, AttemptInv
  <2>4. CallInv(c)'
    BY <1>1, <1>2, <1>4, <2>1, <2>3 DEF CallInv, KnowsAttempt, Untouched
  <2> QED BY <1>1, <1>5, <2>2, <2>4, OthersKeep
<1>7. CASE ~(pc[c] = "waiting" /\ r = Current(c))
  <2>1. UNCHANGED <<pc, answer>>
    BY <1>1, <1>4, <1>7 DEF Reply
  <2>2. OwnStep(c)
    BY <1>1, <1>2, <1>3, <2>1 DEF OwnStep
  <2>3. CallInv(c)
    BY <1>1 DEF AttemptInv, CallInv
  <2>4. Current(c)' = Current(c)
    BY <1>2 DEF Current
  <2>5. CASE Current(c) = r
    <3>1. /\ pc[c] \notin {"ready", "waiting"}
          /\ answer[c] \notin {"2xx", "404", "4xx"}
          /\ result[c] \notin {"value", "None", "validation"}
      BY <1>7, <2>3, <2>5 DEF CallInv, KnowsAttempt, Untouched
    <3>2. CallInv(c)'
      BY <1>2, <2>1, <2>3, <3>1 DEF CallInv, KnowsAttempt
    <3> QED BY <1>1, <1>5, <2>2, <3>2, OthersKeep
  <2>6. CASE Current(c) # r
    <3>1. /\ Current(c)' \in wire' <=> Current(c) \in wire
          /\ Current(c)' \in carried' <=> Current(c) \in carried
      BY <1>2, <1>3, <2>4, <2>6
    <3>2. CallInv(c)'
      BY <1>2, <2>1, <2>3, <3>1 DEF CallInv, KnowsAttempt, Untouched
    <3> QED BY <1>1, <1>5, <2>2, <3>2, OthersKeep
  <2> QED BY <2>5, <2>6
<1> QED BY <1>6, <1>7

LEMMA InvStep == RequestInv /\ [Next]_vars => RequestInv'
<1> SUFFICES ASSUME RequestInv, [Next]_vars PROVE RequestInv'
  OBVIOUS
<1>1. TypeOK'
  BY TypeStep DEF RequestInv
<1>2. ASSUME NEW c \in Calls, request(c) PROVE RequestInv'
  <2>1. CASE give_up(c) \/ break_off(c)
    BY <1>1, <2>1, ReturnStep DEF give_up, break_off, Says, Results
  <2>2. CASE not_found(c)
    BY <1>1, <2>2, ReturnStep DEF not_found, NotFound, Says, Results
  <2>3. CASE reject(c)
    BY <1>1, <2>3, ReturnStep DEF reject, Transient, Says, Results
  <2>4. CASE return_json(c)
    BY <1>1, <2>4, ReturnStep DEF return_json, Says, Results
  <2> QED BY <1>1, <1>2, <2>1, <2>2, <2>3, <2>4, SendStep, TimeOutStep, BackOffStep
          DEF request
<1>3. ASSUME NEW r \in wire, Handle(r) PROVE RequestInv'
  BY <1>1, <1>3, HandleStep
<1>4. CASE UNCHANGED vars
  BY <1>4 DEF vars, RequestInv, TypeOK, AttemptInv, KnowsAttempt, Untouched,
              Current, WireInv
<1> QED BY <1>2, <1>3, <1>4 DEF Next

-----------------------------------------------------------------------------
\* At every moment each call knows what became of its current attempt if it
\* was answered, and no request is under way or carried out that was not sent.
THEOREM RequestsKnown == Spec => []RequestInv
  BY InvInit, InvStep, PTL DEF Spec

\* The retry loop's variables stay in their ranges: no attempt beyond
\* max_retries is counted, and each call has one result of a known kind.
THEOREM TypeCorrect == Spec => []TypeOK
<1>1. RequestInv => TypeOK
  BY DEF RequestInv
<1> QED BY <1>1, RequestsKnown, PTL

\* A call answered at its first attempt tells its caller what became of it,
\* whatever the other calls, the backend and the network do.
THEOREM FirstAnswerCorrect == Spec => []FirstAnswerIsTrue
<1>1. RequestInv => FirstAnswerIsTrue
  <2> SUFFICES ASSUME RequestInv, NEW c \in Calls, attempt[c] = 0,
                      result[c] \in {"value", "None", "validation"}
               PROVE  /\ result[c] = "value" <=> Happened(c)
                      /\ \A r \in wire : r.call # c
    BY DEF FirstAnswerIsTrue
  <2>1. ASSUME NEW r \in wire \cup carried, r.call = c PROVE r = Current(c)
    <3>1. r \in Request /\ r.attempt <= 0
      BY <2>1 DEF RequestInv, TypeOK, WireInv
    <3>2. r.attempt = 0
      BY <3>1, RetriesAssumption DEF Request, Attempts
    <3> QED BY <2>1, <3>1, <3>2 DEF Request, Current
  <2>2. KnowsAttempt(c)
    BY DEF RequestInv, AttemptInv
  <2>3. Current(c) \notin wire
    BY <2>2 DEF KnowsAttempt, Untouched
  <2>4. result[c] = "value" <=> Current(c) \in carried
    BY <2>2 DEF KnowsAttempt, Untouched
  <2>5. Current(c).call = c
    BY DEF Current
  <2> QED BY <2>1, <2>3, <2>4, <2>5 DEF Happened
<1> QED BY <1>1, RequestsKnown, PTL

\* One more wait, twice as long as the last.
LEMMA DoublingAppend ==
    ASSUME NEW k \in Nat
    PROVE  Append([n \in 1..k |-> 2 ^ (n - 1)], 2 ^ k) = [n \in 1..k + 1 |-> 2 ^ (n - 1)]
<1> DEFINE waits == [n \in 1..k |-> 2 ^ (n - 1)]
           more == [n \in 1..k + 1 |-> 2 ^ (n - 1)]
           Waits == {2 ^ n : n \in Nat}
<1>1. ASSUME NEW j \in Nat
      PROVE  LET s == [n \in 1..j |-> 2 ^ (n - 1)] IN s \in Seq(Waits) /\ Len(s) = j
  <2> DEFINE s == [n \in 1..j |-> 2 ^ (n - 1)]
  <2>1. ASSUME NEW n \in 1..j PROVE 2 ^ (n - 1) \in Waits
    <3>1. n - 1 \in Nat
      OBVIOUS
    <3> QED BY <3>1
  <2>2. s \in [1..j -> Waits]
    BY <2>1
  <2> HIDE DEF s, Waits
  <2>3. s \in Seq(Waits) /\ Len(s) = j
    BY <2>2
  <2> QED BY <2>3 DEF s
<1>2. waits \in Seq(Waits) /\ Len(waits) = k /\ more \in Seq(Waits) /\ Len(more) = k + 1
  BY <1>1
<1>3. 2 ^ k \in Waits
  OBVIOUS
<1>4. /\ \A n \in 1..k : waits[n] = more[n]
      /\ more[k + 1] = 2 ^ k
  <2>1. (k + 1) - 1 = k
    OBVIOUS
  <2> QED BY <2>1
<1> DEFINE longer == Append(waits, 2 ^ k)
<1> HIDE DEF waits, more, Waits
<1>5. /\ longer \in Seq(Waits) /\ Len(longer) = k + 1
      /\ \A n \in 1..k : longer[n] = waits[n]
      /\ longer[k + 1] = 2 ^ k
  BY <1>2, <1>3, AppendProperties
<1> HIDE DEF longer
<1>6. longer = more
  BY <1>2, <1>4, <1>5, SeqEqual
<1> QED BY <1>6 DEF longer, waits, more

\* A call sleeps between two attempts only, as long as its number says.
LEMMA WaitsStep == TypeOK /\ WaitsDouble /\ [Next]_vars => WaitsDouble'
<1> SUFFICES ASSUME TypeOK, WaitsDouble, [Next]_vars PROVE WaitsDouble'
  OBVIOUS
<1>1. CASE UNCHANGED <<attempt, slept>>
  BY <1>1 DEF WaitsDouble
<1>2. ASSUME NEW c \in Calls, back_off(c) PROVE WaitsDouble'
  <2> DEFINE waits(k) == [n \in 1..k |-> 2 ^ (n - 1)]
  <2>1. attempt[c] \in Nat /\ slept[c] = waits(attempt[c]) /\ DOMAIN slept = Calls
    BY DEF TypeOK, Attempts, WaitsDouble
  <2>2. /\ attempt' = [attempt EXCEPT ![c] = @ + 1]
        /\ slept' = [slept EXCEPT ![c] = Append(@, 2 ^ attempt[c])]
    BY <1>2 DEF back_off, Again
  <2>3. slept' = [slept EXCEPT ![c] = waits(attempt[c] + 1)]
    BY <2>1, <2>2, DoublingAppend
  <2>4. /\ attempt'[c] = attempt[c] + 1
        /\ \A d \in Calls : d # c => attempt'[d] = attempt[d]
    BY <2>2 DEF TypeOK
  <2> HIDE DEF waits
  <2>5. slept = [d \in Calls |-> waits(attempt[d])]
    BY DEF WaitsDouble, waits
  <2>6. slept' = [d \in Calls |-> waits(attempt'[d])]
    BY <2>3, <2>4, <2>5
  <2> QED BY <2>6 DEF WaitsDouble, waits
<1>3. ASSUME NEW c \in Calls, request(c), ~back_off(c) PROVE UNCHANGED <<attempt, slept>>
  BY <1>3 DEF request, send, time_out, give_up, break_off, not_found, reject,
              return_json, Return
<1>4. ASSUME NEW r \in wire, Handle(r) PROVE UNCHANGED <<attempt, slept>>
  BY <1>4 DEF Handle
<1> QED BY <1>1, <1>2, <1>3, <1>4 DEF Next, vars

LEMMA WaitsInit == Init => WaitsDouble
<1> SUFFICES ASSUME Init PROVE WaitsDouble
  OBVIOUS
<1>1. \A c \in Calls : slept[c] = <<>> /\ attempt[c] = 0
  BY DEF Init
<1>2. [n \in 1..0 |-> 2 ^ (n - 1)] = <<>>
  OBVIOUS
<1> QED BY <1>1, <1>2 DEF Init, WaitsDouble

\* However many of its attempts fail, a call waits 1, 2, 4, ... seconds, and
\* only between two attempts.
THEOREM WaitsDoubled == Spec => []WaitsDouble
  BY WaitsInit, WaitsStep, TypeCorrect, PTL DEF Spec

\* Every step is a step of RemoteCall or leaves it alone.
LEMMA PromiseStep == RequestInv /\ [Next]_vars => [Promise!Next]_<<carried, result>>
<1> SUFFICES ASSUME RequestInv, [Next]_vars
             PROVE  Promise!Next \/ UNCHANGED <<carried, result>>
  OBVIOUS
<1>1. ASSUME NEW c \in Calls, NEW r \in Results, Return(c, r), Says(r, answer[c])
      PROVE  Promise!Tell(c)
  <2>1. result[c] = "none" /\ result' = [result EXCEPT ![c] = r] /\ carried' = carried
    BY <1>1 DEF Return, Answered, RequestInv, AttemptInv
  <2>2. r = "value" => Current(c) \in carried /\ Current(c).call = c
    BY <1>1 DEF Says, RequestInv, AttemptInv, KnowsAttempt, Current
  <2> QED BY <2>1, <2>2 DEF Promise!Tell
<1>2. ASSUME NEW r \in wire, Handle(r) PROVE Promise!Next \/ UNCHANGED <<carried, result>>
  <2>1. CASE carried' = carried
    BY <1>2, <2>1 DEF Handle
  <2>2. CASE carried' = carried \cup {r}
    <3>1. /\ r.call \in Calls /\ r.attempt \in Attempts /\ r \notin carried
          /\ r = [call |-> r.call, attempt |-> r.attempt]
      BY DEF RequestInv, TypeOK, WireInv, Request
    <3>2. Promise!Happen(r.call)
      BY <1>2, <2>2, <3>1 DEF Promise!Happen, Handle
    <3> QED BY <3>1, <3>2 DEF Promise!Next
  <2> QED BY <1>2, <2>1, <2>2 DEF Handle
<1>3. ASSUME NEW c \in Calls, request(c) PROVE Promise!Next \/ UNCHANGED <<carried, result>>
  <2>1. CASE send(c) \/ time_out(c) \/ back_off(c)
    BY <2>1 DEF send, time_out, back_off, Again
  <2>2. CASE give_up(c) \/ break_off(c)
    BY <1>1, <2>2 DEF give_up, break_off, Says, Results, Promise!Next
  <2>3. CASE not_found(c)
    BY <1>1, <2>3 DEF not_found, NotFound, Says, Results, Promise!Next
  <2>4. CASE reject(c)
    BY <1>1, <2>4 DEF reject, Transient, Says, Results, Promise!Next
  <2>5. CASE return_json(c)
    BY <1>1, <2>5 DEF return_json, Says, Results, Promise!Next
  <2> QED BY <1>3, <2>1, <2>2, <2>3, <2>4, <2>5 DEF request
<1>4. CASE UNCHANGED vars
  BY <1>4 DEF vars
<1> QED BY <1>2, <1>3, <1>4 DEF Next

\* The retrying client implements RemoteCall: a call is carried out at most
\* once per attempt, of which there are max_retries + 1, and a value is
\* returned only for a call that was carried out.
THEOREM ImplementsRemoteCall == Spec => AtMostSoOften
<1>1. Init => Promise!Init
  BY DEF Init, Promise!Init
<1> QED
  BY <1>1, PromiseStep, RequestsKnown, PTL DEF Spec, AtMostSoOften, Promise!Spec
===============================================================================
