-------------------------- MODULE ChatCompletionProofs -------------------------
(***************************************************************************)
(* Theorems about ChatCompletion, for any number of concurrent calls, any  *)
(* Retry-After headers and any settings.max_retries.                       *)
(***************************************************************************)
EXTENDS ChatCompletion, TLAPS

\* The lengths of time.sleep there can be.
Pauses == {2 ^ n : n \in Nat} \cup Headers \cup {DEFAULT_RETRY_AFTER_SECONDS}

WaitsTyped == waits \in [Calls -> Seq(Pauses)]

\* What is inductive: the bookkeeping of the loop, and the two properties.
Inv == CompletionInv /\ WaitsTyped /\ WaitsAsAsked /\ GivesUpWithReason

\* The part of the invariant that is about one call.
CallInv(c) ==
    /\ pc[c] # "over" => Len(failures[c]) = attempt[c] - 1 /\ result[c] = "none"
    /\ pc[c] \in {"build", "instrument", "create"} => attempt[c] <= max_retries
    /\ attempt[c] = 1 \/ attempt[c] <= max_retries
    /\ Len(waits[c]) = attempt[c] - 1
    /\ \A n \in DOMAIN waits[c] :
          LET f == failures[c][n] IN
          waits[c][n] = IF ~f.limited THEN 2 ^ n
                        ELSE IF f.header = Unreadable
                             THEN DEFAULT_RETRY_AFTER_SECONDS ELSE f.header
    /\ LET tried == Len(failures[c]) IN
       /\ tried <= max_retries
       /\ result[c] = "RateLimitError" =>
             tried = max_retries /\ tried > 0 /\ failures[c][tried].limited
       /\ result[c] = "TransientLLMError" =>
             tried = max_retries /\ (tried > 0 => ~failures[c][tried].limited)

LEMMA InvByCall ==
    Inv <=> TypeOK /\ WaitsTyped /\ BuilderHooks /\ \A c \in Calls : CallInv(c)
  BY DEF Inv, CompletionInv, FailuresCounted, WaitsAsAsked, GivesUpWithReason, CallInv

LEMMA InvInit == Init => Inv
<1> SUFFICES ASSUME Init PROVE Inv
  OBVIOUS
<1>1. TypeOK /\ WaitsTyped /\ BuilderHooks
  BY SettingsAssumption, ClientAssumption DEF Init, TypeOK, WaitsTyped, BuilderHooks, Results
<1>2. ASSUME NEW c \in Calls PROVE CallInv(c)
  <2>1. /\ attempt[c] = 1 /\ result[c] = "none" /\ pc[c] = "ready" /\ max_retries \in Nat
        /\ failures[c] = << >> /\ waits[c] = << >>
    BY SettingsAssumption DEF Init
  <2>2. Len(<< >>) = 0 /\ DOMAIN << >> = {}
    OBVIOUS
  <2> QED BY <2>1, <2>2 DEF CallInv
<1> QED BY <1>1, <1>2, InvByCall

\* A step of call c leaves the other calls and the setting alone.
OwnStep(c) ==
    /\ UNCHANGED max_retries
    /\ \A d \in Calls : d # c =>
          /\ pc'[d] = pc[d]
          /\ attempt'[d] = attempt[d]
          /\ failures'[d] = failures[d]
          /\ waits'[d] = waits[d]
          /\ result'[d] = result[d]

LEMMA OthersKeep ==
    ASSUME Inv, NEW c \in Calls, OwnStep(c), TypeOK', WaitsTyped',
           BuilderHooks', CallInv(c)'
    PROVE  Inv'
<1>1. ASSUME NEW d \in Calls, d # c PROVE CallInv(d)'
  BY <1>1, InvByCall DEF OwnStep, CallInv
<1>2. \A d \in Calls : CallInv(d)'
  BY <1>1
<1>3. Inv' <=> TypeOK' /\ WaitsTyped' /\ BuilderHooks' /\ \A d \in Calls : CallInv(d)'
  BY DEF Inv, CompletionInv, FailuresCounted, WaitsAsAsked, GivesUpWithReason, CallInv
<1> QED BY <1>2, <1>3

\* Getting the client: the loop's books stay as they are.
LEMMA ClientStep ==
    ASSUME Inv, NEW c \in Calls, get_client(c)
    PROVE  Inv'
<1>1. /\ UNCHANGED <<max_retries, attempt, failures, waits, result>>
      /\ pc[c] # "over" /\ attempt[c] <= max_retries
      /\ pc' = [pc EXCEPT ![c] = pc'[c]]
      /\ pc'[c] \in {"build", "instrument", "create"}
  <2>1. pc[c] \in {"ready", "build", "instrument"}
    BY DEF get_client, use_client, find_no_client, build_client, instrument_openai
  <2>2. attempt[c] <= max_retries
    BY InvByCall DEF CallInv, get_client, use_client, find_no_client, build_client,
                     instrument_openai
  <2> QED BY <2>1, <2>2, InvByCall
          DEF get_client, use_client, find_no_client, build_client, instrument_openai, TypeOK
<1>2. client' \in Calls \cup {NoClient} /\ instrumented' \subseteq Calls
  BY DEF Inv, CompletionInv, TypeOK, BuilderHooks, get_client, use_client,
         find_no_client, build_client, instrument_openai
<1>3. TypeOK' /\ WaitsTyped'
  BY <1>1, <1>2 DEF Inv, CompletionInv, TypeOK, WaitsTyped
<1>4. BuilderHooks'
  <2>1. CASE use_client(c)
    BY <2>1 DEF Inv, CompletionInv, TypeOK, BuilderHooks, use_client
  <2>2. CASE find_no_client(c)
    BY <2>2 DEF Inv, CompletionInv, TypeOK, BuilderHooks, find_no_client
  <2>3. CASE build_client(c)
    BY <2>3, ClientAssumption DEF Inv, CompletionInv, TypeOK, BuilderHooks, build_client
  <2>4. CASE instrument_openai(c)
    BY <2>4 DEF Inv, CompletionInv, TypeOK, BuilderHooks, instrument_openai
  <2> QED BY <2>1, <2>2, <2>3, <2>4 DEF get_client
<1>5. OwnStep(c)
  BY <1>1 DEF OwnStep, Inv, CompletionInv, TypeOK
<1>6. CallInv(c)'
  <2>1. CallInv(c)
    BY InvByCall
  <2> QED BY <1>1, <2>1 DEF CallInv
<1> QED BY <1>3, <1>4, <1>5, <1>6, OthersKeep

\* The end of a call: nothing waits any more, and no client is touched.
LEMMA OverStep ==
    ASSUME Inv, NEW c \in Calls, NEW r \in Results, Return(c, r),
           UNCHANGED <<max_retries, client, instrumented>>,
           failures' \in [Calls -> Seq(Failure)], pc[c] # "instrument",
           \A d \in Calls : d # c => failures'[d] = failures[d],
           CallInv(c)'
    PROVE  Inv'
<1>1. TypeOK' /\ WaitsTyped'
  BY DEF Inv, CompletionInv, TypeOK, WaitsTyped, Return
<1>2. BuilderHooks'
  BY DEF Inv, CompletionInv, TypeOK, BuilderHooks, Return
<1>3. OwnStep(c)
  BY DEF OwnStep, Inv, CompletionInv, TypeOK, Return
<1> QED BY <1>1, <1>2, <1>3, OthersKeep

\* What one more failure does to the call's history.
LEMMA OneMore ==
    ASSUME Inv, NEW c \in Calls, NEW f \in Failure,
           Attempted(c, Append(failures[c], f))
    PROVE  /\ failures' \in [Calls -> Seq(Failure)]
           /\ Len(failures'[c]) = attempt[c]
           /\ failures'[c][attempt[c]] = f
           /\ \A n \in 1..(attempt[c] - 1) : failures'[c][n] = failures[c][n]
           /\ \A d \in Calls : d # c => failures'[d] = failures[d]
           /\ attempt[c] <= max_retries /\ attempt[c] \in Nat \ {0} /\ max_retries \in Nat
           /\ result[c] = "none" /\ pc[c] = "create"
<1>1. /\ Len(failures[c]) = attempt[c] - 1 /\ failures[c] \in Seq(Failure)
      /\ attempt[c] \in Nat /\ attempt[c] <= max_retries /\ max_retries \in Nat
      /\ result[c] = "none" /\ pc[c] = "create"
  BY InvByCall, SettingsAssumption DEF CallInv, TypeOK, Attempted
<1>2. attempt[c] # 0
  BY <1>1
<1>3. /\ failures'[c] = Append(failures[c], f)
      /\ \A d \in Calls : d # c => failures'[d] = failures[d]
      /\ failures' \in [Calls -> Seq(Failure)]
  BY <1>1 DEF Attempted, Inv, CompletionInv, TypeOK
<1>4. /\ Len(failures'[c]) = attempt[c]
      /\ failures'[c][attempt[c]] = f
      /\ \A n \in 1..(attempt[c] - 1) : failures'[c][n] = failures[c][n]
  BY <1>1, <1>2, <1>3
<1> QED BY <1>1, <1>2, <1>3, <1>4

LEMMA SleepStep ==
    ASSUME Inv, NEW c \in Calls, sleep_again(c)
    PROVE  Inv'
<1>1. PICK f \in Failure :
        /\ Attempted(c, Append(failures[c], f))
        /\ attempt[c] < max_retries
        /\ waits' = [waits EXCEPT ![c] = Append(@, Wait(f, attempt[c]))]
        /\ attempt' = [attempt EXCEPT ![c] = @ + 1]
        /\ pc' = [pc EXCEPT ![c] = "ready"]
        /\ UNCHANGED result
  BY DEF sleep_again
<1> DEFINE w == Wait(f, attempt[c])
<1>2. /\ failures' \in [Calls -> Seq(Failure)]
      /\ Len(failures'[c]) = attempt[c]
      /\ failures'[c][attempt[c]] = f
      /\ \A n \in 1..(attempt[c] - 1) : failures'[c][n] = failures[c][n]
      /\ \A d \in Calls : d # c => failures'[d] = failures[d]
      /\ attempt[c] <= max_retries /\ attempt[c] \in Nat \ {0} /\ max_retries \in Nat
      /\ result[c] = "none" /\ pc[c] = "create"
  BY <1>1, OneMore
<1>3. w \in Pauses
  BY <1>2 DEF Wait, retry_after_from, Pauses, Failure
<1>4. /\ waits[c] \in Seq(Pauses) /\ Len(waits[c]) = attempt[c] - 1
      /\ \A n \in DOMAIN waits[c] :
          waits[c][n] = IF ~failures[c][n].limited THEN 2 ^ n
                        ELSE IF failures[c][n].header = Unreadable
                             THEN DEFAULT_RETRY_AFTER_SECONDS ELSE failures[c][n].header
  BY InvByCall DEF CallInv, WaitsTyped
<1> HIDE DEF w
<1>5. waits'[c] = Append(waits[c], w) /\ attempt'[c] = attempt[c] + 1
  BY <1>1 DEF Inv, CompletionInv, TypeOK, WaitsTyped, w
<1>6. /\ waits'[c] \in Seq(Pauses) /\ Len(waits'[c]) = attempt[c]
      /\ waits'[c][attempt[c]] = w /\ DOMAIN waits'[c] = 1..attempt[c]
      /\ \A n \in 1..(attempt[c] - 1) : waits'[c][n] = waits[c][n]
      /\ DOMAIN waits[c] = 1..(attempt[c] - 1)
  BY <1>2, <1>3, <1>4, <1>5
<1>7. TypeOK' /\ WaitsTyped'
  <2>1. waits' \in [Calls -> Seq(Pauses)]
    BY <1>1, <1>5, <1>6 DEF Inv, WaitsTyped
  <2> QED BY <1>1, <1>2, <2>1 DEF Inv, CompletionInv, TypeOK, WaitsTyped, Attempted
<1>8. BuilderHooks'
  BY <1>1, <1>2 DEF Inv, CompletionInv, TypeOK, BuilderHooks, Attempted
<1>9. OwnStep(c)
  BY <1>1, <1>2 DEF OwnStep, Inv, CompletionInv, TypeOK, WaitsTyped, Attempted
<1>10. \A n \in 1..attempt[c] :
          waits'[c][n] = IF ~failures'[c][n].limited THEN 2 ^ n
                         ELSE IF failures'[c][n].header = Unreadable
                              THEN DEFAULT_RETRY_AFTER_SECONDS ELSE failures'[c][n].header
  <2>1. w = IF ~f.limited THEN 2 ^ attempt[c]
            ELSE IF f.header = Unreadable THEN DEFAULT_RETRY_AFTER_SECONDS ELSE f.header
    BY DEF w, Wait, retry_after_from
  <2>2. ASSUME NEW n \in 1..(attempt[c] - 1)
        PROVE  waits'[c][n] = IF ~failures'[c][n].limited THEN 2 ^ n
                              ELSE IF failures'[c][n].header = Unreadable
                              THEN DEFAULT_RETRY_AFTER_SECONDS ELSE failures'[c][n].header
    BY <1>2, <1>4, <1>6
  <2>3. \A n \in 1..attempt[c] : n = attempt[c] \/ n \in 1..(attempt[c] - 1)
    BY <1>2
  <2> QED BY <1>2, <1>6, <2>1, <2>2, <2>3
<1>11. CallInv(c)'
  <2>1. pc'[c] = "ready" /\ result'[c] = "none" /\ max_retries' = max_retries
    BY <1>1, <1>2 DEF Inv, CompletionInv, TypeOK, Attempted
  <2> QED BY <1>1, <1>2, <1>5, <1>6, <1>10, <2>1 DEF CallInv
<1> QED BY <1>7, <1>8, <1>9, <1>11, OthersKeep

\* The last failure is raised as what it was.
LEMMA LastFailureStep ==
    ASSUME Inv, NEW c \in Calls, give_up(c) \/ sleep_raises(c)
    PROVE  Inv'
<1>1. PICK f \in Failure, r \in {"RateLimitError", "TransientLLMError", "raised"} :
        /\ Attempted(c, Append(failures[c], f))
        /\ Return(c, r)
        /\ r = "RateLimitError" => attempt[c] = max_retries /\ f.limited
        /\ r = "TransientLLMError" => attempt[c] = max_retries /\ ~f.limited
  BY DEF give_up, sleep_raises
<1>2. /\ failures' \in [Calls -> Seq(Failure)]
      /\ Len(failures'[c]) = attempt[c]
      /\ failures'[c][attempt[c]] = f
      /\ \A n \in 1..(attempt[c] - 1) : failures'[c][n] = failures[c][n]
      /\ \A d \in Calls : d # c => failures'[d] = failures[d]
      /\ attempt[c] <= max_retries /\ attempt[c] \in Nat \ {0} /\ max_retries \in Nat
      /\ result[c] = "none" /\ pc[c] = "create"
  BY <1>1, OneMore
<1>3. /\ pc'[c] = "over" /\ result'[c] = r /\ UNCHANGED <<max_retries, attempt, waits>>
  BY <1>1 DEF Return, Attempted, Inv, CompletionInv, TypeOK
<1>4. /\ waits[c] \in Seq(Pauses) /\ Len(waits[c]) = attempt[c] - 1
      /\ \A n \in DOMAIN waits[c] :
          waits[c][n] = IF ~failures[c][n].limited THEN 2 ^ n
                        ELSE IF failures[c][n].header = Unreadable
                             THEN DEFAULT_RETRY_AFTER_SECONDS ELSE failures[c][n].header
  BY InvByCall DEF CallInv, WaitsTyped
<1>5. DOMAIN waits[c] = 1..(attempt[c] - 1)
  BY <1>2, <1>4
<1>6. CallInv(c)'
  BY <1>1, <1>2, <1>3, <1>4, <1>5 DEF CallInv
<1> QED BY <1>1, <1>2, <1>6, OverStep DEF Results, Attempted

\* A completion, or an error that is not retried, ends the call.
LEMMA AnsweredStep ==
    ASSUME Inv, NEW c \in Calls, refused(c) \/ completed(c)
    PROVE  Inv'
<1>1. PICK r \in {"raised", "completion"} : Attempted(c, failures[c]) /\ Return(c, r)
  BY DEF refused, completed
<1>2. /\ pc'[c] = "over" /\ result'[c] = r /\ pc[c] = "create"
      /\ UNCHANGED <<max_retries, attempt, waits, failures>>
  BY <1>1 DEF Return, Attempted, Inv, CompletionInv, TypeOK
<1>3. CallInv(c)
  BY InvByCall
<1>4. CallInv(c)'
  BY <1>2, <1>3 DEF CallInv
<1> QED BY <1>1, <1>2, <1>4, OverStep DEF Results, Attempted, Inv, CompletionInv, TypeOK

LEMMA ExhaustedStep ==
    ASSUME Inv, NEW c \in Calls, exhausted(c)
    PROVE  Inv'
<1>1. /\ pc[c] = "ready" /\ attempt[c] > max_retries
      /\ UNCHANGED <<max_retries, client, instrumented, failures>>
      /\ Return(c, "TransientLLMError")
  BY DEF exhausted
<1>2. /\ pc'[c] = "over" /\ result'[c] = "TransientLLMError" /\ UNCHANGED <<attempt, waits>>
  BY <1>1 DEF Return, Inv, CompletionInv, TypeOK
<1>3. CallInv(c) /\ failures[c] \in Seq(Failure) /\ attempt[c] \in Nat /\ max_retries \in Nat
  BY InvByCall, SettingsAssumption DEF TypeOK
<1>4. max_retries = 0 /\ Len(failures[c]) = 0
  BY <1>1, <1>3 DEF CallInv
<1>5. CallInv(c)'
  BY <1>1, <1>2, <1>3, <1>4 DEF CallInv
<1> QED BY <1>1, <1>5, OverStep DEF Results, Inv, CompletionInv, TypeOK

LEMMA InvStep == Inv /\ [Next]_vars => Inv'
<1> SUFFICES ASSUME Inv, [Next]_vars PROVE Inv'
  OBVIOUS
<1>1. ASSUME NEW c \in Calls, chat_completion(c) PROVE Inv'
  BY <1>1, ClientStep, SleepStep, LastFailureStep, AnsweredStep, ExhaustedStep
     DEF chat_completion
<1>2. CASE UNCHANGED vars
  BY <1>2 DEF vars, Inv, CompletionInv, TypeOK, FailuresCounted, BuilderHooks,
              WaitsTyped, WaitsAsAsked, GivesUpWithReason
<1> QED BY <1>1, <1>2 DEF Next

LEMMA InvHolds == Spec => []Inv
  BY InvInit, InvStep, PTL DEF Spec

-----------------------------------------------------------------------------
\* The books of every call and of the shared client are kept, for any number
\* of concurrent calls: no attempt beyond max_retries is begun, and a client
\* without its hook is one whose builder has still to hook it.
THEOREM BooksKept == Spec => []CompletionInv
  BY InvHolds, PTL DEF Inv

\* For every provider and every max_retries, a call waits exactly as it was
\* told to, or doubles its wait, between any two of its attempts.
THEOREM WaitsCorrect == Spec => []WaitsAsAsked
  BY InvHolds, PTL DEF Inv

\* A call that gives up has made all its attempts and says why the last one
\* failed.
THEOREM ReasonCorrect == Spec => []GivesUpWithReason
  BY InvHolds, PTL DEF Inv

\* However many calls race to build the client, one of them has still to hook
\* logfire into the one that is in use, or it is hooked.
THEOREM ClientHooked == Spec => []ClientSettles
<1>1. Inv => ClientSettles
  BY DEF Inv, CompletionInv, TypeOK, BuilderHooks, ClientSettles
<1> QED BY <1>1, InvHolds, PTL
===============================================================================
