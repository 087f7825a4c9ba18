------------------------- MODULE ConfirmedCallProofs --------------------------
(***************************************************************************)
(* Theorems about ConfirmedCall, for any calls, slots and max_retries.     *)
(***************************************************************************)
EXTENDS ConfirmedCall, BackendRequestProofs

\* A result, once given, stays: the promise of RemoteCall tells each caller
\* once.
LEMMA ResultsStay ==
    ASSUME RequestInv, [Next]_vars, NEW c \in Calls, result[c] = "value"
    PROVE  result'[c] = "value"
<1>1. [Promise!Next]_<<carried, result>>
  BY PromiseStep
<1>2. CASE UNCHANGED <<carried, result>>
  BY <1>2
<1>3. ASSUME NEW d \in Calls, Promise!Happen(d) PROVE result' = result
  BY <1>3 DEF Promise!Happen
<1>4. ASSUME NEW d \in Calls, Promise!Tell(d) PROVE result'[c] = "value"
  BY <1>4 DEF Promise!Tell, RequestInv, TypeOK
<1> QED BY <1>1, <1>2, <1>3, <1>4 DEF Promise!Next

\* An output is made of a value only, and a line of an output only.
LEMMA OutputStep ==
    ASSUME ConfirmedTypeOK, RequestInv, OutputInv, [ConfirmedNext]_confirmedVars
    PROVE  (ConfirmedTypeOK /\ RequestInv /\ OutputInv)'
<1>1. CASE [Next]_vars /\ UNCHANGED <<tool, remembered>>
  <2>1. RequestInv'
    BY <1>1, InvStep
  <2>2. OutputInv'
    BY <1>1, ResultsStay, ConfirmedAssumption DEF OutputInv
  <2> QED BY <1>1, <2>1, <2>2 DEF ConfirmedTypeOK, RequestInv
<1>2. ASSUME UNCHANGED vars PROVE RequestInv' /\ TypeOK'
  BY <1>2, InvStep DEF RequestInv
<1>3. ASSUME NEW c \in Confirmed, exec_tool(c)
      PROVE  (ConfirmedTypeOK /\ RequestInv /\ OutputInv)'
  <2>1. PICK output \in Outputs(result[c]) : tool' = [tool EXCEPT ![c] = output]
    BY <1>3 DEF exec_tool
  <2>2. output \in {"output", "error"} /\ (output = "output" => result[c] = "value")
    BY <2>1 DEF Outputs
  <2>3. UNCHANGED <<vars, remembered>> /\ UNCHANGED result
    BY <1>3 DEF exec_tool, vars
  <2> QED BY <1>2, <2>1, <2>2, <2>3 DEF ConfirmedTypeOK, OutputInv
<1>4. ASSUME NEW c \in Confirmed, append_episode(c) \/ relay_error(c)
      PROVE  (ConfirmedTypeOK /\ RequestInv /\ OutputInv)'
  <2>1. /\ UNCHANGED vars /\ UNCHANGED result
        /\ tool' = [tool EXCEPT ![c] = "over"]
        /\ \/ remembered' = remembered
           \/ tool[c] = "output" /\ remembered' = remembered \cup {c}
    BY <1>4 DEF append_episode, relay_error, vars
  <2> QED BY <1>2, <2>1 DEF ConfirmedTypeOK, OutputInv
<1> QED BY <1>1, <1>3, <1>4 DEF ConfirmedNext, confirmedVars, vars

\* The calls of ConfirmedCall are calls of BackendRequest: what becomes of
\* their results does not touch them.
THEOREM ConfirmedAreRequests == ConfirmedSpec => Spec
<1>1. ConfirmedInit => Init
  BY DEF ConfirmedInit
<1>2. [ConfirmedNext]_confirmedVars => [Next]_vars
  BY DEF ConfirmedNext, confirmedVars, exec_tool, append_episode, relay_error
<1> QED BY <1>1, <1>2, PTL DEF ConfirmedSpec, Spec

\* So a confirmed booking or order is sent, repeated and answered as any call:
\* truthfully at the first attempt, after doubling waits, carried out
\* max_retries + 1 times at most, and with a value only if carried out.
THEOREM ConfirmedKeepPromise ==
    ConfirmedSpec => /\ []RequestInv /\ []FirstAnswerIsTrue /\ []WaitsDouble
                     /\ AtMostSoOften
  BY ConfirmedAreRequests, RequestsKnown, FirstAnswerCorrect, WaitsDoubled,
     ImplementsRemoteCall, PTL

\* The types: a tool's output is none, a value or an error, and only confirmed
\* calls are remembered.
LEMMA ConfirmedTypes == ConfirmedSpec => []ConfirmedTypeOK
<1>1. ConfirmedInit => ConfirmedTypeOK /\ RequestInv /\ OutputInv
  BY InvInit DEF ConfirmedInit, ConfirmedTypeOK, RequestInv, OutputInv
<1> QED BY <1>1, OutputStep, PTL DEF ConfirmedSpec

\* The memory never claims a booking or an order the restaurant did not make,
\* however the confirmed call was sent, lost, repeated and answered.
THEOREM RememberedOnlyIfMade == ConfirmedSpec => []RememberedWasMade
<1>1. ConfirmedInit => ConfirmedTypeOK /\ RequestInv /\ OutputInv
  BY InvInit DEF ConfirmedInit, ConfirmedTypeOK, RequestInv, OutputInv
<1>2. ConfirmedTypeOK /\ RequestInv /\ OutputInv => RememberedWasMade
  <2> SUFFICES ASSUME ConfirmedTypeOK, RequestInv, OutputInv, NEW c \in remembered
               PROVE  Happened(c)
    BY DEF RememberedWasMade
  <2>1. c \in Calls /\ result[c] = "value"
    BY ConfirmedAssumption DEF ConfirmedTypeOK, OutputInv
  <2>2. Current(c) \in carried
    BY <2>1 DEF RequestInv, AttemptInv, KnowsAttempt
  <2> QED BY <2>2 DEF Happened, Current
<1> QED BY <1>1, <1>2, OutputStep, PTL DEF ConfirmedSpec
===============================================================================
