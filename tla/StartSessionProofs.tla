-------------------------- MODULE StartSessionProofs ---------------------------
(***************************************************************************)
(* Theorems about StartSession, for any number of concurrent sign-ins, any *)
(* contacts and any max_retries.                                           *)
(***************************************************************************)
EXTENDS StartSession, BackendRequestProofs

\* Each call belongs to one sign-in.
LEMMA CallNames ==
    /\ \A i \in SignIns : lookup(i) \in Calls /\ create(i) \in Calls
    /\ \A i, j \in SignIns : lookup(i) # create(j)
    /\ \A i, j \in SignIns : lookup(i) = lookup(j) \/ create(i) = create(j) => i = j
    /\ \A c \in Calls : \E i \in SignIns : c = lookup(i) \/ c = create(i)
  BY SignInCallsAssumption DEF lookup, create

\* Somebody is registered under a contact for good.
LEMMA RegisteredStays ==
    ASSUME carried \subseteq carried', NEW contact, Registered(contact)
    PROVE  Registered(contact)'
  BY DEF Registered, HoldersOf

LEMMA TakenIsRegistered ==
    ASSUME NEW contact \in Slots
    PROVE  Registered(contact) <=> contact \in Regulars \/ Taken(contact)
<1>1. contact # NoSlot
  BY CallsAssumption
<1> QED BY <1>1 DEF Registered, HoldersOf, Taken

\* What the backend answers a lookup and a creation.
LEMMA LookupStatus ==
    ASSUME NEW i \in SignIns
    PROVE  /\ StatusFor(lookup(i)) = "4xx" => Verdict[lookup(i)] = "4xx"
           /\ StatusFor(lookup(i)) = "404" =>
                 /\ ~Registered(ContactOf[i]) /\ ContactOf[i] \notin Regulars
                 /\ Verdict[lookup(i)] # "4xx"
<1>1. /\ LooksFor[lookup(i)] = ContactOf[i] /\ SlotOf[lookup(i)] = NoSlot
      /\ Verdict[lookup(i)] \in {"4xx", IF ContactOf[i] \in Regulars THEN "2xx" ELSE "404"}
      /\ ContactOf[i] \in Slots
  BY SignInCallsAssumption, SignInsAssumption
<1>2. ~(SlotOf[lookup(i)] \in Exclusive)
  BY <1>1, CallsAssumption
<1> QED BY <1>1, <1>2, TakenIsRegistered DEF StatusFor

LEMMA CreateStatus ==
    ASSUME NEW i \in SignIns
    PROVE  /\ StatusFor(create(i)) \in {"404", "4xx"} =>
                 \/ Verdict[create(i)] # "2xx"
                 \/ ContactOf[i] \in Exclusive /\ Registered(ContactOf[i])
           /\ StatusFor(create(i)) = "2xx" => Verdict[create(i)] = "2xx"
           /\ StatusFor(create(i)) = "2xx" /\ ContactOf[i] \in Exclusive
                 => \A r \in carried : SlotOf[r.call] # ContactOf[i]
<1>1. /\ SlotOf[create(i)] = ContactOf[i] /\ LooksFor[create(i)] = NoSlot
      /\ ContactOf[i] \in Slots /\ ContactOf[i] # NoSlot
  BY SignInCallsAssumption, SignInsAssumption, CallsAssumption
<1>2. Taken(ContactOf[i]) <=> \E r \in carried : SlotOf[r.call] = ContactOf[i]
  BY <1>1 DEF Taken
<1>3. ~Taken(NoSlot)
  BY DEF Taken
<1>4. Verdict[create(i)] \in {"2xx", "404", "4xx"}
  BY CallNames, CallsAssumption
<1> QED BY <1>1, <1>2, <1>3, <1>4, TakenIsRegistered DEF StatusFor

-----------------------------------------------------------------------------
(* What the steps of BackendRequest do to a sign-in's calls *)

LEMMA HandleEffect ==
    ASSUME RequestInv, NEW r \in wire, Handle(r)
    PROVE  /\ r \in Request /\ r.call \in Calls
           /\ wire' \subseteq wire /\ carried \subseteq carried'
           /\ carried' \subseteq carried \cup {r}
           /\ carried' # carried => StatusFor(r.call) = "2xx"
           /\ UNCHANGED <<attempt, result>>
           /\ \A d \in Calls : pc'[d] = "ready" <=> pc[d] = "ready"
           /\ \A d \in Calls : \A code \in {"404", "4xx"} :
                 answer'[d] = code =>
                    answer[d] = code \/ (d = r.call /\ StatusFor(d) = code)
<1>1. r \in Request /\ r.call \in Calls
  BY DEF RequestInv, TypeOK, Request
<1>2. StatusFor(r.call) \in {"2xx", "404", "4xx"}
  BY <1>1, CallsAssumption DEF StatusFor
<1>3. PICK code \in {"2xx", "404", "4xx", "5xx"} :
        /\ Reply(r, code)
        /\ code \in {"404", "4xx"} => StatusFor(r.call) = code
  BY <1>2 DEF Handle
<1>4. \A d \in Calls : pc'[d] = "ready" <=> pc[d] = "ready"
  BY <1>1, <1>3 DEF Reply, RequestInv, TypeOK
<1>5. \A d \in Calls : answer'[d] = answer[d]
                       \/ (d = r.call /\ answer'[d] \in {code, "lost", "broken"})
  BY <1>1, <1>3 DEF Reply, RequestInv, TypeOK
<1> QED BY <1>1, <1>3, <1>4, <1>5 DEF Handle

LEMMA RequestEffect ==
    ASSUME RequestInv, NEW c \in Calls, request(c)
    PROVE  /\ carried' = carried /\ wire' \subseteq wire \cup {Current(c)}
           /\ \A d \in Calls : d # c => /\ pc'[d] = pc[d] /\ answer'[d] = answer[d]
                                        /\ result'[d] = result[d]
           /\ answer'[c] \in {answer[c], "none", "lost"}
           /\ result'[c] = "None" => result[c] = "None" \/ answer[c] = "404"
           /\ result'[c] = "validation" =>
                 \/ result[c] = "validation" \/ answer[c] = "4xx"
                 \/ answer[c] = "404" /\ c \notin NotFoundOk
           /\ result[c] # "none" => result'[c] = result[c]
<1>1. result[c] = "none"
  BY DEF RequestInv, AttemptInv, request, send, time_out, back_off, Again, Answered,
         give_up, not_found, reject, break_off, return_json, Return
<1>2. CASE send(c) \/ time_out(c) \/ back_off(c)
  BY <1>1, <1>2 DEF send, time_out, back_off, Again, RequestInv, TypeOK
<1>3. ASSUME NEW x \in Results, Return(c, x)
      PROVE  /\ UNCHANGED <<answer, wire, carried>> /\ result'[c] = x
             /\ \A d \in Calls : d # c => pc'[d] = pc[d] /\ result'[d] = result[d]
  BY <1>3 DEF Return, RequestInv, TypeOK
<1>4. CASE give_up(c) \/ break_off(c)
  BY <1>1, <1>3, <1>4 DEF give_up, break_off, Results
<1>5. CASE not_found(c)
  BY <1>1, <1>3, <1>5 DEF not_found, NotFound, Results
<1>6. CASE reject(c)
  BY <1>1, <1>3, <1>6 DEF reject, NotFound, Transient, Results
<1>7. CASE return_json(c)
  BY <1>1, <1>3, <1>7 DEF return_json, Results
<1> QED BY <1>2, <1>4, <1>5, <1>6, <1>7 DEF request

-----------------------------------------------------------------------------
(* The invariant *)

SessionInv == SignInInv /\ RequestInv

LEMMA SessionInit == SignInInit => SessionInv
<1> SUFFICES ASSUME SignInInit PROVE SessionInv
  OBVIOUS
<1>1. RequestInv
  BY InvInit DEF SignInInit
<1>2. \A c \in Calls : pc[c] = "ready" /\ answer[c] = "none" /\ result[c] = "none"
  BY DEF SignInInit, Init
<1>3. wire = {} /\ carried = {} /\ known = {}
      /\ \A i \in SignIns : step[i] = "form" /\ reply[i] = 0
  BY DEF SignInInit, Init
<1>4. SignInTypeOK
  BY <1>1 DEF SignInTypeOK, SignInInit, RequestInv
<1>5. LookupInv /\ CreateInv /\ CreatedOnce /\ InOrder
  BY <1>2, <1>3, CallNames DEF LookupInv, CreateInv, Creating, CreatedOnce, InOrder
<1> QED BY <1>1, <1>4, <1>5 DEF SessionInv, SignInInv

\* A step of start_session itself.
LEMMA SessionStep ==
    ASSUME SessionInv, NEW i \in SignIns, start_session(i)
    PROVE  SessionInv'
<1> USE DEF SessionInv, SignInInv
<1>1. UNCHANGED vars
  BY DEF start_session, contact_missing, lookup_customer, customer_found, name_missing,
         create_customer, customer_created, refused, failed, Answer
<1>2. RequestInv' /\ TypeOK'
  BY <1>1, InvStep DEF RequestInv
<1>3. /\ UNCHANGED <<pc, answer, result, wire, carried>>
      /\ \A contact : Registered(contact)' <=> Registered(contact)
  BY <1>1 DEF vars, Registered, HoldersOf
<1>4. CreatedOnce'
  BY <1>3 DEF CreatedOnce
<1>5. ASSUME NEW code \in {200, 404, 422, 500},
             NEW who \in Regulars \cup Request \cup {NoCustomer}, Answer(i, code, who),
             code = 404 => result[lookup(i)] = "None",
             Creating(i) => step[i] = "create" /\ code # 404
      PROVE  SignInTypeOK' /\ LookupInv' /\ CreateInv' /\ InOrder'
  <2>1. SignInTypeOK'
    BY <1>2, <1>5 DEF SignInTypeOK, Answer
  <2>2. /\ step' = [step EXCEPT ![i] = "over"] /\ reply' = [reply EXCEPT ![i] = code]
        /\ known' = known
    BY <1>5 DEF Answer
  <2>3. LookupInv'
    BY <1>3, <2>2 DEF LookupInv, SignInTypeOK
  <2>4. CreateInv'
    BY <1>3, <1>5, <2>2 DEF CreateInv, Creating, SignInTypeOK
  <2>5. InOrder'
    BY <1>3, <1>5, <2>2 DEF InOrder, Creating, SignInTypeOK
  <2> QED BY <2>1, <2>3, <2>4, <2>5
<1>6. CASE contact_missing(i) \/ name_missing(i) \/ refused(i) \/ failed(i)
  <2>1. \/ step[i] # "create" /\ ~Creating(i)
        \/ step[i] = "create" /\ ~name_missing(i) /\ ~contact_missing(i)
    BY <1>6 DEF InOrder, contact_missing, Sends, name_missing, refused, failed, Outcome
  <2> QED BY <1>2, <1>4, <1>5, <1>6, <2>1
          DEF contact_missing, name_missing, refused, failed
<1>7. CASE customer_found(i)
  <2>1. PICK who \in HoldersOf(ContactOf[i]) : Answer(i, 200, who)
    BY <1>7 DEF customer_found
  <2>2. who \in Regulars \cup Request
    BY <2>1 DEF HoldersOf, SignInTypeOK, TypeOK
  <2>3. ~Creating(i)
    BY <1>7 DEF InOrder, customer_found
  <2> QED BY <1>2, <1>4, <1>5, <2>1, <2>2, <2>3
<1>8. CASE customer_created(i)
  <2>1. Current(create(i)) \in Request
    BY CallNames DEF Current, Request, RequestInv, TypeOK
  <2> QED BY <1>2, <1>4, <1>5, <1>8, <2>1 DEF customer_created
<1>9. CASE lookup_customer(i)
  <2>1. /\ step[i] = "form" /\ step' = [step EXCEPT ![i] = "lookup"]
        /\ known' = IF Registered(ContactOf[i]) THEN known \cup {i} ELSE known
        /\ named' \subseteq SignIns /\ UNCHANGED <<reply, customer>>
    BY <1>9 DEF lookup_customer, Sends, SignInTypeOK
  <2>2. SignInTypeOK'
    BY <1>2, <2>1 DEF SignInTypeOK
  <2>3. answer[lookup(i)] = "none" /\ result[lookup(i)] = "none"
    BY <2>1, CallNames DEF LookupInv, RequestInv, AttemptInv
  <2>4. LookupInv'
    BY <1>3, <2>1, <2>3 DEF LookupInv, SignInTypeOK
  <2>5. CreateInv'
    BY <1>3, <2>1 DEF CreateInv, Creating, SignInTypeOK
  <2>6. InOrder'
    BY <1>3, <2>1 DEF InOrder, Creating, SignInTypeOK
  <2> QED BY <1>2, <1>4, <2>2, <2>4, <2>5, <2>6
<1>10. CASE create_customer(i)
  <2>1. /\ step[i] = "lookup" /\ step' = [step EXCEPT ![i] = "create"]
        /\ result[lookup(i)] = "None" /\ UNCHANGED <<named, reply, customer, known>>
    BY <1>10 DEF create_customer
  <2>2. SignInTypeOK'
    BY <1>2, <2>1 DEF SignInTypeOK
  <2>3. LookupInv'
    BY <1>3, <2>1 DEF LookupInv, SignInTypeOK
  <2>4. CreateInv'
    BY <1>3, <2>1 DEF CreateInv, Creating, SignInTypeOK
  <2>5. reply[i] # 404
    BY <2>1 DEF InOrder
  <2>6. InOrder'
    BY <1>3, <2>1, <2>5 DEF InOrder, Creating, SignInTypeOK
  <2> QED BY <1>2, <1>4, <2>2, <2>3, <2>4, <2>6
<1> QED BY <1>6, <1>7, <1>8, <1>9, <1>10 DEF start_session

\* A step of the call the sign-in waits for.
LEMMA RequestingStep ==
    ASSUME SessionInv, NEW i \in SignIns, Requesting(i)
    PROVE  SessionInv'
<1> USE DEF SessionInv, SignInInv
<1>1. PICK c \in Calls : /\ request(c)
                         /\ \/ c = lookup(i) /\ step[i] = "lookup"
                            \/ c = create(i) /\ step[i] = "create"
  BY CallNames DEF Requesting
<1>2. RequestInv' /\ SignInTypeOK'
  <2>1. RequestInv'
    BY <1>1, InvStep DEF Next
  <2> QED BY <2>1 DEF Requesting, SignInTypeOK, RequestInv
<1>3. UNCHANGED <<step, reply, known>>
  BY DEF Requesting
<1>4. /\ carried' = carried /\ wire' \subseteq wire \cup {Current(c)}
      /\ \A d \in Calls : d # c => /\ pc'[d] = pc[d] /\ answer'[d] = answer[d]
                                   /\ result'[d] = result[d]
      /\ answer'[c] \in {answer[c], "none", "lost"}
      /\ result'[c] = "None" => result[c] = "None" \/ answer[c] = "404"
      /\ result'[c] = "validation" =>
            \/ result[c] = "validation" \/ answer[c] = "4xx"
            \/ answer[c] = "404" /\ c \notin NotFoundOk
      /\ result[c] # "none" => result'[c] = result[c]
  BY <1>1, RequestEffect
<1>5. \A contact : Registered(contact)' <=> Registered(contact)
  BY <1>4 DEF Registered, HoldersOf
<1>6. CreatedOnce'
  BY <1>4 DEF CreatedOnce
<1>7. LookupInv'
  <2> SUFFICES ASSUME NEW j \in SignIns
               PROVE  /\ step'[j] = "form" => j \notin known' /\ pc'[lookup(j)] = "ready"
                      /\ j \in known' => Registered(ContactOf[j])'
                      /\ answer'[lookup(j)] = "4xx" \/ result'[lookup(j)] = "validation"
                            => Verdict[lookup(j)] = "4xx"
                      /\ answer'[lookup(j)] = "404" \/ result'[lookup(j)] = "None"
                            => /\ j \notin known' /\ ContactOf[j] \notin Regulars
                               /\ Verdict[lookup(j)] # "4xx"
    BY DEF LookupInv
  <2>1. lookup(j) \in Calls /\ lookup(j) \in NotFoundOk
    BY CallNames, SignInCallsAssumption
  <2>2. lookup(j) = c => j = i /\ step[j] = "lookup"
    BY <1>1, CallNames
  <2> QED BY <1>3, <1>4, <1>5, <2>1, <2>2 DEF LookupInv
<1>8. CreateInv'
  <2> SUFFICES ASSUME NEW j \in SignIns
               PROVE  /\ Creating(j)' \/ reply'[j] = 404 => result'[lookup(j)] = "None"
                      /\ answer'[create(j)] \in {"404", "4xx"} \/
                            result'[create(j)] = "validation"
                         => \/ Verdict[create(j)] # "2xx"
                            \/ ContactOf[j] \in Exclusive /\ Registered(ContactOf[j])'
    BY DEF CreateInv
  <2>1. lookup(j) \in Calls /\ create(j) \in Calls /\ lookup(j) # create(j)
    BY CallNames
  <2>2. create(j) = c => j = i /\ step[j] = "create"
    BY <1>1, CallNames
  <2>3. Current(c).call = c
    BY DEF Current
  <2>4. Creating(j)' => Creating(j)
    BY <1>3, <1>4, <2>1, <2>2, <2>3 DEF Creating
  <2>5. result[lookup(j)] = "None" => result'[lookup(j)] = "None"
    BY <1>4, <2>1
  <2> QED BY <1>3, <1>4, <1>5, <2>1, <2>4, <2>5 DEF CreateInv
<1>9. InOrder'
  <2> SUFFICES ASSUME NEW j \in SignIns, Creating(j)' PROVE Creating(j)
    BY <1>3 DEF InOrder
  <2>1. create(j) \in Calls
    BY CallNames
  <2>2. create(j) = c => j = i /\ step[j] = "create"
    BY <1>1, CallNames
  <2>3. Current(c).call = c
    BY DEF Current
  <2> QED BY <1>3, <1>4, <2>1, <2>2, <2>3 DEF Creating
<1> QED BY <1>2, <1>6, <1>7, <1>8, <1>9

\* The backend handles one request.
LEMMA HandlingStep ==
    ASSUME SessionInv, NEW r \in wire, Handle(r), UNCHANGED <<step, named, reply, customer, known>>
    PROVE  SessionInv'
<1> USE DEF SessionInv, SignInInv
<1>1. RequestInv'
  BY InvStep DEF Next
<1>2. SignInTypeOK'
  BY <1>1 DEF SignInTypeOK, RequestInv
<1>3. /\ r \in Request /\ r.call \in Calls
      /\ wire' \subseteq wire /\ carried \subseteq carried'
      /\ carried' \subseteq carried \cup {r}
      /\ carried' # carried => StatusFor(r.call) = "2xx"
      /\ UNCHANGED <<attempt, result>>
      /\ \A d \in Calls : pc'[d] = "ready" <=> pc[d] = "ready"
      /\ \A d \in Calls : \A code \in {"404", "4xx"} :
            answer'[d] = code => answer[d] = code \/ (d = r.call /\ StatusFor(d) = code)
  BY HandleEffect
<1>4. \A contact : Registered(contact) => Registered(contact)'
  BY <1>3, RegisteredStays
<1>5. LookupInv'
  <2> SUFFICES ASSUME NEW j \in SignIns
               PROVE  /\ step'[j] = "form" => j \notin known' /\ pc'[lookup(j)] = "ready"
                      /\ j \in known' => Registered(ContactOf[j])'
                      /\ answer'[lookup(j)] = "4xx" \/ result'[lookup(j)] = "validation"
                            => Verdict[lookup(j)] = "4xx"
                      /\ answer'[lookup(j)] = "404" \/ result'[lookup(j)] = "None"
                            => /\ j \notin known' /\ ContactOf[j] \notin Regulars
                               /\ Verdict[lookup(j)] # "4xx"
    BY DEF LookupInv
  <2>1. lookup(j) \in Calls
    BY CallNames
  <2> QED BY <1>3, <1>4, <2>1, LookupStatus DEF LookupInv
<1>6. CreateInv'
  <2> SUFFICES ASSUME NEW j \in SignIns
               PROVE  /\ Creating(j)' \/ reply'[j] = 404 => result'[lookup(j)] = "None"
                      /\ answer'[create(j)] \in {"404", "4xx"} \/
                            result'[create(j)] = "validation"
                         => \/ Verdict[create(j)] # "2xx"
                            \/ ContactOf[j] \in Exclusive /\ Registered(ContactOf[j])'
    BY DEF CreateInv
  <2>1. create(j) \in Calls
    BY CallNames
  <2>2. Creating(j)' => Creating(j)
    BY <1>3, <2>1 DEF Creating
  <2> QED BY <1>3, <1>4, <2>1, <2>2, CreateStatus DEF CreateInv
<1>7. CreatedOnce'
  <2> SUFFICES ASSUME NEW p \in carried', NEW q \in carried', p # q,
                      SlotOf[p.call] = SlotOf[q.call], SlotOf[q.call] \in Exclusive
               PROVE  FALSE
    BY DEF CreatedOnce
  <2>1. PICK old \in carried : SlotOf[old.call] = SlotOf[r.call] /\ SlotOf[r.call] \in Exclusive
                               /\ StatusFor(r.call) = "2xx"
    BY <1>3 DEF CreatedOnce
  <2>2. PICK j \in SignIns : r.call = lookup(j) \/ r.call = create(j)
    BY <1>3, CallNames
  <2>3. SlotOf[lookup(j)] \notin Exclusive /\ SlotOf[create(j)] = ContactOf[j]
    BY SignInCallsAssumption, CallsAssumption
  <2> QED BY <2>1, <2>2, <2>3, CreateStatus
<1>8. InOrder'
  <2> SUFFICES ASSUME NEW j \in SignIns, Creating(j)' PROVE Creating(j)
    BY DEF InOrder
  <2>1. create(j) \in Calls
    BY CallNames
  <2> QED BY <1>3, <2>1 DEF Creating
<1> QED BY <1>1, <1>2, <1>5, <1>6, <1>7, <1>8

LEMMA SessionNext == SessionInv /\ [SignInNext]_signInVars => SessionInv'
<1> SUFFICES ASSUME SessionInv, [SignInNext]_signInVars PROVE SessionInv'
  OBVIOUS
<1>1. CASE UNCHANGED signInVars
  <2>1. UNCHANGED vars /\ UNCHANGED <<step, named, reply, customer, known>>
    BY <1>1 DEF signInVars
  <2>2. RequestInv'
    BY <2>1, InvStep DEF SessionInv
  <2> QED BY <2>1, <2>2
          DEF vars, SessionInv, SignInInv, SignInTypeOK, RequestInv, LookupInv, CreateInv,
              Creating, CreatedOnce, InOrder, Registered, HoldersOf
<1> QED BY <1>1, SessionStep, RequestingStep, HandlingStep DEF SignInNext

LEMMA SessionHolds == SignInSpec => []SessionInv
  BY SessionInit, SessionNext, PTL DEF SignInSpec

-----------------------------------------------------------------------------
\* The lookups and creations are calls of BackendRequest, sent one after the
\* other by their sign-in.
THEOREM SignInsAreRequests == SignInSpec => Spec
<1>1. SignInInit => Init
  BY DEF SignInInit
<1>2. [SignInNext]_signInVars => [Next]_vars
  <2>1. ASSUME NEW i \in SignIns, start_session(i) PROVE UNCHANGED vars
    BY <2>1 DEF start_session, contact_missing, lookup_customer, customer_found,
                name_missing, create_customer, customer_created, refused, failed, Answer
  <2>2. ASSUME NEW i \in SignIns, Requesting(i) PROVE Next
    BY <2>2, CallNames DEF Requesting, Next
  <2>3. ASSUME NEW r \in wire, Handle(r) PROVE Next
    BY <2>3 DEF Next
  <2> QED BY <2>1, <2>2, <2>3 DEF SignInNext, signInVars
<1> QED BY <1>1, <1>2, PTL DEF SignInSpec, Spec

\* So a customer whose contact nobody keeps to one holder is created
\* max_retries + 1 times at most by one sign-in, and a sign-in that was
\* answered at the first attempt was told what became of its call.
THEOREM SignInsKeepPromise ==
    SignInSpec => AtMostSoOften /\ []FirstAnswerIsTrue /\ []WaitsDouble
  BY SignInsAreRequests, FirstAnswerCorrect, WaitsDoubled, ImplementsRemoteCall, PTL

-----------------------------------------------------------------------------
\* Sign-ins and their calls stay in step: nothing is created, and no name is
\* asked for, unless the lookup found nobody; an exclusive contact is created
\* once, however often its creation is sent.
THEOREM SignInsInStep == SignInSpec => []SignInInv
  BY SessionHolds, PTL DEF SessionInv

\* For any number of concurrent sign-ins and any number of retries, whoever
\* was registered when the sign-in was sent is never taken for a new customer.
THEOREM KnownIsFound == SignInSpec => []KnownCustomerIsFound
<1>1. SessionInv => KnownCustomerIsFound
  <2> SUFFICES ASSUME SessionInv, NEW i \in known
               PROVE  /\ reply[i] # 404
                      /\ pc[create(i)] = "ready" /\ ~Happened(create(i))
    BY DEF KnownCustomerIsFound
  <2>1. i \in SignIns /\ result[lookup(i)] # "None"
    BY DEF SessionInv, SignInInv, SignInTypeOK, LookupInv
  <2>2. ~Creating(i) /\ reply[i] # 404
    BY <2>1 DEF SessionInv, SignInInv, CreateInv
  <2> QED BY <2>2 DEF Creating, Happened
<1> QED BY <1>1, SessionHolds, PTL

\* What a sign-in was answered, once it was: a customer the restaurant holds
\* under its contact, or a refusal that has its reason.
AnswerInv == SignedInAsOwn /\ RefusedWithReason

LEMMA AnswerStep ==
    ASSUME SessionInv, AnswerInv, [SignInNext]_signInVars PROVE AnswerInv'
<1> USE DEF SessionInv, SignInInv
<1>0. SignInTypeOK /\ SignInTypeOK' /\ RequestInv
  BY SessionNext
<1>1. carried \subseteq carried'
  <2>1. ASSUME NEW i \in SignIns, Requesting(i) PROVE carried' = carried
    BY <2>1, RequestEffect, CallNames DEF Requesting
  <2>2. ASSUME NEW i \in SignIns, start_session(i) PROVE carried' = carried
    BY <2>2 DEF start_session, contact_missing, lookup_customer, customer_found,
                name_missing, create_customer, customer_created, refused, failed, Answer, vars
  <2>3. ASSUME NEW r \in wire, Handle(r) PROVE carried \subseteq carried'
    BY <2>3 DEF Handle
  <2> QED BY <2>1, <2>2, <2>3 DEF SignInNext, signInVars, vars
<1>2. \A contact : HoldersOf(contact) \subseteq HoldersOf(contact)'
                   /\ (Registered(contact) => Registered(contact)')
  BY <1>1 DEF HoldersOf, Registered
<1>3. CASE UNCHANGED <<reply, customer>> /\
           \A i \in sent' : i \in sent \/ reply[i] = 0
  BY <1>2, <1>3 DEF AnswerInv, SignedInAsOwn, RefusedWithReason
<1>4. ASSUME NEW i \in SignIns, NEW code, NEW who, Answer(i, code, who),
             code = 200 => who \in HoldersOf(ContactOf[i]),
             code = 422 => \/ step[i] = "form" \/ i \in Rejected
                           \/ ContactOf[i] \in Exclusive /\ Registered(ContactOf[i])
      PROVE  AnswerInv'
  <2>1. /\ reply' = [reply EXCEPT ![i] = code] /\ customer' = [customer EXCEPT ![i] = who]
        /\ step' = [step EXCEPT ![i] = "over"] /\ UNCHANGED pc
    BY <1>4 DEF Answer, vars
  <2>2. step[i] = "form" => pc[lookup(i)] = "ready"
    BY DEF LookupInv
  <2>3. sent' \subseteq sent /\ (step[i] = "form" => i \notin sent')
    BY <2>1, <2>2 DEF sent, SignInTypeOK
  <2>4. SignedInAsOwn'
    BY <1>0, <1>2, <1>4, <2>1 DEF AnswerInv, SignedInAsOwn, SignInTypeOK
  <2>5. RefusedWithReason'
    BY <1>0, <1>2, <1>4, <2>1, <2>3 DEF AnswerInv, RefusedWithReason, SignInTypeOK, sent
  <2> QED BY <2>4, <2>5 DEF AnswerInv
<1>5. ASSUME NEW i \in SignIns, start_session(i) PROVE AnswerInv'
  <2>1. CASE contact_missing(i) \/ name_missing(i) \/ failed(i)
    BY <1>4, <2>1 DEF contact_missing, Sends, name_missing, failed
  <2>2. CASE customer_found(i)
    BY <1>4, <2>2 DEF customer_found
  <2>3. CASE customer_created(i)
    <3>1. Current(create(i)) \in carried
      BY <2>3, CallNames DEF customer_created, RequestInv, AttemptInv, KnowsAttempt
    <3>2. Current(create(i)) \in HoldersOf(ContactOf[i])
      BY <3>1, SignInCallsAssumption DEF Current, HoldersOf
    <3> QED BY <1>4, <2>3, <3>2 DEF customer_created
  <2>4. CASE refused(i)
    <3>1. Answer(i, 422, NoCustomer)
      BY <2>4 DEF refused
    <3>2. CASE step[i] = "lookup"
      BY <1>4, <2>4, <3>1, <3>2 DEF refused, Outcome, LookupInv, Rejected
    <3>3. CASE step[i] = "create"
      BY <1>4, <2>4, <3>1, <3>3 DEF refused, Outcome, CreateInv, Rejected
    <3> QED BY <2>4, <3>2, <3>3 DEF refused, Outcome
  <2>5. CASE lookup_customer(i) \/ create_customer(i)
    <3>1. /\ UNCHANGED <<pc, reply, customer>> /\ step[i] # "over"
          /\ \A j \in SignIns : j # i => step'[j] = step[j]
      BY <2>5 DEF lookup_customer, Sends, create_customer, vars, SignInTypeOK
    <3> QED BY <1>3, <3>1 DEF InOrder, sent
  <2> QED BY <1>5, <2>1, <2>2, <2>3, <2>4, <2>5 DEF start_session
<1>6. ASSUME NEW i \in SignIns, Requesting(i) PROVE AnswerInv'
  <2>1. UNCHANGED <<step, reply, customer>> /\ step[i] # "over"
    BY <1>6 DEF Requesting
  <2>2. ASSUME NEW j \in SignIns, j # i PROVE pc'[lookup(j)] = pc[lookup(j)]
    BY <1>6, <2>2, RequestEffect, CallNames DEF Requesting
  <2> QED BY <1>3, <2>1, <2>2 DEF InOrder, sent
<1>7. ASSUME NEW r \in wire, Handle(r), UNCHANGED <<step, named, reply, customer, known>>
      PROVE  AnswerInv'
  <2>1. \A j \in SignIns : pc'[lookup(j)] = "ready" <=> pc[lookup(j)] = "ready"
    BY <1>7, HandleEffect, CallNames
  <2> QED BY <1>3, <1>7, <2>1 DEF sent
<1>8. CASE UNCHANGED signInVars
  <2>1. UNCHANGED <<pc, step, reply, customer>>
    BY <1>8 DEF signInVars, vars
  <2> QED BY <1>3, <2>1 DEF sent
<1> QED BY <1>5, <1>6, <1>7, <1>8 DEF SignInNext

LEMMA AnswersHold == SignInSpec => []AnswerInv
<1>1. SignInInit => AnswerInv
  BY DEF SignInInit, AnswerInv, SignedInAsOwn, RefusedWithReason, sent
<1> QED BY <1>1, AnswerStep, SessionHolds, PTL DEF SignInSpec

\* No session is opened for somebody the restaurant does not hold under the
\* contact given, whatever is lost, late or repeated.
THEOREM SignedInCorrectly == SignInSpec => []SignedInAsOwn
  BY AnswersHold, PTL DEF AnswerInv

\* A customer who gave a contact is refused only if the backend's rules refuse
\* one of the two calls for what it says, or if the contact is one customer's
\* and somebody is registered under it by then.
THEOREM RefusedCorrectly == SignInSpec => []RefusedWithReason
  BY AnswersHold, PTL DEF AnswerInv

\* Sign-ins with one exclusive contact all open the same customer's session.
THEOREM SameCustomer == SignInSpec => []SameCustomerAgain
<1>1. SessionInv /\ AnswerInv => SameCustomerAgain
  <2> SUFFICES ASSUME SessionInv, AnswerInv, NEW i \in SignIns, NEW j \in SignIns,
                      reply[i] = 200, reply[j] = 200, ContactOf[i] = ContactOf[j],
                      ContactOf[i] \in Exclusive
               PROVE  customer[i] = customer[j]
    BY DEF SameCustomerAgain
  <2> DEFINE contact == ContactOf[i]
  <2>1. customer[i] \in HoldersOf(contact) /\ customer[j] \in HoldersOf(contact)
    BY DEF AnswerInv, SignedInAsOwn
  <2>2. \A q, r \in carried : SlotOf[q.call] = contact /\ SlotOf[r.call] = contact => q = r
    BY DEF SessionInv, SignInInv, CreatedOnce
  <2>3. ASSUME NEW r \in carried, SlotOf[r.call] = contact PROVE contact \notin Regulars
    <3>1. r.call \in Calls /\ contact # NoSlot
      BY SignInsAssumption, CallsAssumption DEF SessionInv, RequestInv, TypeOK, Request
    <3>2. PICK k \in SignIns : r.call = create(k) /\ ContactOf[k] = contact
      <4>1. PICK k \in SignIns : r.call = lookup(k) \/ r.call = create(k)
        BY <3>1, CallNames
      <4>2. SlotOf[lookup(k)] = NoSlot /\ SlotOf[create(k)] = ContactOf[k]
        BY SignInCallsAssumption
      <4> QED BY <2>3, <3>1, <4>1, <4>2
    <3>3. result[lookup(k)] = "None"
      BY <2>3, <3>2 DEF SessionInv, SignInInv, CreateInv, Creating
    <3> QED BY <3>2, <3>3 DEF SessionInv, SignInInv, LookupInv
  <2> QED BY <2>1, <2>2, <2>3 DEF HoldersOf
<1> QED BY <1>1, SessionHolds, AnswersHold, PTL

-----------------------------------------------------------------------------
(* Sign-in implements CustomerRegister *)

\* The register of the refinement mapping is what HoldersOf speaks of.
LEMMA RegisterHolders ==
    ASSUME RequestInv
    PROVE  /\ \A r \in register : r \in Creations
           /\ \A r \in Creations : r.call[2] \in SignIns /\ r.call = create(r.call[2])
           /\ \A i \in SignIns : Promised!HoldersOf(ContactOf[i]) = HoldersOf(ContactOf[i])
<1>1. ASSUME NEW r \in Creations PROVE r.call[2] \in SignIns /\ r.call = create(r.call[2])
  BY DEF Creations, create
<1>2. ASSUME NEW r \in carried, SlotOf[r.call] # NoSlot PROVE r \in Creations
  <2>1. r \in Request /\ r.call \in Calls
    BY DEF RequestInv, TypeOK, Request
  <2>2. PICK i \in SignIns : r.call = lookup(i) \/ r.call = create(i)
    BY <2>1, CallNames
  <2> QED BY <1>2, <2>1, <2>2, SignInCallsAssumption DEF Creations
<1>3. ASSUME NEW r \in Creations PROVE SlotOf[r.call] = ContactOf[r.call[2]]
  BY <1>1, SignInCallsAssumption
<1>4. ASSUME NEW i \in SignIns
      PROVE  Promised!HoldersOf(ContactOf[i]) = HoldersOf(ContactOf[i])
  <2>1. ContactOf[i] # NoSlot
    BY SignInsAssumption, CallsAssumption
  <2>2. \A r \in register :
           ContactOf[[q \in Creations |-> q.call[2]][r]] = SlotOf[r.call]
    BY <1>2, <1>3 DEF register
  <2> QED BY <2>1, <2>2 DEF Promised!HoldersOf, HoldersOf, register
<1> QED BY <1>1, <1>2, <1>4 DEF register

\* A sign-in with a result of its lookup was sent.
LEMMA SentStays ==
    ASSUME SessionInv, NEW i \in SignIns
    PROVE  /\ result[lookup(i)] # "none" => i \in sent
           /\ step[i] = "form" => i \notin sent
           /\ step[i] \in {"lookup", "create"} => i \in sent
<1>1. lookup(i) \in Calls
  BY CallNames
<1> QED BY <1>1 DEF SessionInv, SignInInv, LookupInv, RequestInv, AttemptInv, sent

\* A step of the handler sends a sign-in, answers it, or goes on within.
LEMMA HandlerPromise ==
    ASSUME SessionInv, NEW i \in SignIns, start_session(i)
    PROVE  [Promised!Next]_<<sent, known, register, reply, customer>>
<1> USE DEF SessionInv, SignInInv
<1>1. UNCHANGED vars
  BY DEF start_session, contact_missing, lookup_customer, customer_found, name_missing,
         create_customer, customer_created, refused, failed, Answer
<1>2. UNCHANGED <<register, pc>>
  BY <1>1 DEF vars, register
<1>3. Promised!HoldersOf(ContactOf[i]) = HoldersOf(ContactOf[i])
  BY RegisterHolders
<1>4. ASSUME NEW code, NEW who, Answer(i, code, who),
             step[i] = "form" \/ result[lookup(i)] # "none"
      PROVE  Promised!Answer(i, code, who)
  <2>1. reply[i] = 0
    <3>1. step[i] # "over"
      BY DEF start_session, contact_missing, lookup_customer, Sends, customer_found,
             name_missing, create_customer, customer_created, refused, failed, Outcome
    <3> QED BY <3>1 DEF InOrder
  <2>2. step' = [step EXCEPT ![i] = "over"]
    BY <1>4 DEF Answer
  <2>3. sent' = sent
    <3>1. ASSUME NEW j \in SignIns PROVE j \in sent' <=> j \in sent
      <4>1. CASE j # i
        BY <1>2, <2>2, <4>1 DEF sent, SignInTypeOK
      <4>2. CASE j = i
        <5>1. lookup(i) \in Calls
          BY CallNames
        <5>2. result[lookup(i)] # "none" => pc[lookup(i)] # "ready"
          BY <5>1 DEF RequestInv, AttemptInv
        <5> QED BY <1>2, <1>4, <2>2, <4>2, <5>2 DEF sent, LookupInv, SignInTypeOK
      <4> QED BY <4>1, <4>2
    <3> QED BY <3>1 DEF sent
  <2> QED BY <1>2, <1>4, <2>1, <2>3 DEF Promised!Answer, Answer
<1>5. step[i] \in {"lookup", "create"} /\ Outcome(i) # "none" => result[lookup(i)] # "none"
  BY DEF Outcome, CreateInv, Creating
<1>6. CASE contact_missing(i)
  BY <1>4, <1>6, SentStays DEF contact_missing, Sends, Promised!Next, Promised!Refuse
<1>7. CASE lookup_customer(i)
  <2>1. /\ step[i] = "form" /\ step' = [step EXCEPT ![i] = "lookup"]
        /\ known' = IF Registered(ContactOf[i]) THEN known \cup {i} ELSE known
        /\ UNCHANGED <<reply, customer>>
    BY <1>7 DEF lookup_customer, Sends
  <2>2. i \notin sent /\ reply[i] = 0
    BY <2>1, SentStays DEF InOrder
  <2>3. sent' = sent \cup {i}
    BY <1>2, <2>1 DEF sent, SignInTypeOK
  <2>4. Promised!Send(i)
    BY <1>2, <1>3, <2>1, <2>2, <2>3 DEF Promised!Send, Registered
  <2> QED BY <2>4 DEF Promised!Next
<1>8. CASE customer_found(i)
  <2>1. PICK who \in HoldersOf(ContactOf[i]) : Answer(i, 200, who)
    BY <1>8 DEF customer_found
  <2>2. Promised!Answer(i, 200, who) /\ i \in sent
    BY <1>4, <1>8, <2>1, SentStays DEF customer_found
  <2> QED BY <1>3, <2>1, <2>2 DEF Promised!Next, Promised!Open
<1>9. CASE name_missing(i)
  <2>1. result[lookup(i)] = "None" /\ step[i] = "lookup" /\ Answer(i, 404, NoCustomer)
    BY <1>9 DEF name_missing
  <2>2. i \in sent \ known /\ Promised!Answer(i, 404, NoCustomer)
    BY <1>4, <2>1, SentStays DEF LookupInv
  <2>3. ASSUME NEW r \in register PROVE [q \in Creations |-> q.call[2]][r] # i
    <3>1. r \in Creations /\ r \in carried /\ r.call = create(r.call[2])
      BY RegisterHolders DEF register
    <3>2. ~Creating(i)
      BY <2>1 DEF InOrder
    <3> QED BY <3>1, <3>2 DEF Creating
  <2> QED BY <2>2, <2>3 DEF Promised!Next, Promised!AskName
<1>10. CASE create_customer(i)
  <2>1. sent' = sent
    BY <1>2, <1>10 DEF create_customer, sent, SignInTypeOK
  <2> QED BY <1>2, <1>10, <2>1 DEF create_customer
<1>11. CASE customer_created(i)
  <2>1. /\ step[i] = "create" /\ result[create(i)] = "value"
        /\ Answer(i, 200, Current(create(i)))
    BY <1>11 DEF customer_created
  <2>2. Current(create(i)) \in carried
    BY <2>1, CallNames DEF RequestInv, AttemptInv, KnowsAttempt
  <2>3. Current(create(i)) \in HoldersOf(ContactOf[i])
    BY <2>2, SignInCallsAssumption DEF Current, HoldersOf
  <2>4. Promised!Answer(i, 200, Current(create(i))) /\ i \in sent
    BY <1>4, <1>5, <2>1, SentStays DEF Outcome
  <2> QED BY <1>3, <2>3, <2>4 DEF Promised!Next, Promised!Open
<1>12. CASE refused(i)
  <2>1. Answer(i, 422, NoCustomer) /\ step[i] \in {"lookup", "create"}
    BY <1>12 DEF refused, Outcome
  <2>2. Promised!Answer(i, 422, NoCustomer)
    BY <1>4, <1>5, <1>12, <2>1 DEF refused
  <2>3. i \in Rejected \/ (ContactOf[i] \in Exclusive /\ Registered(ContactOf[i]))
    BY <1>12, <2>1 DEF refused, Outcome, LookupInv, CreateInv, Rejected
  <2> QED BY <1>3, <2>2, <2>3 DEF Promised!Next, Promised!Refuse, Registered
<1>13. CASE failed(i)
  <2>1. step[i] \in {"lookup", "create"} /\ Outcome(i) # "none" /\ Answer(i, 500, NoCustomer)
    BY <1>13 DEF failed, Outcome
  <2> QED BY <1>4, <1>5, <2>1, SentStays DEF Promised!Next, Promised!Fail
<1> QED BY <1>6, <1>7, <1>8, <1>9, <1>10, <1>11, <1>12, <1>13 DEF start_session

\* The steps of a sign-in's own calls are not seen ...
LEMMA RequestingPromise ==
    ASSUME SessionInv, NEW i \in SignIns, Requesting(i)
    PROVE  UNCHANGED <<sent, known, register, reply, customer>>
<1>1. PICK c \in Calls : /\ request(c)
                         /\ \/ c = lookup(i) /\ step[i] = "lookup"
                            \/ c = create(i) /\ step[i] = "create"
  BY CallNames DEF Requesting
<1>2. /\ carried' = carried
      /\ \A d \in Calls : d # c => pc'[d] = pc[d]
  BY <1>1, RequestEffect DEF SessionInv
<1>3. ASSUME NEW j \in SignIns PROVE j \in sent' <=> j \in sent
  <2>1. lookup(j) \in Calls /\ (lookup(j) = c => step[j] = "lookup")
    BY <1>1, CallNames
  <2> QED BY <1>2, <2>1 DEF Requesting, sent
<1> QED BY <1>2, <1>3 DEF Requesting, sent, register

\* ... and what the backend carries out adds a customer, or none.
LEMMA HandlingPromise ==
    ASSUME SessionInv, AnswerInv, NEW r \in wire, Handle(r),
           UNCHANGED <<step, named, reply, customer, known>>
    PROVE  [Promised!Next]_<<sent, known, register, reply, customer>>
<1> USE DEF SessionInv, SignInInv
<1>1. /\ r \in Request /\ r.call \in Calls
      /\ carried \subseteq carried' /\ carried' \subseteq carried \cup {r}
      /\ carried' # carried => StatusFor(r.call) = "2xx"
      /\ \A d \in Calls : pc'[d] = "ready" <=> pc[d] = "ready"
  BY HandleEffect
<1>2. sent' = sent
  BY <1>1, CallNames DEF sent
<1>3. CASE carried' = carried \/ SlotOf[r.call] = NoSlot
  BY <1>1, <1>2, <1>3 DEF register
<1>4. CASE carried' # carried /\ SlotOf[r.call] # NoSlot
  <2>1. register' = register \cup {r} /\ r \notin register
    BY <1>1, <1>4 DEF register, RequestInv, WireInv
  <2>2. PICK i \in SignIns : r.call = create(i)
    BY <1>1, <1>4, CallNames, SignInCallsAssumption
  <2>3. r \in Creations /\ [q \in Creations |-> q.call[2]][r] = i
    BY <1>1, <2>2 DEF Creations, create
  <2>4. Creating(i) /\ result[lookup(i)] = "None"
    BY <2>2 DEF Creating, CreateInv
  <2>5. i \in sent \ known /\ reply[i] # 404 /\ ContactOf[i] \notin Regulars
    BY <2>4, SentStays DEF LookupInv, InOrder
  <2>6. ContactOf[i] \in Exclusive => HoldersOf(ContactOf[i]) = {}
    BY <1>1, <1>4, <2>2, <2>5, CreateStatus DEF HoldersOf
  <2>7. i \notin Rejected
    BY <1>1, <1>4, <2>2, <2>4, CreateStatus DEF LookupInv, Rejected
  <2>8. reply[i] # 422
    BY <2>5, <2>6, <2>7 DEF AnswerInv, RefusedWithReason, Registered
  <2>9. Promised!HoldersOf(ContactOf[i]) = HoldersOf(ContactOf[i])
    BY RegisterHolders
  <2>10. Promised!Add(r)
    BY <1>2, <2>1, <2>3, <2>5, <2>6, <2>9, <2>7, <2>8 DEF Promised!Add
  <2> QED BY <2>3, <2>10 DEF Promised!Next
<1> QED BY <1>3, <1>4

\* Whatever is lost, late, repeated or sent at once, sign-in is one register
\* of customers that sign-ins are answered from and add to.
THEOREM ImplementsRegister == SignInSpec => KeepsRegister
<1>1. SignInInit => Promised!Init
  <2> SUFFICES ASSUME SignInInit PROVE Promised!Init
    OBVIOUS
  <2>1. sent = {} /\ register = {}
    BY CallNames DEF SignInInit, Init, sent, register
  <2> QED BY <2>1 DEF SignInInit, Promised!Init
<1>2. SessionInv /\ AnswerInv /\ [SignInNext]_signInVars
         => [Promised!Next]_<<sent, known, register, reply, customer>>
  <2> SUFFICES ASSUME SessionInv, AnswerInv, [SignInNext]_signInVars
               PROVE  [Promised!Next]_<<sent, known, register, reply, customer>>
    OBVIOUS
  <2>1. CASE UNCHANGED signInVars
    BY <2>1 DEF signInVars, vars, sent, register
  <2> QED BY <2>1, HandlerPromise, RequestingPromise, HandlingPromise DEF SignInNext
<1> QED BY <1>1, <1>2, SessionHolds, AnswersHold, PTL
        DEF SignInSpec, KeepsRegister, Promised!Spec
===============================================================================
