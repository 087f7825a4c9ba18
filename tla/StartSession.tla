----------------------------- MODULE StartSession -----------------------------
(***************************************************************************)
(* Sign-in: POST /session (app/main.py) over the lookup and the creation   *)
(* of a customer that BackendRequest sends and retries.  Sign-ins run      *)
(* concurrently, from several tabs or from one that tries again, and may   *)
(* name the same contact (the phone and email of the form).                *)
(***************************************************************************)
EXTENDS BackendRequest

CONSTANTS
    SignIns,      \* the requests to POST /session
    ContactOf,    \* the contact a sign-in gives, if it gives one
    Regulars,     \* the contacts of customers the restaurant had before
    Parties       \* bound: the sign-ins sent in one behaviour are of one of these

lookup(i) == <<"lookup", i>>
create(i) == <<"create", i>>

ASSUME SignInsAssumption ==
    /\ ContactOf \in [SignIns -> Slots]
    /\ Regulars \subseteq Slots
    /\ Parties \subseteq SUBSET SignIns

\* The calls a sign-in makes.  The backend's rules may refuse any of them for
\* what is in it, a malformed phone or name say, and refuse it whenever it is
\* sent: a 4xx is "deterministic given the input" (_request).
ASSUME SignInCallsAssumption ==
    /\ Calls = {"lookup", "create"} \X SignIns
    /\ NotFoundOk = {lookup(i) : i \in SignIns}
    /\ \A i \in SignIns :
          /\ LooksFor[lookup(i)] = ContactOf[i] /\ SlotOf[lookup(i)] = NoSlot
          /\ Verdict[lookup(i)] \in
                {"4xx", IF ContactOf[i] \in Regulars THEN "2xx" ELSE "404"}
          /\ LooksFor[create(i)] = NoSlot /\ SlotOf[create(i)] = ContactOf[i]

\* The sign-ins with a call that the rules refuse.
Rejected ==
    {i \in SignIns : Verdict[lookup(i)] = "4xx" \/ Verdict[create(i)] # "2xx"}

VARIABLES
    step,       \* where each sign-in is
    named,      \* the sign-ins that gave a name
    reply,      \* the status code it was answered with, 0 for none yet
    customer,   \* the customer it was answered with
    known       \* the sign-ins whose customer existed when they were sent

signInVars == <<vars, step, named, reply, customer, known>>

\* Who holds a contact: the customer the restaurant had, named after it, and
\* those created since, named after the request that created them.
HoldersOf(contact) ==
    (Regulars \cap {contact}) \cup {r \in carried : SlotOf[r.call] = contact}

Registered(contact) == HoldersOf(contact) # {}

\* Nobody, in the place of a customer.
NoCustomer == NoSlot

SignInTypeOK ==
    /\ TypeOK
    /\ step \in [SignIns -> {"form", "lookup", "create", "over"}]
    /\ named \subseteq SignIns
    /\ reply \in [SignIns -> {0, 200, 404, 422, 500}]
    /\ customer \in [SignIns -> Regulars \cup Request \cup {NoCustomer}]
    /\ known \subseteq SignIns

SignInInit ==
    /\ Init
    /\ step = [i \in SignIns |-> "form"]
    /\ named = {}
    /\ reply = [i \in SignIns |-> 0]
    /\ customer = [i \in SignIns |-> NoCustomer]
    /\ known = {}

-----------------------------------------------------------------------------
(* start_session *)

Answer(i, code, who) ==
    /\ reply' = [reply EXCEPT ![i] = code]
    /\ customer' = [customer EXCEPT ![i] = who]
    /\ step' = [step EXCEPT ![i] = "over"]
    /\ UNCHANGED <<vars, named, known>>

\* The user sends the form.
Sends(i) ==
    /\ step[i] = "form"
    /\ \E party \in Parties : {i} \cup {j \in SignIns : step[j] # "form"} \subseteq party

\* Neither phone nor email is given.
contact_missing(i) ==
    /\ Sends(i)
    /\ Answer(i, 422, NoCustomer)

\* A contact is, with a name or without.
lookup_customer(i) ==
    /\ Sends(i)
    /\ named' \in {named, named \cup {i}}
    /\ step' = [step EXCEPT ![i] = "lookup"]
    /\ known' = IF Registered(ContactOf[i]) THEN known \cup {i} ELSE known
    /\ UNCHANGED <<vars, reply, customer>>

\* The lookup returned a customer ...
customer_found(i) ==
    /\ step[i] = "lookup"
    /\ result[lookup(i)] = "value"
    /\ \E who \in HoldersOf(ContactOf[i]) : Answer(i, 200, who)

\* ... or None, and there is no name to create one with ...
name_missing(i) ==
    /\ step[i] = "lookup"
    /\ result[lookup(i)] = "None"
    /\ i \notin named
    /\ Answer(i, 404, NoCustomer)

\* ... or there is.
create_customer(i) ==
    /\ step[i] = "lookup"
    /\ result[lookup(i)] = "None"
    /\ i \in named
    /\ step' = [step EXCEPT ![i] = "create"]
    /\ UNCHANGED <<vars, named, reply, customer, known>>

customer_created(i) ==
    /\ step[i] = "create"
    /\ result[create(i)] = "value"
    /\ Answer(i, 200, Current(create(i)))

\* What _request made of the call the sign-in is at.
Outcome(i) ==
    CASE step[i] = "lookup" -> result[lookup(i)]
      [] step[i] = "create" -> result[create(i)]
      [] OTHER -> "none"

\* BackendValidationError becomes a 422.  A faulty sign-in would catch
\* everything there.
refused_any(i) ==
    /\ Outcome(i) \in {"validation", "raised"}
    /\ Answer(i, 422, NoCustomer)

refused(i) ==
    /\ Outcome(i) = "validation"
    /\ Answer(i, 422, NoCustomer)

\* Any other exception is a 500, a body without an id or a name among them.
failed(i) ==
    /\ Outcome(i) \in {"raised", "value"}
    /\ Answer(i, 500, NoCustomer)

start_session(i) ==
    \/ contact_missing(i)
    \/ lookup_customer(i)
    \/ customer_found(i)
    \/ name_missing(i)
    \/ create_customer(i)
    \/ customer_created(i)
    \/ refused(i)
    \/ failed(i)

\* A step of the call the sign-in is waiting for.
Requesting(i) ==
    /\ \/ step[i] = "lookup" /\ request(lookup(i))
       \/ step[i] = "create" /\ request(create(i))
    /\ UNCHANGED <<step, named, reply, customer, known>>

SignInNext ==
    \/ \E i \in SignIns : start_session(i) \/ Requesting(i)
    \/ (\E r \in wire : Handle(r)) /\ UNCHANGED <<step, named, reply, customer, known>>

\* start_session is synchronous, and waits for one call at a time, which ends
\* as those of BackendRequest.  Nobody need sign in.
SignInSpec ==
    /\ SignInInit
    /\ [][SignInNext]_signInVars
    /\ \A i \in SignIns :
          /\ WF_signInVars(step[i] # "form" /\ start_session(i))
          /\ WF_signInVars(Requesting(i))

-----------------------------------------------------------------------------
(* Properties *)

\* Whoever the restaurant knows when the sign-in is sent is found or told of
\* a failure: never asked for a name as a new customer, and never created a
\* second time, however often the lookup was retried.
KnownCustomerIsFound ==
    \A i \in known :
        /\ reply[i] # 404
        /\ pc[create(i)] = "ready" /\ ~Happened(create(i))

\* A session is opened only for a customer the restaurant holds under the
\* contact given.
SignedInAsOwn ==
    \A i \in SignIns :
        reply[i] = 200 => customer[i] \in HoldersOf(ContactOf[i])

\* Where a contact is one customer's, all sign-ins with it are that customer,
\* whichever of them looked the customer up and whichever created it.
SameCustomerAgain ==
    \A i, j \in SignIns :
        /\ reply[i] = 200 /\ reply[j] = 200
        /\ ContactOf[i] = ContactOf[j] /\ ContactOf[i] \in Exclusive
        => customer[i] = customer[j]

\* The sign-ins sent with a contact.
sent == {i \in SignIns : step[i] \in {"lookup", "create"} \/ pc[lookup(i)] # "ready"}

\* A customer who gave a contact is refused only for what the sign-in says, or
\* because the contact is one customer's and has one (another sign-in, or an
\* earlier attempt of this one, was first): the next sign-in finds them.
RefusedWithReason ==
    \A i \in sent : reply[i] = 422 =>
        i \in Rejected \/ (ContactOf[i] \in Exclusive /\ Registered(ContactOf[i]))

\* Every sign-in that is sent is answered, whatever becomes of its calls: from
\* some time on none is waiting.
EverySignInEnds == <>[](\A i \in SignIns : step[i] \in {"form", "over"})

\* All of it together, and of every sign-in at every moment: the lookups and
\* creations, with their retries and late deliveries, amount to one register
\* of customers that sign-ins are answered from and add to.
register == {r \in carried : SlotOf[r.call] # NoSlot}

Creations == {r \in Request : \E i \in SignIns : r.call = create(i)}

Promised == INSTANCE CustomerRegister WITH
                AddedBy <- [r \in Creations |-> r.call[2]]

KeepsRegister == Promised!Spec

-----------------------------------------------------------------------------
(* The inductive invariant behind the theorems of StartSessionProofs *)

\* What a sign-in knows of its lookup: it is not sent from the form, is refused
\* by the rules only, and finds nobody only if they let it pass and the
\* restaurant knew nobody when the sign-in was sent.
LookupInv ==
    \A i \in SignIns :
        /\ step[i] = "form" => i \notin known /\ pc[lookup(i)] = "ready"
        /\ i \in known => Registered(ContactOf[i])
        /\ answer[lookup(i)] = "4xx" \/ result[lookup(i)] = "validation"
              => Verdict[lookup(i)] = "4xx"
        /\ answer[lookup(i)] = "404" \/ result[lookup(i)] = "None"
              => /\ i \notin known /\ ContactOf[i] \notin Regulars
                 /\ Verdict[lookup(i)] # "4xx"

\* The creation has been begun, or any of its requests is about.
Creating(i) ==
    \/ step[i] = "create" \/ pc[create(i)] # "ready"
    \/ \E r \in wire \cup carried : r.call = create(i)

\* A customer is created, or a name asked for, only once the lookup has found
\* nobody; and the creation is refused by the rules, or once an exclusive
\* contact has its customer.
CreateInv ==
    \A i \in SignIns :
        /\ Creating(i) \/ reply[i] = 404 => result[lookup(i)] = "None"
        /\ answer[create(i)] \in {"404", "4xx"} \/ result[create(i)] = "validation"
              => \/ Verdict[create(i)] # "2xx"
                 \/ ContactOf[i] \in Exclusive /\ Registered(ContactOf[i])

\* An exclusive contact is created once.
CreatedOnce ==
    \A q, r \in carried :
        SlotOf[q.call] = SlotOf[r.call] /\ SlotOf[r.call] \in Exclusive => q = r

\* A sign-in that was answered is over.  A creation is begun by a sign-in
\* that came to it, not by one answered from the form or asked for a name.
InOrder ==
    \A i \in SignIns :
        /\ reply[i] # 0 => step[i] = "over"
        /\ Creating(i) => step[i] \in {"create", "over"} /\ reply[i] # 404

SignInInv ==
    /\ SignInTypeOK
    /\ LookupInv
    /\ CreateInv
    /\ CreatedOnce
    /\ InOrder
===============================================================================
