--------------------------- MODULE CustomerRegister ----------------------------
(***************************************************************************)
(* What POST /session (app/main.py) promises the restaurant and its        *)
(* customers, without lookups, attempts or connections: a session is       *)
(* opened for a customer registered under the contact given; a customer is *)
(* added only by a sign-in that was sent when nobody was registered, and   *)
(* under a contact that is one customer's only while there is none.  Who   *)
(* is refused is rejected by the backend's rules, or finds the contact     *)
(* taken; who is refused or asked for a name is not added after that.  A   *)
(* sign-in that failed may still add its customer later.                   *)
(***************************************************************************)
CONSTANTS
    SignIns,
    ContactOf,    \* the contact of each sign-in
    Regulars,     \* the contacts of customers there were before
    Exclusive,    \* the contacts that are one customer's
    Creations,    \* the customers that can be added
    Rejected,     \* the sign-ins the backend's rules do not let through
    AddedBy,      \* the sign-in each of them is added by
    NoCustomer    \* nobody, in the place of a customer

VARIABLES
    sent,       \* the sign-ins sent with a contact
    known,      \* those whose contact had a customer when they were sent
    register,   \* the customers added
    reply,      \* the status code of each sign-in, 0 for none yet
    customer    \* the customer its session was opened for

Init ==
    /\ sent = {}
    /\ known = {}
    /\ register = {}
    /\ reply = [i \in SignIns |-> 0]
    /\ customer = [i \in SignIns |-> NoCustomer]

HoldersOf(contact) ==
    (Regulars \cap {contact}) \cup {r \in register : ContactOf[AddedBy[r]] = contact}

Send(i) ==
    /\ i \notin sent
    /\ reply[i] = 0
    /\ sent' = sent \cup {i}
    /\ known' = IF HoldersOf(ContactOf[i]) # {} THEN known \cup {i} ELSE known
    /\ UNCHANGED <<register, reply, customer>>

Add(r) ==
    LET i == AddedBy[r] IN
    /\ i \in sent \ (known \cup Rejected)
    /\ reply[i] \notin {404, 422}
    /\ r \notin register
    /\ ContactOf[i] \in Exclusive => HoldersOf(ContactOf[i]) = {}
    /\ register' = register \cup {r}
    /\ UNCHANGED <<sent, known, reply, customer>>

Answer(i, code, who) ==
    /\ reply[i] = 0
    /\ reply' = [reply EXCEPT ![i] = code]
    /\ customer' = [customer EXCEPT ![i] = who]
    /\ UNCHANGED <<sent, known, register>>

Open(i) ==
    /\ i \in sent
    /\ \E who \in HoldersOf(ContactOf[i]) : Answer(i, 200, who)

AskName(i) ==
    /\ i \in sent \ known
    /\ \A r \in register : AddedBy[r] # i
    /\ Answer(i, 404, NoCustomer)

Refuse(i) ==
    /\ \/ i \notin sent
       \/ i \in Rejected
       \/ ContactOf[i] \in Exclusive /\ HoldersOf(ContactOf[i]) # {}
    /\ Answer(i, 422, NoCustomer)

Fail(i) ==
    /\ i \in sent
    /\ Answer(i, 500, NoCustomer)

Next ==
    \/ \E i \in SignIns : Send(i) \/ Open(i) \/ AskName(i) \/ Refuse(i) \/ Fail(i)
    \/ \E r \in Creations : Add(r)

Spec == Init /\ [][Next]_<<sent, known, register, reply, customer>>
===============================================================================
