--------------------------- MODULE RestaurantTools ----------------------------
(***************************************************************************)
(* The booking and ordering tools (app/tools, and the part of              *)
(* app/agents/nodes.py that prepares their calls) over what the restaurant *)
(* holds, which others change at any moment: between the summary the       *)
(* customer is shown and the yes, and between the calls one tool makes.    *)
(*                                                                         *)
(* A customer here is a thread with one open tab; AgentGraph has the turns *)
(* around these steps, ConfirmedCall what becomes of the POSTs.  Others    *)
(* book and cancel without the assistant.  The time and the party are      *)
(* fixed, and Tables are those that seat it.                               *)
(***************************************************************************)
EXTENDS Integers, Sequences

CONSTANTS
    Customers, Others,                \* with and without the assistant
    Tables, table_number, location,   \* the tables, their numbers and places
    Locations, None,                  \* the places, and no value
    Menu,                             \* the dishes, in the order GET /menu lists them
    Names,                            \* what the model may call a dish
    Is, In,                           \* the name is, or is part of, the dish's, as pairs
    MaxReservations                   \* bound: reservations ever made

Dishes == {Menu[i] : i \in DOMAIN Menu}

ASSUME TablesAssumption ==
    /\ table_number \in [Tables -> Nat]
    /\ location \in [Tables -> Locations]
    /\ None \notin Locations \cup {Menu[i] : i \in DOMAIN Menu}

ASSUME MenuAssumption ==
    /\ Menu \in Seq(Dishes)
    /\ Is \subseteq In /\ In \subseteq Names \X Dishes

ASSUME BoundAssumption == MaxReservations \in Nat

VARIABLES
    reservations,   \* what the restaurant has booked, by id
    sold_out,       \* dishes GET /menu no longer lists as available
    last_order,     \* the order each customer's last call put through
    at,             \* where each customer's staged call is
    args,           \* its arguments
    attached,       \* the reservation an order being placed goes to
    dish,           \* the dish it is for
    closed          \* reservations that were over when the customer said yes

vars == <<reservations, sold_out, last_order, at, args, attached, dish, closed>>

Ids == 1..MaxReservations

ReservationStatus == {"confirmed", "cancelled", "completed"}

ReservationOut == [customer : Customers \cup Others, table : Tables, status : ReservationStatus]

\* reservation_id 0 stands for None: the code takes either for "not named".
BookingArgs == [tool : {"create_reservation"}, table : Tables,
                location : Locations \cup {None},
                preference : Locations \cup {None}]

OrderArgs == [tool : {"create_order"}, name : Names, quantity : {0, 1},
              reservation : Ids \cup {0}]

NoArgs == [tool |-> "none"]

OrderOut == [reservation : Ids, named : BOOLEAN, dish : Dishes, name : Names]

TypeOK ==
    /\ reservations \in Seq(ReservationOut) /\ Len(reservations) <= MaxReservations
    /\ sold_out \subseteq Dishes
    /\ last_order \in [Customers -> OrderOut \cup {None}]
    /\ at \in [Customers -> {"idle", "staged", "reserving", "reservation", "menu", "ordering"}]
    /\ args \in [Customers -> BookingArgs \cup OrderArgs \cup {NoArgs}]
    /\ attached \in [Customers -> Ids \cup {0}]
    /\ dish \in [Customers -> Dishes \cup {None}]
    /\ closed \in [Customers -> SUBSET Ids]

Init ==
    /\ reservations = <<>>
    /\ sold_out = {}
    /\ last_order = [c \in Customers |-> None]
    /\ at = [c \in Customers |-> "idle"]
    /\ args = [c \in Customers |-> NoArgs]
    /\ attached = [c \in Customers |-> 0]
    /\ dish = [c \in Customers |-> None]
    /\ closed = [c \in Customers |-> {}]

-----------------------------------------------------------------------------
(* What the backend answers *)

Over == {id \in DOMAIN reservations : reservations[id].status # "confirmed"}

FreeTables ==
    {t \in Tables : \A id \in DOMAIN reservations \ Over : reservations[id].table # t}

get_availability(where) ==
    {t \in FreeTables : where \in {location[t], None}}

\* A faulty tool would list every reservation, over or not.
view_all_reservations(c) ==
    {id \in DOMAIN reservations : reservations[id].customer = c}

view_reservations(c) ==
    {id \in DOMAIN reservations \ Over : reservations[id].customer = c}

\* The dishes available, by their place in what GET /menu lists; the tools
\* never ask for the others.
get_menu == {i \in DOMAIN Menu : Menu[i] \notin sold_out}

-----------------------------------------------------------------------------
(* Resolving a table and a dish *)

LowestNumber(tables) ==
    CHOOSE t \in tables : \A u \in tables : table_number[t] <= table_number[u]

\* A faulty preparation would forget the preference.
resolve_any_table(tables, where, preference) == LowestNumber(tables)

resolve_table_id(tables, where, preference) ==
    LET narrowed == {t \in tables : location[t] = preference} IN
    LowestNumber(IF where = None /\ narrowed # {} THEN narrowed ELSE tables)

\* The items a name is, or is part of, and the first of some.
Matching(items, name, relation) == {i \in items : <<name, Menu[i]>> \in relation}

First(items) == Menu[CHOOSE i \in items : \A j \in items : i <= j]

\* A faulty tool would take the first dish whose name contains the words.
resolve_partly(items, name) == First(Matching(items, name, In))

resolve_menu_item_id(items, name) ==
    IF Matching(items, name, Is) # {} THEN First(Matching(items, name, Is))
                                      ELSE First(Matching(items, name, In))

-----------------------------------------------------------------------------
(* Staging, declining and confirming a call *)

Stage(c, call) ==
    /\ at[c] = "idle"
    /\ at' = [at EXCEPT ![c] = "staged"]
    /\ args' = [args EXCEPT ![c] = call]
    /\ last_order' = [last_order EXCEPT ![c] = None]
    /\ UNCHANGED <<reservations, sold_out, attached, dish, closed>>

\* The customer asks for a table, naming a place or not; the preference is
\* what the thread has loaded, if it has.  Nothing is staged if none is free.
prepare_booking(c) ==
    \E where, preference \in Locations \cup {None} :
        LET tables == get_availability(where) IN
        /\ tables # {}
        /\ Stage(c, [tool |-> "create_reservation",
                     table |-> resolve_table_id(tables, where, preference),
                     location |-> where, preference |-> preference])

\* ... or for a dish; nothing is looked up before the yes.
prepare_order(c) ==
    \E call \in OrderArgs : Stage(c, call)

\* The call is over, made or not.
Done(c) ==
    /\ at' = [at EXCEPT ![c] = "idle"]
    /\ args' = [args EXCEPT ![c] = NoArgs]
    /\ attached' = [attached EXCEPT ![c] = 0]
    /\ closed' = [closed EXCEPT ![c] = {}]
    /\ dish' = [dish EXCEPT ![c] = None]

decline(c) ==
    /\ at[c] = "staged"
    /\ Done(c)
    /\ UNCHANGED <<reservations, sold_out, last_order>>

\* Yes to a booking: create_reservation sends it as it was staged.
confirm_booking(c) ==
    /\ at[c] = "staged"
    /\ args[c].tool = "create_reservation"
    /\ at' = [at EXCEPT ![c] = "reserving"]
    /\ UNCHANGED <<reservations, sold_out, last_order, args, attached, dish, closed>>

\* Yes to an order: create_order resolves what its arguments leave open,
\* unless OrderCreateInput refuses them.
confirm_order(c) ==
    /\ at[c] = "staged"
    /\ args[c].tool = "create_order"
    /\ args[c].quantity > 0
    /\ at' = [at EXCEPT ![c] = IF args[c].reservation = 0 THEN "reservation" ELSE "menu"]
    /\ attached' = [attached EXCEPT ![c] = args[c].reservation]
    /\ closed' = [closed EXCEPT ![c] = Over]
    /\ UNCHANGED <<reservations, sold_out, last_order, args, dish>>

confirm_invalid(c) ==
    /\ at[c] = "staged"
    /\ args[c].tool = "create_order"
    /\ args[c].quantity = 0
    /\ Done(c)
    /\ UNCHANGED <<reservations, sold_out, last_order>>

-----------------------------------------------------------------------------
(* create_order and create_reservation *)

resolve_reservation_id(c) ==
    /\ at[c] = "reservation"
    /\ \E id \in view_reservations(c) :
          /\ view_reservations(c) = {id}
          /\ attached' = [attached EXCEPT ![c] = id]
    /\ at' = [at EXCEPT ![c] = "menu"]
    /\ UNCHANGED <<reservations, sold_out, last_order, args, dish, closed>>

resolve_dish(c) ==
    /\ at[c] = "menu"
    /\ Matching(get_menu, args[c].name, In) # {}
    /\ dish' = [dish EXCEPT ![c] = resolve_menu_item_id(get_menu, args[c].name)]
    /\ at' = [at EXCEPT ![c] = "ordering"]
    /\ UNCHANGED <<reservations, sold_out, last_order, args, attached, closed>>

\* The POST is carried out, if the reservation exists.
post_order(c) ==
    /\ at[c] = "ordering"
    /\ attached[c] \in DOMAIN reservations
    /\ last_order' = [last_order EXCEPT ![c] =
          [reservation |-> attached[c], named |-> args[c].reservation # 0,
           dish |-> dish[c], name |-> args[c].name]]
    /\ Done(c)
    /\ UNCHANGED <<reservations, sold_out>>

\* The backend adds a reservation.
Reserve(c, t) ==
    /\ Len(reservations) < MaxReservations
    /\ t \in FreeTables
    /\ reservations' =
          Append(reservations, [customer |-> c, table |-> t, status |-> "confirmed"])

post_reservation(c) ==
    /\ at[c] = "reserving"
    /\ Reserve(c, args[c].table)
    /\ Done(c)
    /\ UNCHANGED <<sold_out, last_order>>

\* No reservation or several, no such dish, a refusal, or a failed call.
give_up(c) ==
    /\ at[c] \in {"reserving", "reservation", "menu", "ordering"}
    /\ Done(c)
    /\ UNCHANGED <<reservations, sold_out, last_order>>

Step(c) ==
    \/ prepare_booking(c)
    \/ prepare_order(c)
    \/ decline(c)
    \/ confirm_booking(c)
    \/ confirm_order(c)
    \/ confirm_invalid(c)
    \/ resolve_reservation_id(c)
    \/ resolve_dish(c)
    \/ post_order(c)
    \/ post_reservation(c)
    \/ give_up(c)

-----------------------------------------------------------------------------
(* The restaurant, other than through these tools *)

own == <<last_order, at, args, attached, dish, closed>>

reserve_elsewhere ==
    /\ \E c \in Customers \cup Others, t \in Tables : Reserve(c, t)
    /\ UNCHANGED <<sold_out, own>>

end_reservation ==
    /\ \E id \in DOMAIN reservations \ Over, status \in ReservationStatus \ {"confirmed"} :
          reservations' = [reservations EXCEPT ![id].status = status]
    /\ UNCHANGED <<sold_out, own>>

change_menu ==
    /\ \E d \in Dishes : sold_out' \in {sold_out \cup {d}, sold_out \ {d}}
    /\ UNCHANGED <<reservations, own>>

Next ==
    \/ \E c \in Customers : Step(c)
    \/ reserve_elsewhere
    \/ end_reservation
    \/ change_menu

Spec == Init /\ [][Next]_vars

-----------------------------------------------------------------------------
(* Properties *)

\* A table the customer would rather have: in the place they prefer, if they
\* named none, and of those the one with the lower number.
Prefers(call, t) ==
    call.location = None /\ location[t] = call.preference

Better(call, t, u) ==
    \/ Prefers(call, t) /\ ~Prefers(call, u)
    \/ (Prefers(call, t) <=> Prefers(call, u)) /\ table_number[t] < table_number[u]

\* The table a booking is staged with is free at that moment, where the
\* customer asked for it, and the best of those by their preference.
StagedTableIsBest ==
    [][\A c \in Customers :
          at'[c] = "staged" /\ at[c] # "staged" /\ args'[c].tool = "create_reservation" =>
              LET call == args'[c] IN
              /\ call.table \in get_availability(call.location)
              /\ \A t \in get_availability(call.location) : ~Better(call, t, call.table)
      ]_vars

\* An order that names no reservation goes to one of the customer's own, and
\* never to one that was already over when they said yes, however the
\* reservations change before and after the summary and while it is placed.
UnnamedOrderOnOpenBooking ==
    [][\A c \in Customers :
          LET o == last_order'[c] IN
          at[c] = "ordering" /\ o # None /\ ~o.named =>
              /\ reservations[o.reservation].customer = c
              /\ o.reservation \notin closed[c]
      ]_vars

\* Only if the dish called by its full name was not on the menu at the moment
\* of the lookup is another one taken for it.
FullNameFirst ==
    [][\A c \in Customers :
          at[c] = "menu" /\ at'[c] = "ordering" =>
              \A d \in Dishes \ sold_out :
                  <<args[c].name, d>> \in Is => <<args[c].name, dish'[c]>> \in Is
      ]_vars

-----------------------------------------------------------------------------
(* What the repository says of the program, and the code does not do *)

\* orders.py: the name is "resolved against a real GET /menu call, not
\* guessed".  An order for a dish by its full name is for that dish.
OrderedAsNamed ==
    \A c \in Customers :
        LET o == last_order[c] IN
        o # None /\ (\E d \in Dishes : <<o.name, d>> \in Is) => <<o.name, o.dish>> \in Is

-----------------------------------------------------------------------------
(* The inductive invariant behind the theorem of RestaurantToolsProofs *)

\* What a customer's call is for fits where it is; an order that names no
\* reservation has been attached to an own one that was not over at the yes.
Attached(c) ==
    /\ closed[c] \subseteq Over
    /\ at[c] \in {"reservation", "menu", "ordering"} => args[c].tool = "create_order"
    /\ at[c] \in {"menu", "ordering"} /\ args[c].reservation = 0 =>
          /\ attached[c] \in DOMAIN reservations \ closed[c]
          /\ reservations[attached[c]].customer = c
    /\ at[c] = "ordering" => dish[c] \in Dishes
    /\ at[c] # "idle" => last_order[c] = None

ToolsInv == TypeOK /\ \A c \in Customers : Attached(c)
===============================================================================
