------------------------ MODULE RestaurantToolsProofs -------------------------
(***************************************************************************)
(* Theorems about RestaurantTools, for any customers, tables and menu.     *)
(***************************************************************************)
EXTENDS RestaurantTools, WellFoundedInduction, TLAPS

(* The least member of a set of numbers *)

Below == {p \in Nat \X Nat : p[1] < p[2]}

LEMMA BelowWellFounded == IsWellFoundedOn(Below, Nat)
  BY NatLessThanWellFounded, Zenon DEF OpToRel, Below

LEMMA LeastNumber ==
    ASSUME NEW S \in SUBSET Nat, S # {}
    PROVE  \E i \in S : \A j \in S : i <= j
<1>1. PICK i \in S : \A j \in S : <<j, i>> \notin Below
  BY BelowWellFounded, WFMin
<1>2. ASSUME NEW j \in S PROVE i <= j
  <2>1. <<j, i>> \in Nat \X Nat /\ <<j, i>> \notin Below
    BY <1>1
  <2>2. ~(j < i)
    BY <2>1 DEF Below
  <2> QED BY <2>2
<1> QED BY <1>2

-----------------------------------------------------------------------------
(* Resolving a table and a dish *)

\* Of some tables, the one with the lowest number is one of them.
LEMMA LowestNumberIsLowest ==
    ASSUME NEW tables \in SUBSET Tables, tables # {}
    PROVE  /\ LowestNumber(tables) \in tables
           /\ \A u \in tables : table_number[LowestNumber(tables)] <= table_number[u]
<1> DEFINE S == {table_number[t] : t \in tables}
<1>1. S \in SUBSET Nat /\ S # {}
  BY TablesAssumption
<1>2. PICK n \in S : \A m \in S : n <= m
  BY <1>1, LeastNumber
<1>3. PICK t \in tables : table_number[t] = n
  OBVIOUS
<1>4. \A u \in tables : table_number[t] <= table_number[u]
  BY <1>2, <1>3
<1> QED BY <1>4 DEF LowestNumber

\* resolve_table_id never leaves the free tables, and takes the best of them.
LEMMA ResolvedTableIsBest ==
    ASSUME NEW tables \in SUBSET Tables, tables # {},
           NEW where, NEW preference, NEW call,
           call.location = where, call.preference = preference,
           call.table = resolve_table_id(tables, where, preference)
    PROVE  /\ call.table \in tables
           /\ \A t \in tables : ~Better(call, t, call.table)
<1> DEFINE narrowed == {t \in tables : location[t] = preference}
<1>1. \A t \in tables : table_number[t] \in Nat
  BY TablesAssumption
<1>2. CASE where = None /\ narrowed # {}
  <2>1. call.table = LowestNumber(narrowed)
    BY <1>2 DEF resolve_table_id
  <2>2. /\ call.table \in narrowed
        /\ \A u \in narrowed : table_number[call.table] <= table_number[u]
    BY <1>2, <2>1, LowestNumberIsLowest
  <2>3. Prefers(call, call.table) /\ \A t \in tables \ narrowed : ~Prefers(call, t)
    BY <1>2, <2>2 DEF Prefers
  <2> QED BY <1>1, <2>2, <2>3 DEF Better
<1>3. CASE ~(where = None /\ narrowed # {})
  <2>1. call.table = LowestNumber(tables)
    BY <1>3 DEF resolve_table_id
  <2>2. /\ call.table \in tables
        /\ \A u \in tables : table_number[call.table] <= table_number[u]
    BY <2>1, LowestNumberIsLowest
  <2>3. \A t \in tables : ~Prefers(call, t)
    BY <1>3 DEF Prefers
  <2> QED BY <1>1, <2>2, <2>3 DEF Better
<1> QED BY <1>2, <1>3

\* The first of some items of the menu is one of them.
LEMMA FirstIsOne ==
    ASSUME NEW items \in SUBSET DOMAIN Menu, items # {}
    PROVE  \E i \in items : First(items) = Menu[i]
<1>1. items \in SUBSET Nat
  BY MenuAssumption
<1>2. \E i \in items : \A j \in items : i <= j
  BY <1>1, LeastNumber
<1> QED BY <1>2 DEF First

LEMMA ResolvedDish ==
    ASSUME NEW items \in SUBSET DOMAIN Menu, NEW name, Matching(items, name, In) # {}
    PROVE  /\ resolve_menu_item_id(items, name) \in Dishes
           /\ Matching(items, name, Is) # {} =>
                 <<name, resolve_menu_item_id(items, name)>> \in Is
<1>1. \A relation : Matching(items, name, relation) \in SUBSET DOMAIN Menu
  BY DEF Matching
<1>2. CASE Matching(items, name, Is) # {}
  <2>1. PICK i \in Matching(items, name, Is) : resolve_menu_item_id(items, name) = Menu[i]
    BY <1>1, <1>2, FirstIsOne DEF resolve_menu_item_id
  <2> QED BY <2>1 DEF Matching, Dishes
<1>3. CASE Matching(items, name, Is) = {}
  <2>1. PICK i \in Matching(items, name, In) : resolve_menu_item_id(items, name) = Menu[i]
    BY <1>1, <1>3, FirstIsOne DEF resolve_menu_item_id
  <2> QED BY <1>3, <2>1 DEF Matching, Dishes
<1> QED BY <1>2, <1>3

-----------------------------------------------------------------------------
(* Reservations come and end; none is forgotten, changes hands or reopens *)

Grown ==
    /\ reservations' \in Seq(ReservationOut) /\ Len(reservations') <= MaxReservations
    /\ DOMAIN reservations \subseteq DOMAIN reservations'
    /\ \A id \in DOMAIN reservations :
          reservations'[id].customer = reservations[id].customer
    /\ Over \subseteq Over'

LEMMA ReserveGrows ==
    ASSUME TypeOK, NEW c \in Customers \cup Others, NEW t, Reserve(c, t)
    PROVE  Grown
<1> DEFINE new == [customer |-> c, table |-> t, status |-> "confirmed"]
<1>1. new \in ReservationOut
  BY DEF Reserve, FreeTables, ReservationOut, ReservationStatus
<1>2. reservations \in Seq(ReservationOut) /\ Len(reservations) < MaxReservations
  BY DEF TypeOK, Reserve
<1>3. reservations' = Append(reservations, new)
  BY DEF Reserve
<1>4. reservations' \in Seq(ReservationOut) /\ Len(reservations') = Len(reservations) + 1
  BY <1>1, <1>2, <1>3
<1>5. \A id \in DOMAIN reservations :
         id \in DOMAIN reservations' /\ reservations'[id] = reservations[id]
  BY <1>2, <1>3
<1>6. Over \subseteq Over'
  BY <1>5 DEF Over
<1> QED BY <1>2, <1>4, <1>5, <1>6, BoundAssumption DEF Grown

LEMMA EndGrows ==
    ASSUME TypeOK, end_reservation
    PROVE  Grown
<1>1. PICK id \in DOMAIN reservations \ Over, status \in ReservationStatus \ {"confirmed"} :
         reservations' = [reservations EXCEPT ![id].status = status]
  BY DEF end_reservation
<1>2. reservations \in Seq(ReservationOut) /\ Len(reservations) <= MaxReservations
  BY DEF TypeOK
<1> DEFINE ended == [reservations[id] EXCEPT !.status = status]
<1>3. ended \in ReservationOut /\ ended.customer = reservations[id].customer
      /\ ended.status # "confirmed"
  <2>1. reservations[id] \in ReservationOut /\ status \in ReservationStatus \ {"confirmed"}
    BY <1>1, <1>2
  <2> QED BY <2>1 DEF ReservationOut
<1> HIDE DEF ended
<1>4. /\ reservations' = [reservations EXCEPT ![id] = ended]
      /\ reservations' \in Seq(ReservationOut) /\ Len(reservations') = Len(reservations)
      /\ DOMAIN reservations' = DOMAIN reservations
  BY <1>1, <1>2, <1>3 DEF ended
<1>5. \A i \in DOMAIN reservations :
         IF i = id THEN reservations'[i] = ended
                   ELSE reservations'[i] = reservations[i]
  BY <1>2, <1>4
<1>6. \A i \in DOMAIN reservations :
         reservations'[i].customer = reservations[i].customer
  BY <1>3, <1>5
<1>7. Over \subseteq Over'
  BY <1>3, <1>4, <1>5 DEF Over
<1> QED BY <1>2, <1>4, <1>6, <1>7 DEF Grown

LEMMA SameGrows ==
    ASSUME TypeOK, UNCHANGED reservations
    PROVE  Grown
  BY DEF TypeOK, Grown, Over

\* The reservation an order is attached to stays the customer's, and open at
\* the yes.
LEMMA StillAttached ==
    ASSUME NEW c, Attached(c), Grown, UNCHANGED <<at[c], args[c], attached[c], closed[c], dish[c],
                                                    last_order[c]>>
    PROVE  Attached(c)'
  BY DEF Attached, Grown

-----------------------------------------------------------------------------
(* The invariant, step by step *)

LEMMA InitHolds == Init => ToolsInv
<1> SUFFICES ASSUME Init PROVE ToolsInv
  OBVIOUS
<1>1. reservations \in Seq(ReservationOut) /\ Len(reservations) = 0
  BY DEF Init
<1>2. TypeOK
  BY <1>1, BoundAssumption DEF Init, TypeOK
<1>3. \A c \in Customers : Attached(c)
  BY DEF Init, Attached
<1> QED BY <1>2, <1>3 DEF ToolsInv

LEMMA StageTyped ==
    ASSUME ToolsInv, NEW c \in Customers, NEW call \in BookingArgs \cup OrderArgs,
           Stage(c, call)
    PROVE  ToolsInv'
<1>1. TypeOK'
  BY DEF ToolsInv, TypeOK, Stage
<1>2. Grown
  BY SameGrows DEF ToolsInv, Stage
<1>3. Attached(c)'
  BY <1>2 DEF ToolsInv, TypeOK, Stage, Attached, Grown
<1>4. \A d \in Customers \ {c} : Attached(d)'
  BY <1>2, StillAttached DEF ToolsInv, TypeOK, Stage
<1> QED BY <1>1, <1>3, <1>4 DEF ToolsInv

LEMMA DoneTyped ==
    ASSUME ToolsInv, Grown, NEW c \in Customers, Done(c), UNCHANGED sold_out,
           last_order' \in [Customers -> OrderOut \cup {None}],
           \A d \in Customers \ {c} : last_order'[d] = last_order[d]
    PROVE  ToolsInv'
<1>1. TypeOK'
  BY DEF ToolsInv, TypeOK, Done, Grown
<1>2. Attached(c)'
  BY DEF ToolsInv, TypeOK, Done, Attached
<1>3. \A d \in Customers \ {c} : Attached(d)'
  BY StillAttached DEF ToolsInv, TypeOK, Done
<1> QED BY <1>1, <1>2, <1>3 DEF ToolsInv

LEMMA PrepareBooking ==
    ASSUME ToolsInv, NEW c \in Customers, prepare_booking(c)
    PROVE  /\ ToolsInv'
           /\ LET call == args'[c] IN
              /\ call.table \in get_availability(call.location)
              /\ \A t \in get_availability(call.location) : ~Better(call, t, call.table)
<1>1. PICK where \in Locations \cup {None}, preference \in Locations \cup {None} :
        LET tables == get_availability(where) IN
        /\ tables # {}
        /\ Stage(c, [tool |-> "create_reservation",
                     table |-> resolve_table_id(tables, where, preference),
                     location |-> where, preference |-> preference])
  BY DEF prepare_booking
<1> DEFINE tables == get_availability(where)
           call == [tool |-> "create_reservation",
                    table |-> resolve_table_id(tables, where, preference),
                    location |-> where, preference |-> preference]
<1>2. tables \in SUBSET Tables /\ tables # {} /\ Stage(c, call)
  BY <1>1 DEF get_availability, FreeTables
<1>3. /\ call.table = resolve_table_id(tables, where, preference)
      /\ call.location = where /\ call.preference = preference
  OBVIOUS
<1>4. call.table \in tables /\ \A t \in tables : ~Better(call, t, call.table)
  BY <1>2, <1>3, ResolvedTableIsBest
<1>5. call \in BookingArgs
  BY <1>2, <1>4 DEF BookingArgs
<1>6. args'[c] = call
  BY <1>2 DEF Stage, ToolsInv, TypeOK
<1>7. ToolsInv'
  BY <1>2, <1>5, StageTyped
<1> QED BY <1>3, <1>4, <1>6, <1>7

LEMMA ResolveReservation ==
    ASSUME ToolsInv, NEW c \in Customers, resolve_reservation_id(c)
    PROVE  ToolsInv'
<1>1. PICK id \in view_reservations(c) : attached' = [attached EXCEPT ![c] = id]
  BY DEF resolve_reservation_id
<1>2. id \in DOMAIN reservations \ Over /\ reservations[id].customer = c
  BY <1>1 DEF view_reservations
<1>3. id \in Ids
  BY <1>2, BoundAssumption DEF ToolsInv, TypeOK, Ids
<1>4. TypeOK'
  BY <1>1, <1>3 DEF ToolsInv, TypeOK, resolve_reservation_id
<1>5. Grown
  BY SameGrows DEF ToolsInv, resolve_reservation_id
<1>6. Attached(c)'
  BY <1>1, <1>2 DEF ToolsInv, TypeOK, resolve_reservation_id, Attached, Over
<1>7. \A d \in Customers \ {c} : Attached(d)'
  BY <1>1, <1>5, StillAttached DEF ToolsInv, TypeOK, resolve_reservation_id
<1> QED BY <1>4, <1>6, <1>7 DEF ToolsInv

LEMMA ResolveDish ==
    ASSUME ToolsInv, NEW c \in Customers, resolve_dish(c)
    PROVE  /\ ToolsInv'
           /\ \A d \in Dishes \ sold_out :
                 <<args[c].name, d>> \in Is => <<args[c].name, dish'[c]>> \in Is
<1>1. /\ get_menu \in SUBSET DOMAIN Menu
      /\ Matching(get_menu, args[c].name, In) # {}
      /\ dish' = [dish EXCEPT ![c] = resolve_menu_item_id(get_menu, args[c].name)]
  BY DEF get_menu, resolve_dish
<1>2. dish'[c] = resolve_menu_item_id(get_menu, args[c].name)
  BY <1>1 DEF ToolsInv, TypeOK
<1>3. dish'[c] \in Dishes
  BY <1>1, <1>2, ResolvedDish
<1>4. ASSUME NEW d \in Dishes \ sold_out, <<args[c].name, d>> \in Is
      PROVE  <<args[c].name, dish'[c]>> \in Is
  <2>1. PICK i \in DOMAIN Menu : Menu[i] = d
    BY DEF Dishes
  <2>2. i \in Matching(get_menu, args[c].name, Is)
    BY <1>4, <2>1 DEF Matching, get_menu
  <2> QED BY <1>1, <1>2, <2>2, ResolvedDish
<1>5. Grown
  BY SameGrows DEF ToolsInv, resolve_dish
<1>6. TypeOK'
  BY <1>1, <1>2, <1>3 DEF ToolsInv, TypeOK, resolve_dish
<1>7. Attached(c)'
  BY <1>3 DEF ToolsInv, TypeOK, resolve_dish, Attached, Over
<1>8. \A d \in Customers \ {c} : Attached(d)'
  BY <1>1, <1>5, StillAttached DEF ToolsInv, TypeOK, resolve_dish
<1> QED BY <1>4, <1>6, <1>7, <1>8 DEF ToolsInv

LEMMA PostOrder ==
    ASSUME ToolsInv, NEW c \in Customers, post_order(c)
    PROVE  /\ ToolsInv'
           /\ LET o == last_order'[c] IN
              ~o.named => /\ reservations[o.reservation].customer = c
                          /\ o.reservation \notin closed[c]
<1> DEFINE o == [reservation |-> attached[c], named |-> args[c].reservation # 0,
                 dish |-> dish[c], name |-> args[c].name]
<1>1. at[c] = "ordering" /\ last_order' = [last_order EXCEPT ![c] = o] /\ Done(c)
      /\ attached[c] \in DOMAIN reservations /\ UNCHANGED <<reservations, sold_out>>
  BY DEF post_order
<1>2. args[c] \in OrderArgs /\ dish[c] \in Dishes
  BY <1>1 DEF ToolsInv, TypeOK, Attached, BookingArgs, OrderArgs, NoArgs
<1>3. attached[c] \in Ids
  BY <1>1, BoundAssumption DEF ToolsInv, TypeOK, Ids
<1>4. o \in OrderOut
  BY <1>2, <1>3 DEF OrderOut, OrderArgs
<1>5. last_order' \in [Customers -> OrderOut \cup {None}] /\ last_order'[c] = o
  BY <1>1, <1>4 DEF ToolsInv, TypeOK
<1>6. ToolsInv'
  BY <1>1, <1>5, SameGrows, DoneTyped DEF ToolsInv
<1>7. ~o.named => /\ reservations[o.reservation].customer = c
                  /\ o.reservation \notin closed[c]
  BY <1>1 DEF ToolsInv, Attached
<1> QED BY <1>5, <1>6, <1>7

LEMMA Confirm ==
    ASSUME ToolsInv, NEW c \in Customers, confirm_booking(c) \/ confirm_order(c)
    PROVE  ToolsInv'
<1>1. Over \subseteq Ids
  BY BoundAssumption DEF ToolsInv, TypeOK, Over, Ids
<1>2. CASE confirm_booking(c)
  <2>1. TypeOK' /\ Grown
    BY <1>2, SameGrows DEF ToolsInv, TypeOK, confirm_booking
  <2>2. Attached(c)'
    BY <1>2 DEF ToolsInv, TypeOK, confirm_booking, Attached, Over
  <2>3. \A d \in Customers \ {c} : Attached(d)'
    BY <1>2, <2>1, StillAttached DEF ToolsInv, TypeOK, confirm_booking
  <2> QED BY <2>1, <2>2, <2>3 DEF ToolsInv
<1>3. CASE confirm_order(c)
  <2>1. args[c] \in OrderArgs
    BY <1>3 DEF confirm_order, ToolsInv, TypeOK, BookingArgs, OrderArgs, NoArgs
  <2>2. TypeOK'
    BY <1>1, <1>3, <2>1 DEF ToolsInv, TypeOK, confirm_order, OrderArgs
  <2>3. Grown
    BY <1>3, SameGrows DEF ToolsInv, confirm_order
  <2>4. Attached(c)'
    BY <1>3 DEF ToolsInv, TypeOK, confirm_order, Attached, Over
  <2>5. \A d \in Customers \ {c} : Attached(d)'
    BY <1>3, <2>3, StillAttached DEF ToolsInv, TypeOK, confirm_order
  <2> QED BY <2>2, <2>4, <2>5 DEF ToolsInv
<1> QED BY <1>2, <1>3

LEMMA LeaveOff ==
    ASSUME ToolsInv, NEW c \in Customers,
           decline(c) \/ confirm_invalid(c) \/ give_up(c) \/ post_reservation(c)
    PROVE  ToolsInv'
<1>1. Done(c) /\ UNCHANGED <<sold_out, last_order>>
  BY DEF decline, confirm_invalid, give_up, post_reservation
<1>2. Grown
  <2>1. CASE post_reservation(c)
    BY <2>1, ReserveGrows DEF ToolsInv, post_reservation
  <2>2. CASE UNCHANGED reservations
    BY <2>2, SameGrows DEF ToolsInv
  <2> QED BY <2>1, <2>2 DEF decline, confirm_invalid, give_up
<1> QED BY <1>1, <1>2, DoneTyped DEF ToolsInv, TypeOK

LEMMA Elsewhere ==
    ASSUME ToolsInv, reserve_elsewhere \/ end_reservation \/ change_menu
    PROVE  ToolsInv'
<1>1. UNCHANGED own /\ sold_out' \subseteq Dishes
  BY DEF reserve_elsewhere, end_reservation, change_menu, ToolsInv, TypeOK
<1>2. Grown
  <2>1. CASE reserve_elsewhere
    BY <2>1, ReserveGrows DEF ToolsInv, reserve_elsewhere
  <2>2. CASE end_reservation
    BY <2>2, EndGrows DEF ToolsInv
  <2>3. CASE change_menu
    BY <2>3, SameGrows DEF ToolsInv, change_menu
  <2> QED BY <2>1, <2>2, <2>3
<1>3. TypeOK'
  BY <1>1, <1>2 DEF ToolsInv, TypeOK, own, Grown
<1>4. \A c \in Customers : Attached(c)'
  BY <1>1, <1>2, StillAttached DEF ToolsInv, own
<1> QED BY <1>3, <1>4 DEF ToolsInv

LEMMA NextKeeps == ToolsInv /\ [Next]_vars => ToolsInv'
<1> SUFFICES ASSUME ToolsInv, [Next]_vars PROVE ToolsInv'
  OBVIOUS
<1>1. ASSUME NEW c \in Customers, Step(c) PROVE ToolsInv'
  <2>1. CASE prepare_booking(c)
    BY <2>1, PrepareBooking
  <2>2. CASE prepare_order(c)
    BY <2>2, StageTyped DEF prepare_order
  <2>3. CASE confirm_booking(c) \/ confirm_order(c)
    BY <2>3, Confirm
  <2>4. CASE decline(c) \/ confirm_invalid(c) \/ give_up(c) \/ post_reservation(c)
    BY <2>4, LeaveOff
  <2>5. CASE resolve_reservation_id(c)
    BY <2>5, ResolveReservation
  <2>6. CASE resolve_dish(c)
    BY <2>6, ResolveDish
  <2>7. CASE post_order(c)
    BY <2>7, PostOrder
  <2> QED BY <1>1, <2>1, <2>2, <2>3, <2>4, <2>5, <2>6, <2>7 DEF Step
<1>2. CASE reserve_elsewhere \/ end_reservation \/ change_menu
  BY <1>2, Elsewhere
<1>3. CASE UNCHANGED vars
  <2>1. TypeOK' /\ Grown
    BY <1>3, SameGrows DEF vars, ToolsInv, TypeOK
  <2>2. \A c \in Customers : Attached(c)'
    BY <1>3, <2>1, StillAttached DEF vars, ToolsInv
  <2> QED BY <2>1, <2>2 DEF ToolsInv
<1> QED BY <1>1, <1>2, <1>3 DEF Next

-----------------------------------------------------------------------------
(* The theorems *)

\* The calls are staged, resolved and made in order, and what an order is
\* attached to stays the customer's own, whatever others do in between.
THEOREM ToolsInStep == Spec => []ToolsInv
  BY InitHolds, NextKeeps, PTL DEF Spec

\* The step of one customer leaves the others' calls alone.
LEMMA OthersWait ==
    ASSUME ToolsInv, NEW d \in Customers, Step(d), NEW c \in Customers, c # d
    PROVE  at'[c] = at[c] /\ last_order'[c] = last_order[c]
  BY DEF ToolsInv, TypeOK, Step, prepare_booking, prepare_order, Stage, Done, decline,
         confirm_booking, confirm_order, confirm_invalid, resolve_reservation_id,
         resolve_dish, post_order, post_reservation, give_up

\* Which step stages a booking, resolves a dish and places an order.
LEMMA WhichStep ==
    ASSUME ToolsInv, [Next]_vars, NEW c \in Customers
    PROVE  /\ at'[c] = "staged" /\ at[c] # "staged" /\ args'[c].tool = "create_reservation"
                 => prepare_booking(c)
           /\ at[c] = "menu" /\ at'[c] = "ordering" => resolve_dish(c)
           /\ at[c] = "ordering" /\ last_order'[c] # None => post_order(c)
<1>1. at \in [Customers -> {"idle", "staged", "reserving", "reservation", "menu", "ordering"}]
      /\ args \in [Customers -> BookingArgs \cup OrderArgs \cup {NoArgs}]
      /\ (at[c] # "idle" => last_order[c] = None)
  BY DEF ToolsInv, TypeOK, Attached
<1>2. CASE at'[c] = at[c] /\ last_order'[c] = last_order[c]
  BY <1>1, <1>2
<1>3. CASE Step(c)
  <2>1. CASE prepare_booking(c)
    BY <2>1, <1>1 DEF prepare_booking, Stage
  <2>2. CASE prepare_order(c)
    <3>1. PICK call \in OrderArgs : Stage(c, call)
      BY <2>2 DEF prepare_order
    <3>2. args'[c].tool = "create_order" /\ at[c] = "idle" /\ at'[c] = "staged"
      BY <3>1, <1>1 DEF Stage, OrderArgs
    <3> QED BY <3>2
  <2>3. CASE confirm_booking(c) \/ confirm_order(c) \/ resolve_reservation_id(c)
    BY <2>3, <1>1 DEF confirm_booking, confirm_order, resolve_reservation_id
  <2>4. CASE decline(c) \/ confirm_invalid(c) \/ give_up(c) \/ post_reservation(c)
    <3>1. at'[c] = "idle" /\ last_order' = last_order
      BY <2>4, <1>1 DEF decline, confirm_invalid, give_up, post_reservation, Done
    <3> QED BY <3>1, <1>1
  <2>5. CASE resolve_dish(c)
    BY <2>5, <1>1 DEF resolve_dish
  <2>6. CASE post_order(c)
    BY <2>6, <1>1 DEF post_order, Done
  <2> QED BY <1>3, <2>1, <2>2, <2>3, <2>4, <2>5, <2>6 DEF Step
<1>4. ASSUME NEW d \in Customers, Step(d), d # c
      PROVE  at'[c] = at[c] /\ last_order'[c] = last_order[c]
  BY <1>4, OthersWait
<1>5. CASE reserve_elsewhere \/ end_reservation \/ change_menu \/ UNCHANGED vars
  BY <1>2, <1>5 DEF reserve_elsewhere, end_reservation, change_menu, vars, own
<1> QED BY <1>2, <1>3, <1>4, <1>5 DEF Next

\* A booking is staged with the best table free at that moment, for any
\* tables, numbers and places.
THEOREM BestTableStaged == Spec => StagedTableIsBest
<1>1. ToolsInv /\ [Next]_vars =>
        [\A c \in Customers :
          at'[c] = "staged" /\ at[c] # "staged" /\ args'[c].tool = "create_reservation" =>
              LET call == args'[c] IN
              /\ call.table \in get_availability(call.location)
              /\ \A t \in get_availability(call.location) : ~Better(call, t, call.table)]_vars
  BY WhichStep, PrepareBooking
<1> QED BY <1>1, ToolsInStep, PTL DEF Spec, StagedTableIsBest

\* An order that names no reservation goes to one of the customer's own that
\* was open when they said yes, whatever others do meanwhile.
THEOREM UnnamedOrderAttached == Spec => UnnamedOrderOnOpenBooking
<1>1. ToolsInv /\ [Next]_vars =>
        [\A c \in Customers :
          LET o == last_order'[c] IN
          at[c] = "ordering" /\ o # None /\ ~o.named =>
              /\ reservations[o.reservation].customer = c
              /\ o.reservation \notin closed[c]]_vars
  BY WhichStep, PostOrder
<1> QED BY <1>1, ToolsInStep, PTL DEF Spec, UnnamedOrderOnOpenBooking

\* A dish on the menu under its full name is the one that is ordered.
THEOREM FullNameTaken == Spec => FullNameFirst
<1>1. ToolsInv /\ [Next]_vars =>
        [\A c \in Customers :
          at[c] = "menu" /\ at'[c] = "ordering" =>
              \A d \in Dishes \ sold_out :
                  <<args[c].name, d>> \in Is => <<args[c].name, dish'[c]>> \in Is]_vars
  BY WhichStep, ResolveDish
<1> QED BY <1>1, ToolsInStep, PTL DEF Spec, FullNameFirst
===============================================================================
