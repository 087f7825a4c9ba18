-------------------------- MODULE MCRestaurantTools ---------------------------
(***************************************************************************)
(* Instances of RestaurantTools for TLC.                                   *)
(***************************************************************************)
EXTENDS RestaurantTools

CONSTANTS ada, bo, hall, porch, garden

\* Table 1 is inside, tables 2 and 3 outside.
Numbers == [t \in Tables |-> CASE t = hall -> 1 [] t = porch -> 2 [] t = garden -> 3]

Whereabouts == [t \in Tables |-> IF t = hall THEN "indoor" ELSE "outdoor"]

\* One dish's name is part of another's, listed before it.
TwoDishes == <<"paneer tikka masala", "paneer tikka">>

FullNames == {<<"paneer tikka", "paneer tikka">>}

PartNames == FullNames \cup {<<"paneer tikka", "paneer tikka masala">>,
                             <<"paneer", "paneer tikka">>, <<"paneer", "paneer tikka masala">>}
===============================================================================
