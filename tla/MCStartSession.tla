---------------------------- MODULE MCStartSession ----------------------------
(***************************************************************************)
(* Instances of StartSession for TLC.                                      *)
(***************************************************************************)
EXTENDS StartSession

CONSTANTS
    i1, i2,          \* two sign-ins the backend's rules let through
    badName,         \* one with their contact, whose creation the rules refuse
    badPhone,        \* one whose lookup they refuse
    ada, malformed

SessionCalls == {"lookup", "create"} \X SignIns

TheContact == [i \in SignIns |-> IF i = badPhone THEN malformed ELSE ada]

IsLookup(c) == c[1] = "lookup"

TheSlot == [c \in Calls |-> IF IsLookup(c) THEN NoSlot ELSE ContactOf[c[2]]]

TheSearch == [c \in Calls |-> IF IsLookup(c) THEN ContactOf[c[2]] ELSE NoSlot]

TheVerdict == [c \in Calls |->
    CASE c \in {<<"lookup", badPhone>>, <<"create", badName>>} -> "4xx"
      [] IsLookup(c) /\ ContactOf[c[2]] \notin Regulars -> "404"
      [] OTHER -> "2xx"]

\* Two that may get through race; those that the rules refuse do not.
Couples == {{i1, i2}, {badName, badPhone}}

TheLookups == {c \in Calls : IsLookup(c)}
===============================================================================
