--------------------------- MODULE MCConfirmedCall ----------------------------
(***************************************************************************)
(* Instances of ConfirmedCall, and so of BackendRequest, for TLC.          *)
(***************************************************************************)
EXTENDS ConfirmedCall

CONSTANT table   \* a table at a time

\* A booking of the table, an order that takes none, and the lookup of an unknown customer.
TableOf == [c \in Calls |-> IF c = "book" THEN table ELSE NoSlot]

LooksForNobody == [c \in Calls |-> NoSlot]

VerdictOn == [c \in Calls |-> IF c = "lookup" THEN "404" ELSE "2xx"]

Lookups == Calls \cap {"lookup"}
===============================================================================
