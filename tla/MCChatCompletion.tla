--------------------------- MODULE MCChatCompletion ---------------------------
(***************************************************************************)
(* Instances of ChatCompletion for TLC.                                    *)
(***************************************************************************)
EXTENDS ChatCompletion

CONSTANTS first, second

\* A window to wait out, and a number time.sleep refuses.
SomeHeaders == {-1, 7}
===============================================================================
