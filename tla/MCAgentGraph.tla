----------------------------- MODULE MCAgentGraph -----------------------------
(***************************************************************************)
(* Instances of AgentGraph for TLC.                                        *)
(***************************************************************************)
EXTENDS AgentGraph, TLC

CONSTANTS s1, s2, s3, c1, c2

Message(affirm, decline, keyword) ==
    [valid |-> TRUE, affirm |-> affirm, decline |-> decline, keyword |-> keyword]

Blank       == [valid |-> FALSE, affirm |-> FALSE, decline |-> FALSE,
                keyword |-> "none"]
Yes         == Message(TRUE, FALSE, "none")
No          == Message(FALSE, TRUE, "none")
DontDoIt    == Message(TRUE, TRUE, "none")
Chat        == Message(FALSE, FALSE, "none")
AskMenu     == Message(FALSE, FALSE, "menu")
Book        == Message(FALSE, FALSE, "booking")
SureBook    == Message(TRUE, FALSE, "booking")
CancelOrder == Message(FALSE, TRUE, "order")

\* Every combination the nodes can tell apart, one message for each.
AllMessages == {Blank, Yes, No, DontDoIt, Chat, AskMenu, Book, SureBook,
                CancelOrder}

\* One message for each way through the confirmation gate, and one that does
\* not come to it.  "Sure, book a table" stages a booking where nothing is
\* staged, and is a yes to what is.
EachWay == {Blank, SureBook, No, Chat}

\* The messages of a booking conversation, for the larger instances.  "Yes"
\* and "no" with nothing staged go to the model, which may take them for any
\* intent, so they stand for small talk as well.
BookingTalk == {Yes, No, Book}

OneTab  == [s \in {s1} |-> c1]
TwoTabs == [s \in {s1, s2} |-> c1]

\* Two tabs of one customer are interchangeable.
TabSymmetry == Permutations({s1, s2})

\* Two tabs of one customer and one of another: of any two of them, either
\* both share a thread or neither does.
ThreeTabs == [s \in {s1, s2, s3} |-> IF s = s3 THEN c2 ELSE c1]

\* Bound for ThreeTabs: where two tabs send, both say "sure, book a table", and
\* the process stays up.  What it cuts off is messages and restarts, which no
\* fairness asks for, so what is left are behaviours in full.
TogetherBook ==
    LET senders == {s \in Sessions : turn[s] # 0} IN
    Cardinality(senders) > 1 =>
        restarts = 0 /\ \A s \in senders : query[s] = SureBook
===============================================================================
