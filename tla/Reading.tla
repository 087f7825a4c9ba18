------------------------------- MODULE Reading --------------------------------
(***************************************************************************)
(* What the agent takes a message for without asking the model: the        *)
(* phrases of confirmation_gate_node and the keywords of intent_gate_node  *)
(* (app/agents/nodes.py).  AgentGraph takes the result as its input Query. *)
(*                                                                         *)
(* A message, in lower case, is a sequence of words, and so is a phrase;   *)
(* what one word has to do with the letters of another is given by three   *)
(* relations.                                                              *)
(***************************************************************************)
EXTENDS Integers, Sequences

CONSTANTS
    Words,                  \* the words of the messages
    starts, ends, within,   \* <<w, p>>: the longer w starts with p, ends with p, has p in it
    MaxWords                \* bound: words in a message

ASSUME WordsAssumption == starts \cup ends \subseteq within
ASSUME BoundAssumption == MaxWords \in Nat

Messages == UNION {[1..n -> Words] : n \in 0..MaxWords}

VARIABLES
    words,    \* the message
    staged,   \* a call awaits confirmation when it arrives
    at,       \* the node that reads it next
    taken     \* what it was taken for

vars == <<words, staged, at, taken>>

-----------------------------------------------------------------------------
(* Containment *)

Starts(w, p) == w = p \/ <<w, p>> \in starts
Ends(w, p)   == w = p \/ <<w, p>> \in ends
Within(w, p) == w = p \/ <<w, p>> \in within

\* "phrase in query": the letters of the phrase, wherever they are.
Substring(phrase, query) ==
    LET n == Len(phrase) IN
    IF n = 1 THEN \E i \in DOMAIN query : Within(query[i], phrase[1])
    ELSE \E i \in 1..(Len(query) - n + 1) :
            /\ Ends(query[i], phrase[1])
            /\ \A k \in 2..(n - 1) : query[i + k - 1] = phrase[k]
            /\ Starts(query[i + n - 1], phrase[n])

\* The phrase as whole words.
Says(query, phrase) ==
    \E i \in 1..(Len(query) - Len(phrase) + 1) :
        \A k \in DOMAIN phrase : query[i + k - 1] = phrase[k]

\* A faulty matcher would take a phrase only for a whole message.
matches_whole(query, phrases) == query \in phrases

matches_any(query, phrases) ==
    \E phrase \in phrases :
        IF Len(phrase) = 1 THEN \E i \in DOMAIN query : query[i] = phrase[1]
                           ELSE Substring(phrase, query)

-----------------------------------------------------------------------------
(* The phrases and the keywords *)

AFFIRMATIVE_PHRASES ==
    {<<"yes">>, <<"yeah">>, <<"yep">>, <<"yup">>, <<"confirm">>, <<"correct">>, <<"sure">>,
     <<"go", "ahead">>, <<"book", "it">>, <<"do", "it">>, <<"please", "do">>}

NEGATIVE_PHRASES ==
    {<<"no">>, <<"nope">>, <<"nah">>, <<"cancel">>, <<"nevermind">>, <<"never", "mind">>,
     <<"don't">>, <<"stop">>, <<"not", "now">>}

keywords ==
    [menu |-> {<<"menu">>, <<"dish">>, <<"dishes">>, <<"eat">>, <<"food">>, <<"vegetarian">>,
               <<"vegan">>, <<"starter">>, <<"main", "course">>, <<"dessert">>, <<"gluten">>,
               <<"nut">>, <<"allerg">>, <<"price">>, <<"cost">>, <<"how", "much">>},
     view_booking |-> {<<"my", "booking">>, <<"my", "reservation">>, <<"my", "table">>,
                       <<"check", "my", "reservation">>, <<"reservation", "status">>,
                       <<"existing", "booking">>},
     view_order |-> {<<"my", "order">>, <<"what", "did", "i", "order">>,
                     <<"order", "history">>, <<"my", "food", "order">>},
     availability |-> {<<"available">>, <<"availability">>, <<"free", "table">>,
                       <<"open", "slot">>, <<"any", "tables">>},
     order |-> {<<"order">>, <<"i'd", "like", "to", "have">>, <<"i", "want", "to", "order">>,
                <<"get", "me">>, <<"i'll", "have">>},
     booking |-> {<<"book">>, <<"reserve">>, <<"table", "for">>}]

\* The order the intents are tried in.  A faulty gate would try an action
\* before the view of it.
intents_action_first == <<"menu", "order", "booking", "view_booking", "view_order", "availability">>

intents == <<"menu", "view_booking", "view_order", "availability", "order", "booking">>

HasKeyword(query, intent) == \E k \in keywords[intent] : Substring(k, query)

Tier1(query) == {i \in DOMAIN intents : HasKeyword(query, intents[i])}

Intents == {intents[i] : i \in DOMAIN intents}

-----------------------------------------------------------------------------
(* The nodes *)

Readings == {"nothing", "assent", "refusal", "unclear", "for the model"} \cup Intents

Init ==
    /\ words \in Messages
    /\ staged \in BOOLEAN
    /\ at = "guardrail"
    /\ taken = "unread"

Take(meaning) == at' = "read" /\ taken' = meaning /\ UNCHANGED <<words, staged>>

Pass(node) == at' = node /\ UNCHANGED <<words, staged, taken>>

guardrail_node ==
    /\ at = "guardrail"
    /\ IF words = <<>> THEN Take("nothing") ELSE Pass("confirmation_gate")

confirmation_gate_node ==
    /\ at = "confirmation_gate"
    /\ IF ~staged THEN Pass("intent_gate")
       ELSE Take(IF matches_any(words, AFFIRMATIVE_PHRASES) THEN "assent"
                 ELSE IF matches_any(words, NEGATIVE_PHRASES) THEN "refusal" ELSE "unclear")

intent_gate_node ==
    /\ at = "intent_gate"
    /\ Take(IF Tier1(words) = {} THEN "for the model"
            ELSE intents[CHOOSE i \in Tier1(words) : \A j \in Tier1(words) : i <= j])

Next == guardrail_node \/ confirmation_gate_node \/ intent_gate_node

Spec == Init /\ [][Next]_vars

-----------------------------------------------------------------------------
(* Properties *)

SaysAny(phrases) == \E phrase \in phrases : Says(words, phrase)

\* A customer who says yes or no in one of the ways the agent knows, as whole
\* words anywhere in the message, is not asked again.
AnswerIsTaken ==
    at = "read" /\ staged /\ SaysAny(AFFIRMATIVE_PHRASES \cup NEGATIVE_PHRASES)
        => taken \in {"assent", "refusal"}

\* Who asks to see a booking or an order, with no call staged, is shown it, or
\* the menu if there is a word for that too, and does not start a new one; and
\* who orders something does not book.  So it is with the keywords of several
\* in one message: "order it for my reservation", "book my order".
LeastAmbiguousFirst ==
    at = "read" /\ ~staged =>
        /\ SaysAny(keywords.view_booking \cup keywords.view_order)
              => taken \in {"menu", "view_booking", "view_order"}
        /\ SaysAny(keywords.order) => taken \in Intents \ {"booking"}

-----------------------------------------------------------------------------
(* What the repository says of the program, and the code does not do *)

OneWord(phrases) == {phrase \in phrases : Len(phrase) = 1}

\* nodes.py: the call is run "now that the user confirmed".  A message that
\* says no, and none of the words for yes, is never taken for a yes.
RefusalNeverExecutes ==
    SaysAny(NEGATIVE_PHRASES) /\ ~SaysAny(OneWord(AFFIRMATIVE_PHRASES)) => taken # "assent"

-----------------------------------------------------------------------------
(* The inductive invariant behind the theorems of ReadingProofs *)

\* A message is read once; only one that meets no staged call gets an intent,
\* and an empty one gets none.
ReadingInv ==
    /\ words \in Messages /\ staged \in BOOLEAN
    /\ at \in {"guardrail", "confirmation_gate", "intent_gate", "read"}
    /\ taken \in Readings \cup {"unread"}
    /\ at = "read" <=> taken # "unread"
    /\ taken \in Intents \cup {"for the model"} => ~staged
    /\ at = "read" => (taken = "nothing" <=> words = <<>>)
===============================================================================
