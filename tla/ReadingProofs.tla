---------------------------- MODULE ReadingProofs -----------------------------
(***************************************************************************)
(* Theorems about Reading, for any words, whatever letters they share, and *)
(* messages of any length.                                                 *)
(***************************************************************************)
EXTENDS Reading, SequenceTheorems, TLAPS

-----------------------------------------------------------------------------
(* Phrases in messages *)

LEMMA MessagesAreSeqs ==
    ASSUME NEW query \in Messages
    PROVE  /\ query \in Seq(Words) /\ Len(query) \in Nat
           /\ DOMAIN query = 1..Len(query)
<1>1. PICK n \in 0..MaxWords : query \in [1..n -> Words]
  BY DEF Messages
<1>2. n \in Nat
  BY BoundAssumption
<1>3. query \in Seq(Words)
  BY <1>1, <1>2, SeqDef
<1> QED BY <1>3, LenProperties

\* A phrase is a sequence of one word or more.
IsPhrase(phrase) ==
    Len(phrase) \in Nat /\ Len(phrase) >= 1 /\ DOMAIN phrase = 1..Len(phrase)

ArePhrases(phrases) == \A phrase \in phrases : IsPhrase(phrase)

LEMMA Tuples ==
    ASSUME NEW a, NEW b, NEW c, NEW d
    PROVE  IsPhrase(<<a>>) /\ IsPhrase(<<a, b>>) /\ IsPhrase(<<a, b, c>>) /\ IsPhrase(<<a, b, c, d>>)
<1>1. IsPhrase(<<a>>)
  BY DEF IsPhrase
<1>2. IsPhrase(<<a, b>>)
  BY DEF IsPhrase
<1>3. IsPhrase(<<a, b, c>>)
  BY DEF IsPhrase
<1>4. IsPhrase(<<a, b, c, d>>)
  BY DEF IsPhrase
<1> QED BY <1>1, <1>2, <1>3, <1>4

LEMMA PhrasesAreSeqs ==
    /\ ArePhrases(AFFIRMATIVE_PHRASES)
    /\ ArePhrases(NEGATIVE_PHRASES)
    /\ ArePhrases(keywords.view_booking)
    /\ ArePhrases(keywords.view_order)
    /\ ArePhrases(keywords.order)
<1>1. ArePhrases(AFFIRMATIVE_PHRASES)
  BY Tuples DEF ArePhrases, AFFIRMATIVE_PHRASES
<1>2. ArePhrases(NEGATIVE_PHRASES)
  BY Tuples DEF ArePhrases, NEGATIVE_PHRASES
<1>3. ArePhrases(keywords.view_booking)
  BY Tuples DEF ArePhrases, keywords
<1>4. ArePhrases(keywords.view_order)
  BY Tuples DEF ArePhrases, keywords
<1>5. ArePhrases(keywords.order)
  BY Tuples DEF ArePhrases, keywords
<1> QED BY <1>1, <1>2, <1>3, <1>4, <1>5

\* What is said in whole words is found among the letters.
LEMMA SaidIsFound ==
    ASSUME NEW query \in Messages, NEW phrase, IsPhrase(phrase), Says(query, phrase)
    PROVE  Substring(phrase, query)
<1> DEFINE n == Len(phrase)
<1>1. /\ n \in Nat /\ n >= 1 /\ DOMAIN phrase = 1..n
      /\ Len(query) \in Nat /\ DOMAIN query = 1..Len(query)
  BY MessagesAreSeqs DEF IsPhrase
<1>2. PICK i \in 1..(Len(query) - n + 1) : \A k \in 1..n : query[i + k - 1] = phrase[k]
  BY <1>1 DEF Says
<1> HIDE DEF n
<1>3. CASE n = 1
  <2>1. query[i] = phrase[1] /\ i \in DOMAIN query
    BY <1>1, <1>2, <1>3
  <2> QED BY <1>3, <2>1 DEF Substring, Within, n
<1>4. CASE n # 1
  <2>1. query[i] = phrase[1] /\ query[i + n - 1] = phrase[n]
    <3>1. query[i + 1 - 1] = phrase[1] /\ i + 1 - 1 = i
      BY <1>1, <1>2
    <3> QED BY <1>1, <1>2, <3>1
  <2>2. \A k \in 2..(n - 1) : query[i + k - 1] = phrase[k]
    BY <1>1, <1>2
  <2> QED BY <1>2, <1>4, <2>1, <2>2 DEF Substring, Ends, Starts, n
<1> QED BY <1>3, <1>4

\* A phrase of one word is said where the word is.
LEMMA SaidInOneWord ==
    ASSUME NEW query \in Messages, NEW phrase, IsPhrase(phrase), Len(phrase) = 1
    PROVE  Says(query, phrase) <=> \E i \in DOMAIN query : query[i] = phrase[1]
<1>1. DOMAIN phrase = {1} /\ Len(query) \in Nat /\ DOMAIN query = 1..Len(query)
  BY MessagesAreSeqs DEF IsPhrase
<1>2. ASSUME NEW i \in DOMAIN query
      PROVE  /\ i \in 1..(Len(query) - Len(phrase) + 1)
             /\ query[i + 1 - 1] = query[i]
  <2>1. i \in 1..(Len(query) - Len(phrase) + 1) /\ i + 1 - 1 = i
    BY <1>1
  <2> QED BY <2>1
<1>3. ASSUME NEW i \in DOMAIN query, query[i] = phrase[1]
      PROVE  Says(query, phrase)
  BY <1>1, <1>2, <1>3 DEF Says
<1>4. ASSUME Says(query, phrase)
      PROVE  \E i \in DOMAIN query : query[i] = phrase[1]
  BY <1>1, <1>4 DEF Says
<1> QED BY <1>3, <1>4

\* What is said is matched.
LEMMA SaidIsMatched ==
    ASSUME NEW query \in Messages, NEW phrases, ArePhrases(phrases),
           NEW phrase \in phrases, Says(query, phrase)
    PROVE  matches_any(query, phrases)
BY SaidIsFound, SaidInOneWord DEF matches_any, ArePhrases

-----------------------------------------------------------------------------
(* The nodes *)

\* The intent of the first keywords found is one of those found, and no
\* intent before it is.
LEMMA FirstFound ==
    ASSUME NEW query \in Messages, Tier1(query) # {}
    PROVE  LET i == CHOOSE i \in Tier1(query) : \A j \in Tier1(query) : i <= j IN
           i \in Tier1(query) /\ \A j \in Tier1(query) : i <= j
<1>1. Tier1(query) \subseteq 1..6
  BY DEF Tier1, intents
<1>2. \E i \in Tier1(query) : \A j \in Tier1(query) : i <= j
  <2> DEFINE T == Tier1(query)
  <2>1. PICK e \in T : TRUE
    OBVIOUS
  <2> HIDE DEF T
  <2> QED BY <1>1, <2>1, SMTT(30) DEF T
<1> QED BY <1>2

LEMMA IntentsAre ==
    /\ DOMAIN intents = 1..6
    /\ intents[1] = "menu" /\ intents[2] = "view_booking" /\ intents[3] = "view_order"
    /\ intents[4] = "availability" /\ intents[5] = "order" /\ intents[6] = "booking"
BY DEF intents

\* What confirmation_gate_node and intent_gate_node make of a message.
LEMMA Understood ==
    ASSUME words \in Messages
    PROVE  /\ SaysAny(AFFIRMATIVE_PHRASES) => matches_any(words, AFFIRMATIVE_PHRASES)
           /\ SaysAny(NEGATIVE_PHRASES) => matches_any(words, NEGATIVE_PHRASES)
           /\ SaysAny(keywords.view_booking) => 2 \in Tier1(words)
           /\ SaysAny(keywords.view_order) => 3 \in Tier1(words)
           /\ SaysAny(keywords.order) => 5 \in Tier1(words)
<1>1. /\ SaysAny(AFFIRMATIVE_PHRASES) => matches_any(words, AFFIRMATIVE_PHRASES)
      /\ SaysAny(NEGATIVE_PHRASES) => matches_any(words, NEGATIVE_PHRASES)
  BY PhrasesAreSeqs, SaidIsMatched DEF SaysAny
<1>2. ASSUME NEW intent, ArePhrases(keywords[intent]), SaysAny(keywords[intent])
      PROVE  HasKeyword(words, intent)
  BY <1>2, SaidIsFound DEF SaysAny, HasKeyword, ArePhrases
<1>3. SaysAny(keywords.view_booking) => 2 \in Tier1(words)
  BY <1>2, PhrasesAreSeqs, IntentsAre DEF Tier1
<1>4. SaysAny(keywords.view_order) => 3 \in Tier1(words)
  BY <1>2, PhrasesAreSeqs, IntentsAre DEF Tier1
<1>5. SaysAny(keywords.order) => 5 \in Tier1(words)
  BY <1>2, PhrasesAreSeqs, IntentsAre DEF Tier1
<1> QED BY <1>1, <1>3, <1>4, <1>5

-----------------------------------------------------------------------------
(* The nodes *)

Inv ==
    /\ ReadingInv
    /\ at = "intent_gate" => ~staged
    /\ words = <<>> => at = "guardrail" \/ taken = "nothing"
    /\ AnswerIsTaken
    /\ LeastAmbiguousFirst

LEMMA IntentNames ==
    Intents = {"menu", "view_booking", "view_order", "availability", "order", "booking"}
BY IntentsAre DEF Intents

LEMMA InitRead == Init => Inv
<1> SUFFICES ASSUME Init PROVE Inv
  OBVIOUS
<1> USE DEF Init
<1>1. ReadingInv
  BY IntentNames DEF ReadingInv
<1>2. AnswerIsTaken /\ LeastAmbiguousFirst
  BY DEF AnswerIsTaken, LeastAmbiguousFirst
<1> QED BY <1>1, <1>2 DEF Inv

\* Nothing is left to read of a message that was passed on to a later node.
LEMMA PassRead ==
    ASSUME Inv, NEW node \in {"confirmation_gate", "intent_gate"}, at # "read", Pass(node),
           words # <<>>, node = "intent_gate" => ~staged
    PROVE  Inv'
<1>1. at' = node /\ UNCHANGED <<words, staged, taken>> /\ taken = "unread"
  BY DEF Pass, Inv, ReadingInv
<1>2. ReadingInv'
  BY <1>1, IntentNames DEF Inv, ReadingInv, Readings
<1>3. AnswerIsTaken' /\ LeastAmbiguousFirst'
  BY <1>1 DEF AnswerIsTaken, LeastAmbiguousFirst
<1> QED BY <1>1, <1>2, <1>3 DEF Inv

\* A message is taken for something.
LEMMA TakeRead ==
    ASSUME Inv, NEW meaning \in Readings, Take(meaning),
           meaning = "nothing" <=> words = <<>>,
           meaning \in Intents \cup {"for the model"} => ~staged,
           staged /\ SaysAny(AFFIRMATIVE_PHRASES \cup NEGATIVE_PHRASES)
               => meaning \in {"assent", "refusal"},
           ~staged /\ SaysAny(keywords.view_booking \cup keywords.view_order)
               => meaning \in {"menu", "view_booking", "view_order"},
           ~staged /\ SaysAny(keywords.order) => meaning \in Intents \ {"booking"}
    PROVE  Inv'
<1>1. at' = "read" /\ taken' = meaning /\ UNCHANGED <<words, staged>>
  BY DEF Take
<1>2. meaning # "unread"
  BY IntentNames DEF Readings
<1>3. ReadingInv'
  BY <1>1, <1>2 DEF Inv, ReadingInv
<1>4. AnswerIsTaken' /\ LeastAmbiguousFirst'
  BY <1>1 DEF AnswerIsTaken, LeastAmbiguousFirst, SaysAny, Says
<1> QED BY <1>1, <1>3, <1>4 DEF Inv

LEMMA NothingSaid ==
    ASSUME words = <<>>, NEW phrases, ArePhrases(phrases)
    PROVE  ~SaysAny(phrases)
BY DEF SaysAny, Says, ArePhrases, IsPhrase

LEMMA GuardrailRead == ASSUME Inv, guardrail_node PROVE Inv'
<1>1. at = "guardrail"
  BY DEF guardrail_node
<1>2. CASE words = <<>>
  <2>1. Take("nothing") /\ "nothing" \in Readings
    BY <1>2 DEF guardrail_node, Readings
  <2>2. /\ ~SaysAny(AFFIRMATIVE_PHRASES \cup NEGATIVE_PHRASES)
        /\ ~SaysAny(keywords.view_booking \cup keywords.view_order)
        /\ ~SaysAny(keywords.order)
    BY <1>2, NothingSaid, PhrasesAreSeqs DEF ArePhrases
  <2>3. "nothing" \notin Intents \cup {"for the model"}
    BY IntentNames
  <2> QED BY <1>2, <2>1, <2>2, <2>3, TakeRead
<1>3. CASE words # <<>>
  <2>1. Pass("confirmation_gate")
    BY <1>3 DEF guardrail_node
  <2> QED BY <1>1, <1>3, <2>1, PassRead
<1> QED BY <1>2, <1>3

LEMMA GateRead == ASSUME Inv, confirmation_gate_node PROVE Inv'
<1>1. at = "confirmation_gate" /\ words \in Messages /\ words # <<>>
  BY DEF confirmation_gate_node, Inv, ReadingInv
<1>2. CASE ~staged
  <2>1. Pass("intent_gate")
    BY <1>2 DEF confirmation_gate_node
  <2> QED BY <1>1, <1>2, <2>1, PassRead
<1>3. CASE staged
  <2> DEFINE meaning == IF matches_any(words, AFFIRMATIVE_PHRASES) THEN "assent"
                        ELSE IF matches_any(words, NEGATIVE_PHRASES) THEN "refusal" ELSE "unclear"
  <2>1. Take(meaning)
    BY <1>3 DEF confirmation_gate_node
  <2>2. SaysAny(AFFIRMATIVE_PHRASES \cup NEGATIVE_PHRASES) => meaning \in {"assent", "refusal"}
    BY <1>1, Understood DEF SaysAny
  <2>3. meaning \in {"assent", "refusal", "unclear"}
    OBVIOUS
  <2> HIDE DEF meaning
  <2>4. /\ meaning \in Readings /\ meaning \notin Intents \cup {"for the model"}
        /\ meaning # "nothing"
    BY <2>3, IntentNames DEF Readings
  <2> QED BY <1>1, <1>3, <2>1, <2>2, <2>4, TakeRead
<1> QED BY <1>2, <1>3

LEMMA IntentRead == ASSUME Inv, intent_gate_node PROVE Inv'
<1>1. at = "intent_gate" /\ words \in Messages /\ words # <<>> /\ ~staged
  BY DEF intent_gate_node, Inv, ReadingInv
<1>2. CASE Tier1(words) = {}
  <2>1. Take("for the model")
    BY <1>2 DEF intent_gate_node
  <2>2. "for the model" \in Readings
    BY DEF Readings
  <2>3. /\ ~SaysAny(keywords.view_booking \cup keywords.view_order)
        /\ ~SaysAny(keywords.order)
    BY <1>1, <1>2, Understood DEF SaysAny
  <2> QED BY <1>1, <2>1, <2>2, <2>3, TakeRead
<1>3. CASE Tier1(words) # {}
  <2> DEFINE i == CHOOSE i \in Tier1(words) : \A j \in Tier1(words) : i <= j
  <2>1. Take(intents[i])
    BY <1>3 DEF intent_gate_node
  <2>2. i \in Tier1(words) /\ \A j \in Tier1(words) : i <= j
    BY <1>1, <1>3, FirstFound
  <2> HIDE DEF i
  <2>3. i \in 1..6 /\ intents[i] \in Intents
    BY <2>2, IntentsAre DEF Tier1, Intents
  <2>4. intents[i] \in Readings /\ intents[i] # "nothing"
    BY <2>3, IntentNames DEF Readings
  <2>5. SaysAny(keywords.view_booking \cup keywords.view_order)
            => intents[i] \in {"menu", "view_booking", "view_order"}
    <3>1. ASSUME SaysAny(keywords.view_booking) \/ SaysAny(keywords.view_order)
          PROVE  i \in 1..3
      BY <1>1, <2>2, <2>3, <3>1, Understood
    <3>2. i \in 1..3 => intents[i] \in {"menu", "view_booking", "view_order"}
      BY IntentsAre
    <3> QED BY <3>1, <3>2 DEF SaysAny
  <2>6. SaysAny(keywords.order) => intents[i] \in Intents \ {"booking"}
    <3>1. SaysAny(keywords.order) => i \in 1..5
      BY <1>1, <2>2, <2>3, Understood
    <3>2. i \in 1..5 => intents[i] # "booking"
      BY IntentsAre
    <3> QED BY <2>3, <3>1, <3>2
  <2> QED BY <1>1, <2>1, <2>4, <2>5, <2>6, TakeRead
<1> QED BY <1>2, <1>3

LEMMA NextRead == Inv /\ [Next]_vars => Inv'
<1> SUFFICES ASSUME Inv, [Next]_vars PROVE Inv'
  OBVIOUS
<1>1. CASE UNCHANGED vars
  BY <1>1 DEF vars, Inv, ReadingInv, AnswerIsTaken, LeastAmbiguousFirst, SaysAny, Says
<1> QED BY <1>1, GuardrailRead, GateRead, IntentRead DEF Next

LEMMA ReadingHolds == Spec => []Inv
  BY InitRead, NextRead, PTL DEF Spec

-----------------------------------------------------------------------------
(* Theorems *)

\* Only a message that meets no staged call gets an intent, and an empty one
\* gets none, for any vocabulary.
THEOREM ReadOnce == Spec => []ReadingInv
<1>1. Inv => ReadingInv
  BY DEF Inv
<1> QED BY <1>1, ReadingHolds, PTL

\* Whoever says yes or no in one of the known ways is not asked again.
THEOREM AnswersTaken == Spec => []AnswerIsTaken
<1>1. Inv => AnswerIsTaken
  BY DEF Inv
<1> QED BY <1>1, ReadingHolds, PTL

\* Whoever asks to see a booking or an order is shown it, or the menu if they
\* ask for that as well, and starts neither, in messages of any length and
\* whatever action words they have besides; an order is never taken for a
\* booking.
THEOREM ViewsFirst == Spec => []LeastAmbiguousFirst
<1>1. Inv => LeastAmbiguousFirst
  BY DEF Inv
<1> QED BY <1>1, ReadingHolds, PTL
===============================================================================
