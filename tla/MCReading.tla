------------------------------ MODULE MCReading -------------------------------
(***************************************************************************)
(* An instance of Reading for TLC: words that phrases and keywords are     *)
(* made of, and words with the letters of one in them.                     *)
(***************************************************************************)
EXTENDS Reading

Vocabulary == {"yes", "no", "not", "now", "don't", "do", "undo", "please", "it",
               "book", "my", "order", "reservation", "seat"}

Beginnings == {<<"not", "no">>, <<"now", "no">>, <<"don't", "do">>}

Endings == {<<"undo", "do">>, <<"seat", "eat">>}

Letters == Beginnings \cup Endings
===============================================================================
