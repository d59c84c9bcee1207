---------------------------- MODULE MCModerator -----------------------------
(* Texts over a capital, a small letter, a leet rune, another letter, a     *)
(* space and the star; words that overlap and that hold leet and noise.     *)
EXTENDS Moderator, TLC

MCUpper == "A" :> "a"

\* Two dictionaries with words and blanks around them; blank lines only; no
\* word but noise.
MCDirectories ==
  { {{<<" ", "a", "b">>, <<>>, <<"b", "A", " ">>}, {<<"@", " ", "a">>, <<"a", "b">>, <<"*">>}},
    {{<<>>, <<" ">>}},
    {{<<"*">>}} }
=============================================================================
