------------------------------ MODULE MCParser ------------------------------
(* All short texts over the characters that steer the parser, and over all *)
(* characters it knows when they are shorter still; texts with what a      *)
(* short one has no room for.                                              *)
EXTENDS ParserReference

MCLetters == {"a", "n"}

TextsUpTo(chars, n) == UNION {[1 .. k -> chars] : k \in 0 .. n}

Steering == {"a", "1", " ", "[", "]", "/", ":", "\""}
Every == Steering \union {"n", "-", "+", "2", "\\", ";", "\n", "#"}

Pieces == {
  <<"[">>, <<"]">>, <<" ">>, <<"a", "/", "a">>, <<"/", "n", ":">>, <<"-", "1", "2">>,
  <<"\"", "a", "\\", "n", "\"">>, <<";", "[", "\n">>, <<"1", "1">> }

MCTexts ==
  TextsUpTo(Steering, 5) \union TextsUpTo(Every, 3)
    \union {FlattenSeq(ps) : ps \in TextsUpTo(Pieces, 5)}
=============================================================================
