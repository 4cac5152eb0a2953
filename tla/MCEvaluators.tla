---------------------------- MODULE MCEvaluators ----------------------------
(* Short texts over the characters that steer a reader, and programs whose *)
(* contents stand on both sides of every limit: packed and external        *)
(* blocks, short and long strings and names, more symbols than there is    *)
(* room for before the heap. *)
EXTENDS Evaluators

MCLetters  == {"a", "b", "c", "d"}
MCAdd      == <<"a">>
MCAlphabet == <<"a", "b", "c", "d", "1", " ", ":", "-", "[", "]">>

Num(n)    == <<"int", n>>
Word(w)   == <<"word", w>>
SetTo(w)  == <<"set_word", w>>
Str(s)    == <<"string", s>>
Block(vs) == <<"block", vs>>
Plus      == Word(MCAdd)
A(n)      == [i \in 1 .. n |-> "a"]

Chosen == {
  <<Num(1)>>, <<Num(1), Num(2)>>, <<Plus, Num(7), Num(8)>>, <<Plus, Num(-7), Num(-9)>>,
  <<Plus, Plus, Num(1), Num(2), Num(3)>>, <<Plus, Num(1), Plus, Num(2), Num(3)>>,
  <<Plus, Plus, Num(1), Num(2), Plus, Num(3), Num(4)>>, <<Plus, Num(10), Num(9)>>,
  <<Plus, Num(1), Num(2), Plus, Num(3), Num(4)>>,
  <<Plus, Num(1)>>, <<Plus, Num(1), Str(A(1))>>,
  <<Num(-16)>>, <<Num(-17)>>, <<Num(16)>>, <<Num(31)>>, <<Num(32)>>, <<Plus, Num(20), Num(-10)>>,
  <<Block(<<Num(15), Num(20)>>)>>, <<Num(3), Block(<<Num(1), Num(40)>>)>>,
  <<Block(<<Num(1), Num(2)>>)>>, <<Block(<<Num(1), Num(2), Num(3)>>), Num(4)>>,
  <<Block(<<Word(A(2)), Block(<<Num(1)>>), Word(<<"b">>)>>)>>,
  <<Block(<<Word(A(4))>>), Block(<<Word(A(3)), Num(1)>>)>>,
  <<Block(<<SetTo(<<"b">>), Num(-3)>>), SetTo(<<"c">>)>>,
  <<Block(<<SetTo(<<"b">>), Str(<<"c", "d">>), Word(<<"d">>)>>), Block(<<Num(5)>>)>>,
  <<Str(A(4)), Str(<<"b", "1">>), Block(<<Str(A(3)), Num(9)>>)>>,
  <<Str(A(5))>>, <<Str(A(7))>>, <<Str(A(8))>>, <<Str(A(11))>>, <<Str(<< >>), Num(0)>>,
  <<Block(<<Block(<<Block(<<Word(<<"b">>)>>), Num(0)>>), Num(1)>>)>>,
  <<Block(<<Block(<<Num(1), Num(2), Num(3)>>), Block(<<Num(4)>>), Num(5)>>), Num(6)>>,
  <<Word(A(7))>>, <<Word(A(8))>>, <<Block(<<Word(A(8))>>)>>, <<Block(<<Word(A(9))>>)>> }

(* And every program of up to four items out of six. *)
Items == {Plus, Num(15), Num(-2), Str(A(2)), Word(<<"c">>), Block(<<Word(<<"b">>), Num(5)>>)}
UpTo(items, n) == UNION {[1 .. k -> items] : k \in 0 .. n}
MCPrograms == Chosen \union UpTo(Items, 4)

Steering == {"a", "1", " ", "[", "]", ":", "\"", "-"}
MCTexts ==
  UpTo(Steering, 4)
    \union { <<"2", "0">>, <<"-", "1", "7">>, <<"6", "0", "0">>, <<"#">>,
             <<"[", "a", "\"", "]">>, <<"a", " ", "1", "0", " ", "9">>,
             <<"a", " ", "2", "0", " ", "2", "0">> }

MCLines ==
  { Spelled(p) : p \in { q \in Chosen : Len(Spelled(q)) =< 8 } }
    \union { << >>, <<"a", " ", "b", " ">>, <<"3", " ", "a", " ", "b", " ">>, <<"[", "1">>, <<"]">>, <<"[", "[">>,
             <<"a", " ", "5", "0", "0", " ", "5", "0">>, Spelled(<<Str(A(8))>>),
             Spelled(<<Block(<<Num(1), Num(2), Num(3)>>), Num(4)>>),
             Spelled(<<Plus, Plus, Num(1), Num(2), Plus, Num(3), Num(4)>>) }
=============================================================================
