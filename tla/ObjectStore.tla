----------------------------- MODULE ObjectStore -----------------------------
(***************************************************************************)
(* What the memory of rebel promises the code that uses it: objects at     *)
(* addresses of their own, which change only through the address they are  *)
(* at, and a stack that is a sequence of words.  WordMemory keeps both in  *)
(* words.                                                                  *)
(***************************************************************************)
EXTENDS ContextOps, Integers, Sequences

CONSTANTS
  HeapRoom, StackRoom,      \* words of the heap and of the stack
  Start, Begun,             \* the objects a heap begins with, and its words then
  Blocks, Strings, Sizes, Symbols, Pairs, Pushes, Counts   \* what calls are given

VARIABLES
  objects,   \* the object at each address given out
  used,      \* words of the heap in use
  stack,     \* words
  answer     \* what the last call returned
vars == <<objects, used, stack, answer>>

WordsOf(object) ==
  CASE object[1] \in {"block", "table"} -> 1 + Len(object[2])
    [] object[1] = "string"  -> 2 + (Len(object[2]) + 3) \div 4   \* four bytes a word
    [] object[1] = "context" -> 2 + 3 * object[2].cap
Fits(object) == used + WordsOf(object) =< HeapRoom

Answers(what) == answer' = what

(* A call that changes nothing. *)
Tells(what) == Answers(what) /\ UNCHANGED <<stack, objects, used>>

Init == objects = Start /\ used = Begun /\ stack = << >> /\ answer = <<"none">>

(* An object is put where none is, or there is no room for it. *)
Placed(object, a) ==
  /\ a \notin DOMAIN objects
  /\ objects' = WithEntry(objects, a, object)
  /\ used' = used + WordsOf(object)
Place(object) ==
  IF Fits(object)
  THEN \E a \in 0..HeapRoom : Answers(<<"address", a>>) /\ Placed(object, a) /\ UNCHANGED stack
  ELSE Tells(<<"OutOfMemory">>)

AllocBlock(words)    == Place(<<"block", words>>)
AllocString(bytes)   == Place(<<"string", bytes>>)
AllocContext(size)   == Place(<<"context", EmptyContext(size)>>)

OfKind(kind) == {a \in DOMAIN objects : objects[a][1] = kind}

PutAt(a, s, v) ==
  /\ Answers(<<PutResult(objects[a][2], s)>>)
  /\ objects' = [objects EXCEPT ![a][2] = Put(@, s, v)]
  /\ UNCHANGED <<stack, used>>
SealAt(a) ==
  /\ Answers(<<"ok">>)
  /\ objects' = [objects EXCEPT ![a][2] = Seal(@)]
  /\ UNCHANGED <<stack, used>>
Below(n) == SubSeq(stack, 1, n)
Top(n)   == SubSeq(stack, Len(stack) - n + 1, Len(stack))

Becomes(words, what) == Answers(what) /\ stack' = words /\ UNCHANGED <<objects, used>>

Push(words) ==
  IF Len(stack) + Len(words) =< StackRoom THEN Becomes(stack \o words, <<"ok">>)
  ELSE Tells(<<"OutOfMemory">>)
Pop(n) ==
  IF n =< Len(stack) THEN Becomes(Below(Len(stack) - n), <<"words", Top(n)>>)
  ELSE Tells(<<"StackUnderflow">>)
(* The last two words are kept of what lies above a base; a pair of zeros  *)
(* stands for nothing.  (The machine's stack holds pairs: one word above a *)
(* base is never there.)                                                   *)
Leave(n) ==
  LET over == Len(stack) - n
  IN  CASE over < 0 -> Tells(<<"StackUnderflow">>)
        [] over = 0 -> Push(<<0, 0>>)
        [] over > 0 /\ Len(stack) < 2 -> Tells(<<"StackUnderflow">>)
        [] OTHER -> IF n + 2 =< StackRoom THEN Becomes(Below(n) \o Top(2), <<"ok">>)
                    ELSE Becomes(Below(n), <<"OutOfMemory">>)

(* What lies above a base goes into a block, and the block takes its       *)
(* place; without room for the block it is lost. *)
Gather(n, tag) ==
  LET block == <<"block", Top(Len(stack) - n)>>
  IN  CASE n > Len(stack) -> Tells(<<"StackUnderflow">>)
        [] n =< Len(stack) /\ ~Fits(block) ->
             Becomes(Below(n), <<"OutOfMemory">>)
        [] OTHER ->
             \E a \in 0..HeapRoom :
               /\ IF n + 2 =< StackRoom
                  THEN stack' = Below(n) \o <<tag, a>> /\ Answers(<<"ok">>)
                  ELSE stack' = Below(n) /\ Answers(<<"OutOfMemory">>)
               /\ Placed(block, a)

Next ==
  \/ \E words \in Blocks : AllocBlock(words)
  \/ \E bytes \in Strings : AllocString(bytes)
  \/ \E size \in Sizes : AllocContext(size)
  \/ \E a \in OfKind("context"), s \in Symbols, v \in Pairs : PutAt(a, s, v)
  \/ \E a \in OfKind("context") : SealAt(a)
  \/ \E words \in Pushes : Push(words)
  \/ \E n \in Counts : Pop(n) \/ Leave(n) \/ \E tag \in Pushes : Gather(n, tag[1])

Spec == Init /\ [][Next]_vars
=============================================================================
