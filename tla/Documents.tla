------------------------------ MODULE Documents ------------------------------
(***************************************************************************)
(* The operations of Value (rebel/src/value.rs), and a document: a Value   *)
(* that is built and changed through them, saved with serialize.rs as it   *)
(* is at several moments, and loaded again from whatever reached the file. *)
(* A Value is a tuple <<kind, content>> (see ParseCollector); the content  *)
(* of a context is the sequence of its pairs <<key, Value>>.  Nothing      *)
(* keeps a key from occurring twice: ContextBuilder::insert appends        *)
(* without a look.  RECURSIVE operators are for TLC alone.                 *)
(***************************************************************************)
EXTENDS BinaryFormat

Absent == <<"absent", 0>>   \* Option::None, where a Value is asked for

Boolean(b) == <<"int", IF b THEN 1 ELSE 0>>   \* Value::boolean

Block(items)   == <<"block", items>>
Context(pairs) == <<"context", pairs>>
is_block(v)    == v[1] = "block"
is_context(v)  == v[1] = "context"

Positions(v, key) ==
  IF is_context(v) THEN {i \in DOMAIN v[2] : v[2][i][1] = key} ELSE {}

has_key(v, key) == Positions(v, key) # {}

(* The first pair with the key counts; position() and find_map(). *)
First(v, key) == CHOOSE i \in Positions(v, key) : \A j \in Positions(v, key) : i =< j
get(v, key)   == IF has_key(v, key) THEN v[2][First(v, key)][2] ELSE Absent

(* Through get_mut and at_mut. *)
Assigned(v, key, value) ==
  IF has_key(v, key) THEN Context([v[2] EXCEPT ![First(v, key)] = <<key, value>>]) ELSE v

insert(v, key, value) ==
  CASE ~is_context(v)   -> Context(<< <<key, value>> >>)
    [] has_key(v, key)  -> Assigned(v, key, value)
    [] OTHER            -> Context(Append(v[2], <<key, value>>))

remove(v, key) ==
  IF is_context(v) THEN Context(SelectSeq(v[2], LAMBDA pair : pair[1] # key)) ELSE v

keys(v) ==
  Block(IF is_context(v) THEN [i \in DOMAIN v[2] |-> <<"string", v[2][i][1]>>] ELSE << >>)

at(v, index) == IF is_block(v) /\ index < Len(v[2]) THEN v[2][index + 1] ELSE Absent
AtAssigned(v, index, value) ==
  IF is_block(v) /\ index < Len(v[2]) THEN Block([v[2] EXCEPT ![index + 1] = value]) ELSE v

(* The content of a value of the kind that is asked for. *)
Extracted == {"int", "string", "word", "set_word", "block", "context"}
IsKind(v, kind) == v[1] = kind
is_boolean(v) == v \in {<<"int", 0>>, <<"int", 1>>}
as_boolean(v) == IF is_boolean(v) THEN <<"boolean", v[2] = 1>> ELSE Absent
As(v, kind)   == IF kind = "boolean" THEN as_boolean(v) ELSE IF IsKind(v, kind) THEN v ELSE Absent

len(v) == IF is_block(v) \/ is_context(v) THEN Len(v[2]) ELSE 0
is_empty(v)  == len(v) = 0
is_truthy(v) ==
  /\ v[1] # "none" /\ v # <<"int", 0>>
  /\ is_block(v) \/ is_context(v) => ~is_empty(v)

(* The closure of map is a function of the items, that of filter the set   *)
(* of the items it keeps. *)
Items(v) == IF is_block(v) THEN Range(v[2]) ELSE {}
map(v, f)       == IF is_block(v) THEN Block([i \in DOMAIN v[2] |-> f[v[2][i]]]) ELSE v
filter(v, kept) == IF is_block(v) THEN Block(SelectSeq(v[2], LAMBDA x : x \in kept)) ELSE v

push(v, value) == IF is_block(v) THEN Block(Append(v[2], value)) ELSE Block(<<value>>)
Rest(v)   == IF is_block(v) /\ v[2] # << >> THEN Block(Front(v[2])) ELSE v
Popped(v) == IF is_block(v) /\ v[2] # << >> THEN Last(v[2]) ELSE Absent

(* The loop takes two keys a turn: the first from any value, the second    *)
(* only from a context.  (Both fail the same way.) *)
RECURSIVE get_path(_, _)
get_path(current, path) ==
  LET next == get(current, path[1])
  IN  CASE path = << >>   -> current
        [] path # << >> /\ (next = Absent \/ Len(path) = 1) -> next
        [] OTHER -> IF has_key(next, path[2]) THEN get_path(get(next, path[2]), SubSeq(path, 3, Len(path)))
                    ELSE Absent

(* Mutant: a key that leads to no context keeps what it leads to. *)
RECURSIVE set_path_KeepsScalars(_, _, _)
set_path_KeepsScalars(v, path, value) ==
  CASE path = << >>   -> value
    [] path # << >> /\ ~is_context(v) -> v
    [] path # << >> /\ is_context(v) /\ Len(path) = 1 -> insert(v, path[1], value)
    [] path # << >> /\ is_context(v) /\ Len(path) > 1 ->
         insert(v, path[1],
                set_path_KeepsScalars(IF has_key(v, path[1]) THEN get(v, path[1]) ELSE Context(<< >>),
                                      Tail(path), value))

(* Contexts are made where the path needs them, over whatever was there. *)
RECURSIVE set_path(_, _, _)
set_path(v, path, value) ==
  CASE path = << >>   -> value
    [] path # << >> /\ ~is_context(v) -> set_path(Context(<< >>), path, value)
    [] path # << >> /\ is_context(v) /\ Len(path) = 1 -> insert(v, path[1], value)
    [] path # << >> /\ is_context(v) /\ Len(path) > 1 ->
         insert(v, path[1],
                set_path(IF has_key(v, path[1]) THEN get(v, path[1]) ELSE Context(<< >>),
                         Tail(path), value))

-----------------------------------------------------------------------------
(* Builders: pairs and items one after the other, as they come. *)
Builder == << >>
WithPair(builder, key, value) == Append(builder, <<key, value>>)
WithItem(builder, value)      == Append(builder, value)

(* The macro rebel!.  A source is what is written in it: none, a word, a   *)
(* set-word, a literal <<"literal", Value>>, a parenthesized source, items *)
(* in brackets or pairs in braces.  A literal true is the int 1 among the  *)
(* items of a block (stringify! and parse), but is made a Value by From,   *)
(* and so a bool, everywhere else. *)
From(literal) == literal[2]
InBlock(source) ==
  IF source[1] = "literal" /\ source[2][1] = "bool" THEN Boolean(source[2][2]) ELSE From(source)

RECURSIVE rebel(_), ParseBlock(_), ParseContext(_)
ParseBlock(sources) ==
  FoldLeft(WithItem, Builder,
           [i \in DOMAIN sources |->
              CASE sources[i][1] \in {"none", "word", "set_word"} -> sources[i]
                [] sources[i][1] = "literal" -> InBlock(sources[i])
                [] sources[i][1] = "block" -> rebel(sources[i])
                [] sources[i][1] = "paren" -> rebel(sources[i][2])])
ParseContext(pairs) ==
  FoldLeft(LAMBDA builder, pair : WithPair(builder, pair[1],
              CASE pair[2][1] \in {"none", "block", "context"} -> rebel(pair[2])
                [] pair[2][1] = "paren"   -> rebel(pair[2][2])
                [] pair[2][1] = "literal" -> From(pair[2])),
           Builder, pairs)
rebel(source) ==
  CASE source[1] = "block"   -> Block(ParseBlock(source[2]))
    [] source[1] = "context" -> Context(ParseContext(source[2]))
    [] source[1] = "none"    -> source
    [] source[1] = "literal" -> From(source)

-----------------------------------------------------------------------------
(* The document. *)
CONSTANTS
  Sources,                         \* what is written in rebel! to begin with
  Keys, Paths, Inserts, Indexes,   \* what the operations are given
  MaxCalls                         \* operations and saves together

(* The leaves of a value, by the paths that lead to them; of pairs with    *)
(* one key the first counts. *)
RECURSIVE TreeOf(_)
TreeOf(v) ==
  LET names == {v[2][i][1] : i \in DOMAIN v[2]}
      under == [key \in names |-> TreeOf(get(v, key))]
  IN  IF is_context(v) /\ v[2] # << >>
      THEN [path \in UNION {{<<key>> \o p : p \in DOMAIN under[key]} : key \in names} |->
              under[path[1]][Tail(path)]]
      ELSE [path \in {<< >>} |-> v]
LeavesOf(v) == IF v = Absent THEN [path \in {} |-> 0] ELSE TreeOf(v)

Documents == {rebel(source) : source \in Sources}

VARIABLES
  doc,      \* the value in hand
  leaves,   \* ghost: TreeOf(doc)
  call,     \* the last operation and its answer, a value found as its leaves
  edits,    \* operations called
  saving    \* the file is still open for writing
docVars == <<doc, leaves, call, edits, saving, streamVars>>

DocInit ==
  /\ doc \in Documents /\ leaves = TreeOf(doc)
  /\ call = <<"none">> /\ edits = 0 /\ saving = TRUE
  /\ StreamInit

(* A call, with what it leaves of the value. *)
Calls(name, left) ==
  /\ saving /\ work = << >> /\ ~failed /\ edits + Len(written) < MaxCalls
  /\ call' = name
  /\ doc' = left /\ leaves' = TreeOf(left)
  /\ edits' = edits + 1
  /\ UNCHANGED <<saving, streamVars>>

SetPath(path, value) == Calls(<<"set", path, value>>, set_path(doc, path, value))
Insert(key, value)   == Calls(<<"set", <<key>>, value>>, insert(doc, key, value))
Assign(key, value)   == Calls(<<"assign", key, value>>, Assigned(doc, key, value))
RemoveKey(key)       == Calls(<<"remove", key>>, remove(doc, key))
PushItem(value)      == Calls(<<"push", value>>, push(doc, value))
PopItem              == Calls(<<"pop", Popped(doc)>>, Rest(doc))
SetItem(index, value) == Calls(<<"set_item", index, value>>, AtAssigned(doc, index, value))
Item(index)          == Calls(<<"item", at(doc, index)>>, doc)
Wrapped(item)        == Block(WithItem(Builder, item))
WrapItems            == Calls(<<"wrap">>, map(doc, [x \in Items(doc) |-> Wrapped(x)]))
Sift                 == Calls(<<"sift">>, filter(doc, {x \in Items(doc) : is_truthy(x)}))
Inspect              == Calls(<<"inspect", {LeavesOf(As(doc, kind)) : kind \in Extracted} \ {LeavesOf(Absent)},
                                is_truthy(doc), as_boolean(doc) # Absent>>, doc)
ListKeys             == Calls(<<"keys", {key[2] : key \in ToSet(keys(doc)[2])}>>, doc)
GetPath(path)        == Calls(<<"get", path, LeavesOf(get_path(doc, path))>>, doc)

Edit ==
  \/ \E path \in Paths, value \in Inserts : SetPath(path, value)
  \/ \E key \in Keys, value \in Inserts : Insert(key, value)
  \/ \E key \in Keys, value \in Inserts : Assign(key, value)
  \/ \E key \in Keys : RemoveKey(key)
  \/ \E value \in Inserts : PushItem(value)
  \/ PopItem
  \/ \E index \in Indexes, value \in Inserts : SetItem(index, value)
  \/ \E index \in Indexes : Item(index)
  \/ WrapItems \/ Sift \/ Inspect \/ ListKeys
  \/ \E path \in Paths : GetPath(path)

(* The document is serialized as it is. *)
SaveDocument ==
  /\ saving /\ edits + Len(written) < MaxCalls
  /\ Save(doc)
  /\ call' = <<"none">>
  /\ UNCHANGED <<doc, leaves, edits, saving>>

Serializes ==
  /\ saving
  /\ Visit \/ VisitPath \/ WriteFails
  /\ UNCHANGED <<doc, leaves, call, edits, saving>>

(* The file is closed: after whole values, or where the writer failed. *)
Close ==
  /\ saving /\ written # << >> /\ (work = << >> \/ failed)
  /\ saving' = FALSE
  /\ call' = <<"none">>
  /\ UNCHANGED <<doc, leaves, edits, streamVars>>

Deserializes ==
  /\ ~saving
  /\ Read
  /\ UNCHANGED <<doc, leaves, call, edits, saving>>

Loaded ==
  /\ ~saving /\ ~Reading
  /\ UNCHANGED docVars

DocNext == Edit \/ SaveDocument \/ Serializes \/ Close \/ Deserializes \/ Loaded

-----------------------------------------------------------------------------
(* Every sequence of calls on a document does and answers what it does on  *)
(* the tree of its leaves (Tree): paths, keys and items agree, duplicate   *)
(* keys or not. *)
DocumentTree == INSTANCE Tree WITH tree <- leaves, Starts <- {TreeOf(d) : d \in Documents}
IsTree == DocumentTree!Spec

(* A value that read_value reads back: it holds no bool, and no i32::MIN   *)
(* where negating it panics. *)
RECURSIVE Readable(_)
Readable(v) ==
  CASE v[1] = "bool"  -> FALSE
    [] v[1] = "int"   -> v[2] # MinInt \/ ~OverflowChecks
    [] v[1] = "block" -> \A i \in DOMAIN v[2] : Readable(v[2][i])
    [] v[1] = "context" -> \A i \in DOMAIN v[2] : Readable(v[2][i][2])
    [] OTHER -> TRUE

(* Loading stops for a reason: with everything saved, or at the first      *)
(* value that was cut short or that the code cannot read back, and says    *)
(* which.  That there are values of the second kind, the documentation     *)
(* denies: see RoundTrips.                                                *)
Whole == IF failed THEN Len(written) - 1 ELSE Len(written)
FirstUnreadable ==
  CHOOSE n \in 1..Len(written) + 1 :
    /\ n =< Len(written) => ~Readable(written[n])
    /\ \A i \in 1..n - 1 : Readable(written[i])
StopsForAReason ==
  ~saving /\ ~Reading =>
    CASE FirstUnreadable =< Whole ->
           Len(loaded) = FirstUnreadable - 1 /\ ending \in {"InvalidTag", "panic"}
      [] FirstUnreadable > Whole ->
           /\ Len(loaded) = Whole
           /\ ending = "done" => ~failed \/ work = <<written[Len(written)]>>
           /\ ending # "done" => failed

(* "Full round-trip support: Values can be serialized and deserialized     *)
(* with perfect fidelity" (docs/binary-serialization.md:225), "while still *)
(* supporting the full i32 range" (:132): what a writer that never failed  *)
(* has saved is all loaded again.  A bool is not, read_value               *)
(* (serialize.rs) has no arm for its tag; nor is i32::MIN where overflow   *)
(* is checked, decoding negates the number first.                          *)
RoundTrips == ~saving /\ ~Reading /\ ~failed => loaded = written
=============================================================================
