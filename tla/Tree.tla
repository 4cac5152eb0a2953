-------------------------------- MODULE Tree --------------------------------
(***************************************************************************)
(* What a document of nested contexts promises: a tree whose leaves are    *)
(* found by the path of keys that leads to them.  A leaf is a value that   *)
(* is no context, or the context without keys.                             *)
(***************************************************************************)
EXTENDS Integers, SequencesExt, Functions

CONSTANTS
  Keys, Paths, Inserts, Indexes,   \* what the calls are given
  Starts                           \* trees to begin with

VARIABLES tree, call   \* the leaves; the last call and its answer
vars == <<tree, call>>

Leaf(content)  == [path \in {<< >>} |-> content]
EmptyContext == <<"context", << >> >>

(* What lies at and under a path, and the tree without it. *)
Under(path) == {q \in DOMAIN tree : IsPrefix(path, q)}
Subtree(path) == [q \in {SubSeq(p, Len(path) + 1, Len(p)) : p \in Under(path)} |-> tree[path \o q]]

(* A leaf put at a path takes the place of what is there and of any leaf   *)
(* on the way. *)
Grown(path, leaf) ==
  [q \in {q \in DOMAIN tree : ~IsPrefix(path, q) /\ ~IsPrefix(q, path)} \union {path} |->
     IF q = path THEN leaf ELSE tree[q]]
Pruned(key) ==
  LET kept == DOMAIN tree \ Under(<<key>>)
  IN  IF kept = {} THEN Leaf(EmptyContext) ELSE Restrict(tree, kept)

(* The items of a document that is a block; none of any other. *)
Items == IF << >> \in DOMAIN tree /\ tree[<< >>][1] = "block" THEN tree[<< >>][2] ELSE << >>

Init == /\ call = <<"none">>
        /\ tree \in Starts

Set(path, leaf) ==
  /\ tree' = Grown(path, leaf)
  /\ call' = <<"set", path, leaf>>

(* Through get_mut: only what is there is changed. *)
Assign(key, leaf) ==
  /\ tree' = IF Under(<<key>>) # {} THEN Grown(<<key>>, leaf) ELSE tree
  /\ call' = <<"assign", key, leaf>>

Drop(key) ==
  /\ tree' = Pruned(key)
  /\ call' = <<"remove", key>>

Push(value) ==
  /\ tree' = Leaf(<<"block", Append(Items, value)>>)
  /\ call' = <<"push", value>>

Pop ==
  /\ tree' = IF Items # << >> THEN Leaf(<<"block", Front(Items)>>) ELSE tree
  /\ call' = <<"pop", IF Items # << >> THEN Last(Items) ELSE <<"absent", 0>> >>

(* Through at_mut. *)
SetItem(index, value) ==
  /\ tree' = IF index + 1 \in DOMAIN Items
             THEN Leaf(<<"block", [Items EXCEPT ![index + 1] = value]>>) ELSE tree
  /\ call' = <<"set_item", index, value>>

Item(index) ==
  /\ call' = <<"item", IF index + 1 \in DOMAIN Items THEN Items[index + 1] ELSE <<"absent", 0>> >>
  /\ UNCHANGED tree

(* Every item put in a block of its own; the items that stand for nothing  *)
(* left out. *)
Nothing(leaf) == leaf \in {<<"none", 0>>, <<"int", 0>>, <<"block", << >> >>, EmptyContext}
WrapItems ==
  /\ tree' = IF Items # << >> THEN Leaf(<<"block", [i \in DOMAIN Items |-> <<"block", <<Items[i]>> >>]>>)
             ELSE tree
  /\ call' = <<"wrap">>
Sift ==
  /\ tree' = IF Items # << >> THEN Leaf(<<"block", SelectSeq(Items, LAMBDA item : ~Nothing(item))>>)
             ELSE tree
  /\ call' = <<"sift">>

(* The content of a document of a kind that can be taken out, whether it   *)
(* stands for something, and whether it may be taken for a boolean. *)
Root == IF << >> \in DOMAIN tree THEN tree[<< >>] ELSE <<"context", "with keys">>
Inspect ==
  /\ call' = <<"inspect", IF Root[1] \in {"none", "bool", "get_word", "path"} THEN {} ELSE {tree},
                ~Nothing(Root), Root \in {<<"int", 0>>, <<"int", 1>>}>>
  /\ UNCHANGED tree

List ==
  /\ call' = <<"keys", {path[1] : path \in DOMAIN tree \ {<< >>}}>>
  /\ UNCHANGED tree

(* A subtree is its leaves; no leaves, no value. *)
Get(path) ==
  /\ call' = <<"get", path, Subtree(path)>>
  /\ UNCHANGED tree

(* The answer is taken; the tree is left alone from here. *)
Taken ==
  /\ call' = <<"none">>
  /\ UNCHANGED tree

Next ==
  \/ \E path \in Paths \union {<<key>> : key \in Keys}, leaf \in Inserts : Set(path, leaf)
  \/ \E key \in Keys, leaf \in Inserts : Assign(key, leaf)
  \/ \E key \in Keys : Drop(key)
  \/ \E value \in Inserts : Push(value)
  \/ Pop
  \/ \E index \in Indexes, value \in Inserts : SetItem(index, value)
  \/ \E index \in Indexes : Item(index)
  \/ WrapItems \/ Sift \/ Inspect \/ List \/ Taken
  \/ \E path \in Paths : Get(path)

Spec == Init /\ [][Next]_vars
=============================================================================
