------------------------------- MODULE Rebel2 -------------------------------
(***************************************************************************)
(* rebel2: the parser (rebel2/src/parse.rs) and the collector that puts    *)
(* what it reads in a Runtime (rebel2/src/runtime.rs).  An action is one   *)
(* turn of the parser's loop.  The collector keeps the values on one       *)
(* stack and, for each block begun, where its values start; the end of a   *)
(* block drains them and pushes the block made of them.                    *)
(*                                                                         *)
(* The character after a word or a number is consumed with it; a bracket   *)
(* there ends a block as one on its own does.  Blocks still open at the    *)
(* end of the text are left open, and nothing is said.                     *)
(***************************************************************************)
EXTENDS Integers, SequencesExt

-----------------------------------------------------------------------------
(* Values and blocks of rebel2 (rebel2/src/core.rs).  A block that fits is *)
(* packed into InlineMax bytes: their count, the bytes of the values, and  *)
(* at the end where each begins, one byte a value, the first value's last. *)
(* The packing fills a container from both ends and then moves the         *)
(* offsets down to the bytes.  A longer block goes to the store with       *)
(* numbers of four bytes, the lowest byte first; they are read back the    *)
(* highest byte first.                                                     *)
(*                                                                         *)
(* Bytes are numbers and a character is its place in Alphabet; the store   *)
(* is the sequence of what was put there.  No value the collector makes is *)
(* None, a StackRef or a NativeFunc.                                       *)
CONSTANTS
  Alphabet,    \* a sequence of all the characters
  InlineMax,   \* INLINE_MAX, 34
  HashBytes,   \* 32
  ByteMod,     \* 256
  IntBytes,    \* 8
  WideBytes,   \* bytes of a u32: 4
  NameMax      \* longest symbol that can be written, 255

IntMod == ByteMod ^ IntBytes
Chars(s)    == [i \in DOMAIN s |-> CHOOSE k \in DOMAIN Alphabet : Alphabet[k] = s[i]]
CharsOf(bs) == [i \in DOMAIN bs |-> Alphabet[bs[i]]]

(* n over k bytes, the lowest or the highest byte first; and the number    *)
(* get_index and load make of bytes. *)
LowFirst(n, k)  == [i \in 1 .. k |-> (n \div ByteMod ^ (i - 1)) % ByteMod]
HighFirst(n, k) == Reverse(LowFirst(n, k))
FromHigh(bytes) == FoldLeft(LAMBDA n, byte : n * ByteMod + byte, 0, bytes)

None == <<"none">>
Nothing == <<"nothing">>     \* an Option<Value> that is None
NoBytes == <<-1>>            \* a slice that is not there

IntTag == 0
BlockTag == 1
StringTag == 2
WordTag == 3
NoneTag == 4
SetWordTag == 11     \* TAG_WORD with the kind in bit 3
ExternalBit == 16

-----------------------------------------------------------------------------
(* create_blob, and BlobStore::put *)
Put(store, bytes) == IF bytes \in Range(store) THEN store ELSE Append(store, bytes)
External(store, bytes) ==
  <<"external", [i \in 1 .. HashBytes |->
                   IF i = 1 THEN CHOOSE k \in DOMAIN store : store[k] = bytes ELSE 0]>>
CreateBlob(store, bytes) ==
  IF Len(bytes) =< InlineMax THEN [store |-> store, blob |-> <<"inline", bytes>>]
  ELSE [store |-> Put(store, bytes), blob |-> External(Put(store, bytes), bytes)]

(* Blob::write, WordKind::write, Value::write *)
WrittenBlob(blob, tag) ==
  IF blob[1] = "inline" THEN <<tag, Len(blob[2])>> \o blob[2]
  ELSE <<tag + ExternalBit>> \o blob[2]

Written(v) ==
  CASE v[1] = "int"    -> <<IntTag>> \o HighFirst(v[2] % IntMod, IntBytes)
    [] v[1] = "block"  -> WrittenBlob(v[2], BlockTag)
    [] v[1] = "string" -> WrittenBlob(v[2], StringTag)
    [] OTHER -> <<IF v[1] = "word" THEN WordTag ELSE SetWordTag, Len(v[2])>> \o v[2]
Writable(v) == v[1] \in {"word", "set_word"} => Len(v[2]) =< NameMax

(* Inline::load, Blob::load, WordKind::load, Value::load *)
Prefix(bytes, n) == IF n =< Len(bytes) THEN SubSeq(bytes, 1, n) ELSE NoBytes
Sized(bytes) == IF bytes = << >> THEN NoBytes ELSE Prefix(Tail(bytes), bytes[1])
LoadedBlob(kind, header, bytes) ==
  LET external == header \div ExternalBit = 1
      content  == IF external THEN Prefix(bytes, HashBytes) ELSE Sized(bytes)
  IN  IF content = NoBytes \/ (~external /\ Len(content) > InlineMax) THEN Nothing
      ELSE <<kind, <<IF external THEN "external" ELSE "inline", content>>>>
Signed(n) == IF 2 * n >= IntMod THEN n - IntMod ELSE n

Loaded(bytes) ==
  IF bytes = << >> THEN Nothing
  ELSE LET tag  == bytes[1] % 8
           rest == Tail(bytes)
       IN  CASE tag = IntTag /\ Len(rest) >= IntBytes ->
                  <<"int", Signed(FromHigh(SubSeq(rest, 1, IntBytes)))>>
             [] tag = BlockTag  -> LoadedBlob("block", bytes[1], rest)
             [] tag = StringTag -> LoadedBlob("string", bytes[1], rest)
             [] tag = WordTag   ->
                  IF Sized(rest) = NoBytes THEN Nothing ELSE <<"word", Sized(rest)>>
             [] tag = NoneTag -> None
             [] OTHER -> Nothing

-----------------------------------------------------------------------------
(* Block::new_inline: the loop over the values, then the move.  Positions  *)
(* in the container count from 0. *)
PackOne(p, v) ==
  LET w    == Written(v)
      next == p.data + Len(w)
  IN  IF ~p.fits \/ ~Writable(v) \/ next > InlineMax THEN [p EXCEPT !.fits = FALSE]
      ELSE [bytes  |-> [i \in 1 .. InlineMax |->
                          IF i \in p.data + 1 .. next THEN w[i - p.data]
                          ELSE IF i = p.offset THEN p.data ELSE p.bytes[i]],
            data   |-> next,
            offset |-> p.offset - 1,
            fits   |-> next =< p.offset - 1]

Packed(values) ==
  FoldLeft(PackOne,
           [bytes |-> [i \in 1 .. InlineMax |-> IF i = 1 THEN Len(values) ELSE 0],
            data |-> 1, offset |-> InlineMax, fits |-> TRUE], values)

(* Mutant: the offsets are moved from one place too far. *)
Inlined_OneTooFar(p, n) ==
  SubSeq(p.bytes, 1, p.data) \o SubSeq(p.bytes, p.offset + 2, p.offset + n) \o <<0>>

(* The offsets follow the bytes of the n values. *)
Inlined(p, n) == SubSeq(p.bytes, 1, p.data) \o SubSeq(p.bytes, p.offset + 1, p.offset + n)

(* Block::new for what does not fit *)
OffsetOf(values, i) ==
  WideBytes + FoldLeft(LAMBDA sum, v : sum + Len(Written(v)), 0, SubSeq(values, 1, i - 1))
Wide(values) ==
  LowFirst(Len(values), WideBytes)
    \o FlattenSeq([i \in DOMAIN values |-> Written(values[i])])
    \o FlattenSeq([i \in DOMAIN values |->
                     LowFirst(OffsetOf(values, Len(values) + 1 - i), WideBytes)])

BlockOf(store, values) ==
  LET p    == Packed(values)
      wide == Wide(values)
  IN  IF p.fits
      THEN [store |-> store, error |-> "none", blob |-> <<"inline", Inlined(p, Len(values))>>]
      ELSE IF \E v \in Range(values) : ~Writable(v)
      THEN [store |-> store, error |-> "OutOfBounds", blob |-> << >>]
      ELSE [store |-> Put(store, wide), error |-> "none",
            blob |-> External(Put(store, wide), wide)]

(* Array::get with indexes of k bytes, and Block::get *)
IndexAt(bytes, at, k) ==
  IF at + k =< Len(bytes) THEN FromHigh(SubSeq(bytes, at + 1, at + k)) ELSE -1
ArrayGet(bytes, k, index) ==
  LET items  == IndexAt(bytes, 0, k)
      offset == IndexAt(bytes, Len(bytes) - (index + 1) * k, k)
  IN  IF items = -1 \/ index >= items \/ offset = -1 \/ offset > Len(bytes) THEN Nothing
      ELSE Loaded(SubSeq(bytes, offset + 1, Len(bytes)))
BlockGet(store, blob, index) ==
  IF blob[1] = "inline" THEN ArrayGet(blob[2], 1, index)
  ELSE ArrayGet(store[blob[2][1]], WideBytes, index)

-----------------------------------------------------------------------------
CONSTANTS
  Letters,      \* characters that begin a word
  MaxInt        \* i32::MAX

VARIABLES
  text, pos,    \* input and cursor
  parse, ops,   \* ParseCollector: values, and starts of the open blocks
  store,        \* the BlobStore of the Runtime
  reading       \* "reading", "end", or the error parse returned

rebel2Vars == <<text, pos, parse, ops, store, reading>>

DigitSeq == <<"0", "1", "2", "3", "4", "5", "6", "7", "8", "9">>
Digits   == Range(DigitSeq)
Blanks   == {" ", "\n", "\t"}
WordChars == Letters \union Digits \union {"_", "-"}

Past(i, chars) == CHOOSE j \in i .. Len(text) + 1 :
  /\ j =< Len(text) => text[j] \notin chars
  /\ \A k \in i .. j - 1 : text[k] \in chars
Start == Past(pos + 1, Blanks)
At(i) == IF i =< Len(text) THEN text[i] ELSE ""
Reads(chars) == reading = "reading" /\ At(Start) \in chars

Rebel2Init(t) ==
  /\ text = t /\ pos = 0
  /\ parse = << >> /\ ops = << >>
  /\ store = << >>
  /\ reading = "reading"

Refuse(error) ==
  /\ reading' = error
  /\ UNCHANGED <<text, pos, parse, ops, store>>

(* ParseCollector::end_block, with the values there are by then.           *)
EndsBlock(values) ==
  IF ops = << >>
  THEN reading' = "InternalError" /\ parse' = values /\ UNCHANGED <<ops, store>>
  ELSE LET start == Last(ops)
           block == BlockOf(store, SubSeq(values, start + 1, Len(values)))
           outer == SubSeq(values, 1, start)
       IN  /\ ops' = Front(ops)
           /\ store' = block.store
           /\ IF block.error = "none"
              THEN parse' = Append(outer, <<"block", block.blob>>) /\ UNCHANGED reading
              ELSE parse' = outer /\ reading' = block.error

(* A value for the collector, and perhaps the end of a block with it.      *)
Take(v, end, closes) ==
  /\ pos' = end
  /\ UNCHANGED text
  /\ IF closes THEN EndsBlock(Append(parse, v))
     ELSE parse' = Append(parse, v) /\ UNCHANGED <<ops, store, reading>>

BeginBlock ==
  /\ Reads({"["})
  /\ pos' = Start
  /\ ops' = Append(ops, Len(parse))
  /\ UNCHANGED <<text, parse, store, reading>>

EndBlock ==
  /\ Reads({"]"})
  /\ pos' = Start
  /\ UNCHANGED text
  /\ EndsBlock(parse)

ReadString ==
  /\ Reads({"\""})
  /\ LET end == CHOOSE j \in Start + 1 .. Len(text) + 1 :
           /\ j =< Len(text) => text[j] = "\""
           /\ \A k \in Start + 1 .. j - 1 : text[k] # "\""
         made == CreateBlob(store, Chars(SubSeq(text, Start + 1, end - 1)))
     IN  IF end > Len(text) THEN Refuse("EndOfInput")
         ELSE /\ pos' = end
              /\ store' = made.store
              /\ parse' = Append(parse, <<"string", made.blob>>)
              /\ UNCHANGED <<text, ops, reading>>

(* parse_word: the end of the text ends a word as a blank does. *)
ReadWord ==
  /\ Reads(Letters)
  /\ LET end  == Past(Start + 1, WordChars)
         kind == IF At(end) = ":" THEN "set_word" ELSE "word"
     IN  IF At(end) \in Blanks \union {"", ":", "]"}
         THEN Take(<<kind, Chars(SubSeq(text, Start, end - 1))>>,
                   Min({end, Len(text)}), At(end) = "]")
         ELSE Refuse("UnexpectedChar")

Overflow == -1
AddDigit(n, d) ==
  LET next == 10 * n + (CHOOSE v \in 0 .. 9 : DigitSeq[v + 1] = d)
  IN  IF n = Overflow \/ next > MaxInt THEN Overflow ELSE next

ReadNumber ==
  /\ Reads(Digits \union {"+", "-"})
  /\ LET end   == Past(Start + 1, Digits)
         first == IF At(Start) \in Digits THEN Start ELSE Start + 1
         n     == FoldLeft(AddDigit, 0, SubSeq(text, first, end - 1))
     IN  CASE first = end -> Refuse("EndOfInput")
           [] first # end /\ n = Overflow -> Refuse("IntegerOverflow")
           [] OTHER -> Take(<<"int", IF At(Start) = "-" THEN -n ELSE n>>,
                            Min({end, Len(text)}), At(end) = "]")

Unexpected ==
  /\ reading = "reading"
  /\ Start =< Len(text)
  /\ At(Start) \notin Letters \union Digits \union {"[", "]", "\"", "+", "-"}
  /\ Refuse("UnexpectedChar")

EndOfText ==
  /\ Reads({""})
  /\ reading' = "end"
  /\ UNCHANGED <<text, pos, parse, ops, store>>

Rebel2Next ==
  \/ BeginBlock \/ EndBlock \/ ReadString \/ ReadWord \/ ReadNumber
  \/ Unexpected \/ EndOfText

-----------------------------------------------------------------------------
(* What a value stands for, blocks read with Block::get.  What does not    *)
(* read back is "unreadable". *)
RECURSIVE Denotes(_)
Denotes(v) ==
  CASE v[1] \in {"word", "set_word"} -> <<v[1], CharsOf(v[2])>>
    [] v[1] = "string" ->
         <<"string", CharsOf(IF v[2][1] = "inline" THEN v[2][2] ELSE store[v[2][2][1]])>>
    [] v[1] = "block" ->
         LET bytes == v[2][2]
             items == [i \in 1 .. bytes[1] |-> BlockGet(store, v[2], i - 1)]
         IN  IF v[2][1] = "external"
             THEN <<IF BlockGet(store, v[2], 0) = Nothing THEN "unreadable" ELSE "bogus">>
             ELSE <<"block", [i \in DOMAIN items |->
                                IF items[i] = Nothing THEN Nothing ELSE Denotes(items[i])]>>
    [] OTHER -> v
=============================================================================
