---------------------------- MODULE BinaryFormat ----------------------------
(***************************************************************************)
(* rebel/src/serialize.rs: values written to a stream of bytes by visiting *)
(* them piece by piece, and read back from what reached the stream.  The   *)
(* recursion of serialize and of read_value is a stack: of the pieces yet  *)
(* to visit, of the blocks and contexts being read.                        *)
(*                                                                         *)
(* The integers in it have the variable length of rebel/src/encoding.rs:   *)
(* one byte for -64..63, and for the others a tag followed by the one to   *)
(* four bytes of the magnitude, the most significant first.                *)
(*                                                                         *)
(* A Value is a tuple <<kind, content>>; texts and keys are sequences of   *)
(* bytes.  The writer may fail at any byte, as any io::Write may.          *)
(***************************************************************************)
EXTENDS Integers, SequencesExt

CONSTANT OverflowChecks   \* negating i32::MIN panics (debug) or wraps (release)
ASSUME OverflowAssumption == OverflowChecks \in BOOLEAN

MaxInt == 2147483647
MinInt == -2147483647 - 1
I32    == {n \in Int : MinInt =< n /\ n =< MaxInt}
Byte   == 0..255

(* The bytes that encode value: the first one, and those after it. *)
encoded_size(value) ==
  IF -64 =< value /\ value =< 63 THEN 1
  ELSE IF -128 =< value /\ value =< 127 THEN 2
  ELSE IF -32768 =< value /\ value =< 32767 THEN 3
  ELSE IF -8388608 =< value /\ value =< 8388607 THEN 4
  ELSE 5

FirstByte(value) ==
  IF encoded_size(value) = 1
  THEN IF value >= 0 THEN value ELSE 128 + (-value - 1)
  ELSE (IF value >= 0 THEN 64 ELSE 68) + (encoded_size(value) - 2)

(* The byte of a magnitude at a place. *)
DigitOf(n, place) ==
  IF place = 0 THEN n % 256
  ELSE IF place = 1 THEN (n \div 256) % 256
  ELSE IF place = 2 THEN (n \div 65536) % 256
  ELSE n \div 16777216

(* That of i32::MIN is 2^31, which only a u32 holds. *)
MagnitudeByte(value, place) ==
  IF value = MinInt THEN (IF place = 3 THEN 128 ELSE 0)
  ELSE DigitOf(IF value >= 0 THEN value ELSE -value, place)

encode_i32(value) ==
  [i \in 1..encoded_size(value) |->
     IF i = 1 THEN FirstByte(value) ELSE MagnitudeByte(value, encoded_size(value) - i)]

-----------------------------------------------------------------------------
(* What decoding returns. *)
Some(value, used) == [outcome |-> "some", value |-> value, used |-> used]
Nothing == [outcome |-> "none", value |-> 0, used |-> 0]
Panic   == [outcome |-> "panic", value |-> 0, used |-> 0]

IsFirst(byte) == byte \in (0..71) \union (128..191)

(* The bytes that follow the first one. *)
additional_bytes(first) == IF first \in 64..71 THEN ((first - 64) % 4) + 1 ELSE 0

(* A byte shifted to the top of an i32 brings its sign along. *)
TopByte(byte) == IF byte > 127 THEN byte - 256 ELSE byte

(* The i32 that the more bytes after the first one spell. *)
Number(buffer, more) ==
  IF more = 1 THEN buffer[2]
  ELSE IF more = 2 THEN buffer[2] * 256 + buffer[3]
  ELSE IF more = 3 THEN buffer[2] * 65536 + buffer[3] * 256 + buffer[4]
  ELSE TopByte(buffer[2]) * 16777216 + buffer[3] * 65536 + buffer[4] * 256 + buffer[5]

Negated(value, used) ==
  IF value # MinInt THEN Some(-value, used)
  ELSE IF OverflowChecks THEN Panic ELSE Some(MinInt, used)

decode_i32(buffer) ==
  LET first == buffer[1]
      more  == additional_bytes(first)
  IN  IF Len(buffer) = 0 \/ ~IsFirst(first) \/ Len(buffer) =< more THEN Nothing
      ELSE IF first =< 63 THEN Some(first, 1)
      ELSE IF first >= 128 THEN Some(-(first - 128) - 1, 1)
      ELSE IF first =< 67 THEN Some(Number(buffer, more), more + 1)
      ELSE Negated(Number(buffer, more), more + 1)

-----------------------------------------------------------------------------
VARIABLES
  bytes,     \* the stream
  work,      \* pieces the serializer has yet to visit
  written,   \* ghost: the values whose serialization began
  failed,    \* the writer failed, or the serializer panicked
  pos,       \* bytes the deserializer has consumed
  frames,    \* blocks and contexts it is in, the innermost last
  loaded,    \* the values it returned
  ending     \* "no": it goes on; "done", or the error it returned
streamVars == <<bytes, work, written, failed, pos, frames, loaded, ending>>

(* BinTag *)
TagOf == [none |-> 0, int |-> 1, block |-> 2, context |-> 3, string |-> 5, word |-> 6,
          set_word |-> 7, get_word |-> 8, bool |-> 10]
Texts == {"string", "word", "set_word", "get_word"}

StreamInit ==
  /\ bytes = << >> /\ work = << >> /\ written = << >> /\ failed = FALSE
  /\ pos = 0 /\ frames = << >> /\ loaded = << >> /\ ending = "no"

-----------------------------------------------------------------------------
(* write_string *)
TextBytes(text) == encode_i32(Len(text)) \o text

(* What visiting a piece writes, and the pieces it leaves to visit; a key  *)
(* of a context is a piece of its own. *)
PieceBytes(piece) ==
  CASE piece[1] = "none"  -> <<TagOf.none>>
    [] piece[1] = "int"   -> <<TagOf.int>> \o encode_i32(piece[2])
    [] piece[1] = "bool"  -> <<TagOf.bool, IF piece[2] THEN 1 ELSE 0>>
    [] piece[1] \in Texts -> <<TagOf[piece[1]]>> \o TextBytes(piece[2])
    [] piece[1] = "key"   -> TextBytes(piece[2])
    [] piece[1] \in {"block", "context"} -> <<TagOf[piece[1]]>> \o encode_i32(Len(piece[2]))

Inside(piece) ==
  CASE piece[1] = "block"   -> piece[2]
    [] piece[1] = "context" ->
         [i \in 1..2 * Len(piece[2]) |->
            IF i % 2 = 1 THEN <<"key", piece[2][(i + 1) \div 2][1]>> ELSE piece[2][i \div 2][2]]
    [] OTHER -> << >>

(* serialize is called; nothing is written yet. *)
Save(value) ==
  /\ work = << >> /\ ~failed
  /\ work' = <<value>>
  /\ written' = Append(written, value)
  /\ UNCHANGED <<bytes, failed, pos, frames, loaded, ending>>

(* Mutant: what is inside a value is visited after the rest of what is     *)
(* around it. *)
Visit_Behind ==
  /\ work # << >> /\ ~failed /\ work[1][1] # "path"
  /\ bytes' = bytes \o PieceBytes(work[1])
  /\ work' = Tail(work) \o Inside(work[1])
  /\ UNCHANGED <<written, failed, pos, frames, loaded, ending>>

Visit ==
  /\ work # << >> /\ ~failed /\ work[1][1] # "path"
  /\ bytes' = bytes \o PieceBytes(work[1])
  /\ work' = Inside(work[1]) \o Tail(work)
  /\ UNCHANGED <<written, failed, pos, frames, loaded, ending>>

(* A path is not implemented: the serializer panics. *)
VisitPath ==
  /\ work # << >> /\ ~failed /\ work[1][1] = "path"
  /\ failed' = TRUE
  /\ UNCHANGED <<bytes, work, written, pos, frames, loaded, ending>>

(* write_all fails, with some of the bytes written. *)
WriteFails ==
  /\ work # << >> /\ ~failed /\ work[1][1] # "path"
  /\ failed' = TRUE
  /\ \E n \in 0..Len(PieceBytes(work[1])) - 1 : bytes' = bytes \o SubSeq(PieceBytes(work[1]), 1, n)
  /\ UNCHANGED <<work, written, pos, frames, loaded, ending>>

-----------------------------------------------------------------------------
(* Reading at a position: an error, or what was read and the position      *)
(* after it. *)
Got(what, next) == [error |-> "none", what |-> what, next |-> next]
Refuses(error)  == [error |-> error, what |-> 0, next |-> 0]
EndOfData == "UnexpectedEof"

Window(from, n) == SubSeq(bytes, from + 1, from + n)

(* The number of bytes to read is known from the first one. *)
read_varint(from) ==
  LET size    == 1 + additional_bytes(bytes[from + 1])
      decoded == decode_i32(Window(from, size))
  IN  CASE from >= Len(bytes) -> Refuses(EndOfData)
        [] from < Len(bytes) /\ ~IsFirst(bytes[from + 1]) -> Refuses("InvalidTag")
        [] from < Len(bytes) /\ IsFirst(bytes[from + 1]) /\ from + size > Len(bytes) ->
             Refuses(EndOfData)
        [] OTHER -> IF decoded.outcome = "panic" THEN Refuses("panic")
                    ELSE Got(decoded.value, from + size)

(* A length that is no length is refused. *)
read_length(from) ==
  LET length == read_varint(from)
  IN  IF length.error = "none" /\ length.what < 0 THEN Refuses("NegativeLength") ELSE length

(* Mutant: a text cut short is taken as it is. *)
read_string_Cut(from) ==
  LET length == read_length(from)
  IN  IF length.error # "none" THEN length
      ELSE LET end == Min({length.next + length.what, Len(bytes)})
           IN  Got(SubSeq(bytes, length.next + 1, end), end)

read_string(from) ==
  LET length == read_length(from)
  IN  CASE length.error # "none" -> length
        [] length.error = "none" /\ length.next + length.what > Len(bytes) -> Refuses(EndOfData)
        [] OTHER -> Got(Window(length.next, length.what), length.next + length.what)

Kinds(tag) == {kind \in DOMAIN TagOf : TagOf[kind] = tag} \ {"bool"}   \* read_value knows no bool
KindAt(from) == CHOOSE kind \in Kinds(bytes[from + 1]) : TRUE

(* What read_value reads before it calls itself. *)
read_head(from) ==
  CASE from >= Len(bytes) -> Refuses(EndOfData)
    [] from < Len(bytes) /\ Kinds(bytes[from + 1]) = {} -> Refuses("InvalidTag")
    [] OTHER -> CASE KindAt(from) = "none"  -> Got(0, from + 1)
                  [] KindAt(from) = "int"   -> read_varint(from + 1)
                  [] KindAt(from) \in Texts -> read_string(from + 1)
                  [] KindAt(from) \in {"block", "context"} -> read_length(from + 1)

-----------------------------------------------------------------------------
Frame(kind, left) == [kind |-> kind, left |-> left, key |-> << >>, items |-> << >>]
Top == frames[Len(frames)]
NeedsKey == frames # << >> /\ Top.kind = "context" /\ Top.left > 0 /\ Top.key = << >>
Complete == frames # << >> /\ Top.left = 0
Reading  == ending = "no"

Stops(error) ==
  /\ ending' = error
  /\ frames' = << >>
  /\ UNCHANGED <<pos, loaded>>

(* An item of a block, a pair of a context; the frame that takes it. *)
ItemOf(frame, value) == IF frame.kind = "block" THEN value ELSE <<frame.key[1], value>>
Taking(frame, value) ==
  [frame EXCEPT !.left = @ - 1, !.key = << >>, !.items = Append(@, ItemOf(frame, value))]

(* A value read goes to the block or context around it, or to the caller. *)
Delivered(value, around) ==
  IF around = << >>
  THEN loaded' = Append(loaded, value) /\ frames' = << >>
  ELSE /\ frames' = [around EXCEPT ![Len(around)] = Taking(@, value)]
       /\ UNCHANGED loaded

(* The caller asks for values while there are bytes. *)
AtEnd == frames = << >> /\ pos = Len(bytes)
ReadEnd ==
  /\ Reading /\ AtEnd
  /\ Stops("done")
  /\ UNCHANGED <<bytes, work, written, failed>>

ReadValue ==
  /\ Reading /\ ~AtEnd /\ ~NeedsKey /\ ~Complete
  /\ LET head == read_head(pos)
     IN  IF head.error # "none" THEN Stops(head.error)
         ELSE /\ pos' = head.next
              /\ IF KindAt(pos) \in {"block", "context"}
                 THEN frames' = Append(frames, Frame(KindAt(pos), head.what)) /\ UNCHANGED loaded
                 ELSE Delivered(<<KindAt(pos), head.what>>, frames)
              /\ UNCHANGED ending
  /\ UNCHANGED <<bytes, work, written, failed>>

ReadKey ==
  /\ Reading /\ NeedsKey
  /\ LET key == read_string(pos)
     IN  IF key.error # "none" THEN Stops(key.error)
         ELSE /\ pos' = key.next
              /\ frames' = [frames EXCEPT ![Len(frames)].key = <<key.what>>]
              /\ UNCHANGED <<loaded, ending>>
  /\ UNCHANGED <<bytes, work, written, failed>>

(* read_value returns a block or a context. *)
Return ==
  /\ Reading /\ Complete
  /\ Delivered(<<Top.kind, Top.items>>, Front(frames))
  /\ UNCHANGED <<bytes, work, written, failed, pos, ending>>

Read == ReadEnd \/ ReadValue \/ ReadKey \/ Return

(* The format as a system of its own: values are saved and loaded, in      *)
(* whatever order. *)
StreamNext(Values) ==
  \/ \E value \in Values : Save(value)
  \/ Visit \/ VisitPath \/ WriteFails
  \/ Read
StreamSpec(Values) == StreamInit /\ [][StreamNext(Values)]_streamVars

-----------------------------------------------------------------------------
(* The n-th value in a block or a context. *)
Child(value, n) ==
  CASE value[1] = "block" /\ n \in DOMAIN value[2]   -> value[2][n]
    [] value[1] = "context" /\ n \in DOMAIN value[2] -> value[2][n][2]
    [] OTHER -> <<"absent", 0>>

(* The values saved that the deserializer is inside of, outermost first. *)
Around[depth \in 1..Len(frames)] ==
  IF depth = 1 THEN written[Len(loaded) + 1]
  ELSE Child(Around[depth - 1], Len(frames[depth - 1].items) + 1)

(* A frame holds the beginning of a value. *)
Begins(frame, value) ==
  LET done == Len(frame.items)
  IN  /\ frame.kind = value[1] /\ done + frame.left = Len(value[2])
      /\ frame.items = SubSeq(value[2], 1, done)
      /\ frame.key # << >> => frame.key[1] = value[2][done + 1][1]

(* Whatever is loaded is what was saved, value by value; and what is being *)
(* loaded is the beginning of the value saved at that place. *)
LoadsWhatWasSaved ==
  /\ IsPrefix(loaded, written)
  /\ frames # << >> =>
       /\ Len(loaded) < Len(written)
       /\ \A depth \in DOMAIN frames : Begins(frames[depth], Around[depth])
=============================================================================
