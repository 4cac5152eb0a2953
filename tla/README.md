# Verification of huly: the Rebel machine and shell, its values, the membership protocol

TLA+ models of the parts of this repository that keep state or encode it, the TLC
runs that check them on small instances, and TLAPS proofs about them. Every
definition follows the source; `PROJECT.json` ("map") names the lines each one
stands for, "hazards" what is hard to test in this code, line by line.

## 1. Inventory

The Cargo workspace is `rebel`, `rebel-macro`, `rebel-sh` and `rebel2`.
`crates/` holds the earlier programs: a peer-to-peer membership service (`huly`,
`huly-cli`) and the evaluators that came before `rebel`.

| Component | State | Operations | Interacts with | What makes it correct |
|---|---|---|---|---|
| Symbol table (`mem.rs` 395-502) | a count, lookup words, eight words a symbol, all in one block | `init`, `get_or_insert`, `get` | collectors intern words in it, `to_value` reads them back | ids dense, stable, never shared; a probe never misses; no error after a change |
| Context (`mem.rs` 504-852, 920) | header (count and seal bit), entries of three words | `alloc_context`, `put`, `get`, `seal`, `iter` | the machine resolves words in it | a bounded map; count exact; sealed keys final |
| Memory, heap, stacks (`mem.rs`) | the words; a bump pointer in word 0 | `alloc*`, `get_block*`, `push`, `pop*` | everything of the machine | each address keeps its own object; limits before writes |
| Module (`core.rs` 183-466) | heap, system context, native functions | `init`, `add_native_fn`, `parse`, `eval`, `alloc_value`, `to_value` | one collector and one Exec per command | usable after any error |
| Virtual machine (`core.rs` 479-877) | block and ip; stacks of values, frames, contexts | `eval` = `next_op` + `do_op` | natives push frames on it | each call gets its own arguments, each block leaves one value, scopes balance |
| Natives (`boot.rs`, `fs.rs`, `ssh.rs`) | none; the operating system's | 11 core functions, 6 for files, 2 for ssh, three more in `stdlib.rebel` | jump into blocks, allocate | tags checked, stacks left as the machine expects |
| Parser, collectors (`parse.rs`, `collector.rs`, `core.rs` 881-945) | position, path flag; stacks of values and positions | `parse_block`, events | intern symbols, allocate blocks | a text is read as the value it denotes, or refused |
| Values (`value.rs`) | a tree of pairs and items | get, set, remove by key, index, path; `form` | module, serializer, shell | the calls agree on which pair a key means |
| Serialization (`serialize.rs`, `encoding.rs`) | position in the value, in the stream | varints, writer, reader | `value.rs` | what is loaded is what was saved, up to where it was cut |
| Shell (`rebel-sh`) | one Module | a loop of commands | parse, eval, to_value | an error leaves later commands working |
| Membership server (`membership.rs`, `db.rs`) | table `device_account` on disk; a task per connection; a task per served topic | `accept` and its loop | gossip, database, client | what is acknowledged is stored; the topic served is the one joined |
| Membership client (`client.rs`, `huly-cli`) | the position in `request_membership` | one run per start of a node | server, gossip | ends, with an answer or an error |
| Messages (`message.rs`) | what of a frame was read | `write_async`, `read_async` | both sides | what is received is what was sent |
| rebeldb-core, rebeldb, rebel2 | a reader's stack, a memory, evaluator stacks | read, eval | the consoles | what is read is what was written; an expression is worth what it says |
| Hash, macro, wasm bindings, uncompiled files | none of their own | pure functions or bindings | | not modelled, see 7 |

What is hard here. The machine is a single thread, so the hazards are long legal
sequences: frames, contexts, loop offsets and values live on different stacks
and are pushed and popped by different operations; a frame runs when a *length*
matches, so an operation that leaves one value too few or too many is noticed by
an outer call, much later; every limit can be hit at every depth; hash tables
probe past collisions; an error in one command leaves half of its work in a memory
the next command uses. The parsers have no lookahead and act on a consumed
character later. Encodings have boundaries, and streams end anywhere. The
membership service is concurrent: tasks of several connections of one device
share a database, and crashes, lost connections and killed clients come between
any two awaits.

## 2. Modules

    ContextOps, Memory                            what the memory is to its users
    Interning   <- SymbolTable  <- SymbolTableProofs
    BoundedMap  <- ContextTable <- ContextTableProofs
    ObjectStore <- WordMemory   <- WordMemoryProofs
    Memory, ContextOps -> Exec -> ExecMeaning -> MCExec, Session;  Exec <- ExecProofs <- ExecTypeProofs
    ParseCollector -> Parser <- ParserReference <- ModuleValues
    Parser <- ParserProofs;  Parser, ExecMeaning, ModuleValues, Packages (with Exec) -> Session
    BinaryFormat -> Documents;  Tree <- Documents;  BinaryFormat, Framing <- EncodingProofs
    ValueReader -> CoreEval, Console;  CoreEval, Console, Rebel2 -> Evaluators
    Membership <- MembershipProofs

`A <- B`: B implements or checks itself against A, or proves about it; `A -> B`: B is
built on A. Each `MC*` module gives the constants of a run.

### The memory

**Interning / SymbolTable.** `SymbolTable` keeps the count, the lookup words and
the symbol positions. `get_or_insert` is three actions, one for each way its loop
ends (`InternKnown`, `InternNew`, `InternFull`); its probing is the operator
`StopsFirstAt`: the first step at which the loop returns. The hash is a constant
function, so a run (and the proofs) can collide symbols at will; a symbol's eight
words are one model value. `reply` carries the call and its answer, so the
refinement of `Interning` speaks about answers too.

**ContextOps / BoundedMap / ContextTable.** `ContextOps` states a context as its
users see it: a bounded map that can be sealed, with the answers of `put`.
`ContextTable` is the hash table: the header word with its seal bit (`SealBit`
stands for 2^31), keys and values; the iterator uses the header as the code does.
It refines `BoundedMap`, a state machine over `ContextOps`, which is what justifies
the use of `ContextOps` in `Exec`. `put` of the model takes symbol ids, never 0.

**WordMemory / ObjectStore.** The words of a heap and of a stack, with the calls
Module and Exec make: blocks, strings packed four bytes to a word, contexts with their header
and entries, the stack's push, pop and `leave`, and `gather`, by which a block moves
from the stack to the heap. Nothing is cleared, as in the code. The ghost `given` keeps the
addresses handed out, `objects` what reading each of them gives. `ObjectStore` is
what that promises: objects that change only through their own address, a stack
that is a sequence, `OutOfMemory` exactly when the words do not suffice.
`Memory` is the same store, and the symbol table, as operators for the modules above.

### The language

**Exec.** One action is one turn of the loop in `next_op`/`do_op`: an operation with
its arguments runs, or a value of the block is fetched and resolved, or the end of
the block is handled. `vm` is the Exec (block, ip, stack, ops, env), `heap` what
the Module owns. Values are the code's pairs of tag and data. Lengths, ip and
arities count values where the code counts words (two a value); the offset of
`foreach` counts words, because a program can make it odd. Every limit is a
constant, every error of the code a value of `status`: an error ends `eval`,
keeps the heap and drops the Exec. Two outcomes are open, as in a build: an
overflow of `add` or of the loop offset panics or wraps (`SignedSums`, `Sums`).
Blocks have indices as addresses; an address of another kind that a misaligned
read produces reads as out of bounds. `form` allocates some of `FormSizes` words.
`borrowed` is history: an operation ran at the end of its block without having its
own arguments (`core.rs:832`). Such programs run in the model like any other, but
some properties speak only of those that never do it.

**ExecMeaning.** The same sources read the other way round: a recursive big-step
definition of what a program leaves, without value stack, frames or ip. The machine
must reach its result, its error and its memory; `MCExec` states that.

**Parser.** One action is one turn of the loop in `parse()`: the next character that
is neither blank nor comment begins a token, the token is read to its end together
with the character after it, the collector is told, and `process_block_end` settles
paths and blocks. The collector is either the `ParseCollector` of `core.rs`, on the
Module's heap and symbols, or the `ValueCollector` of `collector.rs`; both are in the module `ParseCollector`.
**ParserReference** is a grammar: the value a text denotes by recursion on nesting.
It is narrower than the parser on purpose; section 3 says where.

**ModuleValues, Packages, Session.** `ModuleValues` is `alloc_value` and `to_value`,
and what `form` prints and how texts become integers.
`Packages` adds the file and ssh functions to the machine: arguments read back
from the stack, the effect on the `world` outside, then the answer allocated and
pushed; `ls` and `pwd`, which take no arguments, run in the turn that reads them
(`CallAtOnce`). `Session` is `rebel-sh`: `Module::init`, the packages' registrations (each of
which can fail), `stdlib.rebel` parsed and run, then the loop of `execute_command`. It
runs the parser and the machine step by step over one heap and one symbol table, so
that an error anywhere leaves exactly what those steps left.

### Values and streams

**Documents, Tree.** `Documents` has the operations of `value.rs` and the
conversions of `rebel!`. `Tree` is what a document of nested contexts promises: its leaves by
their path. `Documents` also edits a value and saves it at several moments.

**BinaryFormat.** `encode_i32` and `decode_i32` with the literal 32-bit
numbers. The recursion of serializer and deserializer is a stack (`work`, `frames`);
the writer may fail at any byte and leaves the file there.

**Framing.** `write_async` and `read_async` on a stream that delivers any number of
units at a time and may end at any byte. The model's length field has `LengthMod`
values.

### The small runtimes

**Evaluators** runs three programs that share the shape "reader, memory, stacks", one
a behaviour. `ValueReader` is the reader that the parsers of `rebeldb-core` and
`rebeldb` share; `CoreEval` is `rebeldb-core` with its memory of cells, `Console` the
`Context` of `rebeldb` under the two consoles that keep it line after line,
`Rebel2` the parser, collector and block packing of `rebel2`, byte by byte.
The NaN-boxed words of both are in **EncodingProofs**, with their literal widths: these are beyond
TLC's integers, so that nothing runs them and what holds of them is proved.

### The service

**Membership.** An action is what a task does between two awaits. A connection is
two ordered queues and a flag; a handler holds what its locals hold across awaits
(the account read on accept, the response it owes). `server` is whether its node's
router accepts; a client starts its own node before it connects, which may fail. Faults: a connection is lost,
a client is killed (the user starts it again), the server crashes and restarts,
the database or the gossip answers a handler with an error.
External and assumed: the streams keep order, a committed transaction is durable.
Messages are well formed and signed by the device that sends them, so that the
handler's `bail!` on others is not reached; but a request may name another device
(`Names`), which the server stores as it stands: `client.rs` names its own, the message
carries any. A lost connection may still deliver what was sent before. `account_loop` returns
when its receiver does, at any time (`LoopEnds`): its handle is dropped, so that neither
its handler nor its client hears of it.

## 3. Runs

| Run | Question | States | Time |
|---|---|---|---|
| `symtab` | interning of five symbols, with collisions and wrap-around, in a table of four slots | 2268 | 2 s |
| `ctxtab` | contexts of 0, 1 and 3 entries under put, get, seal, iterate | 2024 | 2 s |
| `entry_count` | does `entry_count` give the number of entries? (no) | - | 1 s |
| `word_memory` | do the words keep every object apart? | 96081 | 2 min |
| `exec` | are the stacks consistent in every program of the grammar, does it compute what it means, and does each end? | 384897 | 60 s |
| `parser` | is every text read as what it denotes, or refused? | 773174 | 50 s |
| `session` | do commands agree with their meaning after any others, failed ones included? | 352381 | 70 s |
| `codec` | is loaded what was saved, received what was sent? | 257001 | 70 s |
| `round_trip` | can every value that is saved be loaded? (no) | - | 10 s |
| `evaluators` | do the small runtimes read and compute what was written? | 115405 | 35 s |
| `number_range` | does `rebeldb-core` keep to its range of numbers? (no) | - | 30 s |
| `membership` | two devices, one naming the other, one changing accounts; two connections, one crash | 310560 | 80 s |

What they show, property by property:

* `symtab`: `Dense` and `NeverHalfUpdated` (the count and the slot are written
  before the bounds check, harmlessly), `Reachable` and `NoAlias` (collisions),
  `ImplementsInterning`.
* `ctxtab`: `CountExact`, `OneEntryPerSymbol`, `Reachable`, `SealIsFinal`,
  `ImplementsBoundedMap`. The iterator is right on a sealed context only because
  it is also bounded by the capacity, see findings.
* `word_memory`: `ImplementsStore`. That a new context finds its keys zero depends on every
  other call: only the heap's bump pointer keeps used words out of it.
* `exec`: `EnvMatchesFrames` (each context belongs to one frame),
  `StackDiscipline` (no frame's base above a later one's), `LoopIntact` (the four places a
  loop keeps its state in agree while its body runs), `NoInternalError`, `Terminates`,
  `AgreesWithReference`, and `BorrowsOnlyWhenShort` (an operation
  is short of arguments exactly when the text of the program is).
* `parser`: `ReadsWellFormedText` and `RefusesMalformedText` for both collectors,
  `StacksAgree`, and `ReadsWhatIsShown`: what `form` prints is read again as what it was, but for
  brackets and quotes.
* `session`: `StartsWhole` (no prompt after a start that failed half way),
  `CommandsAgree` (answer, symbols and memory of a command are what the text means in
  the memory the earlier ones left, unless a limit was met), `NoDanglingReference` (after any failure no
  value anywhere refers to what was not made).
* `codec`: `LoadsWhatWasSaved` (piece by piece, in order), `StopsForAReason` (at the end,
  or at the first value cut short or unreadable), `IsTree`, `ReceivedAsSent`. That there are
  values which can be written and not read is the code's doing and against its documentation:
  `round_trip` shows it.
* `evaluators`: `ReadsWhatIsSpelled`: each value denotes what was written, unless `rebeldb-core` wrote a
  name over it, or its number lies in the half of the range that comes back negative
  (`number_range`); a text is refused for a reason it gives. `ExpressionsMeanThemselves`: an
  expression whose numbers and sums keep to the range is worth their sum; on the console also after lines that failed,
  whose functions the next line calls with its own value and what is below.
* `membership`: `AcknowledgedIsStored` and
  `TopicsAgreeOnReconnect` (database, topics and crashes), `ResponsesInOrder`, `EveryRequestEnds`;
  `ServedHasLoop` (a client told that it is served was given a loop, which nothing but its own
  return or a crash has ended since); `EnrolledByMembers` (whatever device is named, the account read on
  accept keeps writing to those who have one).

Each property of a passing run has a mutant of the code's model that breaks it
(`PROJECT.json` "mutants"; they stand next to the definitions they change).

### Bounds and why they are enough

* `symtab`: `DataLen` 41 gives four slots and five words left over, for five symbols: known,
  new, full table, collision and wrap-around all occur. Proved for every size, see 4.
* `ctxtab`: sizes 0, 1 and 3 (a function without parameters, `foreach`, a table in
  which probes collide and wrap); four symbols fill and overflow each. `SealBit` 64 lies
  far above every count. Proved for every size, see 4.
* `word_memory`: a heap of 14 words holds two objects beside the Module's own; the string of
  five bytes fills one word and part of another (its bytes are small because TLC's integers
  have 32 bits with a sign); two symbols collide in a context of one entry. Proved for every size, see 4.
* `exec`: `MCExec` runs one or two phrases, after a command bound `b` to a block of one
  or two phrases of another set that may use `b` again. This gives recursion, loops in
  loops, contexts in functions, self-reference, calls short of arguments. A second set of
  phrases mostly has its arguments and ends with a result. Each limit
  (12 values, 9 frames, 6 contexts, 100 words, two entries in a context) is hit, by recursion at the
  latest; programs that hit one of memory are not compared with their meaning, nor those on which
  a build with overflow checks panics. `WordMod` 1024 makes 500+500 overflow
  and 30 not. `LeaveMarker` only has to exceed every stack length.
* `parser`: all texts of up to five of the eight characters that steer the parser, of up to
  three of sixteen, and of up to five longer pieces. Three values and three open blocks, two
  symbols and names of two letters are exceeded by many of these texts. The grammar leaves out a
  character swallowed after a number, blanks inside a path and a `]` too
  many at the outermost level, which the parser accepts.
* `session`: three of eighteen commands that define, use and redefine words, fail while
  they are read or run, and call the packages; `MemorySizes` give too little to
  start, too little for a session, and enough. A word or name is one letter.
  `ParseCap` 16 is what `stdlib.rebel` (15 values) leaves room in.
* `codec`: integers on both sides of every boundary of the encoding, `i32::MIN` and
  `i32::MAX` with literal widths; duplicate keys, empty contexts, bools, a path. Three
  calls, two messages. Payloads are empty, short, look like a header, and of the
  length 4, which comes round to 0 as 65536 does.
* `evaluators`: widths are scaled down (byte 32, a number of two bytes, a hash of three) so
  that contents stand on both sides of inline and external, packed and not, and
  symbols reach the heap. Numbers lie on both sides of `Half` (2^46) and twice that. `MaxLines` 3: two lines that
  leave something, failed ones among them, and one that finds it.
* `membership`: two connections allow a late handler of an earlier connection, a
  reconnection, also after a crash, and a device enrolled by another that then connects itself.
  One device may be registered with anything at first, the other is unknown. `MaxConn` bounds connections,
  `MaxCrash` crashes; nothing else is bounded. The safety properties are proved for any number of each, see 4.

Deadlock is not checked where the system may stop: a text, a session
ends, users stop starting clients. The two tables, the memory, the machine and the streams
are checked for it: a program that has not returned has a next turn, and a run of `codec` ends in a step that stays (`Loaded`, the end of the stream), never in the middle.

### Fairness

`Exec!FairSpec` lets a program that has not returned take its next turn: `eval` is a loop of one thread. (That is
weak fairness of Next, since the run finds no deadlock; it is written without ENABLED, which TLC evaluates slowly.) `Membership!Fairness` is
weak fairness of each client's and each handler's own steps: the runtime polls a task that can go
on. Nothing is assumed of users (starting and stopping clients), of faults, of a
server that is down coming back, or of network delay beyond that a message sent on a
live connection arrives.

### Findings

Each is a run that expects a violation, of a property that states what a comment or a document says.

* `entry_count`: `Context::entry_count` (`mem.rs:621`) returns the header with the seal bit, where
  its comment promises the number of entries; shown on a sealed context. `ContextIterator` takes its total from there.
* `round_trip`: values round-trip "with perfect fidelity" (`docs/binary-serialization.md:225`), but a bool has a
  tag that `read_value` does not know. Nor does `i32::MIN` come back in a build that checks overflow, since `decode_i32` negates it,
  where the encoding supports "the full i32 range" (line 132).
* `number_range`: `new_int` documents the range up to 2^46 - 1 (`rebeldb-core/src/value.rs:115`) and tests
  one twice as large, whose upper half comes back negative.

Behaviour worth knowing, which the models have and the properties account for:

* Machine: a loop variable bound to its own word makes `resolve` recurse for ever (status
  `diverged`); a call short of arguments takes values below its frame; a path of
  contexts only always fails with UnexpectedEndOfBlock; assigning inside a function without
  parameters fails with SymbolTableFull; a full stack answers OutOfMemory, never
  StackOverflow; `reduce` loses its words when the heap is full.
* Parser: a character that follows a number is swallowed; `1 ] [ 2` reads as the block
  `[2]`; an unclosed `[` is accepted; a path left open by the end of the text
  (`1 a/`) loses what came before it; `a/[b]` nests wrongly in one collector and is an
  error in the other. Contexts are printed with `make object!` and get-words with `:`,
  neither of which is read.
* Packages: `mkdir` and `rm` answer the number 1 where their comments (`fs.rs:128`, 150)
  name a boolean; `cd` may fail after it has moved.
* Serialization: a bool is written but not read, a path panics, `i32::MIN` panics or wraps when
  it is decoded. Of pairs with one key `get` takes the first, `alloc_context` the last. `rebel![true]` is
  the number 1, `rebel!{a => true}` a bool.
* Messages: the test of the size against its maximum never fails, since the length has 16 bits.
* Small runtimes: two expressions on one line run together (`add 1 2 add 3 4` is 9). `rebeldb-core`
  has room for 120 symbols; the next overwrites the heap. The console keeps what a
  failed line left. `rebel2` writes numbers of external blocks in one byte order and
  reads them in the other, so that such blocks cannot be read.
* Membership: a device without an account gets one only if a device that has one names it, so that a
  fresh database stays empty; a member may write the account of any device; a client whose loop at the server has
  returned still believes it is served; the topic served on the first connection is that of
  the account the device had before; without `HULY_SECRET` each start is a new device.

## 4. Proofs

`SymbolTableProofs` proves about `SymbolTable`, for every `DataLen`, every set of
symbols and every hash function into the naturals: `TypeCorrect`, `IdsAreUnique`,
`IdsAreDense`, `ProbeFindsIt`, `NoHalfUpdate` and `Refinement` (each call is a step
of `Interning` or leaves it unchanged).

The inductive invariant is
`IInv == TypeOK /\ Dense /\ Filled /\ Reachable /\ NoAlias`. `NoAlias` alone is
not inductive: that a probe stopping at a free slot means a new symbol needs
`Reachable` (lemma `FreeMeansNew`). That a new id's position lies inside the block
needs that a free slot leaves the count below the number of slots, a counting
argument over `Dense` by an injection from ids to slots (lemma `RoomForOne`), and
`9 * NumSlots =< DataLen` (`Fits`). The refusal needs that a probe visits every slot
(`ProbeCovers`). Assumed are only the named assumptions on constants.

`ContextTableProofs` proves about `ContextTable`, for every size, set of symbols and of
values, hash function and position of the seal bit above the sizes: `TypeCorrect`,
`CountIsExact`, `OneEntry`, `ProbeFindsIt`, `SealFinal` and `Refinement` (each call is
a step of `BoundedMap`). The inductive invariant is
`IInv == TypeOK /\ CountExact /\ OneEntryPerSymbol /\ Reachable`. `Reachable` makes a
probe that stops at a free entry a proof that the symbol has none (`FreeMeansNew`);
`CountExact` keeps the count at most the size and so below the seal bit, without
which counting could seal a context (`NewIInv`). That a refused put means full or
sealed needs that a probe visits every entry (`ProbeCovers`) and that a probe that
stops somewhere stops somewhere first: the least-number principle, derived from the
well-foundedness of `<` (`LeastElement`). That the iterator misses nothing is a
counting argument over `CountExact` (`AllYielded`); it holds on a sealed
context too, where the total it reads is too large. `Exec` is built on `ContextOps`, so
these theorems are what entitles it to take a context for a map.

`EncodingProofs` proves four things. Two are arithmetic alone, the others are the framing and the format of values. About the varints of
`encoding.rs`, for every `i32`: the bytes are as many as `encoded_size`
says (`EncodesInBytes`), they decode to the number whatever follows them
(`DecodesWhatWasEncoded`), and no beginning of them decodes (`CutShortDecodesToNothing`).
The argument is by the tag byte: each range of numbers has its own, and the bytes after it
spell the magnitude in base 256. `i32::MIN` is the one number whose decoding may panic.

About the boxed words of `rebeldb` and `rebeldb-core`, for every 64-bit
payload: numbers and addresses come back and are not taken for each other, with the
two exceptions the theorems name: `rebeldb-core` takes numbers from 2^46 on, which come
back 2^47 smaller, and in `rebeldb`'s `value.rs` zero becomes an infinity.
No assumption is used; `OverflowChecks` is either.

`WordMemoryProofs` proves about `WordMemory`, for every size of heap and stack, every hash
function and whatever blocks, strings and values the calls are given: `MemoryInvariant`,
`Refinement` (each call is a step of `ObjectStore` or leaves it unchanged) and `StringReadsBack`
(the bytes packed into words are the bytes read). `ImplementsStore` alone carries nothing
from step to step: that the words of an object change only through its address is a
matter of where the objects lie. The inductive invariant says that

* the heap and the stack are words, the first of them counting no more than there are;
* the addresses given out begin blocks that lie one after another within the words in use, so that none
  reaches into another;
* the words above are as they were when the memory was made, zero, so that a new context finds
  no keys in its entries though nothing clears them;
* the words of a context are a hash table: the count is that of the keys, a probe
  reaches each key it holds, no key has two entries;
* `objects` is what reading gives.

Of an allocation it remains to be shown that it writes above what is in use, of `put` that
it stays inside its block. A context's table needs the same facts as in `ContextTableProofs`
again, in terms of words. That the stack reads as a sequence, `gather` included, follows
from where its values lie.

`MembershipProofs` proves about `Membership`, for any devices, accounts and wishes, any number
of connections and crashes: `AcknowledgedStays`, `ResponsesStayInOrder`, `ServedStaysServed`,
`TopicsAgree` and `OnlyMembersEnrol`. None of the four invariants is inductive alone: what a
client was told depends on what its handler held when it wrote, and on what was on its way.
The inductive invariant (`MembershipInvariant`) therefore says, beside the types,

* `Holds`, `Newest`: a client holds the newest connection of its device, and only that one is alive;
* `Handshake`: for each state of the client, the states its handler can be in and the one
  message that is between them. That there never is more than one is what keeps the
  responses in order, though the client looks neither at their type nor at their number;
* `Promises`: a handler past `accept` serves a device with an account; a request that was
  handled, a response on its way and a client that saw it mean that the database holds what was asked for the
  device named; a handler that answered a serve request, its response and a served client mean a loop
  on that connection, which was killed only if the connection is gone;
  a handler that accepted after an answer read what was asked for its device;
* `LoopOf`: so did its loop.

TLC checked it on two devices with two connections and on one with three before it was
proved. `Asked(n) = {a}` in two properties is a device for which only one account is ever asked, by whomever; the lemmas
about it speak of any set of wishes. `ServedStaysServed` and `OnlyMembersEnrol` do not need it. No assumption on constants is used but the module's own.

`EncodingProofs` also proves `MessagesAreReceivedAsSent` about `FrameSpec`, the framing as a system of its
own, for any messages, any number of them, any width of the length field and any cut.
`ReceivedAsSent` says nothing of the bytes still on the wire. The inductive invariant
(`FrameInvariant`) adds how they lie there (`LayOut`: where each message not yet received
ends, and that the units before are its frame) and what the reader has taken of the message
it is in (`Reads`: header, payload so far, what remains). This holds while the reader has not
met a message that is too long for its length (`InReach`); beyond it the reader can be
anywhere in a payload, and nothing is claimed, as in the property. Only the message that was
cut may be shorter than its frame, and it is the last, so that a reader that meets the end of the
stream has received all the others (`Over`). `MessagesAssumption` says what `Message` is: tag and
format are numbers, the data of a blob is a hash.

And it proves `LoadsAlways` about `StreamSpec`, the binary format as a system of its own: values are
saved and loaded in any order, the writer fails at any byte, and `LoadsWhatWasSaved` holds. The steps
`Documents` takes on the variables of the format are among its steps. The values are any set that
holds what is in its blocks and contexts (`Serializable`): ints are `i32`, strings are bytes, and no
string, block or context is longer than `i32::MAX`, because `serialize.rs` casts the length to an `i32`
without a look; paths, on which it panics, and bools, which `read_value` does not know, are among them. The
property is not inductive: of the bytes to come it says nothing. `StreamInvariant` adds

* a sequence of *marks*, one for each visit of the serializer (`Visited`): where it ended on the stream, what was
  left to visit, how many values were begun. Between two marks lie the bytes of one piece;
* where the last mark stands to the serializer (`Frontier`): its work is what that mark leaves, and beyond it is
  nothing, or part of the next piece if the writer failed;
* that the deserializer, as long as it goes on, is at a mark (`Reader`), between two values or inside one: its frames
  are then nested in the value begun last (`Nested`: each holds the beginning of its value, the next one is
  the item it waits for), and what the frames have yet to read, innermost first, is what the serializer had
  yet to visit there.

A step of the deserializer reads the piece after its mark and is at the next one, or finds it
cut short, a bool or an `i32::MIN` that cannot be negated, and stops. That a piece reads as itself rests on the theorems about varints
(`HeadIsRead`), that a piece cut short is refused on `CutShortDecodesToNothing`
(`HeadIsCut`). Neither recursion nor induction over values is needed, as the stacks of both
sides take their place. TLC cannot evaluate `StreamInvariant`, whose marks are a quantified history; it
checks the property it is for.

`ParserProofs` proves `StacksKeepAgreeing` about `Parser`, for every text, alphabet and all limits.
`StacksAgree` is nearly inductive: the invariant adds that the collector has the shape of one
(a new block writes to the heap of the record it was given, a name is added to its table) and, for
the other collector, that it stays one. The proof has a lemma for each call the parser makes. What a text
contains does not matter, so nothing is said about where tokens end: no sequence of calls
whatever breaks the order of the positions.

`ExecProofs` and `ExecTypeProofs` prove about `Exec`, for every program, package, heap and limit, in three parts.

`EveryContextHasItsFrame`: while the machine runs, env holds the system context and one context for each frame that
will take one off, and nothing else. The invariant (`Balanced`) is the property in a form
that speaks of any machine record, and for each way a turn can end (`Return`, `PushOp`,
`Jump`, `Leave`) a lemma says how much it adds to the difference; each action adds up to nothing. It needs
no assumption about the program, and holds in operations short of their arguments too: these disturb
the values, never the scopes.

`FramesLieInOrder`, `LoopsStayIntact`, `NothingIsMissing` and `EveryValueCanBeRead` speak of machines
in which no operation has run short of its arguments. None of their properties is inductive alone: each
needs that frames, values and memory fit each other. The
invariant (`SoundAlways`) is `borrowed`, or all of

* `GoodHeap`: each value in a block or a context leads to what its tag says: a block or context
  that exists, a native that is registered, a function with its three parts and the arity of its
  parameters. Without this the machine could enter anything;
* `Place`: ip lies in the block that runs;
* `Held`: the values on the stack are good too, the contexts on env exist, the stacks keep their limits;
* `Nested`: what each frame remembers is a call with its arity or a block with an ip inside it, and no
  frame's base lies above what the frame on top of it counts as its own. For a loop that
  is four values below its base (`Base`): they belong to the loop, and the next frame must leave them alone;
* `Looping`: under a loop's frame are its word, data, body and offset, and the context that
  counting the owners below gives it (`Rank`) is sealed around that word.

A call without arguments of its own (`borrowed`) takes a caller's values, and can make a loop's offset
odd; from there on values are read across their tags. Only `EnvMatchesFrames` and `TypeOK` are
claimed of such a machine, in the theorems as in the properties. `SoundTruncated`, `SoundPushed` and the
lemmas beside them say how each part fares when values, frames or contexts come and go; memory only
grows (`Grown`), so whatever was good stays good (`GoodStays`). `ProgramsAssumption` says which memories a
program starts in: what the parser, `add_native_fn` and earlier commands leave. It is evaluated by
TLC on every program of the runs. `resolve` follows words and paths by recursion; that it answers with an
error or a good value is proved from a bound on its turns, by the least counterexample (`Iteration`,
`ChaseWithin`, `WalkWithin`). These lemmas speak of any set of values closed under what a block or context
holds, so that the next proof uses them too.

Given `SoundAlways`, `NothingIsMissing` has a lemma for each action: an operation that has its arguments
finds at least as many values as it pops, each return finds its base and its context, and a native
that is fetched is registered.

`EveryValueCanBeRead` is the other half of `NoInternalError`: no `UnknownTag`. It has a hypothesis,
`NoGetWords`: the values a program starts with are those the parser makes of a text without
get-words. Without it the claim is false, since a get-word that is the result of a program has no
reading. TLC evaluates the hypothesis on the programs of `MCExec`. The invariant
(`ReadsUnlessBorrowed`) says that every value in a block, in a context and on the stack has a tag `to_value`
knows (`KnownHeap`, `Legible`), with one exception the code depends on: native functions, which
`to_value` does not read, are bound in the system context. It must therefore never be reached from a value, and is
not: it lies first on env and only there, so that the context `CONTEXT` takes off env and makes a value of is
another one.

`TypesAlways`, the third part (`ExecTypeProofs`), is `TypeOK` without a condition: a program that makes the machine take values
that are not its own cannot make it leave its memory. Of the invariant above nothing remains but what does
not depend on tags (`SaneAlways`): each cell is two words, whatever was read from where (`PairSane`: from an odd offset
too); stacks and heap keep their limits; a block or context that exists goes on existing and gets no
shorter (`Extended`), so that the place a frame returns to stays one (`Spot`); env leads to contexts
that exist, because only `context`, a call and a loop put one there, each the one it just made. An address
out of nowhere is a block that is not there, which reads as empty. Words and paths are followed among
all cells: the lemmas about `resolve` are used with the set of all words.

Only model-checked: what runs say about `Session`, `Evaluators` and the operations of
`Documents`; why loading stops (`StopsForAReason`); that a text is read as what it denotes. For TLC alone by nature: `Terminates`,
`EveryRequestEnds` (liveness) and what is stated with recursive operators
(`ExecMeaning`, `ParserReference`, `ModuleValues`, `Session`, `Documents`, `Evaluators`).

## 5. Plan

The modelling order was: tables, machine, membership, then memory, parser, session,
values and streams, the small runtimes. Proofs followed in the same order, and the plan is done. What
could be added: a `StopsForAReason` without recursion, to be proved from `StreamInvariant`.

## 6. Running

    tlc -config SymbolTable.cfg MCSymbolTable
    tlc -config Exec.cfg MCExec
    tlapm SymbolTableProofs.tla
    tlapm ContextTableProofs.tla
    tlapm MembershipProofs.tla
    tlapm ParserProofs.tla
    tlapm ExecProofs.tla
    tlapm ExecTypeProofs.tla
    tlapm EncodingProofs.tla
    tlapm WordMemoryProofs.tla

and likewise for each run of `PROJECT.json`.

## 7. Not modelled, and why

* Hashing is a constant function in the models, so that every collision can be had.
* `value.rs`: constructors, accessors and wrappers that take a value apart or put one together.
* Operating system, line editor, ssh library, gossip, QUIC, database, signatures: external, modelled as
  far as this code uses them. Corrupted or foreign streams are not fed to the framing.
* `id.rs`, `config.rs`: the text form of identifiers is a choice between accepted
  and refused; an identifier of a wrong length, which panics, is not given.
* `rebel-macro` runs in the compiler; the wasm crates and `codegen.rs`, `runtime.rs`,
  `zerotime.rs` of `rebeldb` are bindings around an external engine. Of `db.rs`, lines 76-331 are comments.
* `Process` of `rebel2` is never constructed. `blob.rs`, `builders.rs`, `module.rs`, `v2` and
  `old` of `rebel`, and `block.rs`, `blob.rs`, `func.rs`, `host.rs` of `rebeldb`, are not compiled.
