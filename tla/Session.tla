------------------------------- MODULE Session -------------------------------
(***************************************************************************)
(* rebel-sh: one Module, the commands it runs one after another, and what  *)
(* it answers.  The module composes the parser, the machine and the        *)
(* packages over the memory they share: Module::init and the packages      *)
(* register the native functions, stdlib.rebel is run as a command, then   *)
(* execute_command parses a line, evaluates the block and reads the result *)
(* back.  A step of the parser or of the machine is a step of the session. *)
(*                                                                         *)
(* While it parses, the collector borrows the Module; so heap and symbols  *)
(* are one memory throughout, and an error anywhere leaves it as it is.    *)
(***************************************************************************)
EXTENDS Integers, SequencesExt

CONSTANTS
  Lines,         \* what may be typed, or given as an argument
  Modes,         \* subset of {"interactive", "once"}
  MaxLines,      \* bound on the commands of a session
  MemorySizes,   \* words of memory the Module may be given
  Stdlib,        \* the text of stdlib.rebel
  SystemSize,    \* entries of the system context (1024)
  SymbolWords,   \* words the symbol table takes (1025)
  HeapCap, SymbolCap, NameCap, ParseCap, BaseCap, StackCap, OpCap, EnvCap,
  ContextSize, FormSizes, LeaveMarker, WordMod, Letters, Contents, Hosts

ASSUME SessionAssumption == WordMod \in Nat \ {0, 1} /\ Contents # {}

VARIABLES
  phase,         \* "init", "core", "packages" while it starts; "prompt",
                 \* "parsing", "evaluating"; "over"
  mode,          \* as an interactive shell or for one command
  functions,     \* names of the Module's native functions, in order
  lines,         \* commands given so far
  before,        \* history: the memory when the command was given
  answer,        \* what was printed last: OK and a Value, or ERROR and which
  heap, symbols, \* the Module
  vm, status, borrowed, external, world,           \* see Exec and Packages
  text, pos, inPath, collector, reading            \* see Parser

machine == <<vm, status, borrowed>>
parser  == <<text, pos, inPath, collector, reading>>
owned   == <<heap, symbols>>
shell   == <<phase, mode, functions, lines, before, answer>>
vars == <<shell, machine, parser, owned, external, world>>

(* ls, pwd, cd, cat, mkdir, rm; ssh, ssh-with-options *)
Arities == [i \in 11 .. 18 |-> <<0, 0, 1, 1, 1, 1, 2, 3>>[i - 10]]
NoPrograms == {}
VM == INSTANCE Packages WITH
  Programs <- NoPrograms,
  PackageArity <- Arities
P == INSTANCE ParserReference WITH Texts <- {}

-----------------------------------------------------------------------------
(* Module::init and the packages.                                          *)

CoreFunctions == <<"add", "lt", "do", "context", "func", "either", "system_print",
                   "block?", "reduce", "foreach", "form">>
AllFunctions == CoreFunctions \o VM!FileFunctions \o VM!SshFunctions

NoMachine == [block |-> 0, ip |-> 0, stack |-> << >>, ops |-> << >>, env |-> << >>]
NoText == P!NewCollector(VM!EmptyHeap, << >>)

Init ==
  \E size \in MemorySizes, m \in Modes :
    /\ phase = "init" /\ mode = m
    /\ functions = << >> /\ lines = 0
    /\ heap = [VM!EmptyHeap EXCEPT !.used = HeapCap - size]
    /\ symbols = << >>
    /\ before = [heap |-> heap, symbols |-> symbols]
    /\ answer = <<"none", 0>>
    /\ vm = NoMachine /\ status = "idle" /\ borrowed = FALSE
    /\ external = FALSE
    /\ world = [cwd |-> <<"/">>, dirs |-> {}, files |-> {<<"r">>}]
    /\ text = << >> /\ pos = 0 /\ inPath = FALSE
    /\ collector = NoText /\ reading = "idle"

(* main returns the error. *)
GivesUp == phase' = "over"

(* heap.init(3), the system context and the symbol table. *)
InitMemory ==
  /\ phase = "init"
  /\ LET words == 3 + VM!ContextWords(SystemSize) + SymbolWords
         room  == VM!Fits(heap, words)
     IN  IF room
         THEN /\ phase' = "core"
              /\ heap' = [heap EXCEPT !.ctxs = <<VM!EmptyContext(SystemSize)>>,
                                      !.used = @ + words]
         ELSE GivesUp /\ UNCHANGED heap
  /\ UNCHANGED <<mode, functions, lines, before, answer, symbols, machine, parser,
                 external, world>>

Registering ==
  \/ phase = "core" /\ Len(functions) < Len(CoreFunctions)
  \/ phase = "packages" /\ Len(functions) < Len(AllFunctions)

(* add_native_fn: the function is there before its name is; a name that    *)
(* finds no room leaves it without one. *)
AddNative ==
  /\ Registering
  /\ LET name == <<AllFunctions[Len(functions) + 1]>>
         id   == VM!SymbolId(symbols, name)
         error == VM!SymbolError(symbols, name)
         room  == VM!PutResult(heap.ctxs[1], id) = "ok"
     IN  /\ functions' = Append(functions, Head(name))
         /\ symbols' = IF error = "none" THEN VM!WithSymbol(symbols, name) ELSE symbols
         /\ IF error = "none" /\ room
            THEN /\ heap' = [heap EXCEPT !.ctxs[1] =
                              VM!Put(@, id, <<VM!NATIVE_FN, Len(functions)>>)]
                 /\ UNCHANGED phase
            ELSE GivesUp /\ UNCHANGED heap
  /\ UNCHANGED <<mode, lines, before, answer, machine, parser, external, world>>

Started ==
  /\ phase = "packages"
  /\ Len(functions) = Len(AllFunctions)
  /\ phase' = "prompt"
  /\ UNCHANGED <<mode, functions, lines, before, answer, owned, machine, parser, external, world>>

-----------------------------------------------------------------------------
(* execute_command, and the same for stdlib.rebel while the shell starts.  *)

ForStdlib == Len(functions) = Len(CoreFunctions)

Parse(code) ==
  /\ phase' = "parsing"
  /\ before' = [heap |-> heap, symbols |-> symbols]
  /\ text' = code /\ pos' = 0 /\ inPath' = FALSE /\ reading' = "reading"
  /\ collector' = P!begin_block(P!NewCollector(heap, symbols))
  /\ external' = FALSE
  /\ UNCHANGED <<mode, functions, answer, owned, machine, world>>

RunStdlib ==
  /\ phase = "core"
  /\ ForStdlib
  /\ Parse(Stdlib)
  /\ UNCHANGED lines

(* One command is run at the prompt, or any number of them. *)
Command(line) ==
  /\ phase = "prompt"
  /\ lines < IF mode = "once" THEN 1 ELSE MaxLines
  /\ lines' = lines + 1
  /\ Parse(line)

(* :quit, the end of the input, an error of the terminal, or the one       *)
(* command is done.  (Ctrl-C at the prompt changes nothing.) *)
Quit ==
  /\ phase = "prompt"
  /\ mode = "once" => lines = 1
  /\ phase' = "over"
  /\ UNCHANGED <<mode, functions, lines, before, answer, owned, machine, parser,
                 external, world>>

(* Mutant: a text that is refused takes its new symbols back. *)
ParseStep_RollsBack ==
  /\ phase = "parsing"
  /\ P!Next
  /\ heap' = collector'.heap
  /\ symbols' = IF reading' \in {"reading", "done"} THEN collector'.symbols ELSE before.symbols
  /\ UNCHANGED <<shell, machine, external, world>>

ParseStep ==
  /\ phase = "parsing"
  /\ P!Next
  /\ heap' = collector'.heap
  /\ symbols' = collector'.symbols
  /\ UNCHANGED <<shell, machine, external, world>>

(* Mutant: stdlib.rebel may fail. *)
Answer_IgnoresStdlib(a) ==
  /\ answer' = a
  /\ phase' = IF ForStdlib THEN "packages" ELSE "prompt"
  /\ vm' = NoMachine
  /\ collector' = NoText
  /\ UNCHANGED <<mode, functions, lines, before, owned, text, pos, inPath, reading,
                 status, borrowed, external, world>>

(* What is printed, or what init returns.  The Exec and the collector are  *)
(* gone; the next prompt comes whatever the answer is. *)
Answer(a) ==
  /\ answer' = a
  /\ phase' = CASE ~ForStdlib -> "prompt"
                [] ForStdlib /\ a[1] = "OK" -> "packages"
                [] OTHER -> "over"
  /\ vm' = NoMachine
  /\ collector' = NoText
  /\ UNCHANGED <<mode, functions, lines, before, owned, text, pos, inPath, reading,
                 status, borrowed, external, world>>

Refused ==
  /\ phase = "parsing"
  /\ reading \notin {"reading", "done"}
  /\ Answer(<<"ERROR", IF reading = "CollectorError" THEN collector.error ELSE reading>>)

(* The block parse_block left on top of the parse stack is run. *)
Evaluate ==
  /\ phase = "parsing"
  /\ reading = "done"
  /\ phase' = "evaluating"
  /\ vm' = VM!NewExec(Last(collector.stack)[2])
  /\ status' = "running"
  /\ borrowed' = FALSE
  /\ collector' = NoText
  /\ UNCHANGED <<mode, functions, lines, before, answer, owned, text, pos, inPath, reading,
                 external, world>>

EvalStep ==
  /\ phase = "evaluating"
  /\ VM!Turn
  /\ UNCHANGED <<shell, parser>>

(* eval returned; of a command the result is read back to be printed. *)
Deadly == {"diverged", "panic"}
Evaluated ==
  LET value == VM!Back!to_value([heap |-> heap, symbols |-> symbols], VM!Result)
  IN  /\ phase = "evaluating"
      /\ status \notin {"running"} \union Deadly
      /\ Answer(CASE status # "done" -> <<"ERROR", status>>
                  [] status = "done" /\ ~ForStdlib /\ VM!Back!Failed(value) -> <<"ERROR", value[2]>>
                  [] OTHER -> <<"OK", value>>)

(* A panic, or a native stack that is used up, ends the process. *)
Dies ==
  /\ phase = "evaluating"
  /\ status \in Deadly
  /\ phase' = "over"
  /\ UNCHANGED <<mode, functions, lines, before, answer, owned, machine, parser,
                 external, world>>

-----------------------------------------------------------------------------
(* The process is gone. *)
Exited ==
  /\ phase = "over"
  /\ UNCHANGED vars

Next ==
  \/ InitMemory \/ AddNative \/ RunStdlib \/ Started
  \/ \E line \in Lines : Command(line)
  \/ ParseStep \/ Refused \/ Evaluate \/ EvalStep \/ Evaluated
  \/ Quit \/ Dies \/ Exited

Spec == Init /\ [][Next]_vars

-----------------------------------------------------------------------------
(* The shell takes commands only when every native function is bound to    *)
(* its own name and the words of stdlib.rebel to functions: no name given  *)
(* twice, no half-registered package.  (A command may rebind them.) *)
Bound(name) == heap.ctxs[1].entries[VM!SymbolId(symbols, <<name>>)]
StartsWhole ==
  phase = "prompt" /\ lines = 0 =>
    /\ \A i \in DOMAIN functions :
         /\ VM!Interned(symbols, <<functions[i]>>)
         /\ Bound(functions[i]) = <<VM!NATIVE_FN, i - 1>>
    /\ \A i \in DOMAIN AllFunctions : \E j \in DOMAIN functions : functions[j] = AllFunctions[i]
    /\ \A name \in {"reform", "prin", "print"} :
         VM!Interned(symbols, <<name>>) /\ Bound(name)[1] = VM!FUNC

(* What a command means, from the memory the commands before it left: its  *)
(* text denotes a Value, which alloc_value would lay out as the parser     *)
(* did, and the block is evaluated. *)
LaidOut == VM!Back!alloc_value(before, <<"block", P!Meaning.values>>)
Meant   == VM!MeaningOf(LaidOut.m.heap.blocks, LaidOut.m.heap.ctxs, LaidOut.val[2])
Said(r) ==
  IF r.error # "none" THEN <<"ERROR", r.error>>
  ELSE <<"OK", VM!Back!to_value([heap |-> [blocks |-> r.store.blocks, ctxs |-> r.store.ctxs],
                                 symbols |-> LaidOut.m.symbols], r.values[1])>>
AgreesWith(r) ==
  /\ answer = Said(r)
  /\ symbols = LaidOut.m.symbols
  /\ <<heap.blocks, heap.ctxs>> = <<r.store.blocks, r.store.ctxs>>

OutOfRoom == answer[1] = "ERROR" /\ answer[2] \in P!Limits
CommandsAgree ==
  phase = "prompt" /\ lines > 0 =>
    /\ reading = "done" /\ P!Meaning.ok /\ ~OutOfRoom /\ ~external /\ ~borrowed
         => AgreesWith(Meant)
    /\ reading # "done" => answer[1] = "ERROR" /\ heap.ctxs = before.heap.ctxs

(* Whatever was refused half way, every word in memory is a symbol of the  *)
(* table and every block and context is there: on the heap, on the stacks  *)
(* of a running program and on that of the collector. *)
Refers(val) ==
  CASE val[1] \in {VM!WORD, VM!SET_WORD, VM!GET_WORD} -> val[2] \in DOMAIN symbols
    [] val[1] \in {VM!BLOCK, VM!PATH, VM!INLINE_STRING, VM!FUNC} -> val[2] \in DOMAIN heap.blocks
    [] val[1] = VM!CONTEXT -> val[2] \in DOMAIN heap.ctxs
    [] OTHER -> TRUE
IsText(block) == block # << >> /\ block[1] \notin Nat \X Nat
NoDanglingReference ==
  /\ \A i \in DOMAIN heap.blocks : IsText(heap.blocks[i]) \/
        \A j \in DOMAIN heap.blocks[i] : Refers(heap.blocks[i][j])
  /\ \A i \in DOMAIN heap.ctxs :
        /\ DOMAIN heap.ctxs[i].entries \subseteq DOMAIN symbols
        /\ \A s \in DOMAIN heap.ctxs[i].entries : Refers(heap.ctxs[i].entries[s])
  /\ \A i \in DOMAIN vm.stack : Refers(vm.stack[i])
  /\ \A i \in DOMAIN collector.stack : Refers(collector.stack[i])
=============================================================================
