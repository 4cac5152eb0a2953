------------------------------ MODULE Packages ------------------------------
(***************************************************************************)
(* The functions that rebel/src/fs.rs and rebel/src/ssh.rs add to the      *)
(* machine.  Each takes its arguments off the stack as Values, asks the    *)
(* operating system or a remote host, and pushes a Value, which is laid    *)
(* out in the Module's memory while the program runs: it may need symbols, *)
(* contexts and blocks there is no room for, after the request was done.   *)
(*                                                                         *)
(* The outside is nondeterministic: any request may be refused.  Files and *)
(* directories are names below the current one.                            *)
(***************************************************************************)
EXTENDS ExecMeaning

CONSTANTS
  Contents,    \* what a file or a remote command may say: sequences, one at least
  Hosts        \* host names that parse and connect

VARIABLES
  symbols,     \* the Module's symbol table
  world,       \* [cwd, dirs, files]: the current directory and what is in it
  external     \* history: has a package function run in this command?

packageVars == <<vm, heap, status, borrowed, symbols, world, external>>

Back == INSTANCE ModuleValues WITH IntMod <- WordMod

(* In the order they are registered, after the core natives. *)
FileFunctions == <<"ls", "pwd", "cd", "cat", "mkdir", "rm">>
SshFunctions  == <<"ssh", "ssh-with-options">>
PackageIndex(name) == Cardinality(DOMAIN Native) +
  (CHOOSE i \in 1 .. 8 : (FileFunctions \o SshFunctions)[i] = name) - 1

Owned == [heap |-> heap, symbols |-> symbols]

(* pop_to_value, once for each argument from the last to the first; all    *)
(* but the options of ssh must be strings. *)
Read(v, depth) == Back!to_value(Owned, v.stack[Sp(v) - depth])
PopError(value, wanted) ==
  CASE Back!Failed(value) -> value[2]
    [] wanted = "string" /\ value[1] \notin {"string", "error"} -> "BadArguments"
    [] OTHER -> "none"
ArgumentError(v, wanted) ==
  LET errors == [i \in 1 .. Len(wanted) |->
                   CASE i > Sp(v) -> "StackUnderflow"
                     [] i =< Sp(v) /\ v.stack[Sp(v) - i + 1][1] \notin KnownTags -> "UnknownTag"
                     [] OTHER -> PopError(Read(v, i - 1), wanted[i])]
      wrong == SelectInSeq(errors, LAMBDA e : e # "none")
  IN  IF wrong = 0 THEN "none" ELSE errors[wrong]

(* The texts of the arguments, last one first. *)
Texts(v, wanted) == [i \in 1 .. Len(wanted) |-> Read(v, i - 1)[2]]

(* What may come of a request: the world after it, and the Value to push   *)
(* or the error. *)
When(granted, outcomes) == IF granted THEN outcomes ELSE {}
IoError == <<"error", "IoError">>

-----------------------------------------------------------------------------
(* Files.                                                                  *)

(* A context for each entry; the numbers and dates are left out. *)
Entry(name, isDir) ==
  <<"context", << <<<<"name">>, <<"string", name>>>>,
                  <<<<"is_dir">>, <<"bool", isDir>>>>,
                  <<<<"is_file">>, <<"bool", ~isDir>>>> >> >>
Listing ==
  <<"block", SetToSeq({Entry(d, TRUE) : d \in world.dirs} \union
                      {Entry(f, FALSE) : f \in world.files})>>
ls == {<<world, Listing>>}

(* The current directory may be gone, or its path no text: of cd too, after *)
(* it has moved. *)
Where(w) == {<<w, <<"string", w.cwd>>>>, <<w, IoError>>}
pwd == Where(world)
cd(path) == When(path \in world.dirs,
  Where([cwd |-> world.cwd \o <<"/">> \o path, dirs |-> {}, files |-> {}]))

cat(path) == When(path \in world.files, {<<world, <<"string", text>>>> : text \in Contents})

(* mkdir and rm answer with Value::boolean(true), which is the number 1. *)
Present(path) == path \in world.dirs \union world.files
mkdir(path) == When(~Present(path),
  {<<[world EXCEPT !.dirs = @ \union {path}], <<"int", 1>>>>})
rm(path) == When(Present(path),
  {<<[world EXCEPT !.dirs = @ \ {path}, !.files = @ \ {path}], <<"int", 1>>>>})

-----------------------------------------------------------------------------
(* Remote commands.  A host that does not parse is BadArguments; any other *)
(* trouble, up to the exit status, is one error.                           *)

Outcome(out, code) ==
  <<"context", << <<<<"stdout">>, <<"string", out>>>>,
                  <<<<"stderr">>, <<"string", << >>>>>>,
                  <<<<"exit_code">>, <<"int", code>>>>,
                  <<<<"success">>, <<"bool", code = 0>>>> >> >>

(* parse_host: a port that is no number is the only thing wrong with a     *)
(* host's name. *)
parse_host(host) == host \in Hosts

ssh(host) ==
  IF ~parse_host(host) THEN {<<world, <<"error", "BadArguments">>>>}
  ELSE {<<world, <<"error", "SshError">>>>} \union
       {<<world, Outcome(out, code)>> : out \in Contents, code \in 0 .. 1}

-----------------------------------------------------------------------------
Wanted(name) ==
  CASE name \in {"ls", "pwd"} -> << >>
    [] name \in {"cd", "cat", "mkdir", "rm"} -> <<"string">>
    [] name = "ssh" -> <<"string", "string">>
    [] name = "ssh-with-options" -> <<"any", "string", "string">>

(* A request to the system may be refused. *)
Outcomes(name, args) ==
  CASE name \in {"ssh", "ssh-with-options"} -> ssh(Last(args))
    [] name = "pwd" -> pwd
    [] OTHER -> {<<world, IoError>>} \union
                (CASE name = "ls"    -> ls
                   [] name = "cd"    -> cd(args[1])
                   [] name = "cat"   -> cat(args[1])
                   [] name = "mkdir" -> mkdir(args[1])
                   [] name = "rm"    -> rm(args[1]))

(* push_value: alloc_value, then push.  What alloc_value did before it     *)
(* failed stays. *)
Push(v, r) ==
  /\ heap' = r.m.heap
  /\ symbols' = r.m.symbols
  /\ IF r.error # "none" THEN Fail(r.error) ELSE PushValue(v, r.val)

Allocate(value) ==
  IF Back!Failed(value) THEN Back!NotAllocated(Owned, value[2])
  ELSE Back!alloc_value(Owned, value)

(* The function itself, on the machine that called it. *)
Performs(name, v) ==
  /\ external' = TRUE
  /\ LET wanted == Wanted(name)
         error  == ArgumentError(v, wanted)
     IN  \E outcome \in IF error # "none" THEN {<<world, <<"error", error>>>>}
                        ELSE Outcomes(name, Texts(v, wanted)) :
           /\ world' = outcome[1]
           /\ Push([v EXCEPT !.stack = Below(v, Len(wanted))], Allocate(outcome[2]))

PackageCall(name) ==
  /\ Run("CALL_NATIVE")
  /\ Top.word = PackageIndex(name)
  /\ Performs(name, PopFrame(vm))

(* ls and pwd *)
CallAtOnce(name) ==
  /\ CallsAtOnce(PackageIndex(name))
  /\ Performs(name, [vm EXCEPT !.ip = @ + 1])
  /\ UNCHANGED borrowed

-----------------------------------------------------------------------------
(* A turn of the machine, whoever registered the function it runs. *)
Turn ==
  \/ \E name \in Range(FileFunctions \o SshFunctions) : PackageCall(name) \/ CallAtOnce(name)
  \/ Next /\ UNCHANGED <<symbols, world, external>>
=============================================================================
