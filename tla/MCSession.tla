------------------------------ MODULE MCSession ------------------------------
(* Commands that define, use and redefine words, fail while they are read  *)
(* or while they run, and call the packages; memory for a long session,    *)
(* for a short one, and too little to start.  A word is one letter of the  *)
(* alphabet.                                                               *)
EXTENDS Session

Natives == {"add", "lt", "do", "context", "func", "either", "system_print", "block?",
            "reduce", "foreach", "form", "ls", "pwd", "cd", "cat", "mkdir", "rm", "ssh",
            "ssh-with-options"}
MCLetters == Natives \union {"reform", "prin", "print", "value", "name", "x", "y", "f", "r", "d",
                             "is_dir", "is_file", "stdout", "stderr", "exit_code", "success"}

(* Words with blanks between them; a set-word is two characters. *)
Spaced(tokens) == FlattenSeq([i \in DOMAIN tokens |-> tokens[i] \o <<" ">>])
W(name) == <<name>>
S(name) == <<name, ":">>
Str(c)  == <<"\"", c, "\"">>
Nl      == <<"\"", "\\", "n", "\"">>
Open == <<"[">>
Close == <<"]">>

MCStdlib == Spaced(<<
  S("reform"), W("func"), Open, W("value"), Close, Open, W("form"), W("reduce"), W("value"), Close,
  S("prin"), W("func"), Open, W("value"), Close, Open, W("system_print"), W("reform"), W("value"), Close,
  S("print"), W("func"), Open, W("value"), Close, Open, W("prin"), W("value"), W("prin"), Nl, Close >>)

MCLines == {Spaced(t) : t \in {
  <<S("x"), <<"2", "0">>>>,
  <<S("f"), W("func"), Open, W("x"), Close, Open, W("add"), W("x"), W("x"), Close>>,
  <<S("y"), W("f"), W("x")>>,
  <<S("x"), W("context"), Open, S("y"), <<"1">>, Close>>,
  <<<<"x", "/", "y">>>>,
  <<S("x"), Open, W("y"), W("f"), Close, W("do"), W("x")>>,
  <<W("foreach"), W("y"), W("x"), Open, W("print"), W("y"), Close>>,
  <<S("y"), <<"1">>, W("add"), W("y"), W("d")>>,
  <<S("x"), Open, Str("d"), W("name")>>,
  <<S("x"), <<"1", "0", "0", "0", "0">>>>,
  <<S("add"), W("reform")>>,
  <<Open, W("name"), Close, <<"#">>>>,
  <<W("add"), <<"1">>>>,
  <<W("mkdir"), Str("d"), W("cd"), Str("d")>>,
  <<S("x"), W("ls")>>,
  <<W("rm"), W("cat"), Str("r")>>,
  <<W("pwd")>>,
  <<W("ssh-with-options"), Str("d"), Str("r"), W("ssh"), Str("d"), Str("r")>> }}

MCModes == {"interactive", "once"}
MCMemorySizes == {20, 100, 160, 200, 260}
MCFormSizes == {1}
MCContents == {<<"r">>}
MCHosts == {<<"d">>}
=============================================================================
