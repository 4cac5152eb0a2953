------------------------------- MODULE MCCodec -------------------------------
(* Two ways to put structure on bytes, side by side: documents saved and   *)
(* loaded, or messages framed on a stream, the other one at rest.  The     *)
(* documents begin with integers on both sides of every boundary of the    *)
(* encoding, duplicate keys, empty contexts, bools and a path.             *)
EXTENDS Documents, Framing

A == <<97>>
B == <<98>>
Num(n)   == <<"int", n>>
Word(w)  == <<"word", w>>
Lit(v)   == <<"literal", v>>
NumLit(n)   == Lit(Num(n))
Bool(b)  == Lit(<<"bool", b>>)
Expr(v)  == <<"paren", Lit(v)>>
Ints(ns) == <<"block", [i \in DOMAIN ns |-> NumLit(ns[i])]>>

MCSources == {
  <<"context", << <<A, NumLit(0)>>, <<B, <<"context", << <<A, NumLit(1)>>, <<B, <<"block", <<NumLit(2), NumLit(0)>>>>>> >>>>>> >>>>,
  <<"context", << <<A, NumLit(1)>>, <<A, <<"context", << >>>>>>, <<B, NumLit(-64)>> >>>>,
  Ints(<<63, 64, -65, 127, 128, -128, -129>>),
  Ints(<<32767, 32768, -32768, -32769>>),
  Ints(<<8388607, 8388608, -8388608, -8388609, MaxInt>>),
  <<"block", <<<<"block", << >>>>, Lit(<<"string", <<7, 7>>>>), <<"set_word", A>>,
               Expr(<<"get_word", B>>), <<"none", 0>>, Expr(Context(<< >>))>>>>,
  <<"block", <<NumLit(1), Bool(TRUE)>>>>,
  <<"context", << <<A, Bool(FALSE)>> >>>>,
  Ints(<<MinInt>>),
  <<"block", <<Word(A), Expr(<<"path", <<Word(A), Word(B)>>>>)>>>> }

MCKeys  == {A, B}
MCPaths == {<< >>, <<A>>, <<A, B>>, <<B, A>>, <<A, B, A>>, <<B, A, B, A>>}
MCInserts == {Num(300), Context(<< >>)}
MCIndexes == {0, 1}

(* A hash, and payloads empty, short and of the length that comes round to *)
(* nothing; the bytes of a payload could be a header. *)
MCMessages == {
  Message(5, 0, Inline, << >>), Message(5, 0, Inline, <<1, 0, 0>>),
  Message(6, 0, Inline, <<1, 1, 0, 1>>), Message(6, 1, Blob, <<0, 0, 3>>) }

vars == <<docVars, frameVars>>

(* At rest: a document never saved, a stream with nothing on it. *)
DocRest ==
  /\ doc = CHOOSE d \in Documents : TRUE
  /\ leaves = TreeOf(doc)
  /\ call = <<"none">> /\ edits = MaxCalls /\ saving = FALSE
  /\ bytes = << >> /\ work = << >> /\ written = << >> /\ failed = FALSE
  /\ pos = 0 /\ frames = << >> /\ loaded = << >> /\ ending = "done"
FrameRest ==
  /\ sent = << >> /\ cut = FALSE /\ wire = << >> /\ closed = TRUE
  /\ reader = "eof" /\ header = << >> /\ remaining = 0 /\ buffer = << >>
  /\ received = << >>

Init == (DocInit /\ FrameRest) \/ (DocRest /\ FrameInit)
Next ==
  \/ /\ DocNext
     /\ UNCHANGED frameVars
  \/ /\ FrameNext
     /\ UNCHANGED docVars
Spec == Init /\ [][Next]_vars
=============================================================================
