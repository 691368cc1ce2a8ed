----------------------------- MODULE MCCompiled -----------------------------
(***************************************************************************)
(* Programs for Compiled: every statement, in every position of the        *)
(* others, with the operators and shapes the sample programs use.          *)
(***************************************************************************)
EXTENDS Compiled, Frames, Bitwise

MCXor(a, b) == a ^^ b

x == <<"x">>
y == <<"y">>
z == <<"z">>
arr == <<"arr">>
sem == <<"sem">>
\* Parameters and local variables.
u == <<"u">>
w == <<"w">>
k == <<"k">>

Global1(v, t) == [v |-> v, t |-> t, size |-> 1]
Globals == <<Global1(x, "int"), Global1(y, "int"), Global1(z, "int"),
             [v |-> arr, t |-> "int[]", size |-> 2], Global1(sem, "sync")>>
MCHeapSize == 6

Param(v) == [v |-> v, t |-> "int"]
CallOf(name, args) == [name |-> name, args |-> args]

Zero(v) == Is(Var(v), "=", Const(0))
Plus(l, r) == Is(l, "+", r)
Inc(v) == Let(v, "+", Const(1))

-----------------------------------------------------------------------------
(* Programs without procedures *)

Simple == {Inc(x), Let(y, "+", Plus(Var(x), Const(1))), Let(z, "-", Var(y)),
           LetItem(arr, Var(x), "^", Is(Var(x), "*", Const(3)))}
Conds == {Zero(x), Is(Var(y), "<", Const(2)), Is(Zero(x), "&&", Is(Var(y), ">=", Var(x)))}

Ifs == {If(c, <<s>>, <<t>>, f) : c \in Conds, s \in Simple, t \in {Inc(x), Inc(y)},
                                 f \in Conds}
Loops == {From(Zero(k), <<s>>, <<Inc(k), t>>, Is(Var(k), "=", Const(1))) :
            s \in Simple \cup {Nothing}, t \in Simple}
InLoop == {In(k, Const(0), <<l>>, Const(1)) : l \in Loops}
Locals == {In(v, Plus(Var(y), Const(1)), <<s, Let(v, "+", Const(2))>>, d) :
             v \in {k, x}, s \in Simple, d \in {Plus(Var(y), Const(3)), Const(3)}}

Flat(stmts) == Program(Globals, stmts, << >>)
FlatPrograms ==
  {Flat(<<Inc(x), s>>) : s \in Ifs \cup InLoop \cup Locals} \cup
  {Flat(<<s, t>>) : s, t \in Simple} \cup
  {Flat(<<In(k, Const(1), <<In(u, Var(k), <<Let(y, "+", Var(u)),
           If(Zero(y), <<Inc(y)>>, <<In(k, Var(u), <<Let(x, "-", Var(k))>>, Const(1))>>, Zero(y))>>,
           Var(k))>>, Const(1)), Nothing>>),
   Flat(<<Acquire(sem), Inc(x), Wait(sem), Let(y, "+", Is(Var(x), "/", Const(2)))>>),
   Flat(<<Let(x, "-", Const(5)), Inc(z), Inc(z), Let(y, "+", Is(Var(x), "/", Var(z))),
          Let(y, "-", Is(Var(x), "%", Var(z)))>>)}

-----------------------------------------------------------------------------
(* Programs with procedures *)

\* procedure add(int u, int w) w += u
Add == [params |-> <<Param(u), Param(w)>>, body |-> <<Let(w, "+", Var(u))>>]
\* procedure twice(int w): add with a local variable, then with w itself in a loop.
Twice ==
  [params |-> <<Param(w)>>,
   body |-> <<In(k, Const(2), <<CallAll(<<CallOf("add", <<k, w>>)>>)>>, Const(2)),
              CallAll(<<CallOf("add", <<x, w>>)>>)>>]
\* procedure down(int u, int w): w += u + (u - 1) + ... + 1
Down ==
  [params |-> <<Param(u), Param(w)>>,
   body |-> <<If(Zero(u), <<Nothing>>,
                 <<In(k, Is(Var(u), "-", Const(1)),
                      <<Let(w, "+", Var(u)), CallAll(<<CallOf("down", <<k, w>>)>>)>>,
                      Is(Var(u), "-", Const(1)))>>, Zero(u))>>]
\* procedure put(int[] u, int w): an array by reference.
PutItem ==
  [params |-> <<[v |-> u, t |-> "int[]"], Param(w)>>,
   body |-> <<LetItem(u, Var(w), "+", Plus(Var(w), Const(1))), Let(w, "+", Item(u, Const(1)))>>]

Procs == [add |-> Add, twice |-> Twice, down |-> Down, put |-> PutItem]
Names == <<"add", "twice", "down", "put">>

CallPrograms ==
  {Program(Globals, <<Inc(x)>> \o stmts, Procs) : stmts \in
    {<<CallAll(<<CallOf("add", <<x, y>>), CallOf("add", <<x, z>>)>>)>>,
     <<CallAll(<<CallOf("twice", <<y>>), CallOf("add", <<x, z>>)>>)>>,
     <<CallAll(<<CallOf("add", <<x, y>>)>>), CallAll(<<CallOf("add", <<y, x>>)>>)>>,
     <<Inc(x), CallAll(<<CallOf("down", <<x, y>>)>>)>>,
     <<CallAll(<<CallOf("put", <<arr, x>>)>>)>>}}

MCPrograms == {[prog |-> p, names |-> << >>] : p \in FlatPrograms} \cup
              {[prog |-> p, names |-> Names] : p \in CallPrograms}

\* Programs the compiler has to reject: a variable out of its scope, an
\* unknown name in an expression or as an argument.
Bad ==
  {[prog |-> Flat(<<In(k, Const(0), <<Inc(k)>>, Const(1)), Let(x, "+", Var(k))>>),
    names |-> << >>],
   [prog |-> Flat(<<Let(x, "+", Var(u))>>), names |-> << >>],
   [prog |-> Program(Globals, <<CallAll(<<CallOf("add", <<x, k>>)>>)>>, [add |-> Add]),
    names |-> <<"add">>]}

\* A text by hand, with what the compiler does not write: an exchange and a skip.
ByHand ==
  [text |-> <<Begin("main"), SetGlobal(x, 0), SetGlobal(y, 1), Upd(Ref(x), "+", Just(Num(1))),
              Swap(Ref(x), Ref(y)), Skip, End("main")>>]

MCCode ==
  {g \in MCPrograms : Meaning(g.prog).ok /\ Accepted(g.prog)} \cup
  {b \in Bad : Accepted(b.prog)} \cup {ByHand}

\* What these programs are compiled to is in blocks.
ASSUME CompiledInBlocks == \A g \in MCCode : InBlocks(TextOf(g))

-----------------------------------------------------------------------------
(* The frames of these programs *)

\* A map without one of its arguments; the names without the last slot of v.
Removed(f, v) == [n \in DOMAIN f \ {v} |-> f[n]]
WithoutSlot(names, v) ==
  IF Len(names[v]) > 1 THEN [names EXCEPT ![v] = Front(@)] ELSE Removed(names, v)

\* The frame that the instruction leads to, if there is one.
After(fr, i, arrays) ==
  CASE i.op = "upd" /\ i.dst.k = "new" ->
         LET v == i.dst.v
             here == v \in DOMAIN fr.names /\ Last(fr.names[v]).nest = fr.depth
         IN  [fr EXCEPT !.names = IF here THEN WithoutSlot(@, v)
                                  ELSE Opened(@, v, Slot(fr.depth, TRUE, FALSE))]
    [] i.op = "push" -> [fr EXCEPT !.depth = @ + 1]
    [] i.op = "pop" -> [fr EXCEPT !.depth = @ - 1]
    [] i.op = "lock" -> [fr EXCEPT !.locks = @ \cup i.vars]
    [] i.op = "unlock" -> [fr EXCEPT !.locks = @ \ i.vars]
    [] i.op = "set" ->
         [fr EXCEPT !.given = Entered(@, {i.child},
            Opened(Given(fr, i.child), i.v, Slot(0, FALSE, IsArray(fr, i.src.v))))]
    [] i.op = "unset" ->
         LET rest == Removed(Given(fr, i.child), i.v)
         IN  [fr EXCEPT !.given = IF rest = << >> THEN Removed(@, i.child) ELSE [@ EXCEPT ![i.child] = rest]]
    [] i.op = "setg" -> [fr EXCEPT !.globals = Entered(@, {i.v}, i.v \in arrays)]
    [] i.op = "unsetg" -> [fr EXCEPT !.globals = Removed(@, i.v)]
    [] OTHER -> fr

\* Frames found from the beginning of main on.
RECURSIVE Found(_, _, _, _, _)
Found(F, arrays, pre, post, todo) ==
  IF todo = {} THEN [pre |-> pre, post |-> post]
  ELSE LET b == CHOOSE b \in todo : TRUE
           i == LineAt(F, b + 1)
           t == LineAt(F, b + 2)
           to == After(pre[b], i, arrays)
           called == IF i.op # "call" THEN {}
                     ELSE {[at |-> F.begin[i.procs[j]],
                            fr |-> Bare(i.procs[j], pre[b].globals, Given(pre[b], j - 1))] :
                             j \in DOMAIN i.procs}
           next == IF t.op = "->" THEN {[at |-> F.come[l], fr |-> to] : l \in {t.l, t.m}} ELSE {}
           new == {n \in called \cup next : n.at \notin DOMAIN pre}
           ats == {n.at : n \in new}
       IN  Found(F, arrays,
                 [a \in DOMAIN pre \cup ats |-> IF a \in DOMAIN pre THEN pre[a]
                                                 ELSE (CHOOSE n \in new : n.at = a).fr],
                 Entered(post, {b}, to), (todo \ {b}) \cup ats)

\* arrays are the names of the global arrays, which a text does not tell from others.
Arrays(c) ==
  IF ~IsProgram(c) THEN {}
  ELSE {g.v : g \in {h \in Range(c.prog.globals) : h.t = "int[]"}}
FramesOf(c) ==
  LET F == Load(TextOf(c))
      b == F.begin["main"]
  IN  Found(F, Arrays(c), b :> Bare("main", << >>, << >>), << >>, {b})

\* What these programs are compiled to is framed, which MachineProofs assumes.
ASSUME CompiledFramed ==
  \A g \in MCCode : LET f == FramesOf(g) IN Framed(Load(TextOf(g)), f.pre, f.post)

\* The plain ones, that use no value as a divisor or an index.
PlainCode == {g \in MCCode : \A n \in DOMAIN TextOf(g) : PlainLine(TextOf(g)[n])}
ASSUME MostPlain == 2 * Cardinality(PlainCode) > Cardinality(MCCode)

-----------------------------------------------------------------------------
\* A procedure without a statement that makes code.
Empty == [prog |-> Program(Globals, <<CallAll(<<CallOf("none", << >>)>>)>>,
                           [none |-> [params |-> << >>, body |-> <<Nothing>>]]),
          names |-> <<"none">>]
MCEmpty == {Empty}

MCProc == {<< >>, <<0>>, <<1>>, <<0, 0>>, <<0, 0, 0>>}
=============================================================================
