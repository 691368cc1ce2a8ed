------------------------------ MODULE Compiler ------------------------------
(***************************************************************************)
(* From Concurrent Janus to CRIL (src/compiler: main.go, parser.y).        *)
(*                                                                         *)
(* The compiler writes its lines as it parses.  What it writes between     *)
(* beginRecord and endRecord goes to two lists, of forward lines and, in   *)
(* reverse order, of their inverses, and it puts both in place later       *)
(* (execrecord, unexecrecord, export).  Here a record is the value of the  *)
(* expression, and a statement the sequence of its lines.                  *)
(*                                                                         *)
(* getTmp, getLabel and getTag only have to be different each time: a      *)
(* temporary and a label are named here by their place w in the program.   *)
(***************************************************************************)
EXTENDS Janus

Tmp(w) == <<"tmp">> \o w
Lab(w, i) == <<"lab">> \o w \o <<i>>

-----------------------------------------------------------------------------
(* Expressions *)

\* A record: code, its inverse, the variables read, and the temporary with the
\* result.
Record(exec, unexec, used, res) ==
  [exec |-> exec, unexec |-> unexec, used |-> used, res |-> res]

\* exec, unexec and addUsedVar, of two records written one after the other.
AndThen(c, d) ==
  Record(c.exec \o d.exec, d.unexec \o c.unexec, c.used \cup d.used, d.res)

\* Mutant of Hold: the inverse adds too.
HoldTwice(w, e, used) ==
  Record(<<Upd(New(Tmp(w)), "+", e)>>, <<Upd(New(Tmp(w)), "+", e)>>, used, Ref(Tmp(w)))

\* A new temporary that holds e.
Hold(w, e, used) ==
  Record(<<Upd(New(Tmp(w)), "+", e)>>, <<Upd(New(Tmp(w)), "-", e)>>, used, Ref(Tmp(w)))

\* | and & have no action in the grammar: the result is that of the left side.
RECURSIVE ExprCode(_, _)
ExprCode(e, w) ==
  CASE e.k = "num" -> Hold(w, Just(Num(e.n)), {})
    [] e.k = "var" -> Hold(w, Just(Ref(e.v)), {e.v})
    [] e.k = "elem" ->
         LET i == ExprCode(e.i, Append(w, 1))
         IN  AndThen(i, Hold(w, Just(Elem(e.v, i.res)), {e.v}))
    [] e.k = "bin" ->
         LET l == ExprCode(e.l, Append(w, 1))
             r == ExprCode(e.r, Append(w, 2))
         IN  IF e.fn \in {"|", "&"} THEN [AndThen(l, r) EXCEPT !.res = l.res]
             ELSE AndThen(AndThen(l, r), Hold(w, Bin(e.fn, l.res, r.res), {}))

\* lockrecord and execrecord; unexecrecord and unlockrecord.
Open(c) == (IF c.used = {} THEN << >> ELSE <<Lock(c.used)>>) \o c.exec
Close(c) == c.unexec \o (IF c.used = {} THEN << >> ELSE <<Unlock(c.used)>>)

-----------------------------------------------------------------------------
(* Statements *)

RECURSIVE StmtCode(_, _, _)

Stmts(procs, ss, w) ==
  FlattenSeq([i \in DOMAIN ss |-> StmtCode(procs, ss[i], Append(w, i))])

\* v f= e
AssignCode(s, w) ==
  LET c == ExprCode(s.e, w) IN Open(c) \o <<Upd(Ref(s.v), s.f, Just(c.res))>> \o Close(c)

\* v[i] f= e: index and right side share a record.
ArrAssignCode(s, w) ==
  LET i == ExprCode(s.i, Append(w, 1))
      c == AndThen(i, ExprCode(s.e, Append(w, 2)))
  IN  Open(c) \o <<Upd(Elem(s.v, i.res), s.f, Just(c.res))>> \o Close(c)

\* if c then A else B fi f: the condition is computed before the branch and
\* undone on both sides of it, the assertion before the merge and undone after.
IfCode(procs, s, w) ==
  LET c == ExprCode(s.c, Append(w, 1))
      f == ExprCode(s.fi, Append(w, 4))
      l(i) == Lab(w, i)
  IN  Open(c) \o <<Branch(c.res, l(1), l(2)), Come(l(1))>> \o Close(c)
      \o Stmts(procs, s.then, Append(w, 2))
      \o Open(f) \o <<Goto(l(3)), Come(l(2))>> \o Close(c)
      \o Stmts(procs, s.else, Append(w, 3))
      \o Open(f) \o <<Goto(l(4)), Merge(l(3), l(4), f.res)>> \o Close(f)

\* from c do A loop B until u.
LoopCode(procs, s, w) ==
  LET c == ExprCode(s.c, Append(w, 1))
      u == ExprCode(s.until, Append(w, 4))
      l(i) == Lab(w, i)
  IN  Open(c) \o <<Goto(l(1)), Merge(l(1), l(5), c.res)>> \o Close(c)
      \o Stmts(procs, s.do, Append(w, 2))
      \o <<Goto(l(2)), Come(l(4))>> \o Close(u)
      \o Stmts(procs, s.loop, Append(w, 3))
      \o Open(c) \o <<Goto(l(5)), Come(l(2))>>
      \o Open(u) \o <<Branch(u.res, l(3), l(4)), Come(l(3))>> \o Close(u)

\* local int v = e ... delocal int w = d.
LocalCode(procs, s, w) ==
  LET c == ExprCode(s.e, Append(w, 1))
      d == ExprCode(s.d, Append(w, 3))
  IN  <<Push>> \o Open(c) \o <<Upd(New(s.v), "+", Just(c.res))>> \o Close(c)
      \o Stmts(procs, s.body, Append(w, 2))
      \o Open(d) \o <<Upd(New(s.w), "-", Just(d.res))>> \o Close(d) \o <<Pop>>

\* call f(x, ..), g(y, ..): child i is given the arguments of the i-th call.
CallCode(procs, s) ==
  LET Bindings(Line(_, _, _), i) ==
        LET c == s.calls[i] IN
        [j \in DOMAIN c.args |-> Line(procs[c.name].params[j].v, i - 1, Ref(c.args[j]))]
      sets == FlattenSeq([i \in DOMAIN s.calls |-> Bindings(Set, i)])
      unsets == FlattenSeq([i \in DOMAIN s.calls |-> Bindings(Unset, i)])
  IN  sets \o <<Call([i \in DOMAIN s.calls |-> s.calls[i].name])>> \o Reverse(unsets)

StmtCode(procs, s, w) ==
  CASE s.s = "skip" -> << >>
    [] s.s = "assign" -> AssignCode(s, w)
    [] s.s = "arrassign" -> ArrAssignCode(s, w)
    [] s.s = "if" -> IfCode(procs, s, w)
    [] s.s = "loop" -> LoopCode(procs, s, w)
    [] s.s = "local" -> LocalCode(procs, s, w)
    [] s.s = "call" -> CallCode(procs, s)
    [] s.s = "acquire" -> <<SemV(s.v)>>
    [] s.s = "wait" -> <<SemP(s.v)>>

\* main first, then the procedures; names is the order they are written in.
Compile(prog, names) ==
  LET globals == [i \in DOMAIN prog.globals |-> SetGlobal(prog.globals[i].v, Offset(prog, i))]
      Body(name, k) ==
        <<Begin(name)>> \o Stmts(prog.procs, prog.procs[name].body, <<k>>) \o <<End(name)>>
  IN  <<Begin("main")>> \o globals \o Stmts(prog.procs, prog.main, <<0>>) \o <<End("main")>>
      \o FlattenSeq([k \in DOMAIN names |-> Body(names[k], k)])

-----------------------------------------------------------------------------
(* Scopes and types: what the compiler accepts *)

\* A scope: local variables, outermost first, and the types of the others.
Scope(locals, args, globals) == [locals |-> locals, args |-> args, globals |-> globals]
TypesOf(decls) ==
  [v \in {decls[i].v : i \in DOMAIN decls} |->
     decls[CHOOSE i \in DOMAIN decls : decls[i].v = v].t]

TypeOf(sc, v) ==
  IF v \in ToSet(sc.locals) THEN "int"
  ELSE IF v \in DOMAIN sc.args THEN sc.args[v]
  ELSE IF v \in DOMAIN sc.globals THEN sc.globals[v] ELSE "unknown"

\* registerLocal comes before the initial value is parsed.
Inside(sc, v) == [sc EXCEPT !.locals = Append(@, v)]

RECURSIVE ExprAccepted(_, _)
ExprAccepted(sc, e) ==
  CASE e.k = "num" -> TRUE
    [] e.k = "var" -> TypeOf(sc, e.v) = "int"
    [] e.k = "elem" -> ExprAccepted(sc, e.i) /\ TypeOf(sc, e.v) = "int[]"
    [] e.k = "bin" -> ExprAccepted(sc, e.l) /\ ExprAccepted(sc, e.r)

\* Neither the target of an assignment nor a semaphore is looked up, and a call
\* may have fewer arguments than parameters, but not more.
CallAccepted(procs, sc, c) ==
  \A j \in DOMAIN c.args :
    /\ c.name \in DOMAIN procs /\ j \in DOMAIN procs[c.name].params
    /\ procs[c.name].params[j].t = TypeOf(sc, c.args[j])

RECURSIVE StmtAccepted(_, _, _)
AllAccepted(procs, sc, ss) == \A i \in DOMAIN ss : StmtAccepted(procs, sc, ss[i])
StmtAccepted(procs, sc, s) ==
  CASE s.s \in {"skip", "acquire", "wait"} -> TRUE
    [] s.s = "assign" -> ExprAccepted(sc, s.e)
    [] s.s = "arrassign" -> ExprAccepted(sc, s.i) /\ ExprAccepted(sc, s.e)
    [] s.s = "if" ->
         /\ ExprAccepted(sc, s.c) /\ ExprAccepted(sc, s.fi)
         /\ AllAccepted(procs, sc, s.then) /\ AllAccepted(procs, sc, s.else)
    [] s.s = "loop" ->
         /\ ExprAccepted(sc, s.c) /\ ExprAccepted(sc, s.until)
         /\ AllAccepted(procs, sc, s.do) /\ AllAccepted(procs, sc, s.loop)
    [] s.s = "local" ->
         LET in == Inside(sc, s.v) IN
         ExprAccepted(in, s.e) /\ AllAccepted(procs, in, s.body) /\ ExprAccepted(in, s.d)
    [] s.s = "call" -> \A i \in DOMAIN s.calls : CallAccepted(procs, sc, s.calls[i])

\* setProc: a procedure sees its parameters and the globals.
Accepted(prog) ==
  LET globals == TypesOf(prog.globals) IN
  /\ AllAccepted(prog.procs, Scope(<< >>, << >>, globals), prog.main)
  /\ \A name \in DOMAIN prog.procs :
       AllAccepted(prog.procs, Scope(<< >>, TypesOf(prog.procs[name].params), globals),
                   prog.procs[name].body)
=============================================================================
