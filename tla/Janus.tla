------------------------------- MODULE Janus --------------------------------
(***************************************************************************)
(* What a Concurrent Janus program means: its syntax as the grammar of     *)
(* src/compiler/parser.y has it, and the final values of its global        *)
(* variables, computed on the tree, forward, with assertions checked.      *)
(*                                                                         *)
(* This is the abstract specification of the compiler and the interpreter  *)
(* together.  The procedures of a parallel call run one after the other    *)
(* here; the programs are such that it makes no difference.                *)
(***************************************************************************)
EXTENDS Cril, FiniteSets, FiniteSetsExt

\* Expressions.
Const(n) == [k |-> "num", n |-> n]
Var(v) == [k |-> "var", v |-> v]
Item(v, i) == [k |-> "elem", v |-> v, i |-> i]
Is(l, fn, r) == [k |-> "bin", fn |-> fn, l |-> l, r |-> r]

\* Statements.  A local declaration names its variable twice.
Let(v, f, e) == [s |-> "assign", v |-> v, f |-> f, e |-> e]
LetItem(v, i, f, e) == [s |-> "arrassign", v |-> v, i |-> i, f |-> f, e |-> e]
If(c, then, else, fi) == [s |-> "if", c |-> c, then |-> then, else |-> else, fi |-> fi]
From(c, do, loop, until) == [s |-> "loop", c |-> c, do |-> do, loop |-> loop, until |-> until]
In(v, e, body, d) == [s |-> "local", v |-> v, e |-> e, body |-> body, w |-> v, d |-> d]
CallAll(calls) == [s |-> "call", calls |-> calls]
Acquire(v) == [s |-> "acquire", v |-> v]
Wait(v) == [s |-> "wait", v |-> v]
Nothing == [s |-> "skip"]

\* Programs: globals and parameters are records of a name v and a type t, a
\* global has a size too; a procedure has its params and a body.
Program(globals, main, procs) == [globals |-> globals, main |-> main, procs |-> procs]

-----------------------------------------------------------------------------
\* Globals lie in memory in the order of their declarations.
Offset(prog, i) == FoldLeft(LAMBDA n, g : n + g.size, 0, SubSeq(prog.globals, 1, i - 1))
Size(prog) == Offset(prog, Len(prog.globals) + 1)
GlobalEnv(prog) ==
  [v \in {prog.globals[i].v : i \in DOMAIN prog.globals} |->
     Offset(prog, CHOOSE i \in DOMAIN prog.globals : prog.globals[i].v = v)]

-----------------------------------------------------------------------------
(* Meaning.  A store maps cells to values; ok says that no assertion failed *)
(* and nothing was divided by zero. *)

RECURSIVE ValueOf(_, _, _)
ValueOf(e, env, store) ==
  CASE e.k = "num" -> e.n
    [] e.k = "var" -> store.cell[env[e.v]]
    [] e.k = "elem" -> store.cell[env[e.v] + ValueOf(e.i, env, store)]
    [] e.k = "bin" -> Apply(e.fn, ValueOf(e.l, env, store), ValueOf(e.r, env, store))

\* No part of e divides by zero.
RECURSIVE Defined(_, _, _)
Defined(e, env, store) ==
  CASE e.k \in {"num", "var"} -> TRUE
    [] e.k = "elem" -> Defined(e.i, env, store)
    [] e.k = "bin" -> /\ Defined(e.l, env, store) /\ Defined(e.r, env, store)
                      /\ ~DividesByZero(e.fn, ValueOf(e.r, env, store))

Holds(e, env, store) == ValueOf(e, env, store) # 0
Check(b, store) == [store EXCEPT !.ok = @ /\ b]
Computed(e, env, store) == Check(Defined(e, env, store), store)
Put(c, f, x, store) ==
  [store EXCEPT !.cell[c] = Apply(f, @, x)]

RECURSIVE Run(_, _, _, _), RunOne(_, _, _, _), Loop(_, _, _, _), RunCalls(_, _, _, _)

Run(prog, ss, env, store) ==
  IF ss = << >> THEN store
  ELSE Run(prog, Tail(ss), env, RunOne(prog, Head(ss), env, store))

RunOne(prog, s, env, store) ==
  CASE s.s = "skip" -> store
    [] s.s = "assign" ->
         Put(env[s.v], s.f, ValueOf(s.e, env, store), Computed(s.e, env, store))
    [] s.s = "arrassign" ->
         Put(env[s.v] + ValueOf(s.i, env, store), s.f, ValueOf(s.e, env, store),
             Computed(s.i, env, Computed(s.e, env, store)))
    [] s.s = "if" ->
         LET c == Holds(s.c, env, store)
             done == Run(prog, IF c THEN s.then ELSE s.else, env, Computed(s.c, env, store))
         IN  Check(Holds(s.fi, env, done) = c, Computed(s.fi, env, done))
    [] s.s = "loop" -> Loop(prog, s, env, Check(Holds(s.c, env, store), Computed(s.c, env, store)))
    [] s.s = "local" ->
         LET c == Max(DOMAIN store.cell) + 1
             inner == s.v :> c @@ env
             opened == [Computed(s.e, env, store) EXCEPT !.cell = c :> ValueOf(s.e, env, store) @@ @]
             done == Run(prog, s.body, inner, opened)
             zero == done.cell[c] = ValueOf(s.d, inner, done)
         IN  Check(zero, [Computed(s.d, inner, done) EXCEPT !.cell = [d \in DOMAIN @ \ {c} |-> @[d]]])
    [] s.s = "call" -> RunCalls(prog, s.calls, env, store)
    [] s.s = "acquire" -> Check(store.cell[env[s.v]] = 0, Put(env[s.v], "+", 1, store))
    [] s.s = "wait" -> Check(store.cell[env[s.v]] = 1, Put(env[s.v], "-", 1, store))

\* The entry assertion holds the first time only.
Loop(prog, s, env, store) ==
  LET run == Run(prog, s.do, env, store)
      done == Computed(s.until, env, run)
  IN  IF ~done.ok \/ Holds(s.until, env, done) THEN done
      ELSE LET again == Run(prog, s.loop, env, done)
           IN  Loop(prog, s, env, Check(~Holds(s.c, env, again), Computed(s.c, env, again)))

RunCalls(prog, calls, env, store) ==
  IF calls = << >> THEN store
  ELSE LET c == Head(calls)
           proc == prog.procs[c.name]
           bound == [v \in {proc.params[i].v : i \in DOMAIN proc.params} |->
                       env[c.args[CHOOSE i \in DOMAIN proc.params : proc.params[i].v = v]]]
       IN  RunCalls(prog, Tail(calls), env, Run(prog, proc.body, bound @@ GlobalEnv(prog), store))

\* The store a run of the program ends with.
Meaning(prog) ==
  Run(prog, prog.main, GlobalEnv(prog),
      [cell |-> [c \in 0 .. Size(prog) - 1 |-> 0], ok |-> TRUE])
=============================================================================
