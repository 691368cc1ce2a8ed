-------------------------- MODULE MCAnnotationDag --------------------------
(***************************************************************************)
(* Instances of AnnotationDag for TLC: words of two bits, the operators of *)
(* assign (+=, -=, ^=), and small programs as the compiler writes them.    *)
(***************************************************************************)
EXTENDS CallTree, FiniteSetsExt, Bitwise

CONSTANTS main, fa, fb, fc, fd,  \* processes
          x, y, z, mx,     \* variables, each with a cell of its name
          x1               \* a second cell of x, where x is an array

W == 4  \* a word is an integer modulo W

MCVal == 0 .. W - 1
MCOp == {"+", "-", "^"}
MCFn == 0 .. W - 1
MCUpd(op, v, w) == CASE op = "+" -> (v + w) % W
                     [] op = "-" -> (v - w) % W
                     [] op = "^" -> v ^^ w
MCInv(op, v, w) == CASE op = "+" -> (v - w) % W
                     [] op = "-" -> (v + w) % W
                     [] op = "^" -> v ^^ w

\* An expression is the sum of its sources and a number.
MCEval(fn, vals) == (fn + MapThenSumSet(LAMBDA v : vals[v], DOMAIN vals)) % W

MCInitMem == [v \in Cell |-> 0]

\* The variable v in its own cell.
Var(v) == [sym |-> v, cell |-> v]

Plain == [kind |-> "read", op |-> "+", fn |-> 0, dst |-> Var(x), src |-> {}, kids |-> {},
          first |-> FALSE, last |-> FALSE]
Set(op, v, fn, S) == [Plain EXCEPT !.kind = "upd", !.op = op, !.fn = fn, !.dst = Var(v),
                                   !.src = {Var(w) : w \in S}]
Sem(kind, v) == [Plain EXCEPT !.kind = kind, !.dst = Var(v)]
Over(kind, S) == [Plain EXCEPT !.kind = kind, !.src = {Var(v) : v \in S}]
Call(P) == [Plain EXCEPT !.kind = "call", !.kids = P]

\* A procedure: its first block holds the begin, its last block the end.
Procedure(blocks) ==
  [k \in DOMAIN blocks |-> [blocks[k] EXCEPT !.first = (k = 1), !.last = (k = Len(blocks))]]

\* The tree of all programs: fa, fb and fc are called by main, fd by fa.
MCCaller(p) == IF p = fd THEN fa ELSE main

\* Each call of p runs it up to its next end.
MCMark(P, p, k) ==
  LET run[j \in 0 .. k] ==
        IF j = 0 THEN 0
        ELSE LET call == P[MCCaller(p)][j]
             IN  IF call.kind = "call" /\ p \in call.kids
                 THEN Min({m \in run[j - 1] + 1 .. Len(P[p]) : P[p][m].last})
                 ELSE run[j - 1]
  IN  run[k]

Idle == [p \in Proc |-> << >>]

-----------------------------------------------------------------------------
(* Programs *)

\* main writes x and y, then runs the three bodies in parallel.
Fork3(A, B, C) ==
  [Idle EXCEPT
    ![main] = Procedure(<<Set("+", x, 1, {}), Set("+", y, 1, {}), Call({fa, fb, fc}),
                          Over("read", {x, y})>>),
    ![fa] = Procedure(A), ![fb] = Procedure(B), ![fc] = Procedure(C)]

Fork2(A, B) ==
  [Idle EXCEPT
    ![main] = Procedure(<<Set("+", x, 1, {}), Set("+", y, 1, {}), Call({fa, fb}),
                          Over("read", {x, y})>>),
    ![fa] = Procedure(A), ![fb] = Procedure(B)]

\* y += x under a lock of x, the shape the compiler gives an assignment.
LockX == <<Over("lock", {x}), Set("+", y, 0, {x}), Over("unlock", {x})>>
LockY == <<Over("lock", {y}), Set("+", x, 0, {y}), Over("unlock", {y})>>
\* acquire mx, use x, wait mx.
Critical(v, w) == <<Sem("V", mx), Set("+", v, 1, {w}), Sem("P", mx)>>
\* Two regions one in the other.
Nest == <<Over("lock", {x}), Over("lock", {y}), Over("read", {x, y}), Over("unlock", {y}),
          Over("unlock", {x})>>

\* Bodies that do not block each other: only x is ever locked, and whoever
\* holds it writes something else.
Free == <<LockX, Critical(x, y), Critical(y, x),
          <<Over("lock", {x}), Over("read", {x}), Over("unlock", {x})>>,
          <<Set("-", x, 0, {y}), Set("^", x, 1, {})>>,
          <<Over("read", {x}), Set("^", y, 0, {x})>>,
          <<Set("+", x, 1, {})>>>>

\* Any three of them, in parallel.
Triples ==
  UNION {UNION {{Fork3(Free[i], Free[j], Free[k]) : k \in j .. Len(Free)}
                : j \in i .. Len(Free)} : i \in DOMAIN Free}

\* What two processes may run at the same time.
Bodies == {LockX, LockY, Nest, Critical(x, y), Critical(y, x),
           <<Set("+", x, 1, {})>>,
           <<Set("-", x, 0, {y}), Set("^", x, 1, {})>>,
           <<Over("read", {x}), Set("^", y, 0, {x})>>,
           <<Over("lock", {x, y}), Set("+", z, 0, {x, y}), Over("unlock", {x, y})>>}

MCPairs == {Fork2(A, B) : A, B \in Bodies}

-----------------------------------------------------------------------------
(* Call trees: a child that calls, and a child called again *)

\* A procedure made of the bodies of successive calls.
Again(A, B) == Procedure(A) \o Procedure(B)

\* main calls fa and fb, fa calls fd; main then calls fa once more.
Nested ==
  [Idle EXCEPT
    ![main] = Procedure(<<Set("+", x, 1, {}), Call({fa, fb}), Call({fa}), Set("-", y, 0, {x})>>),
    ![fa] = Again(<<Call({fd}), Set("+", y, 0, {x})>>, <<Set("^", x, 1, {})>>),
    ![fb] = Procedure(<<Set("+", x, 1, {}), Set("^", z, 0, {x})>>),
    ![fd] = Procedure(<<Over("lock", {x}), Set("+", y, 1, {x}), Over("unlock", {x})>>)]

\* An array x of two elements: the DAG knows it by one name.
Elem(v) == [sym |-> x, cell |-> v]
Array ==
  [Idle EXCEPT
    ![main] = Procedure(<<[Set("+", x, 1, {}) EXCEPT !.dst = Elem(x1)], Call({fa, fb})>>),
    ![fa] = Procedure(<<[Over("lock", {}) EXCEPT !.src = {Elem(x), Elem(x1)}],
                       [Set("+", y, 1, {}) EXCEPT !.src = {Elem(x), Elem(x1)}],
                       [Over("unlock", {}) EXCEPT !.src = {Elem(x), Elem(x1)}]>>),
    ![fb] = Procedure(<<[Set("^", x, 1, {}) EXCEPT !.dst = Elem(x1)],
                       Set("-", x, 1, {})>>)]

\* main calls fa and fb, then both again, then fb alone.
Waves ==
  [Idle EXCEPT
    ![main] = Procedure(<<Call({fa, fb}), Call({fa, fb}), Call({fb})>>),
    ![fa] = Again(<<Set("+", x, 1, {}), Call({fd})>>, <<Set("^", y, 1, {x})>>),
    ![fb] = Again(<<Set("-", y, 2, {x})>>, <<Over("read", {y}), Set("+", x, 0, {y})>>)
           \o Procedure(<<Set("+", z, 0, {x, y})>>),
    ![fd] = Procedure(<<Set("^", x, 3, {})>>)]

MCReplays == Triples \cup {Nested, Array, Waves}

-----------------------------------------------------------------------------
(* Two programs on which the code does not do what it says *)

\* x has no version yet when fa locks it: its writer is the node -1,-1.
Uninitialised ==
  [Idle EXCEPT
    ![main] = Procedure(<<Call({fa, fb}), Over("read", {x, y})>>),
    ![fa] = Procedure(LockX), ![fb] = Procedure(<<Set("+", x, 1, {})>>)]

MCUninitialised == {Uninitialised}

\* call f(x), g(x), where f calls its parameter y and g calls it z: one cell
\* under two names.
Alias(v) == [sym |-> v, cell |-> x]
Aliases ==
  [Idle EXCEPT
    ![main] = Procedure(<<Set("+", x, 1, {}), Call({fa, fb})>>),
    ![fa] = Procedure(<<[Set("+", y, 1, {}) EXCEPT !.dst = Alias(y)]>>),
    ![fb] = Procedure(<<[Set("^", z, 3, {}) EXCEPT !.dst = Alias(z)]>>)]

MCAliases == {Aliases}
=============================================================================
