-------------------------------- MODULE Cril --------------------------------
(***************************************************************************)
(* CRIL, the language between the compiler and the interpreter: its lines, *)
(* and the loader, which cuts them into basic blocks of three lines        *)
(* (src/runtime: debugger.go, label.go, expr.go).                          *)
(*                                                                         *)
(* A line is a record and its operands are values or names; nothing is     *)
(* said of how they are spelled.  Names are sequences, so that variables,  *)
(* temporaries and labels never meet.                                      *)
(***************************************************************************)
EXTENDS Integers, Sequences, SequencesExt, TLC

CONSTANT ExclusiveOr(_, _)  \* Go's ^ on words

-----------------------------------------------------------------------------
(* Operands, expressions and lines *)

Num(n) == [k |-> "num", n |-> n]
Ref(v) == [k |-> "ref", v |-> v]                 \* x
Elem(v, i) == [k |-> "elem", v |-> v, i |-> i]   \* x[i]
New(v) == [k |-> "new", v |-> v]                 \* $x, as a destination

\* An expression has at most one operator.
Bin(fn, l, r) == [fn |-> fn, l |-> l, r |-> r]
Just(o) == Bin("id", o, o)

Upd(dst, op, e) == [op |-> "upd", dst |-> dst, f |-> op, e |-> e]   \* dst f= e
Swap(v, w) == [op |-> "swap", left |-> v, right |-> w]                \* v <=> w
Skip == [op |-> "skip"]
Push == [op |-> "push"]
Pop == [op |-> "pop"]
Lock(S) == [op |-> "lock", vars |-> S]
Unlock(S) == [op |-> "unlock", vars |-> S]
SemV(v) == [op |-> "V", v |-> v]
SemP(v) == [op |-> "P", v |-> v]
Call(procs) == [op |-> "call", procs |-> procs]
\* set $x@child src, and set #x M[cell].
Set(v, child, src) == [op |-> "set", v |-> v, child |-> child, src |-> src]
Unset(v, child, src) == [op |-> "unset", v |-> v, child |-> child, src |-> src]
SetGlobal(v, cell) == [op |-> "setg", v |-> v, cell |-> cell]
UnsetGlobal(v, cell) == [op |-> "unsetg", v |-> v, cell |-> cell]
Begin(name) == [op |-> "begin", name |-> name]
End(name) == [op |-> "end", name |-> name]
\* cond -> l;m and l;m <- cond.  With one label the condition is a constant.
Branch(cond, l, m) == [op |-> "->", cond |-> cond, l |-> l, m |-> m]
Merge(l, m, cond) == [op |-> "<-", cond |-> cond, l |-> l, m |-> m]
Goto(l) == Branch(Num(1), l, l)
Come(l) == Merge(l, l, Num(1))

\* What the backward form of a line does is what the forward form of another
\* line does: the two columns of the instruction table.
Backward(i) ==
  CASE i.op = "upd" -> [i EXCEPT !.f = CASE @ = "+" -> "-" [] @ = "-" -> "+" [] @ = "^" -> "^"]
    [] i.op = "push" -> Pop
    [] i.op = "pop" -> Push
    [] i.op = "lock" -> Unlock(i.vars)
    [] i.op = "unlock" -> Lock(i.vars)
    [] i.op = "V" -> SemP(i.v)
    [] i.op = "P" -> SemV(i.v)
    [] i.op = "set" -> Unset(i.v, i.child, i.src)
    [] i.op = "unset" -> Set(i.v, i.child, i.src)
    [] i.op = "setg" -> UnsetGlobal(i.v, i.cell)
    [] i.op = "unsetg" -> SetGlobal(i.v, i.cell)
    [] OTHER -> i

-----------------------------------------------------------------------------
(* Values.  Words are 64 bits wide and nothing here comes near their ends. *)

Truth(b) == IF b THEN 1 ELSE 0
Abs(n) == IF n < 0 THEN -n ELSE n

\* Go's division rounds towards zero.  It panics on a divisor of zero, which whoever
\* applies it has to look at: DividesByZero.
Quotient(a, b) ==
  LET q == Abs(a) \div Abs(b) IN IF b = 0 THEN 0 ELSE IF (a < 0) = (b < 0) THEN q ELSE -q
DividesByZero(fn, b) == fn \in {"/", "%"} /\ b = 0

\* The operators of an expression.  | and & have no action in the grammar, and
\* a rule without one returns its first part.
Apply(fn, a, b) ==
  CASE fn \in {"id", "|", "&"} -> a
    [] fn = "||" -> Truth(a # 0 \/ b # 0)
    [] fn = "&&" -> Truth(a # 0 /\ b # 0)
    [] fn = "<=" -> Truth(a <= b)
    [] fn = ">=" -> Truth(a >= b)
    [] fn = "=" -> Truth(a = b)
    [] fn = "!=" -> Truth(a # b)
    [] fn = "<" -> Truth(a < b)
    [] fn = ">" -> Truth(a > b)
    [] fn = "+" -> a + b
    [] fn = "-" -> a - b
    [] fn = "^" -> ExclusiveOr(a, b)
    [] fn = "*" -> a * b
    [] fn = "/" -> Quotient(a, b)
    [] fn = "%" -> a - b * Quotient(a, b)

\* What "v f= x" leaves.
Update(f, v, x) == CASE f = "+" -> v + x [] f = "-" -> v - x [] f = "^" -> ExclusiveOr(v, x)

-----------------------------------------------------------------------------
(* The loader *)

\* m[k] = x of Go, for every k of S.
Entered(m, S, x) == [k \in DOMAIN m \cup S |-> IF k \in S THEN x ELSE m[k]]

\* A file under construction: its lines, counted from 0, and its labels.
EmptyFile ==
  [lines |-> << >>, goto |-> << >>, come |-> << >>, begin |-> << >>, end |-> << >>]

\* Lines that end a basic block.
IsExit(t) == t.op \in {"->", "end"}

\* The n-th line of the file, counted from 0.
LineAt(F, n) == F.lines[n + 1]

\* The label the loader makes up at line n.
NewLabel(n) == <<"_", n>>

\* What completes the block before t when t is to be line n: nothing, a skip, or
\* a jump s to the line after it.
Padding(n, s, t) ==
  IF n % 3 = 1 /\ IsExit(t) THEN <<Skip>>
  ELSE IF n % 3 = 2 /\ ~IsExit(t) THEN <<Goto(s), Come(s)>>
  ELSE << >>

RegisterNewLabel(F, s, n) == [goto |-> Entered(F.goto, {s}, n), come |-> Entered(F.come, {s}, n + 1)]

\* One line of the text: note its labels, complete the block before it if it
\* does not fit, append it.  The labels are noted before the block is completed.
AddLine(F, t) ==
  LET n == Len(F.lines)
      s == NewLabel(n)
      padding == Padding(n, s, t)
      Noted(op, labels) == IF t.op = op THEN Entered(labels, {t.l, t.m}, n) ELSE labels
      Named(op, labels) == IF t.op = op THEN Entered(labels, {t.name}, n) ELSE labels
      noted == [goto |-> Noted("->", F.goto), come |-> Noted("<-", F.come)]
      new == IF Len(padding) = 2 THEN RegisterNewLabel(noted, s, n) ELSE noted
  IN  [lines |-> F.lines \o padding \o <<t>>,
       goto |-> new.goto,
       come |-> new.come,
       begin |-> Named("begin", F.begin),
       end |-> Named("end", F.end)]

Load(text) ==
  LET loaded[n \in 0 .. Len(text)] ==
        IF n = 0 THEN EmptyFile ELSE AddLine(loaded[n - 1], text[n])
  IN  loaded[Len(text)]

\* A text that is in blocks: a jump target or begin, at least one instruction, a jump
\* or end; and what it calls, it has.  The compiler writes such a text, but for a
\* procedure whose body makes no code.
IsEntry(t) == t.op \in {"<-", "begin"}
InBlocks(text) ==
  LET lines == {text[n] : n \in DOMAIN text}
      Has(op, name) == \E t \in lines : t.op = op /\ t.name = name
  IN  /\ text \in Seq(lines) /\ text # << >>
      /\ \A t \in lines : "op" \in DOMAIN t
      /\ \A n \in DOMAIN text : IsEntry(text[n]) <=> (n = 1 \/ IsExit(text[n - 1]))
      /\ \A n \in DOMAIN text : IsExit(text[n]) => n > 1 /\ ~IsEntry(text[n - 1])
      /\ IsExit(text[Len(text)])
      /\ Has("begin", "main") /\ Has("end", "main")
      /\ \A t \in lines : t.op = "call" =>
           /\ t.procs \in Seq({t.procs[i] : i \in DOMAIN t.procs})
           /\ \A i \in DOMAIN t.procs : Has("begin", t.procs[i]) /\ Has("end", t.procs[i])
=============================================================================
