------------------------------- MODULE Frames -------------------------------
(***************************************************************************)
(* Scopes: what a text lets one say of a process at the border of two      *)
(* blocks, before anything is run.  A frame is the symbol table of the     *)
(* process without its addresses, with its depth, the globals that are     *)
(* set, the names it has given to its children, and the locks it holds.    *)
(*                                                                         *)
(* A text is framed when every border can be given a frame such that the   *)
(* instruction of each block leads from one to the other, whatever the     *)
(* values are and in whichever order processes go on.  What the compiler   *)
(* writes is; that such a text keeps the tables of symtab.go and the locks *)
(* in order is proved in MachineProofs.                                    *)
(***************************************************************************)
EXTENDS Machine

-----------------------------------------------------------------------------
(* Frames *)

\* A name is bound at a depth, to a cell of its own or to one it was given; only an
\* array may be indexed.
Slot(nest, own, arr) == [nest |-> nest, own |-> own, arr |-> arr]
SlotSet == [nest : Nat, own : BOOLEAN, arr : BOOLEAN]

\* names maps variables to their slots, innermost last; given[c] is the names given to
\* child c; globals maps global variables to whether they are arrays.
Bare(proc, globals, names) ==
  [proc |-> proc, depth |-> 0, globals |-> globals, names |-> names, given |-> << >>, locks |-> {}]

Given(fr, c) == IF c \in DOMAIN fr.given THEN fr.given[c] ELSE << >>

\* A table of names where v is bound once more, to b.
Stack(t, v) == IF v \in DOMAIN t THEN t[v] ELSE << >>
Opened(t, v, b) == Entered(t, {v}, Append(Stack(t, v), b))

\* Depths grow along the slots of a name, up to the present one.
SlotsOk(names, depth) ==
  \A v \in DOMAIN names :
    /\ names[v] \in Seq(SlotSet) \ {<< >>}
    /\ \A i \in 1 .. Len(names[v]) :
         /\ names[v][i].nest <= depth /\ ~(names[v][i].own /\ names[v][i].arr)
         /\ \A j \in 1 .. Len(names[v]) : i < j => names[v][i].nest < names[v][j].nest

\* A child gets a name once, and finds it at depth zero.
OnceEach(given) ==
  \A c \in DOMAIN given : \A v \in DOMAIN given[c] :
    \E arr \in BOOLEAN : given[c][v] = <<Slot(0, FALSE, arr)>>

FrameOk(fr) ==
  /\ DOMAIN fr = {"proc", "depth", "globals", "names", "given", "locks"}
  /\ fr.depth \in Nat
  /\ \A v \in DOMAIN fr.globals : fr.globals[v] \in BOOLEAN
  /\ SlotsOk(fr.names, fr.depth)
  /\ OnceEach(fr.given)

\* What GetAddrOfName finds, and whether it may be indexed.
Visible(fr, v) == v \in DOMAIN fr.names \/ v \in DOMAIN fr.globals
IsArray(fr, v) == IF v \in DOMAIN fr.names THEN Last(fr.names[v]).arr ELSE fr.globals[v]

OperandOk(fr, o) ==
  \/ o.k = "num"
  \/ o.k = "ref" /\ Visible(fr, o.v)
  \/ o.k = "elem" /\ Visible(fr, o.v) /\ IsArray(fr, o.v) /\ (o.i.k = "num" \/ Visible(fr, o.i.v))

\* What can be stored to.
TargetOk(fr, o) == o.k \in {"ref", "elem"} /\ OperandOk(fr, o)

-----------------------------------------------------------------------------
(* From one border to the next *)

\* to is fr with a variable v of its own at the present depth.
Declares(fr, v, to) ==
  /\ v \in DOMAIN fr.names => Last(fr.names[v]).nest < fr.depth
  /\ to = [fr EXCEPT !.names = Opened(@, v, Slot(fr.depth, TRUE, FALSE))]

\* An update of $v declares v, or gives it up: then no child has been given it, and
\* nobody has it locked.
Updates(fr, i, to) ==
  /\ {"op", "dst", "f", "e"} \subseteq DOMAIN i
  /\ \A o \in {i.e.l, i.e.r} : OperandOk(fr, o) /\ OperandOk(to, o)
  /\ \/ /\ i.dst.k = "new" /\ i.dst.v \notin fr.locks /\ fr.given = << >>
        /\ Declares(fr, i.dst.v, to) \/ Declares(to, i.dst.v, fr)
     \/ TargetOk(fr, i.dst) /\ to = fr

\* Of two instructions that are inverses, one adds to the frame what the other removes.
Pushes(fr, to) == to = [fr EXCEPT !.depth = @ + 1]
Locks(fr, S, to) ==
  /\ S \cap fr.locks = {} /\ \A v \in S : Visible(fr, v)
  /\ to = [fr EXCEPT !.locks = @ \cup S]
Sets(fr, i, to) ==
  /\ i.child \in Nat /\ i.src.k = "ref" /\ Visible(fr, i.src.v) /\ i.v \notin DOMAIN Given(fr, i.child)
  /\ to = [fr EXCEPT !.given =
             Entered(@, {i.child}, Opened(Given(fr, i.child), i.v, Slot(0, FALSE, IsArray(fr, i.src.v))))]
SetsGlobal(fr, i, to) ==
  /\ fr.proc = "main" /\ i.v \notin DOMAIN fr.globals \cup fr.locks /\ i.cell \in Nat
  /\ \E arr \in BOOLEAN : to = [fr EXCEPT !.globals = Entered(@, {i.v}, arr)]

Moves(fr, i, to) ==
  \/ i.op = "upd" /\ Updates(fr, i, to)
  \/ i.op = "push" /\ Pushes(fr, to)
  \/ i.op = "pop" /\ Pushes(to, fr)
  \/ i.op = "lock" /\ Locks(fr, i.vars, to)
  \/ i.op = "unlock" /\ Locks(to, i.vars, fr)
  \/ i.op = "set" /\ Sets(fr, i, to)
  \/ i.op = "unset" /\ Sets(to, i, fr)
  \/ i.op = "setg" /\ SetsGlobal(fr, i, to)
  \/ i.op = "unsetg" /\ SetsGlobal(to, i, fr)
  \/ i.op = "swap" /\ TargetOk(fr, i.left) /\ TargetOk(fr, i.right) /\ to = fr
  \/ i.op \in {"V", "P"} /\ Visible(fr, i.v) /\ to = fr
  \/ i.op \in {"skip", "call"} /\ to = fr

\* A call finds and leaves its procedures with what the caller has given.
Calls(F, pre, post, b) ==
  LET i == LineAt(F, b + 1) IN
  i.op = "call" =>
    \A j \in DOMAIN i.procs :
      LET name == i.procs[j]
          called == Bare(name, pre[b].globals, Given(pre[b], j - 1))
      IN  /\ name # "main"
          /\ F.begin[name] \in DOMAIN pre /\ pre[F.begin[name]] = called
          /\ F.end[name] - 2 \in DOMAIN pre /\ post[F.end[name] - 2] = called

\* A block starts as its procedure does, or with what every jump to it leaves.
Enters(F, pre, post, b) ==
  LET t == LineAt(F, b)
      fr == pre[b]
  IN  /\ t.op = "begin" => t.name = fr.proc /\ fr.depth = 0 /\ fr = pre[F.begin[t.name]]
      /\ t.op = "<-" =>
           /\ OperandOk(fr, t.cond)
           /\ \A l \in {t.l, t.m} :
                l \in DOMAIN F.goto /\ F.goto[l] - 2 \in DOMAIN pre /\ post[F.goto[l] - 2] = fr

Leaves(F, pre, post, b) ==
  LET t == LineAt(F, b + 2)
      fr == post[b]
  IN  /\ t.op = "end" => t.name = fr.proc /\ fr.depth = 0 /\ fr = post[F.end[t.name] - 2]
      /\ t.op = "->" =>
           /\ OperandOk(fr, t.cond)
           /\ \A l \in {t.l, t.m} :
                l \in DOMAIN F.come /\ F.come[l] \in DOMAIN pre /\ pre[F.come[l]] = fr

\* pre[b] and post[b] are the frames before and after the block at line b.
Framed(F, pre, post) ==
  LET b0 == F.begin["main"]
      b1 == F.end["main"] - 2
  IN  /\ DOMAIN post = DOMAIN pre
      /\ b0 \in DOMAIN pre /\ pre[b0] = Bare("main", << >>, << >>)
      /\ b1 \in DOMAIN pre /\ post[b1] = Bare("main", post[b1].globals, << >>)
      /\ \A b \in DOMAIN pre :
           /\ FrameOk(pre[b]) /\ FrameOk(post[b])
           /\ Moves(pre[b], LineAt(F, b + 1), post[b])
           /\ Enters(F, pre, post, b) /\ Leaves(F, pre, post, b) /\ Calls(F, pre, post, b)

-----------------------------------------------------------------------------
(* Values.  Frames know none, so what depends on one is beyond them: where an element lies *)
(* whose index is a variable, and whether a divisor that is one is zero. *)

PlainOperand(o) == o.k = "elem" => o.i.k = "num" /\ o.i.n \in Nat

\* A line where no value is an index or a divisor.
PlainLine(t) ==
  /\ t.op = "upd" => /\ \A o \in {t.e.l, t.e.r, t.dst} : PlainOperand(o)
                     /\ t.e.fn \in {"/", "%"} => t.e.r.k = "num" /\ t.e.r.n # 0
  /\ t.op = "swap" => PlainOperand(t.left) /\ PlainOperand(t.right)
  /\ Jumps(t) => PlainOperand(t.cond)
=============================================================================
