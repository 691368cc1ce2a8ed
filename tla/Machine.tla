------------------------------ MODULE Machine -------------------------------
(***************************************************************************)
(* The interpreter at work on a loaded file: heads and jumps, the names    *)
(* and the memory of each process, nesting, set and unset, fork and join   *)
(* (src/runtime: pc.go, runtime.go, symtab.go).                            *)
(*                                                                         *)
(* One step executes one basic block, under exmut.  The order between      *)
(* processes that share what they write is left to AnnotationDag: the code *)
(* considered here runs in parallel only what is independent, where        *)
(* isRunnable admits every order.  A variable has one lock word here, that *)
(* of its current version, whether or not it has been written.             *)
(***************************************************************************)
EXTENDS Cril, FiniteSets

CONSTANTS
  Code,     \* the sources considered
  Lines(_), \* the text of a source, a sequence of lines
  Proc,     \* processes, named by their place in the call tree (treepid): bounds its depth
  HeapSize  \* cells of heapmem that exist from the start, all zero

Root == << >>
ChildPC(p, i) == Append(p, i)   \* getChildPC

ASSUME ProcAssumption ==
  Proc \subseteq Seq(Nat) /\ Root \in Proc /\ \A p \in Proc \ {Root} : Front(p) \in Proc
ASSUME HeapAssumption == HeapSize \in Nat

VARIABLES
  code,      \* the source loaded
  file,      \* its lines and labels, as loaded (runtime.file, runtime.labels)
  head,      \* head[p]: line where the next block starts, or the last one ended
  running,   \* processes whose goroutine runs execute
  waiting,   \* processes in the wg.Wait of a call
  mem,       \* names and memory: a record, see EmptyMemory
  lock,      \* lock[s]: lock word of the current version of s
  exmap,     \* exmap[p]: the blocks p has executed, for the comparison of -e
  rev,       \* direction: TRUE is backward
  panicked   \* a goroutine has panicked

vars == <<code, file, head, running, waiting, mem, lock, exmap, rev, panicked>>

-----------------------------------------------------------------------------
(* Names and addresses *)

\* alloc is alloctable, table and nest belong to a process, heap and var are
\* the two memories.  A cell of var that is not in use is not in its domain.
EmptyMemory ==
  [alloc |-> << >>,
   table |-> [p \in Proc |-> << >>],
   nest |-> [p \in Proc |-> 0],
   heap |-> [c \in 0 .. HeapSize - 1 |-> 0],
   var |-> << >>]

Global(c) == [glob |-> TRUE, idx |-> c]
Local(c) == [glob |-> FALSE, idx |-> c]
NoAddr == [glob |-> FALSE, idx |-> -1]

Bound(m, p, v) == v \in DOMAIN m.table[p]
Top(m, p, v) == Last(m.table[p][v])

\* Mutant of IsAllocatedLocal: at any depth.
IsAllocatedAnywhere(m, p, v) == Bound(m, p, v)

\* IsAllocatedLocal: bound at the present nesting depth.
IsAllocatedLocal(m, p, v) == Bound(m, p, v) /\ Top(m, p, v).nest = m.nest[p]

\* GetAddrOfName: the innermost local binding, else the global one.
AddrOfName(m, p, v) ==
  IF Bound(m, p, v) THEN Top(m, p, v).addr
  ELSE IF v \in DOMAIN m.alloc THEN m.alloc[v] ELSE NoAddr

Content(m, a) ==
  IF a.glob THEN IF a.idx \in DOMAIN m.heap THEN m.heap[a.idx] ELSE 0
            ELSE IF a.idx \in DOMAIN m.var THEN m.var[a.idx] ELSE 0

Store(m, a, x) ==
  IF a.glob THEN [m EXCEPT !.heap = Entered(@, {a.idx}, x)] ELSE [m EXCEPT !.var = Entered(@, {a.idx}, x)]

\* Mutant of AddrOf: the index is not added.
AddrOfFirst(m, p, o) == AddrOfName(m, p, o.v)

\* GetAddr: the address of x or x[i]; i is a number or a variable.
AddrOf(m, p, o) ==
  LET a == AddrOfName(m, p, o.v) IN
  IF o.k # "elem" \/ a = NoAddr THEN a
  ELSE LET i == IF o.i.k = "num" THEN o.i.n ELSE Content(m, AddrOfName(m, p, o.i.v))
       IN  [a EXCEPT !.idx = @ + i]

\* No name in the operand is unknown: GetAddrOfName does not panic.
Known(m, p, o) ==
  /\ o.k \in {"ref", "elem"} => AddrOfName(m, p, o.v) # NoAddr
  /\ o.k = "elem" => o.i.k = "num" \/ AddrOfName(m, p, o.i.v) # NoAddr

Value(m, p, o) == IF o.k = "num" THEN o.n ELSE Content(m, AddrOf(m, p, o))

\* The operand, or the variable that is its index, lies below cell zero: heapmemory, which
\* grows for any other cell, panics.
IndexBelowZero(m, p, o) == o.k = "elem" /\ o.i.k # "num" /\ AddrOfName(m, p, o.i.v).idx < 0
BelowZero(m, p, o) == IndexBelowZero(m, p, o) \/ (o.k # "num" /\ AddrOf(m, p, o).idx < 0)

\* toSymName: the name the variable goes by here, and whose it is.
SymName(m, p, v) == <<v, IF AddrOfName(m, p, v).glob THEN <<-1>> ELSE p>>
Symbols(m, p, S) == {SymName(m, p, v) : v \in S}

\* RegisterLocal and DeleteLocal.
Bind(m, p, v, a) ==
  LET stack == IF Bound(m, p, v) THEN m.table[p][v] ELSE << >> IN
  [m EXCEPT !.table[p] = Entered(@, {v}, Append(stack, [addr |-> a, nest |-> m.nest[p]]))]
Unbind(m, p, v) ==
  LET t == m.table[p] IN
  [m EXCEPT !.table[p] = IF Len(t[v]) > 1 THEN [t EXCEPT ![v] = Front(@)]
                                          ELSE [w \in DOMAIN t \ {v} |-> t[w]]]

\* GetNewLocalAddr: a cell with value zero.  In the code it has never been used
\* before; here the cells given up are used again.
FreshCell(m) == CHOOSE c \in 0 .. Cardinality(DOMAIN m.var) : c \notin DOMAIN m.var
Allocate(m, p, v) ==
  LET c == FreshCell(m) IN Bind(Store(m, Local(c), 0), p, v, Local(c))
Deallocate(m, p, v) ==
  LET a == Top(m, p, v).addr
      freed == IF a.glob THEN m ELSE [m EXCEPT !.var = [c \in DOMAIN @ \ {a.idx} |-> @[c]]]
  IN  Unbind(freed, p, v)

-----------------------------------------------------------------------------
(* Basic blocks: entry, instruction, exit *)

Base(p) == IF rev THEN head[p] - 3 ELSE head[p]
Entry(p) == LineAt(file, Base(p))
Exit(p) == LineAt(file, Base(p) + 2)

\* The lines executed first and last, and the instruction between them.
FirstLine(p) == IF rev THEN Exit(p) ELSE Entry(p)
FinalLine(p) == IF rev THEN Entry(p) ELSE Exit(p)

\* Mutant of Instr: push and pop are not exchanged.
InstrNest(p) ==
  LET i == LineAt(file, Base(p) + 1) IN
  IF rev /\ i.op \notin {"push", "pop"} THEN Backward(i) ELSE i

Instr(p) == LET i == LineAt(file, Base(p) + 1) IN IF rev THEN Backward(i) ELSE i

Text(b) == <<LineAt(file, b), LineAt(file, b + 1), LineAt(file, b + 2)>>

Jumps(t) == t.op \in {"->", "<-"}
CondKnown(m, p, t) == Jumps(t) => Known(m, p, t.cond)
LabelKnown(t) == Jumps(t) => {t.l, t.m} \subseteq DOMAIN (IF rev THEN file.goto ELSE file.come)

\* Mutant of HeadAfter: backward, on the line with the label.
HeadAfterOneOff(m, p) ==
  LET t == FinalLine(p) IN
  IF ~Jumps(t) THEN IF rev THEN Base(p) ELSE Base(p) + 3
  ELSE LET l == IF Value(m, p, t.cond) # 0 THEN t.l ELSE t.m
       IN  IF rev THEN file.goto[l] ELSE file.come[l]

\* Where a block leaves the head, m being the memory it leaves.  Labels of
\* entries serve forward, those of exits backward, one line further.
HeadAfter(m, p) ==
  LET t == FinalLine(p) IN
  IF ~Jumps(t) THEN IF rev THEN Base(p) ELSE Base(p) + 3
  ELSE LET l == IF Value(m, p, t.cond) # 0 THEN t.l ELSE t.m
       IN  IF rev THEN file.goto[l] + 1 ELSE file.come[l]

\* x f= e.  A destination $x that is not allocated here is allocated first; one
\* that is, is given up after the update.  e is resolved before that.
Grows(p, dst) == dst.k = "new" /\ ~IsAllocatedLocal(mem, p, dst.v)
Shrinks(p, dst) == dst.k = "new" /\ IsAllocatedLocal(mem, p, dst.v)

\* The memory when the three lines have been parsed and none has acted: all that parsing
\* does is to allocate.
Prepared(p) ==
  LET i == Instr(p) IN IF i.op = "upd" /\ Grows(p, i.dst) THEN Allocate(mem, p, i.dst.v) ELSE mem

\* The memory when x <=> y has written x.  The address of y is then looked up again.
HalfExchanged(p) ==
  LET i == Instr(p) IN Store(mem, AddrOf(mem, p, i.left), Value(mem, p, i.right))

\* The values that an instruction panics on.
InstrFaults(p) ==
  LET i == Instr(p) IN
  \/ i.op = "upd" /\ \/ BelowZero(mem, p, i.e.l) \/ BelowZero(mem, p, i.e.r)
                     \/ BelowZero(Prepared(p), p, i.dst)
                     \/ DividesByZero(i.e.fn, Value(mem, p, i.e.r))
  \/ i.op = "swap" /\ \/ BelowZero(mem, p, i.left) \/ BelowZero(mem, p, i.right)
                      \/ BelowZero(HalfExchanged(p), p, i.right)
  \/ i.op \in {"V", "P"} /\ BelowZero(mem, p, Ref(i.v))
  \/ i.op \in {"set", "unset"} /\ IndexBelowZero(mem, p, i.src)

\* Those that a block panics on, m being the memory it leaves.
CondFaults(m, p, t) == Jumps(t) /\ BelowZero(m, p, t.cond)
ValueFaults(m, p) ==
  InstrFaults(p) \/ CondFaults(Prepared(p), p, FirstLine(p)) \/ CondFaults(m, p, FinalLine(p))

\* begin and end at depth zero only; conditions of known variables; -e: what is
\* undone is what was done.
BlockPanics(m, p) ==
  \/ ~Jumps(FirstLine(p)) /\ mem.nest[p] # 0
  \/ ~Jumps(FinalLine(p)) /\ m.nest[p] # 0
  \/ ~CondKnown(Prepared(p), p, FirstLine(p))
  \/ ~CondKnown(m, p, FinalLine(p)) \/ ~LabelKnown(FinalLine(p))
  \/ ValueFaults(m, p)
  \/ rev /\ (exmap[p] = << >> \/ Text(Last(exmap[p])) # Text(Base(p)))

\* p is about to execute a block whose instruction is one of ops.
At(p, ops) ==
  /\ ~panicked
  /\ p \in running \ waiting
  /\ Instr(p).op \in ops

\* The end of executeBlock: jump, count, return after an end or a begin.
Finish(p, m, legal) ==
  /\ mem' = m
  /\ panicked' = (~legal \/ BlockPanics(m, p))
  /\ head' = [head EXCEPT ![p] = IF panicked' THEN @ ELSE HeadAfter(m, p)]
  /\ running' = IF Jumps(FinalLine(p)) THEN running ELSE running \ {p}
  /\ exmap' = [exmap EXCEPT ![p] = IF ~rev THEN Append(@, Base(p))
                                   ELSE IF @ = << >> THEN @ ELSE Front(@)]
  /\ UNCHANGED <<code, file, rev>>

-----------------------------------------------------------------------------
(* Instructions *)

LockFree(s) == s \in DOMAIN lock => lock[s] = 0

\* The value the update leaves in a.
Result(m, p, i, a) ==
  Update(i.f, Content(m, a), Apply(i.e.fn, Value(mem, p, i.e.l), Value(mem, p, i.e.r)))

Assign(p) ==
  LET i == Instr(p)
      v == i.dst.v
      m == Prepared(p)
      a == AddrOf(m, p, i.dst)
      done == Store(m, a, Result(m, p, i, a))
  IN  /\ At(p, {"upd"})
      /\ LockFree(SymName(m, p, v))
      /\ Finish(p, IF Shrinks(p, i.dst) THEN Deallocate(done, p, v) ELSE done,
                Known(mem, p, i.e.l) /\ Known(mem, p, i.e.r) /\ Known(m, p, i.dst))
      /\ UNCHANGED <<waiting, lock>>

\* x <=> y, with no regard to locks.
Exchange(p) ==
  LET i == Instr(p)
      m == HalfExchanged(p)
  IN  /\ At(p, {"swap"})
      /\ Finish(p, Store(m, AddrOf(m, p, i.right), Value(mem, p, i.left)),
                Known(mem, p, i.left) /\ Known(mem, p, i.right))
      /\ UNCHANGED <<waiting, lock>>

Nop(p) ==
  /\ At(p, {"skip"})
  /\ Finish(p, mem, TRUE)
  /\ UNCHANGED <<waiting, lock>>

\* push and pop move the depth; bindings are found by it.
Nest(p) ==
  /\ At(p, {"push", "pop"})
  /\ Finish(p, [mem EXCEPT !.nest[p] = IF Instr(p).op = "push" THEN @ + 1 ELSE @ - 1], TRUE)
  /\ UNCHANGED <<waiting, lock>>

KnownAll(p, S) == \A v \in S : Known(mem, p, Ref(v))
Word(s) == IF s \in DOMAIN lock THEN lock[s] ELSE 0

LockAddr(p) ==
  LET S == Symbols(mem, p, Instr(p).vars) IN
  /\ At(p, {"lock"})
  /\ lock' = [s \in DOMAIN lock \cup S |-> IF s \in S THEN Word(s) + 1 ELSE lock[s]]
  /\ Finish(p, mem, KnownAll(p, Instr(p).vars))
  /\ UNCHANGED waiting

UnlockAddr(p) ==
  LET S == Symbols(mem, p, Instr(p).vars)
      after == [s \in DOMAIN lock \cup S |-> IF s \in S THEN Word(s) - 1 ELSE lock[s]]
  IN  /\ At(p, {"unlock"})
      /\ lock' = [s \in {t \in DOMAIN after : after[t] # 0} |-> after[s]]
      /\ Finish(p, mem, KnownAll(p, Instr(p).vars) /\ \A s \in S : Word(s) > 0)
      /\ UNCHANGED waiting

\* set $x@child y: the child calls the address of y x.  The name is bound at
\* the child's depth, and unset looks for it there.
SetSym(p) ==
  LET i == Instr(p)
      c == ChildPC(p, i.child)
  IN  /\ At(p, {"set"}) /\ c \in Proc
      /\ Finish(p, Bind(mem, c, i.v, AddrOf(mem, p, i.src)),
                Known(mem, p, i.src) /\ ~IsAllocatedLocal(mem, c, i.v))
      /\ UNCHANGED <<waiting, lock>>

\* Mutant of UnsetSym: the name stays.
UnsetSymKept(p) ==
  /\ At(p, {"unset"}) /\ ChildPC(p, Instr(p).child) \in Proc
  /\ Finish(p, mem, Known(mem, p, Instr(p).src))
  /\ UNCHANGED <<waiting, lock>>

UnsetSym(p) ==
  LET i == Instr(p)
      c == ChildPC(p, i.child)
      bound == IsAllocatedLocal(mem, c, i.v)
  IN  /\ At(p, {"unset"}) /\ c \in Proc
      /\ Finish(p, IF bound THEN Unbind(mem, c, i.v) ELSE mem, Known(mem, p, i.src) /\ bound)
      /\ UNCHANGED <<waiting, lock>>

\* set #x M[c], and its inverse.
SetName(p) ==
  LET i == Instr(p) IN
  /\ At(p, {"setg"})
  /\ Finish(p, [mem EXCEPT !.alloc = Entered(@, {i.v}, Global(i.cell))], i.v \notin DOMAIN mem.alloc)
  /\ UNCHANGED <<waiting, lock>>

\* Mutant of UnsetName: the name stays.
UnsetNameKept(p) ==
  /\ At(p, {"unsetg"})
  /\ Finish(p, mem, Instr(p).v \in DOMAIN mem.alloc)
  /\ UNCHANGED <<waiting, lock>>

UnsetName(p) ==
  LET v == Instr(p).v IN
  /\ At(p, {"unsetg"})
  /\ Finish(p, [mem EXCEPT !.alloc = [w \in DOMAIN @ \ {v} |-> @[w]]], v \in DOMAIN mem.alloc)
  /\ UNCHANGED <<waiting, lock>>

\* V waits for 0 and writes 1, P waits for 1 and writes 0.
Semaphore(p) ==
  LET i == Instr(p)
      a == AddrOf(mem, p, Ref(i.v))
      x == IF i.op = "V" THEN 0 ELSE 1
  IN  /\ At(p, {"V", "P"})
      /\ Content(mem, a) = x \/ BelowZero(mem, p, Ref(i.v))
      /\ LockFree(SymName(mem, p, i.v))
      /\ Finish(p, Store(mem, a, 1 - x), Known(mem, p, Ref(i.v)))
      /\ UNCHANGED <<waiting, lock>>

Children(p) == {ChildPC(p, i - 1) : i \in DOMAIN Instr(p).procs}

\* call: every child starts at the begin, or the end, of its procedure.
Fork(p) ==
  LET Start(name) == IF rev THEN file.end[name] + 1 ELSE file.begin[name] IN
  /\ At(p, {"call"}) /\ Children(p) \subseteq Proc
  /\ head' = [c \in Proc |-> IF c \in Children(p) THEN Start(Instr(p).procs[Last(c) + 1])
                                                  ELSE head[c]]
  /\ running' = running \cup Children(p)
  /\ waiting' = waiting \cup {p}
  /\ UNCHANGED <<code, file, mem, lock, exmap, rev, panicked>>

Join(p) ==
  /\ ~panicked
  /\ p \in waiting
  /\ Children(p) \cap running = {}
  /\ waiting' = waiting \ {p}
  /\ Finish(p, mem, TRUE)
  /\ UNCHANGED lock

-----------------------------------------------------------------------------
(* Specification *)

Init ==
  /\ code \in Code
  /\ file = Load(Lines(code))
  /\ head = [p \in Proc |-> IF p = Root THEN file.begin["main"] ELSE 0]
  /\ running = {Root}
  /\ waiting = {}
  /\ mem = EmptyMemory
  /\ lock = << >>
  /\ exmap = [p \in Proc |-> << >>]
  /\ rev = FALSE
  /\ panicked = FALSE

Stopped == Root \notin running /\ ~panicked
AtEnd == Stopped /\ ~rev
AtStart == Stopped /\ rev

\* bwd or fwd, and run.
Turn ==
  /\ Stopped
  /\ rev' = ~rev
  /\ head' = [head EXCEPT ![Root] = IF rev THEN file.begin["main"] ELSE file.end["main"] + 1]
  /\ running' = {Root}
  /\ UNCHANGED <<code, file, waiting, mem, lock, exmap, panicked>>

Step(p) ==
  \/ Assign(p) \/ Exchange(p) \/ Nop(p) \/ Nest(p)
  \/ LockAddr(p) \/ UnlockAddr(p)
  \/ SetSym(p) \/ UnsetSym(p) \/ SetName(p) \/ UnsetName(p)
  \/ Semaphore(p)
  \/ Fork(p) \/ Join(p)

Next == (\E p \in Proc : Step(p)) \/ Turn

Spec == Init /\ [][Next]_vars

-----------------------------------------------------------------------------
(* Properties *)

\* Types: a head is a line of the file, and a name is bound once per depth, at
\* depths that grow.
TypeOK ==
  /\ head \in [Proc -> 0 .. Len(file.lines)]
  /\ running \subseteq Proc /\ waiting \subseteq running
  /\ \A p \in Proc : mem.nest[p] \in Nat
  /\ \A p \in Proc : \A v \in DOMAIN mem.table[p] :
       /\ mem.table[p][v] # << >>
       /\ \A i, j \in DOMAIN mem.table[p][v] :
            i < j => mem.table[p][v][i].nest < mem.table[p][v][j].nest
  /\ \A s \in DOMAIN lock : lock[s] \in Nat \ {0}
  /\ rev \in BOOLEAN /\ panicked \in BOOLEAN

\* No goroutine panics: names are found and not found as symtab.go expects,
\* depths are zero where a procedure starts and ends, locks are released once,
\* and a block undone is the block that was done (the comparison of -e).
NoPanic == ~panicked

\* The head of a running process is on the border of two blocks: the next, or
\* previous, three lines are a block ("We made sure that block that is executed
\* is next/previous 3 lines", pc.go:150), so that executeBlock never comes to the
\* edge of the file, where it would return with exmut locked (pc.go:166).
Aligned ==
  \A p \in running :
    head[p] % 3 = 0 /\ IF rev THEN 3 <= head[p] ELSE head[p] + 3 <= Len(file.lines)

\* A local variable is zero when its cell is given up, in both directions: what
\* it held can be computed again.  Nothing tests it: the test in UnsetAddr is
\* commented out, and GetAddrOfAllocable has none.
DropsZero ==
  \A p \in Proc :
    At(p, {"upd"}) /\ Shrinks(p, Instr(p).dst) =>
      Result(mem, p, Instr(p), AddrOf(mem, p, Instr(p).dst)) = 0

\* No name outlives its cell: what a parameter or a variable is bound to exists,
\* whoever allocated it.
NoDangling ==
  \A p \in Proc : \A v \in DOMAIN mem.table[p] : \A i \in DOMAIN mem.table[p][v] :
    LET a == mem.table[p][v][i].addr IN ~a.glob => a.idx \in DOMAIN mem.var

\* At both ends of a run nothing is left of what it worked with: no cell, no
\* name, no lock, no depth; at the start, not even the names and values of the
\* globals.
Tidy ==
  Stopped =>
    /\ mem.var = << >> /\ lock = << >>
    /\ \A p \in Proc : mem.table[p] = << >> /\ mem.nest[p] = 0
    /\ rev => mem = EmptyMemory /\ \A p \in Proc : exmap[p] = << >>
=============================================================================
