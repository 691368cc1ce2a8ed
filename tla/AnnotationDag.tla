--------------------------- MODULE AnnotationDag ---------------------------
(***************************************************************************)
(* Forward and backward execution of CRIL processes under the annotation   *)
(* DAG (src/runtime: pc.go, dag.go, symtab.go, runtime.go).                *)
(*                                                                         *)
(* One step executes one basic block.  The interpreter holds its global    *)
(* mutex exmut for a whole block and lets go of it only inside the wait    *)
(* loops (WaitV, WaitP, LockAddr, WLockAddr), which poll and change        *)
(* nothing, and while a call waits for its children.  A wait loop is       *)
(* therefore a guard, and a call is two steps.                             *)
(*                                                                         *)
(* A program gives each process the blocks it executes, in order.  Every   *)
(* block is one instruction; first and last mark the blocks that hold the  *)
(* begin and the end of a procedure, where the goroutine of the process    *)
(* returns.  Labels and conditions are not kept: the entry and exit lines  *)
(* of a block read no shared variable here, or are a "read" block.         *)
(***************************************************************************)
EXTENDS Dag, FiniteSets, Sequences

CONSTANTS
  Proc,          \* processes, named by their place in the call tree (treepid)
  Root,          \* the process of main, treepid []
  Sym,           \* names under which the DAG records a variable (toSymName)
  Cell,          \* memory cells (heapmemory)
  Val,           \* values of a cell
  InitMem,       \* memory at start-up
  Op,            \* the operators of an update, written op in "x op= e"
  Fn,            \* the expressions e
  MaxLen,        \* bound on the number of blocks of a process
  Programs,      \* the programs considered
  Eval(_, _),    \* Eval(fn, vals): value of fn where its sources have vals
  Upd(_, _, _),  \* Upd(op, v, x): the value "v op= x" leaves
  Inv(_, _, _)   \* Inv(op, v, x): the value its backward form leaves

Node == Proc \X (0 .. MaxLen - 1)

Addr == [sym : Sym, cell : Cell]

Kind == {"upd", "V", "P", "lock", "unlock", "read", "call"}

Block == [kind : Kind, op : Op, fn : Fn, dst : Addr, src : SUBSET Addr,
          kids : SUBSET Proc, first : BOOLEAN, last : BOOLEAN]

Writes(b) == b.kind \in {"upd", "V", "P"}

ASSUME ProcAssumption == Root \in Proc /\ MaxLen \in Nat
ASSUME BotAssumption == BOT \notin Node
ASSUME FiniteAssumption == IsFiniteSet(Sym) /\ IsFiniteSet(Cell)
ASSUME ValAssumption == {0, 1} \subseteq Val /\ InitMem \in [Cell -> Val]
ASSUME ProgramAssumption ==
  \A P \in Programs :
    /\ P \in [Proc -> Seq(Block)]
    /\ \A p \in Proc :
         /\ Len(P[p]) <= MaxLen
         /\ \A k \in DOMAIN P[p] : P[p][k].kind = "call" => P[p][k].src = {}
\* An update leaves a value, and its backward form undoes it.
ASSUME ValueAssumption ==
  /\ \A op \in Op, v, w \in Val :
       /\ Upd(op, v, w) \in Val /\ Inv(op, v, w) \in Val
       /\ Inv(op, Upd(op, v, w), w) = v
  /\ \A P \in Programs : \A p \in Proc : \A k \in DOMAIN P[p] :
       \A vals \in [P[p][k].src -> Val] : Eval(P[p][k].fn, vals) \in Val
\* Nobody reads or locks a semaphore: the compiler types it sync, and an
\* expression takes int variables only (parser.go:1340).  So once WaitV or WaitP
\* has seen its value, WLockAddr does not wait and let go of exmut in between.
ASSUME SemaphoreAssumption ==
  \A P \in Programs : \A p, q \in Proc :
    \A j \in DOMAIN P[p], k \in DOMAIN P[q] :
      P[p][j].kind \in {"V", "P"} => \A a \in P[q][k].src : a.sym # P[p][j].dst.sym
\* An update of x by an expression over x has no inverse, and Janus rules it out.
\* The code the compiler writes for it would wait for its own lock of x.
ASSUME NoSelfRead ==
  \A P \in Programs : \A p \in Proc : \A k \in DOMAIN P[p] :
    Writes(P[p][k]) => \A a \in P[p][k].src : a.sym # P[p][k].dst.sym

VARIABLES
  prog,      \* the program loaded (runtime.file)
  pc,        \* pc[p]: number of blocks p has executed and not undone
  live,      \* processes whose goroutine runs execute
  inCall,    \* processes in the wg.Wait of a call
  edges,     \* the annotation DAG
  last,      \* last[s]: writer of the current version of s (dag.last)
  lock,      \* lock[n]: lock word of node n (dagedges.lock)
  mem,       \* heapmem and varmem
  rev,       \* direction: TRUE is backward
  panicked,  \* a goroutine has panicked, the interpreter is gone
  outcomes   \* history: final memories reached since the DAG was deleted

vars == <<prog, pc, live, inCall, edges, last, lock, mem, rev, panicked, outcomes>>

-----------------------------------------------------------------------------
(* Helpers *)

\* The block p executes next, forward and backward, and its node.
NextBlock(p) == prog[p][pc[p] + 1]
PrevBlock(p) == prog[p][pc[p]]
NextNode(p) == <<p, pc[p]>>
PrevNodeOf(p) == <<p, pc[p] - 1>>

\* Variables a block reads: an update reads its destination too.
Reads(b) == IF Writes(b) THEN b.src \cup {b.dst} ELSE b.src

\* The value V and P wait for; they leave the other one.
Awaits(kind) == IF kind = "V" THEN 0 ELSE 1

Arg(b) == Eval(b.fn, [a \in b.src |-> mem[a.cell]])
NewVal(b) == IF b.kind = "upd" THEN Upd(b.op, mem[b.dst.cell], Arg(b))
                               ELSE 1 - Awaits(b.kind)
OldVal(b) == IF b.kind = "upd" THEN Inv(b.op, mem[b.dst.cell], Arg(b))
                               ELSE Awaits(b.kind)

\* Mutants: reads are not recorded; the edge is appended the wrong way round.
AddNoReads(E, A, n) == E
AddReadsSwapped(E, A, n) ==
  E \cup {Edge(n, last[a.sym], a.sym, FALSE) : a \in {b \in A : last[b.sym] # n}}

\* ReadAddr: node n depends on the writer of each version it reads.
AddReads(E, A, n) ==
  E \cup {Edge(last[a.sym], n, a.sym, FALSE) : a \in {b \in A : last[b.sym] # n}}

\* addEdge panics on one of the edges into n from the versions of A.
BadEdge(A, n) == \E a \in A : BackwardsInProcess(last[a.sym], n)

\* A mutant of Pins: two elements of an array are locked once.
PinsOnce(A, n) == IF \E a \in A : last[a.sym] = n THEN 1 ELSE 0

\* How many of the addresses of A have n as their writer.
Pins(A, n) == Cardinality({a \in A : last[a.sym] = n})

\* LockAddr and UnlockAddr on each address of A.
Acquire(A) == [n \in Node |-> lock[n] + Pins(A, n)]
Release(A) == [n \in Node |-> lock[n] - Pins(A, n)]
Lockable(A) == \A a \in A : RLockable(lock, last[a.sym])
ReleasePanics(A) == \E n \in Node : Pins(A, n) > 0 /\ lock[n] < Pins(A, n)

-----------------------------------------------------------------------------
(* A block forward *)

\* A mutant: WLockAddr does not wait.
FwdClearLocked(b) == b.kind # "upd" => mem[b.dst.cell] = Awaits(b.kind)

\* Nothing to wait for inside a write block: WaitV or WaitP sees its value and
\* WLockAddr finds the version to overwrite unlocked.
FwdClear(b) ==
  /\ b.kind # "upd" => mem[b.dst.cell] = Awaits(b.kind)
  /\ WLockable(lock, last[b.dst.sym])

\* isRunnable lets p execute its next block.
FwdReady(p) ==
  /\ ~panicked /\ ~rev
  /\ p \in live \ inCall
  /\ pc[p] < Len(prog[p])
  /\ RunnableFwd(edges, pc, NextNode(p))

\* The end of executeBlock: the counter, and the return after an end.
Advance(p) ==
  /\ pc' = [pc EXCEPT ![p] = @ + 1]
  /\ live' = IF NextBlock(p).last THEN live \ {p} ELSE live

\* x op= e, V s, P s: wait for the semaphore and the readers, record what is
\* read and overwritten, write.  The write lock is on the old version and is
\* released through PrevNode of the new one.
FwdWrite(p) ==
  LET b == NextBlock(p)
      n == NextNode(p)
      s == b.dst.sym
      m == last[s]
      E == AddEdge(AddReads(edges, Reads(b), n), m, n, s, TRUE)
      locked == WLock(lock, m)
      prev == PrevNode(E, n, s)
  IN  /\ FwdReady(p)
      /\ Writes(b)
      /\ FwdClear(b)
      /\ mem' = [mem EXCEPT ![b.dst.cell] = NewVal(b)]
      /\ edges' = E
      /\ last' = [last EXCEPT ![s] = n]
      /\ lock' = WUnlock(locked, prev)
      /\ panicked' = (BadEdge(Reads(b), n) \/ WUnlockPanics(locked, prev))
      /\ Advance(p)
      /\ UNCHANGED <<prog, inCall, rev, outcomes>>

\* lock A: record the read, then pin the version.
FwdLock(p) ==
  LET b == NextBlock(p) IN
  /\ FwdReady(p)
  /\ b.kind = "lock"
  /\ Lockable(b.src)
  /\ edges' = AddReads(edges, b.src, NextNode(p))
  /\ lock' = Acquire(b.src)
  /\ panicked' = BadEdge(b.src, NextNode(p))
  /\ Advance(p)
  /\ UNCHANGED <<prog, inCall, last, mem, rev, outcomes>>

\* A mutant: the version stays locked.
FwdUnlockKeeps(p) ==
  LET b == NextBlock(p) IN
  /\ FwdReady(p)
  /\ b.kind = "unlock"
  /\ edges' = AddReads(edges, b.src, NextNode(p))
  /\ panicked' = BadEdge(b.src, NextNode(p))
  /\ Advance(p)
  /\ UNCHANGED <<prog, inCall, last, lock, mem, rev, outcomes>>

\* unlock A: record the read, then release whatever version is current now.
FwdUnlock(p) ==
  LET b == NextBlock(p) IN
  /\ FwdReady(p)
  /\ b.kind = "unlock"
  /\ edges' = AddReads(edges, b.src, NextNode(p))
  /\ lock' = Release(b.src)
  /\ panicked' = (BadEdge(b.src, NextNode(p)) \/ ReleasePanics(b.src))
  /\ Advance(p)
  /\ UNCHANGED <<prog, inCall, last, mem, rev, outcomes>>

\* A block that only reads: print x, or a condition.
FwdRead(p) ==
  LET b == NextBlock(p) IN
  /\ FwdReady(p)
  /\ b.kind = "read"
  /\ edges' = AddReads(edges, b.src, NextNode(p))
  /\ panicked' = BadEdge(b.src, NextNode(p))
  /\ Advance(p)
  /\ UNCHANGED <<prog, inCall, last, lock, mem, rev, outcomes>>

\* call: start the children, then wait for all of them.
FwdFork(p) ==
  /\ FwdReady(p)
  /\ NextBlock(p).kind = "call"
  /\ live' = live \cup NextBlock(p).kids
  /\ inCall' = inCall \cup {p}
  /\ UNCHANGED <<prog, pc, edges, last, lock, mem, rev, panicked, outcomes>>

\* A mutant: a call that waits for the first of its children.
FwdJoinFirst(p) ==
  /\ ~panicked /\ ~rev
  /\ p \in inCall /\ NextBlock(p).kind = "call"
  /\ ~(NextBlock(p).kids \subseteq live)
  /\ inCall' = inCall \ {p}
  /\ Advance(p)
  /\ UNCHANGED <<prog, edges, last, lock, mem, rev, panicked, outcomes>>

FwdJoin(p) ==
  /\ ~panicked /\ ~rev
  /\ p \in inCall /\ NextBlock(p).kind = "call"
  /\ NextBlock(p).kids \cap live = {}
  /\ inCall' = inCall \ {p}
  /\ Advance(p)
  /\ UNCHANGED <<prog, edges, last, lock, mem, rev, panicked, outcomes>>

-----------------------------------------------------------------------------
(* A block backward.  The counter goes down first; no edge is removed. *)

\* The same for the inverse of a write block, the block of node n.
BwdClear(b, n) ==
  /\ b.kind # "upd" => mem[b.dst.cell] = 1 - Awaits(b.kind)
  /\ WLockable(lock, n)

BwdReady(p) ==
  /\ ~panicked /\ rev
  /\ p \in live \ inCall
  /\ pc[p] > 0
  /\ RunnableBwd(edges, pc, PrevNodeOf(p))

\* The counter, and the return after a begin.
Retreat(p) ==
  /\ pc' = [pc EXCEPT ![p] = @ - 1]
  /\ live' = IF PrevBlock(p).first THEN live \ {p} ELSE live

\* The inverse update; the version overwritten becomes current again.  The
\* write lock is on the block's own node.
BwdWrite(p) ==
  LET b == PrevBlock(p)
      n == PrevNodeOf(p)
      s == b.dst.sym
  IN  /\ BwdReady(p)
      /\ Writes(b)
      /\ BwdClear(b, n)
      /\ mem' = [mem EXCEPT ![b.dst.cell] = OldVal(b)]
      /\ last' = [last EXCEPT ![s] = PrevNode(edges, n, s)]
      /\ Retreat(p)
      /\ UNCHANGED <<prog, inCall, edges, lock, rev, panicked, outcomes>>

\* lock A backward releases, unlock A backward acquires.
BwdLock(p) ==
  LET b == PrevBlock(p) IN
  /\ BwdReady(p)
  /\ b.kind = "lock"
  /\ lock' = Release(b.src)
  /\ panicked' = ReleasePanics(b.src)
  /\ Retreat(p)
  /\ UNCHANGED <<prog, inCall, edges, last, mem, rev, outcomes>>

BwdUnlock(p) ==
  LET b == PrevBlock(p) IN
  /\ BwdReady(p)
  /\ b.kind = "unlock"
  /\ Lockable(b.src)
  /\ lock' = Acquire(b.src)
  /\ Retreat(p)
  /\ UNCHANGED <<prog, inCall, edges, last, mem, rev, panicked, outcomes>>

BwdRead(p) ==
  /\ BwdReady(p)
  /\ PrevBlock(p).kind = "read"
  /\ Retreat(p)
  /\ UNCHANGED <<prog, inCall, edges, last, lock, mem, rev, panicked, outcomes>>

BwdFork(p) ==
  /\ BwdReady(p)
  /\ PrevBlock(p).kind = "call"
  /\ pc' = [pc EXCEPT ![p] = @ - 1]
  /\ live' = live \cup PrevBlock(p).kids
  /\ inCall' = inCall \cup {p}
  /\ UNCHANGED <<prog, edges, last, lock, mem, rev, panicked, outcomes>>

\* The counter already points at the call.
BwdJoin(p) ==
  /\ ~panicked /\ rev
  /\ p \in inCall /\ NextBlock(p).kind = "call"
  /\ NextBlock(p).kids \cap live = {}
  /\ inCall' = inCall \ {p}
  /\ live' = IF NextBlock(p).first THEN live \ {p} ELSE live
  /\ UNCHANGED <<prog, pc, edges, last, lock, mem, rev, panicked, outcomes>>

-----------------------------------------------------------------------------
(* The user, at the prompt of the debugger *)

\* Main has returned: the prompt accepts commands.
Stopped == Root \notin live /\ ~panicked
AtEnd == Stopped /\ ~rev
AtStart == Stopped /\ rev

\* bwd (or fwd) and run: main starts again at the other end.
Turn ==
  /\ Stopped
  /\ rev' = ~rev
  /\ live' = {Root}
  /\ outcomes' = IF rev THEN outcomes ELSE outcomes \cup {mem}
  /\ UNCHANGED <<prog, pc, inCall, edges, last, lock, mem, panicked>>

\* deldag, back in the initial state.
DelDag ==
  /\ AtStart
  /\ edges' = {}
  /\ last' = [s \in Sym |-> BOT]
  /\ lock' = [n \in Node |-> 0]
  /\ outcomes' = {}
  /\ UNCHANGED <<prog, pc, live, inCall, mem, rev, panicked>>

-----------------------------------------------------------------------------
(* Specification *)

Init ==
  /\ prog \in Programs
  /\ pc = [p \in Proc |-> 0]
  /\ live = {Root}
  /\ inCall = {}
  /\ edges = {}
  /\ last = [s \in Sym |-> BOT]
  /\ lock = [n \in Node |-> 0]
  /\ mem = InitMem
  /\ rev = FALSE
  /\ panicked = FALSE
  /\ outcomes = {}

Step(p) ==
  \/ FwdWrite(p) \/ FwdLock(p) \/ FwdUnlock(p) \/ FwdRead(p)
  \/ FwdFork(p) \/ FwdJoin(p)
  \/ BwdWrite(p) \/ BwdLock(p) \/ BwdUnlock(p) \/ BwdRead(p)
  \/ BwdFork(p) \/ BwdJoin(p)

Next == (\E p \in Proc : Step(p)) \/ Turn \/ DelDag

Spec == Init /\ [][Next]_vars

\* Every goroutine keeps polling exmut, and Go hands a mutex that was waited
\* for long enough to the first waiter.  The user need not do anything.
FairSpec == Spec /\ \A p \in Proc : WF_vars(Step(p))

-----------------------------------------------------------------------------
(* Properties *)

EdgeType == [src : Node \cup {BOT}, dst : Node, sym : Sym, wt : BOOLEAN]

\* Types.  The DAG's edges join nodes of the program or come from BOT.
TypeOK ==
  /\ prog \in Programs
  /\ pc \in [Proc -> Nat]
  /\ \A p \in Proc : pc[p] <= Len(prog[p])
  /\ live \in SUBSET Proc
  /\ inCall \in SUBSET Proc
  /\ \A p \in inCall : pc[p] < Len(prog[p])
  /\ edges \subseteq EdgeType
  /\ last \in [Sym -> Node \cup {BOT}]
  /\ lock \in [Node -> Int]
  /\ mem \in [Cell -> Val]
  /\ rev \in BOOLEAN
  /\ panicked \in BOOLEAN
  /\ outcomes \subseteq [Cell -> Val]

\* No goroutine panics: every release finds its node locked (dag.go:107, 137)
\* and no edge goes back in the order of a process (dag.go:33).
NoPanic == ~panicked

\* Main returns only when every process has run all its blocks, and comes back
\* to its begin only when every process has undone all of them: the wg.Wait of
\* a call covers the whole subtree, in both directions.
WholeRuns ==
  /\ AtEnd => \A p \in Proc : pc[p] = Len(prog[p])
  /\ AtStart => \A p \in Proc : pc[p] = 0

\* The addresses p holds locked: locked by an earlier block of p and not
\* unlocked since.
Held(p) ==
  {a \in Addr :
     LET Count(kind) == Cardinality({k \in 1 .. pc[p] :
                          prog[p][k].kind = kind /\ a \in prog[p][k].src})
     IN  Count("lock") > Count("unlock")}

\* What a process has locked is read-only until it unlocks it, for everyone
\* and in both directions (comment of LockAddr, symtab.go:145).
LockedReadOnly ==
  [][\A p \in Proc : \A a \in Held(p) \cap Held(p)' :
       mem'[a.cell] = mem[a.cell] /\ last'[a.sym] = last[a.sym]]_vars

\* A version is overwritten by at most one block and a block overwrites at most
\* one version of a variable, over any number of replays.  PrevNode returns
\* the first write edge it finds and relies on there being no other.
OneOverwrite ==
  \A e, f \in edges :
    e.wt /\ f.wt /\ e.sym = f.sym /\ (e.src = f.src \/ e.dst = f.dst) => e = f

\* Backward, a write block is let through only when its own version is the
\* current one: the version it restores is the one it overwrote, and the lock
\* it takes is the lock of the version it removes.
UndoTip ==
  \A p \in Proc :
    BwdReady(p) /\ Writes(PrevBlock(p)) =>
      last[PrevBlock(p).dst.sym] = PrevNodeOf(p)

\* A backward run that reaches the start has restored the initial state: the
\* memory, and the versions.
Restored == AtStart => mem = InitMem /\ \A s \in Sym : last[s] = BOT

\* At both ends of a run no lock is left on any version, though a lock forward is
\* taken on one version and released on whatever version is current then, and
\* taken and released the other way round backward (symtab.go:156, 163).
LocksReturned == Stopped => \A n \in Node : lock[n] = 0

\* Until the DAG is deleted every forward run ends in the same memory, whatever
\* the scheduling of the replay.
OneOutcome == Cardinality(outcomes) <= 1

\* A replayed or reversed block that isRunnable lets through never waits: the
\* DAG alone orders the run, the semaphores and locks are then free.
AdmittedRuns ==
  \A p \in Proc :
    /\ FwdReady(p) /\ Writes(NextBlock(p)) /\ InEdges(edges, NextNode(p)) # {}
         => FwdClear(NextBlock(p))
    /\ BwdReady(p) /\ Writes(PrevBlock(p)) => BwdClear(PrevBlock(p), PrevNodeOf(p))

\* A replay records nothing: edges are added only into a node that had none,
\* and none is lost except by deldag.
ReplayAddsNothing ==
  [][edges' # {} => /\ edges \subseteq edges'
                    /\ \A e \in edges' \ edges : InEdges(edges, e.dst) = {}]_vars

\* execute asks isRunnable once, before the block starts to wait in WaitV,
\* WaitP or WLockAddr with exmut released: what the others do meanwhile does
\* not make the answer wrong.
RunnableStable ==
  [][\A p \in Proc : pc'[p] = pc[p] /\ rev' = rev =>
       /\ FwdReady(p) => RunnableFwd(edges', pc', NextNode(p))
       /\ BwdReady(p) => RunnableBwd(edges', pc', PrevNodeOf(p))]_vars

\* A replay and a backward run end, also where the first run happened to get past
\* locks that can block each other: the DAG admits the order it has recorded
\* and never leaves the processes waiting in a circle.
ReplayFinishes == (~rev /\ outcomes # {}) ~> AtEnd
BwdFinishes == rev ~> AtStart

\* p can take a step: the guards of its actions.
CanMove(p) ==
  \/ /\ FwdReady(p)
     /\ Writes(NextBlock(p)) => FwdClear(NextBlock(p))
     /\ NextBlock(p).kind = "lock" => Lockable(NextBlock(p).src)
  \/ /\ BwdReady(p)
     /\ Writes(PrevBlock(p)) => BwdClear(PrevBlock(p), PrevNodeOf(p))
     /\ PrevBlock(p).kind = "unlock" => Lockable(PrevBlock(p).src)
  \/ ~panicked /\ p \in inCall /\ NextBlock(p).kids \cap live = {}

\* Until main has returned a replay or a backward run can always go on: the DAG
\* never asks for an order in which the processes wait for each other, nor for one
\* that the calls, the locks or the semaphores do not allow.
ReplayMoves ==
  (rev \/ outcomes # {}) /\ Root \in live => \E p \in Proc : CanMove(p)

\* q keeps others out of a: it has a locked, or has taken the semaphore a.
Keeps(q, a) ==
  LET Taken(kind) == Cardinality({k \in 1 .. pc[q] : prog[q][k].kind = kind /\ prog[q][k].dst = a})
  IN  a \in Held(q) \/ Taken("V") > Taken("P")

Stuck == Root \in live /\ ~panicked /\ \A p \in Proc : ~ENABLED Step(p)

\* Nothing stops a first run but processes that keep each other out of what they
\* want to write, and nothing else stops a run: no lock outlives its holder, no
\* wait is for the DAG (WLockAddr, symtab.go:166, has no detection of deadlock).
OnlyCircles ==
  Stuck => /\ ~rev /\ outcomes = {}
           /\ \E S \in SUBSET (live \ inCall) \ {{}} : \A p \in S :
                Writes(NextBlock(p)) /\ \E q \in S : Keeps(q, NextBlock(p).dst)

-----------------------------------------------------------------------------
(* The invariant behind OneOverwrite, UndoTip and ReplayAddsNothing *)

IsNode(n) == n \in Node /\ n[2] < Len(prog[n[1]])
BlockOf(n) == prog[n[1]][n[2] + 1]
WriterOf(n, s) == IsNode(n) /\ Writes(BlockOf(n)) /\ BlockOf(n).dst.sym = s

\* The edges a node gets when it executes for the first time are there.
Recorded(n) ==
  /\ \A a \in Reads(BlockOf(n)) : \E e \in InEdges(edges, n) : e.sym = a.sym /\ ~e.wt
  /\ Writes(BlockOf(n)) => \E e \in InEdges(edges, n) : e.sym = BlockOf(n).dst.sym /\ e.wt

\* An edge into n records an access of n's block, and comes from a writer.
EdgeShape ==
  \A e \in edges :
    /\ e.src # e.dst /\ IsNode(e.dst)
    /\ e.src = BOT \/ WriterOf(e.src, e.sym)
    /\ IF e.wt THEN WriterOf(e.dst, e.sym)
               ELSE \E a \in Reads(BlockOf(e.dst)) : a.sym = e.sym

\* A block reads one version of each variable.
OneRead ==
  \A e, f \in edges : ~e.wt /\ ~f.wt /\ e.sym = f.sym /\ e.dst = f.dst => e = f

\* What an executed block depends on has been executed.
ActiveClosed == \A e \in edges : Active(pc, e.dst) => Active(pc, e.src)

\* m wrote the current version of s: it has been executed, nobody has overwritten
\* it, and the version of every other executed writer has been overwritten.
IsTip(s, m) ==
  /\ m = BOT \/ (WriterOf(m, s) /\ Active(pc, m))
  /\ \A e \in edges : e.wt /\ e.sym = s /\ e.src = m => ~Active(pc, e.dst)
  /\ \A n \in Node \cup {BOT} :
       (n = BOT \/ (WriterOf(n, s) /\ Active(pc, n))) /\ n # m =>
         \E e \in edges : e.wt /\ e.sym = s /\ e.src = n /\ Active(pc, e.dst)

LastIsTip == \A s \in Sym : IsTip(s, last[s])

\* A version is overwritten after every block that reads it has read it.
ReadersFirst ==
  \A e, f \in edges :
    e.wt /\ e.sym = f.sym /\ e.src = f.src /\ Active(pc, e.dst) => Active(pc, f.dst)

\* Either this is the first run and only executed blocks are in the DAG, or the
\* DAG is complete.
Mode ==
  /\ \A n \in Node : IsNode(n) /\ Active(pc, n) => Recorded(n)
  /\ \/ /\ \A e \in edges : Active(pc, e.dst)
        /\ rev => \A p \in Proc : pc[p] = 0
     \/ \A n \in Node : IsNode(n) => Recorded(n)

DagInv ==
  /\ EdgeShape /\ OneRead /\ OneOverwrite
  /\ ActiveClosed /\ LastIsTip /\ ReadersFirst
  /\ Mode
=============================================================================
