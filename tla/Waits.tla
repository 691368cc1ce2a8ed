------------------------------- MODULE Waits --------------------------------
(***************************************************************************)
(* AnnotationDag with the wait loops as steps (src/runtime: symtab.go      *)
(* WaitV, WaitP and WLockAddr, pc.go execute and executeBlock).            *)
(*                                                                         *)
(* A block that has to wait releases exmut in the middle.  isRunnable has  *)
(* admitted it before, and is not asked again when the wait ends; the      *)
(* index of an array element, resolved when the instruction is set up, and *)
(* the condition of the entry line have been read before, with their edges *)
(* recorded, while the rest is read afterwards.                            *)
(*                                                                         *)
(* The DAG of the interpreter is in two parts here: edges holds what       *)
(* blocks that are done have recorded, ahead what waiting blocks have.     *)
(***************************************************************************)
EXTENDS Locks

CONSTANT Early  \* the addresses that blocks read as an index or at their entry

\* What a block may wait with is locked by its own process: the compiler locks the
\* variables of a statement before its first block and unlocks them after its last
\* (lockrecord and unlockrecord, compiler/parser.go:816 and 984).
ASSUME EarlyAssumption ==
  /\ Early \subseteq Addr
  /\ \A P \in Programs : \A p \in Proc : \A k \in DOMAIN P[p] : Writes(P[p][k]) =>
       \A a \in P[p][k].src \cap Early :
         \E j \in 1 .. k - 1 :
           /\ P[p][j].kind = "lock" /\ a \in P[p][j].src
           /\ \A i \in j + 1 .. k - 1 : ~(P[p][i].kind = "unlock" /\ a \in P[p][i].src)

VARIABLES
  early,  \* the processes that wait in the middle of a block, each with what it has read
  ahead   \* the edges their blocks have recorded so far

wvars == <<lvars, early, ahead>>

Waiting == DOMAIN early

WholeDag == edges \cup ahead

\* A mutant: the whole expression is evaluated when the instruction is set up.
ReadAll(b) == b.src

\* What block b reads before it waits.
ReadFirst(b) == b.src \cap Early

\* isRunnable, with what the waiting blocks have recorded.  More edges forbid more:
\* FwdReady and BwdReady, which look at the other edges, follow from it.
Admitted(p) ==
  IF rev THEN RunnableBwd(WholeDag, pc, PrevNodeOf(p)) ELSE RunnableFwd(WholeDag, pc, NextNode(p))

\* The block of p is admitted, reads ahead, and has to wait.
Prepare(p) ==
  LET b == NextBlock(p)
      n == NextNode(p)
  IN  /\ FwdReady(p) /\ Admitted(p) /\ p \notin Waiting
      /\ Writes(b)
      /\ ~FwdClear(b)
      /\ ahead' = AddReads(ahead, ReadFirst(b), n)
      /\ early' = [q \in Waiting \cup {p} |->
                     IF q = p THEN [a \in ReadFirst(b) |-> mem[a.cell]] ELSE early[q]]
      /\ panicked' = BadEdge(ReadFirst(b), n)
      /\ UNCHANGED <<prog, pc, live, inCall, edges, last, lock, mem, rev, outcomes, log>>

\* What the block leaves, with what it read ahead.
LateVal(b, read) ==
  IF b.kind = "upd"
  THEN Upd(b.op, mem[b.dst.cell],
           Eval(b.fn, [a \in b.src |-> IF a \in DOMAIN read THEN read[a] ELSE mem[a.cell]]))
  ELSE 1 - Awaits(b.kind)

\* A mutant: the process takes what it reads ahead for read already, and does not
\* wait for the readers of what it overwrites.
ResumeAtOnce(p) ==
  LET b == NextBlock(p)
      n == NextNode(p)
      s == b.dst.sym
      mine == InEdges(ahead, n)
      E == AddEdge(AddReads(edges \cup mine, Reads(b) \ ReadFirst(b), n), last[s], n, s, TRUE)
  IN  /\ ~panicked /\ ~rev /\ p \in Waiting
      /\ b.kind # "upd" => mem[b.dst.cell] = Awaits(b.kind)
      /\ mem' = [mem EXCEPT ![b.dst.cell] = LateVal(b, early[p])]
      /\ edges' = E
      /\ ahead' = ahead \ mine
      /\ last' = [last EXCEPT ![s] = n]
      /\ early' = [q \in Waiting \ {p} |-> early[q]]
      /\ Advance(p)
      /\ Note(p)
      /\ UNCHANGED <<prog, inCall, lock, rev, panicked, outcomes>>

\* The wait is over: the rest of FwdWrite.
Resume(p) ==
  LET b == NextBlock(p)
      n == NextNode(p)
      s == b.dst.sym
      m == last[s]
      late == Reads(b) \ ReadFirst(b)
      mine == InEdges(ahead, n)
      E == AddEdge(AddReads(edges \cup mine, late, n), m, n, s, TRUE)
      locked == WLock(lock, m)
      prev == PrevNode(E, n, s)
  IN  /\ ~panicked /\ ~rev /\ p \in Waiting
      /\ FwdClear(b)
      /\ mem' = [mem EXCEPT ![b.dst.cell] = LateVal(b, early[p])]
      /\ edges' = E
      /\ ahead' = ahead \ mine
      /\ last' = [last EXCEPT ![s] = n]
      /\ lock' = WUnlock(locked, prev)
      /\ panicked' = (BadEdge(late, n) \/ WUnlockPanics(locked, prev))
      /\ early' = [q \in Waiting \ {p} |-> early[q]]
      /\ Advance(p)
      /\ Note(p)
      /\ UNCHANGED <<prog, inCall, rev, outcomes>>

\* Backward nobody waits (AdmittedRuns), and a call that waits asks nobody.
WStep(p) ==
  \/ Prepare(p)
  \/ Resume(p)
  \/ /\ p \notin Waiting /\ (p \notin inCall => Admitted(p))
     /\ LStep(p)
     /\ UNCHANGED <<early, ahead>>

WInit == LInit /\ early = << >> /\ ahead = {}

WNext ==
  \/ \E p \in Proc : WStep(p)
  \/ Turn /\ UNCHANGED <<log, early, ahead>>
  \/ DelDag /\ log' = {} /\ ahead' = {} /\ early' = early

WSpec == WInit /\ [][WNext]_wvars

-----------------------------------------------------------------------------
(* Properties *)

\* A block that waits in the middle does what it would do as one step at the end of
\* its wait: the permission of isRunnable still holds then, and what it read ahead
\* is still so, because the compiler locks what an expression reads around the
\* update (execute, pc.go:101; the index, expr.go:1083; the entry, runtime.go:542).
\* The edges it has recorded count from then on.
WaitsAreAtomic == LSpec

\* What a process has read ahead does not change while it waits, and nobody
\* overwrites the version its edge names.
EarlyStays ==
  \A p \in Waiting : \A a \in DOMAIN early[p] :
    /\ mem[a.cell] = early[p][a]
    /\ \A e \in InEdges(WholeDag, NextNode(p)) : e.sym = a.sym => e.src = last[a.sym]
=============================================================================
