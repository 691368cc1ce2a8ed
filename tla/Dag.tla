------------------------------- MODULE Dag -------------------------------
(***************************************************************************)
(* The annotation DAG of the CRIL interpreter (src/runtime/dag.go): what   *)
(* an edge is, how edges are added, which node wrote a version, and when   *)
(* the DAG lets a process execute its next basic block.                    *)
(*                                                                         *)
(* A node is a pair <<process, counter>>: the counter-th block the process *)
(* executes (type dagentry).  BOT is the pseudo-node <<-1, -1>> of the     *)
(* code, the writer of every initial value.  The two adjacency lists of    *)
(* dagedges always hold the same edge twice (addEdge appends to both), so  *)
(* the DAG is a set of edges and the lists are the projections below.      *)
(***************************************************************************)
EXTENDS Integers

CONSTANT BOT  \* the node -1,-1

\* An edge says that dst read (wt = FALSE) or overwrote (wt = TRUE) the
\* version of symbol sym that src had written.
Edge(m, n, s, wt) == [src |-> m, dst |-> n, sym |-> s, wt |-> wt]

InEdges(E, n) == {e \in E : e.dst = n}
OutEdges(E, n) == {e \in E : e.src = n}

\* addEdge: nothing is recorded from a node to itself, and no edge twice.
AddEdge(E, m, n, s, wt) == IF m = n THEN E ELSE E \cup {Edge(m, n, s, wt)}

\* addEdge panics ("It should not happen") on an edge that goes back in the
\* program order of one process.
BackwardsInProcess(m, n) == m # BOT /\ m[1] = n[1] /\ m[2] > n[2]

\* isDagNodeActive: the process has already executed the block and has not
\* undone it.
Active(pc, n) == n # BOT => pc[n[1]] > n[2]

\* PrevNode: the writer of the version of s that n overwrote.  The code takes
\* the first write edge of its list; OneOverwrite in AnnotationDag shows there
\* is never a second one.
PrevNode(E, n, s) ==
  LET W == {e \in InEdges(E, n) : e.wt /\ e.sym = s}
  IN  IF W = {} THEN BOT ELSE (CHOOSE e \in W : TRUE).src

\* Mutants of isRunnable, forward: without the other users of the version, without
\* the writer, without the exception for n itself, and with the test negated.
FwdNoReaders(E, pc, n) == \A e \in InEdges(E, n) : Active(pc, e.src)
FwdNoWriter(E, pc, n) ==
  \A e \in InEdges(E, n) : e.wt => \A f \in OutEdges(E, e.src) :
    f.sym = e.sym /\ f.dst # n => Active(pc, f.dst)
FwdOwnEdge(E, pc, n) ==
  \A e \in InEdges(E, n) :
    /\ Active(pc, e.src)
    /\ e.wt => \A f \in OutEdges(E, e.src) : f.sym = e.sym => Active(pc, f.dst)
FwdNegated(E, pc, n) ==
  \A e \in InEdges(E, n) :
    /\ Active(pc, e.src)
    /\ e.wt => \A f \in OutEdges(E, e.src) :
                 f.sym = e.sym /\ f.dst # n => ~Active(pc, f.dst)

\* isRunnable, forward: every version the block read or overwrote last time is
\* there again, and whoever else used the version it overwrites has used it.
RunnableFwd(E, pc, n) ==
  \A e \in InEdges(E, n) :
    /\ Active(pc, e.src)
    /\ e.wt => \A f \in OutEdges(E, e.src) :
                 f.sym = e.sym /\ f.dst # n => Active(pc, f.dst)

\* Mutants of isRunnable, backward: without the nodes that depend on n, without
\* the writes that hide what n read, and without the exception for n itself.
BwdNoDependents(E, pc, n) ==
  \A e \in InEdges(E, n) :
    ~e.wt => \A f \in OutEdges(E, e.src) :
               f.sym = e.sym /\ f.wt /\ f.dst # n => ~Active(pc, f.dst)
BwdNoHidden(E, pc, n) == \A e \in OutEdges(E, n) : ~Active(pc, e.dst)
BwdOwnEdge(E, pc, n) ==
  /\ \A e \in OutEdges(E, n) : ~Active(pc, e.dst)
  /\ \A e \in InEdges(E, n) :
       ~e.wt => \A f \in OutEdges(E, e.src) :
                  f.sym = e.sym /\ f.wt => ~Active(pc, f.dst)

\* isRunnable, backward: nobody depends on the block any more, and no later
\* write hides a version it read.
RunnableBwd(E, pc, n) ==
  /\ \A e \in OutEdges(E, n) : ~Active(pc, e.dst)
  /\ \A e \in InEdges(E, n) :
       ~e.wt => \A f \in OutEdges(E, e.src) :
                  f.sym = e.sym /\ f.wt /\ f.dst # n => ~Active(pc, f.dst)

-----------------------------------------------------------------------------
(* The lock word of a node: -1 write-locked, 0 free, k > 0 read-locked k    *)
(* times.  BOT has no lock word: every operation on it succeeds at once.    *)

\* LockDagNode succeeds.
RLockable(lock, n) == n # BOT => lock[n] >= 0

\* WLockDagNode succeeds, and its effect.
WLockable(lock, n) == n # BOT => lock[n] = 0
WLock(lock, n) == IF n = BOT THEN lock ELSE [lock EXCEPT ![n] = -1]

\* WUnlockDagNode panics on a node that is not write-locked; its effect.
WUnlockPanics(lock, n) == n # BOT /\ lock[n] >= 0
WUnlock(lock, n) == IF n = BOT THEN lock ELSE [lock EXCEPT ![n] = @ + 1]
=============================================================================
