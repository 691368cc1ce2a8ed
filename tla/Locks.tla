------------------------------- MODULE Locks --------------------------------
(***************************************************************************)
(* Who holds which version: the lock words of the DAG's nodes              *)
(* (src/runtime/dag.go, LockDagNode to WUnlockDagNode) against what the    *)
(* processes have locked and not yet unlocked.                             *)
(*                                                                         *)
(* A lock is taken on the version that is current then and released on the *)
(* one that is current then; no word says who has it.                      *)
(***************************************************************************)
EXTENDS VersionedDag

\* How often the first k blocks of p lock (or unlock) a.
Times(P, p, k, kind, a) ==
  Cardinality({j \in 1 .. k : P[p][j].kind = kind /\ a \in P[p][j].src})

\* Locks are taken and given back in turn, and all given back at the end: the
\* compiler writes both around a statement.
ASSUME PairAssumption ==
  /\ IsFiniteSet(Proc)
  /\ \A P \in Programs : \A p \in Proc : \A a \in Addr :
       /\ \A k \in 0 .. Len(P[p]) :
            Times(P, p, k, "lock", a) - Times(P, p, k, "unlock", a) \in {0, 1}
       /\ Times(P, p, Len(P[p]), "lock", a) = Times(P, p, Len(P[p]), "unlock", a)

\* Main has called nobody when it has executed j blocks.
Alone(P, j) ==
  /\ \A i \in 1 .. j : P[Root][i].kind # "call"
  /\ \A c \in Proc \ {Root} : Caller(c) = Root => \A i \in 0 .. j : Mark(P, c, i) = 0

\* What is locked has been written: by main, before it calls anybody.  The run
\* "uninitialised" shows what happens otherwise.
ASSUME WrittenAssumption ==
  \A P \in Programs : \A p \in Proc : \A k \in DOMAIN P[p] : P[p][k].kind = "lock" =>
    \A a \in P[p][k].src :
      \E j \in DOMAIN P[Root] :
        /\ Writes(P[Root][j]) /\ P[Root][j].dst.sym = a.sym
        /\ Alone(P, j)
        /\ p = Root => j < k

-----------------------------------------------------------------------------
(* Properties *)

\* Who holds what.
Holding == UNION {{p} \X Held(p) : p \in Proc}

\* Those of H that hold version n.
On(H, n) == {h \in H : last[h[2].sym] = n}

\* Every lock word counts the holders of its version, in both directions and over
\* any number of replays: nothing is released that nobody holds, and no version is
\* overwritten with a lock left behind on it (LockAddr, UnlockAddr,
\* symtab.go:144-165).
LockCount ==
  LET H == Holding
  IN  /\ \A h \in H : last[h[2].sym] # BOT
      /\ \A n \in Node : lock[n] = Cardinality(On(H, n))
=============================================================================
