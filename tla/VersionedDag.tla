---------------------------- MODULE VersionedDag ----------------------------
(***************************************************************************)
(* AnnotationDag with a history variable: the log of VersionStore.  The    *)
(* interpreter has no such log; it is written here when a block writes for *)
(* the first time, and then only compared with.                            *)
(***************************************************************************)
EXTENDS CallTree

CONSTANT NameOf  \* NameOf[c]: the name under which the DAG records cell c

\* A cell has one name.  The run "aliases" shows what happens otherwise.
ASSUME NameAssumption ==
  /\ NameOf \in [Cell -> Sym]
  /\ \A P \in Programs : \A p \in Proc : \A k \in DOMAIN P[p] :
       \A a \in Reads(P[p][k]) : NameOf[a.cell] = a.sym

VARIABLE log  \* history: the versions written since the DAG was deleted

lvars == <<vars, log>>

Store == INSTANCE VersionStore WITH Version <- Node, None <- BOT, cur <- last

\* The first execution of a block that writes.
Note(p) ==
  LET n == NextNode(p)
      s == NextBlock(p).dst.sym
  IN  log' = IF \E l \in log : l.ver = n THEN log
             ELSE log \cup {Store!Entry(n, s, last[s], Store!Image(s, mem'))}

LStep(p) ==
  \/ FwdWrite(p) /\ Note(p)
  \/ /\ \/ FwdLock(p) \/ FwdUnlock(p) \/ FwdRead(p) \/ FwdFork(p) \/ FwdJoin(p)
        \/ BwdWrite(p) \/ BwdLock(p) \/ BwdUnlock(p) \/ BwdRead(p) \/ BwdFork(p) \/ BwdJoin(p)
     /\ log' = log

LInit == Init /\ log = {}

LNext ==
  \/ \E p \in Proc : LStep(p)
  \/ Turn /\ log' = log
  \/ DelDag /\ log' = {}

LSpec == LInit /\ [][LNext]_lvars

LFairSpec == LSpec /\ \A p \in Proc : WF_lvars(LStep(p))

-----------------------------------------------------------------------------
(* Properties *)

\* The DAG and the inverse operators together do what a log would: a block that
\* is undone leaves in its variable exactly what was there before it ran first,
\* and a block that is replayed exactly what it left then, however the processes
\* interleave (isRunnable, dag.go:153, and WriteAddr, symtab.go:233).
KeepsVersions == Store!Spec

\* What the log says of the DAG: an entry is a write edge, memory holds the current
\* versions, and each version is what its block makes of the versions it read.
ImageOf(s, m) ==
  IF m = BOT THEN Store!Image(s, InitMem) ELSE (CHOOSE l \in log : l.ver = m).img

Computed(l) ==
  LET b == BlockOf(l.ver)
      old == ImageOf(l.sym, l.over)[b.dst.cell]
      new == l.img[b.dst.cell]
  IN  /\ \A c \in Store!CellsOf(l.sym) \ {b.dst.cell} : l.img[c] = ImageOf(l.sym, l.over)[c]
      /\ IF b.kind = "upd"
         THEN \E vals \in [b.src -> Val] :
                /\ \A a \in b.src : \A e \in InEdges(edges, l.ver) :
                     ~e.wt /\ e.sym = a.sym => vals[a] = ImageOf(a.sym, e.src)[a.cell]
                /\ new = Upd(b.op, old, Eval(b.fn, vals))
         ELSE old = Awaits(b.kind) /\ new = 1 - Awaits(b.kind)

LogInv ==
  /\ \A l \in log : Edge(l.over, l.ver, l.sym, TRUE) \in edges
  /\ \A l \in log : l.img \in [Store!CellsOf(l.sym) -> Val]
  /\ \A e \in edges : e.wt => \E l \in log : l.ver = e.dst /\ l.sym = e.sym
  /\ \A l, k \in log : l.ver = k.ver => l = k
  /\ \A s \in Sym : Store!Image(s, mem) = ImageOf(s, last[s])
  /\ \A l \in log : Computed(l)
=============================================================================
