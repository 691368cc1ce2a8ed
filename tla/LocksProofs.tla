---------------------------- MODULE LocksProofs -----------------------------
(***************************************************************************)
(* Every lock word counts the holders of its version, so no goroutine      *)
(* panics, no lock is left behind and what is locked is read-only: for     *)
(* every program that takes and gives back its locks in turn and has       *)
(* written what it locks.                                                  *)
(***************************************************************************)
EXTENDS Locks, VersionedDagProofs

-----------------------------------------------------------------------------
(* What a process holds, by the number of its blocks executed *)

\* One more block locks or unlocks an address once more or not at all.
LEMMA TimesNext ==
  ASSUME NEW P \in Programs, NEW p \in Proc, NEW k \in Nat, NEW kind, NEW a
  PROVE  /\ Times(P, p, k, kind, a) \in Nat
         /\ Times(P, p, 0, kind, a) = 0
         /\ P[p][k + 1].kind = kind /\ a \in P[p][k + 1].src =>
              Times(P, p, k + 1, kind, a) = Times(P, p, k, kind, a) + 1
         /\ ~(P[p][k + 1].kind = kind /\ a \in P[p][k + 1].src) =>
              Times(P, p, k + 1, kind, a) = Times(P, p, k, kind, a)
<1> DEFINE S(i) == {j \in 1 .. i : P[p][j].kind = kind /\ a \in P[p][j].src}
<1>1. \A i : Times(P, p, i, kind, a) = Cardinality(S(i))
  BY DEF Times
<1>2. IsFiniteSet(S(k)) /\ Cardinality(S(k)) \in Nat
  <2>1. S(k) \in SUBSET (1 .. k) /\ IsFiniteSet(1 .. k)
    BY FS_Interval
  <2> HIDE DEF S
  <2>2. IsFiniteSet(S(k))
    BY <2>1, FS_Subset
  <2> QED BY <2>2, FS_CardinalityType
<1>3. Cardinality(S(0)) = 0
  <2>1. S(0) = {}
    OBVIOUS
  <2> QED BY <2>1, FS_EmptySet
<1>4. ASSUME P[p][k + 1].kind = kind /\ a \in P[p][k + 1].src
      PROVE  Cardinality(S(k + 1)) = Cardinality(S(k)) + 1
  <2>1. S(k + 1) = S(k) \cup {k + 1} /\ k + 1 \notin S(k)
    BY <1>4
  <2> HIDE DEF S
  <2> QED BY <1>2, <2>1, FS_AddElement
<1>5. ASSUME ~(P[p][k + 1].kind = kind /\ a \in P[p][k + 1].src)
      PROVE  S(k + 1) = S(k)
  BY <1>5
<1> HIDE DEF S
<1> QED BY <1>1, <1>2, <1>3, <1>4, <1>5

HeldAt(P, p, k) == {a \in Addr : Times(P, p, k, "lock", a) > Times(P, p, k, "unlock", a)}

\* Nothing is held before the first block and after the last one.
LEMMA HeldAtEnds ==
  ASSUME NEW P \in Programs, NEW p \in Proc
  PROVE  HeldAt(P, p, 0) = {} /\ HeldAt(P, p, Len(P[p])) = {}
<1>1. ASSUME NEW a \in Addr PROVE a \notin HeldAt(P, p, 0)
  BY <1>1, TimesNext DEF HeldAt
<1>2. ASSUME NEW a \in Addr PROVE a \notin HeldAt(P, p, Len(P[p]))
  <2>1. Len(P[p]) \in Nat
    BY ProgramAssumption
  <2>2. Times(P, p, Len(P[p]), "lock", a) \in Nat
    BY <2>1, TimesNext
  <2>3. Times(P, p, Len(P[p]), "lock", a) = Times(P, p, Len(P[p]), "unlock", a)
    BY PairAssumption
  <2> QED BY <2>2, <2>3 DEF HeldAt
<1> QED BY <1>1, <1>2 DEF HeldAt

\* A lock block adds what it locks, an unlock block takes it away.
LEMMA HeldNext ==
  ASSUME NEW P \in Programs, NEW p \in Proc, NEW k \in Nat, k < Len(P[p]),
         NEW b, b = P[p][k + 1]
  PROVE  /\ b.src \subseteq Addr
         /\ b.kind = "lock" => /\ HeldAt(P, p, k + 1) = HeldAt(P, p, k) \cup b.src
                               /\ HeldAt(P, p, k) \cap b.src = {}
         /\ b.kind = "unlock" => /\ HeldAt(P, p, k) = HeldAt(P, p, k + 1) \cup b.src
                                 /\ HeldAt(P, p, k + 1) \cap b.src = {}
         /\ b.kind \notin {"lock", "unlock"} => HeldAt(P, p, k + 1) = HeldAt(P, p, k)
<1>1. Len(P[p]) \in Nat /\ k \in 0 .. Len(P[p]) /\ k + 1 \in 0 .. Len(P[p])
  BY ProgramAssumption
<1>2. b.src \subseteq Addr
  <2>1. P[p] \in Seq(Block) /\ k + 1 \in 1 .. Len(P[p])
    BY <1>1, ProgramAssumption
  <2>2. P[p][k + 1] \in Block
    BY <2>1
  <2> QED BY <2>2 DEF Block
<1>3. ASSUME NEW a \in Addr
      PROVE  /\ b.kind = "lock" /\ a \in b.src =>
                  a \in HeldAt(P, p, k + 1) /\ a \notin HeldAt(P, p, k)
             /\ b.kind = "unlock" /\ a \in b.src =>
                  a \in HeldAt(P, p, k) /\ a \notin HeldAt(P, p, k + 1)
             /\ b.kind \notin {"lock", "unlock"} \/ a \notin b.src =>
                  (a \in HeldAt(P, p, k + 1) <=> a \in HeldAt(P, p, k))
  <2>1. PICK l0, u0, l1, u1 :
          /\ l0 = Times(P, p, k, "lock", a) /\ u0 = Times(P, p, k, "unlock", a)
          /\ l1 = Times(P, p, k + 1, "lock", a) /\ u1 = Times(P, p, k + 1, "unlock", a)
    OBVIOUS
  <2>2. l0 \in Nat /\ u0 \in Nat
    BY <2>1, TimesNext
  <2>3. l0 - u0 \in {0, 1} /\ l1 - u1 \in {0, 1}
    BY <1>1, <2>1, PairAssumption
  <2>4. /\ a \in HeldAt(P, p, k) <=> l0 > u0
        /\ a \in HeldAt(P, p, k + 1) <=> l1 > u1
    BY <2>1 DEF HeldAt
  <2>5. /\ b.kind = "lock" /\ a \in b.src => l1 = l0 + 1
        /\ ~(b.kind = "lock" /\ a \in b.src) => l1 = l0
    BY SMTT(30), <2>1, TimesNext
  <2>6. /\ b.kind = "unlock" /\ a \in b.src => u1 = u0 + 1
        /\ ~(b.kind = "unlock" /\ a \in b.src) => u1 = u0
    BY SMTT(30), <2>1, TimesNext
  <2>7. CASE b.kind = "lock" /\ a \in b.src
    <3>1. b.kind # "unlock"
      BY <2>7
    <3>2. l1 = l0 + 1 /\ u1 = u0
      BY <2>5, <2>6, <2>7, <3>1
    <3>3. l1 > u1 /\ ~(l0 > u0)
      BY <2>2, <2>3, <3>2
    <3> QED BY <2>4, <2>7, <3>1, <3>3
  <2>8. CASE b.kind = "unlock" /\ a \in b.src
    <3>1. b.kind # "lock"
      BY <2>8
    <3>2. l1 = l0 /\ u1 = u0 + 1
      BY <2>5, <2>6, <2>8, <3>1
    <3>3. l0 > u0 /\ ~(l1 > u1)
      BY <2>2, <2>3, <3>2
    <3> QED BY <2>4, <2>8, <3>1, <3>3
  <2>9. CASE b.kind \notin {"lock", "unlock"} \/ a \notin b.src
    <3>1. l1 = l0 /\ u1 = u0
      BY <2>5, <2>6, <2>9
    <3> QED BY <2>4, <2>9, <3>1
  <2> QED BY <2>7, <2>8, <2>9
<1>4. HeldAt(P, p, k) \subseteq Addr /\ HeldAt(P, p, k + 1) \subseteq Addr
  BY DEF HeldAt
<1> QED BY <1>2, <1>3, <1>4

-----------------------------------------------------------------------------
(* Who holds what *)

HoldingOf(P, c) == {h \in Proc \X Addr : h[2] \in HeldAt(P, h[1], c[h[1]])}

LEMMA HoldingIs == Holding = HoldingOf(prog, pc) /\ Holding' = HoldingOf(prog', pc')
<1>1. \A q \in Proc : Held(q) = HeldAt(prog, q, pc[q]) /\ Held(q) \subseteq Addr
  BY DEF Held, HeldAt, Times
<1>2. \A q \in Proc : Held(q)' = HeldAt(prog', q, pc'[q]) /\ Held(q)' \subseteq Addr
  BY DEF Held, HeldAt, Times, Addr
<1>3. Holding = HoldingOf(prog, pc)
  BY <1>1 DEF Holding, HoldingOf
<1>4. Holding' = HoldingOf(prog', pc')
  BY <1>2 DEF Holding, HoldingOf
<1> QED BY <1>3, <1>4

\* There are finitely many holders.
LEMMA HoldersFinite ==
  ASSUME NEW H \in SUBSET (Proc \X Addr), NEW n
  PROVE  IsFiniteSet(On(H, n)) /\ Cardinality(On(H, n)) \in Nat
<1>1. IsFiniteSet(Proc \X Addr)
  BY AddrFinite, PairAssumption, FS_Product
<1>2. On(H, n) \in SUBSET (Proc \X Addr)
  BY DEF On
<1>3. IsFiniteSet(On(H, n))
  BY <1>1, <1>2, FS_Subset
<1> QED BY <1>3, FS_CardinalityType

\* A process that locks A adds as many holders to a version as A has addresses of
\* it.
LEMMA HoldersGrow ==
  ASSUME NEW H \in SUBSET (Proc \X Addr), NEW p \in Proc, NEW A \in SUBSET Addr,
         H \cap ({p} \X A) = {}, NEW n
  PROVE  /\ Cardinality(On(H \cup ({p} \X A), n)) = Cardinality(On(H, n)) + Pins(A, n)
         /\ Cardinality(On(H, n)) \in Nat /\ Pins(A, n) \in Nat
<1> DEFINE B == {a \in A : last[a.sym] = n}
<1>1. PICK C, D : C = {p} \X A /\ D = {p} \X B
  OBVIOUS
<1>2. /\ On(H \cup C, n) = On(H, n) \cup D
      /\ On(H, n) \cap D = {}
  <2>1. D \subseteq C /\ \A h \in C : last[h[2].sym] = n <=> h \in D
    BY <1>1
  <2>2. H \cap C = {}
    BY <1>1
  <2> QED BY <2>1, <2>2 DEF On
<1>3. IsFiniteSet(B) /\ Cardinality(B) \in Nat
  <2>1. B \in SUBSET Addr
    OBVIOUS
  <2> HIDE DEF B
  <2>2. IsFiniteSet(B)
    BY <2>1, AddrFinite, FS_Subset
  <2> QED BY <2>2, FS_CardinalityType
<1>4. Pins(A, n) = Cardinality(B)
  BY DEF Pins
<1> HIDE DEF B
<1>5. IsFiniteSet({p}) /\ Cardinality({p}) = 1
  BY FS_Singleton
<1>6. IsFiniteSet(D) /\ Cardinality(D) = Cardinality(B)
  <2>1. IsFiniteSet({p} \X B) /\ Cardinality({p} \X B) = Cardinality({p}) * Cardinality(B)
    BY <1>3, <1>5, FS_Product
  <2> QED BY <1>1, <1>3, <1>5, <2>1
<1>7. IsFiniteSet(On(H, n)) /\ Cardinality(On(H, n)) \in Nat
  BY HoldersFinite
<1>8. Cardinality(On(H, n) \cup D)
        = Cardinality(On(H, n)) + Cardinality(D) - Cardinality(On(H, n) \cap D)
  BY <1>6, <1>7, FS_Union
<1>9. Cardinality(On(H, n) \cap D) = 0
  BY <1>2, FS_EmptySet
<1>10. Cardinality(On(H \cup C, n)) = Cardinality(On(H, n)) + Cardinality(B)
  <2>1. PICK i, j, k, l : /\ i = Cardinality(On(H, n) \cup D) /\ j = Cardinality(On(H, n))
                          /\ k = Cardinality(D) /\ l = Cardinality(On(H, n) \cap D)
    OBVIOUS
  <2>2. i = j + k - l /\ j \in Nat /\ k \in Nat /\ l = 0
    BY <1>3, <1>6, <1>7, <1>8, <1>9, <2>1
  <2>3. i = j + k
    BY <2>2
  <2> QED BY <1>2, <1>6, <2>1, <2>3
<1> QED BY <1>1, <1>3, <1>4, <1>7, <1>10

\* A block executed adds what it locks to what is held or takes away what it
\* unlocks.
LEMMA HoldingNext ==
  ASSUME prog \in Programs, NEW p \in Proc, NEW c \in [Proc -> Nat], c[p] < Len(prog[p]),
         NEW b, b = prog[p][c[p] + 1], NEW d,
         d[p] = c[p] + 1, \A q \in Proc : q # p => d[q] = c[q]
  PROVE  LET H == HoldingOf(prog, c)
             G == HoldingOf(prog, d)
         IN  /\ b.kind = "lock" => G = H \cup ({p} \X b.src) /\ H \cap ({p} \X b.src) = {}
             /\ b.kind = "unlock" => H = G \cup ({p} \X b.src) /\ G \cap ({p} \X b.src) = {}
             /\ b.kind \notin {"lock", "unlock"} => G = H
             /\ H \in SUBSET (Proc \X Addr) /\ G \in SUBSET (Proc \X Addr)
             /\ b.src \in SUBSET Addr
<1>1. PICK X, Y : X = HeldAt(prog, p, c[p]) /\ Y = HeldAt(prog, p, c[p] + 1)
  OBVIOUS
<1>2. PICK H, G : H = HoldingOf(prog, c) /\ G = HoldingOf(prog, d)
  OBVIOUS
<1>3. /\ b.src \subseteq Addr
      /\ b.kind = "lock" => Y = X \cup b.src /\ X \cap b.src = {}
      /\ b.kind = "unlock" => X = Y \cup b.src /\ Y \cap b.src = {}
      /\ b.kind \notin {"lock", "unlock"} => Y = X
  <2>1. PICK k \in Nat : k = c[p]
    OBVIOUS
  <2>2. b = prog[p][k + 1] /\ k < Len(prog[p])
    BY <2>1
  <2>3. X = HeldAt(prog, p, k) /\ Y = HeldAt(prog, p, k + 1)
    BY <1>1, <2>1
  <2> QED BY SMTT(30), <2>1, <2>2, <2>3, HeldNext
<1>5. H \subseteq Proc \X Addr /\ G \subseteq Proc \X Addr
  BY <1>2 DEF HoldingOf
<1>6. ASSUME NEW q \in Proc, NEW a \in Addr
      PROVE  /\ q = p => (<<q, a>> \in H <=> a \in X) /\ (<<q, a>> \in G <=> a \in Y)
             /\ q # p => (<<q, a>> \in G <=> <<q, a>> \in H)
  BY <1>1, <1>2 DEF HoldingOf
<1>7. \A h \in Proc \X Addr : \E q \in Proc, a \in Addr : h = <<q, a>>
  OBVIOUS
<1>8. CASE b.kind = "lock"
  <2>1. \A q \in Proc, a \in Addr :
          /\ <<q, a>> \in G <=> <<q, a>> \in H \/ <<q, a>> \in {p} \X b.src
          /\ ~(<<q, a>> \in H /\ <<q, a>> \in {p} \X b.src)
    BY <1>3, <1>6, <1>8
  <2>2. {p} \X b.src \subseteq Proc \X Addr
    BY <1>3
  <2>3. G = H \cup ({p} \X b.src) /\ H \cap ({p} \X b.src) = {}
    <3>1. PICK K : K = {p} \X b.src
      OBVIOUS
    <3>2. G = H \cup K /\ H \cap K = {}
      BY <1>5, <1>7, <2>1, <2>2, <3>1
    <3> QED BY <3>1, <3>2
  <2>4. b.kind # "unlock"
    BY <1>8
  <2> QED BY <1>2, <1>3, <1>5, <1>8, <2>3, <2>4
<1>9. CASE b.kind = "unlock"
  <2>1. \A q \in Proc, a \in Addr :
          /\ <<q, a>> \in H <=> <<q, a>> \in G \/ <<q, a>> \in {p} \X b.src
          /\ ~(<<q, a>> \in G /\ <<q, a>> \in {p} \X b.src)
    BY <1>3, <1>6, <1>9
  <2>2. {p} \X b.src \subseteq Proc \X Addr
    BY <1>3
  <2>3. H = G \cup ({p} \X b.src) /\ G \cap ({p} \X b.src) = {}
    <3>1. PICK K : K = {p} \X b.src
      OBVIOUS
    <3>2. H = G \cup K /\ G \cap K = {}
      BY <1>5, <1>7, <2>1, <2>2, <3>1
    <3> QED BY <3>1, <3>2
  <2>4. b.kind # "lock"
    BY <1>9
  <2> QED BY <1>2, <1>3, <1>5, <1>9, <2>3, <2>4
<1>10. CASE b.kind \notin {"lock", "unlock"}
  <2>1. \A q \in Proc, a \in Addr : <<q, a>> \in G <=> <<q, a>> \in H
    BY <1>3, <1>6, <1>10
  <2>2. \A h \in Proc \X Addr : h \in G <=> h \in H
    BY <1>7, <2>1
  <2>3. G = H
    BY <1>5, <2>2
  <2> QED BY <1>2, <1>3, <1>5, <1>10, <2>3
<1> QED BY <1>8, <1>9, <1>10

-----------------------------------------------------------------------------
(* What is held has been written *)

\* The versions of a variable that have been written do not overwrite each other
\* in a circle.
NoCircle ==
  \A s \in Sym : \A S \in SUBSET Node :
    S # {} /\ (\A n \in S : Active(pc, n)) =>
      \E n \in S : \A e \in edges : e.wt /\ e.sym = s /\ e.src = n => e.dst \notin S

\* Only the node of a block that executes forward is new, and nothing that has
\* been executed overwrites its version.
LEMMA NoCircleStep ==
  TypeOK /\ TypeOK' /\ WholeRuns /\ DagInv /\ NoCircle /\ [Next]_vars => NoCircle'
<1> SUFFICES ASSUME TypeOK, TypeOK', WholeRuns, DagInv, NoCircle, [Next]_vars PROVE NoCircle'
  OBVIOUS
<1>1. ASSUME edges' = edges, \A n \in Node : Active(pc', n) => Active(pc, n) PROVE NoCircle'
  BY <1>1 DEF NoCircle
<1>2. ASSUME NEW p \in Proc,
             FwdWrite(p) \/ FwdLock(p) \/ FwdUnlock(p) \/ FwdRead(p) \/ FwdJoin(p)
      PROVE  NoCircle'
  <2>1. PICK n \in Node : n = NextNode(p)
    BY <1>2, ForwardSteps, BlockTypes
  <2>2. ~Active(pc, n) /\ \A t \in Sym : last[t] # n
    BY <1>2, <2>1, ForwardSteps, NextInactive DEF DagInv
  <2>3. \A k \in Node : Active(pc', k) <=> Active(pc, k) \/ k = n
    BY <1>2, <2>1, ForwardSteps, ActiveStep
  <2>4. edges \subseteq edges' /\ \A e \in edges' \ edges : e.dst = n /\ e.src # n
    <3>1. /\ edges \subseteq edges'
          /\ \A e \in edges' \ edges : e.dst = n /\ e.src = last[e.sym]
      BY <1>2, <2>1, <2>2, ForwardSteps, BlockEdgesShape
    <3>2. \A e \in edges' : e.sym \in Sym
      BY DEF TypeOK, EdgeType
    <3> QED BY <2>2, <3>1, <3>2
  <2>5. ASSUME NEW e \in edges', e.src = n PROVE ~Active(pc, e.dst) /\ e.dst # n
    <3>1. e \in edges
      BY <2>4, <2>5
    <3>2. e.dst # n
      BY <2>5, <3>1 DEF DagInv, EdgeShape
    <3>3. ~Active(pc, e.dst)
      BY <2>2, <2>5, <3>1 DEF DagInv, ActiveClosed
    <3> QED BY <3>2, <3>3
  <2> SUFFICES ASSUME NEW s \in Sym, NEW S \in SUBSET Node, S # {}, \A k \in S : Active(pc', k)
               PROVE  \E k \in S : \A e \in edges' : e.wt /\ e.sym = s /\ e.src = k => e.dst \notin S
    BY DEF NoCircle
  <2>6. CASE n \in S
    <3>1. \A e \in edges' : e.src = n => e.dst \notin S
      BY <2>3, <2>5
    <3> QED BY <2>6, <3>1
  <2>7. CASE n \notin S
    <3>1. \A k \in S : Active(pc, k)
      BY <2>3, <2>7
    <3>2. PICK k \in S : \A e \in edges : e.wt /\ e.sym = s /\ e.src = k => e.dst \notin S
      BY <3>1 DEF NoCircle
    <3> QED BY <2>4, <2>7, <3>2
  <2> QED BY <2>6, <2>7
<1>3. ASSUME NEW p \in Proc,
             BwdWrite(p) \/ BwdLock(p) \/ BwdUnlock(p) \/ BwdRead(p) \/ BwdFork(p)
      PROVE  NoCircle'
  <2>1. edges' = edges /\ \A n \in Node : Active(pc', n) => Active(pc, n)
    BY <1>3, BackwardSteps, ActiveStep
  <2> QED BY <1>1, <2>1
<1>4. ASSUME UNCHANGED <<pc, edges>> PROVE NoCircle'
  BY <1>1, <1>4
<1>5. CASE DelDag
  <2>1. \A n \in Node : ~Active(pc', n)
    BY <1>5, BotAssumption, ProcAssumption DEF DelDag, WholeRuns, Active, Node
  <2> QED BY <2>1 DEF NoCircle
<1> QED BY <1>2, <1>3, <1>4, <1>5 DEF Next, Step, FwdFork, BwdJoin, Turn, vars

\* So a variable that has been written has a current version.
LEMMA WrittenIsCurrent ==
  ASSUME TypeOK, DagInv, NoCircle, NEW s \in Sym, NEW n \in Node, WriterOf(n, s), Active(pc, n)
  PROVE  last[s] # BOT
<1> SUFFICES ASSUME last[s] = BOT PROVE FALSE
  OBVIOUS
<1> DEFINE S == {k \in Node : WriterOf(k, s) /\ Active(pc, k)}
<1>1. S \in SUBSET Node /\ n \in S /\ \A k \in S : Active(pc, k)
  OBVIOUS
<1>2. PICK k \in S : \A e \in edges : e.wt /\ e.sym = s /\ e.src = k => e.dst \notin S
  <2> HIDE DEF S
  <2> QED BY <1>1 DEF NoCircle
<1>3. k \in Node /\ WriterOf(k, s) /\ Active(pc, k) /\ k # last[s]
  BY <1>2, BotAssumption
<1>4. PICK e \in edges : e.wt /\ e.sym = s /\ e.src = k /\ Active(pc, e.dst)
  BY <1>3 DEF DagInv, LastIsTip, IsTip
<1>5. e.dst \in Node /\ WriterOf(e.dst, s)
  BY <1>4 DEF TypeOK, EdgeType, DagInv, EdgeShape
<1> QED BY <1>2, <1>4, <1>5

\* Before main has called anybody nobody else has executed a block.
LEMMA AloneAtFirst ==
  ASSUME TypeOK, TreeInv, NEW j \in DOMAIN prog[Root], Alone(prog, j), pc[Root] < j
  PROVE  \A c \in Proc \ {Root} : pc[c] = 0
<1> DEFINE S == {c \in Proc \ {Root} : pc[c] > 0 \/ Called(c)}
<1>1. prog \in Programs /\ prog[Root] \in Seq(Block) /\ pc[Root] \in Nat /\ j \in Nat
  BY ProgramAssumption, ProcAssumption DEF TypeOK
<1>2. pc[Root] + 1 \in 1 .. j /\ pc[Root] \in 0 .. j
  BY <1>1
<1>3. Root \notin inCall
  <2>1. NextBlock(Root).kind # "call"
    BY <1>2 DEF Alone, NextBlock
  <2> QED BY <2>1 DEF TreeInv
<1>4. ASSUME NEW c \in S PROVE Caller(c) \in S
  <2>1. c \in Proc \ {Root} /\ Caller(c) \in Proc
    BY TreeAssumption
  <2>2. CASE Called(c)
    <3>1. Caller(c) \in inCall /\ Caller(c) # Root
      BY <1>3, <2>2 DEF Called
    <3>2. Called(Caller(c))
      BY <2>1, <3>1 DEF TreeInv
    <3> QED BY <2>1, <3>1, <3>2
  <2>3. CASE ~Called(c)
    <3>1. pc[c] > 0 /\ pc[c] = Mark(prog, c, pc[Caller(c)])
      BY <2>1, <2>3 DEF TreeInv, Placed, From
    <3>2. Caller(c) # Root
      <4>1. SUFFICES ASSUME Caller(c) = Root PROVE FALSE
        OBVIOUS
      <4>2. Mark(prog, c, pc[Root]) = 0
        BY <1>2, <2>1, <4>1 DEF Alone
      <4> QED BY <3>1, <4>1, <4>2
    <3>3. Mark(prog, c, 0) = 0
      BY <1>1, <2>1, CallAssumption
    <3>4. pc[Caller(c)] # 0
      BY <3>1, <3>3
    <3>5. pc[Caller(c)] \in Nat
      BY <2>1 DEF TypeOK
    <3> QED BY <2>1, <3>2, <3>4, <3>5
  <2> QED BY <2>2, <2>3
<1>5. S = {}
  <2>1. S \in SUBSET (Proc \ {Root})
    OBVIOUS
  <2> HIDE DEF S
  <2> QED BY <1>4, <2>1, TreeAssumption
<1>6. \A c \in Proc : pc[c] \in Nat
  BY DEF TypeOK
<1> QED BY <1>5, <1>6

\* What a process holds it has locked, and so read.
LEMMA HeldIsLocked ==
  ASSUME TypeOK, NEW p \in Proc, NEW a \in Held(p)
  PROVE  /\ a \in Addr /\ NameOf[a.cell] = a.sym
         /\ \E k \in DOMAIN prog[p] :
              k <= pc[p] /\ prog[p][k].kind = "lock" /\ a \in prog[p][k].src
<1>1. prog \in Programs /\ prog[p] \in Seq(Block) /\ pc[p] \in Nat /\ pc[p] <= Len(prog[p])
  BY ProgramAssumption DEF TypeOK
<1>2. a \in Addr /\ Times(prog, p, pc[p], "lock", a) > Times(prog, p, pc[p], "unlock", a)
  BY DEF Held, Times
<1>3. PICK k \in 1 .. pc[p] : prog[p][k].kind = "lock" /\ a \in prog[p][k].src
  <2>1. SUFFICES ASSUME \A k \in 1 .. pc[p] : ~(prog[p][k].kind = "lock" /\ a \in prog[p][k].src)
                 PROVE  FALSE
    OBVIOUS
  <2>2. {j \in 1 .. pc[p] : prog[p][j].kind = "lock" /\ a \in prog[p][j].src} = {}
    BY <2>1
  <2>3. Times(prog, p, pc[p], "lock", a) = 0
    BY <2>2, FS_EmptySet DEF Times
  <2>4. Times(prog, p, pc[p], "unlock", a) \in Nat
    BY <1>1, TimesNext
  <2> QED BY <1>2, <2>3, <2>4
<1>4. k \in DOMAIN prog[p] /\ k <= pc[p]
  BY <1>1
<1>5. a \in Reads(prog[p][k])
  BY <1>3 DEF Reads
<1>6. NameOf[a.cell] = a.sym
  BY <1>1, <1>4, <1>5, NameAssumption
<1> QED BY <1>2, <1>3, <1>4, <1>6

\* What is held has a version to hold.
LEMMA HeldIsWritten ==
  ASSUME TypeOK, TreeInv, DagInv, NoCircle, NEW p \in Proc, NEW a \in Held(p)
  PROVE  last[a.sym] # BOT
<1>1. PICK k \in DOMAIN prog[p] :
        k <= pc[p] /\ prog[p][k].kind = "lock" /\ a \in prog[p][k].src
  BY HeldIsLocked
<1>2. prog \in Programs /\ a.sym \in Sym
  BY HeldIsLocked DEF TypeOK, Addr
<1>3. PICK j \in DOMAIN prog[Root] :
        /\ Writes(prog[Root][j]) /\ prog[Root][j].dst.sym = a.sym
        /\ Alone(prog, j)
        /\ p = Root => j < k
  BY <1>1, <1>2, WrittenAssumption
<1>4. /\ Root \in Proc /\ prog[Root] \in Seq(Block) /\ Len(prog[Root]) <= MaxLen
      /\ prog[p] \in Seq(Block)
      /\ pc[Root] \in Nat /\ pc[p] \in Nat /\ MaxLen \in Nat
  BY <1>2, ProgramAssumption, ProcAssumption DEF TypeOK
<1>5. j \in 1 .. Len(prog[Root]) /\ Len(prog[Root]) \in Nat /\ k \in Nat /\ k > 0
  BY <1>4
<1>6. j <= pc[Root]
  <2>1. CASE p = Root
    BY <1>1, <1>3, <1>4, <1>5, <2>1
  <2>2. CASE p # Root
    <3>1. pc[p] # 0
      BY <1>1, <1>4, <1>5
    <3>2. ~(pc[Root] < j)
      BY <1>3, <2>2, <3>1, AloneAtFirst
    <3> QED BY <1>4, <1>5, <3>2
  <2> QED BY <2>1, <2>2
<1>7. PICK n \in Node : n = <<Root, j - 1>>
  <2>1. j - 1 \in 0 .. MaxLen - 1
    BY <1>4, <1>5
  <2> QED BY <1>4, <2>1 DEF Node
<1>8. IsNode(n) /\ BlockOf(n) = prog[Root][j] /\ Active(pc, n)
  BY <1>4, <1>5, <1>6, <1>7 DEF IsNode, BlockOf, Active
<1>9. WriterOf(n, a.sym)
  BY <1>3, <1>8 DEF WriterOf
<1> QED BY <1>2, <1>8, <1>9, WrittenIsCurrent

-----------------------------------------------------------------------------
(* The lock words *)

\* The second half of LockCount, an invariant by itself once a held variable has
\* a version.
LockWords == \A n \in Node : lock[n] = Cardinality(On(Holding, n))

\* A step that locks, unlocks and overwrites nothing held.
LEMMA WordsKept ==
  ASSUME LockWords, Holding' = Holding, lock' = lock,
         \A h \in Holding : last'[h[2].sym] = last[h[2].sym]
  PROVE  LockWords'
<1>1. PICK H : H = Holding
  OBVIOUS
<1>2. \A n : On(H, n)' = On(H, n)
  BY <1>1 DEF On
<1>3. \A n : On(Holding, n)' = On(Holding, n)
  <2>1. \A n : On(Holding, n)' = {h \in Holding' : last'[h[2].sym] = n}
    BY DEF On
  <2> QED BY <2>1 DEF On
<1> HIDE DEF Holding
<1> QED BY <1>3 DEF LockWords

\* A block that locks A.
LEMMA WordsAcquired ==
  ASSUME LockWords, NEW p \in Proc, NEW A \in SUBSET Addr, Holding \in SUBSET (Proc \X Addr),
         Holding' = Holding \cup ({p} \X A), Holding \cap ({p} \X A) = {},
         lock' = Acquire(A), last' = last
  PROVE  LockWords'
<1>1. PICK H, G : H = Holding /\ G = Holding' /\ H \in SUBSET (Proc \X Addr)
  OBVIOUS
<1>2. ASSUME NEW n \in Node PROVE lock'[n] = Cardinality(On(G, n))
  <2>1. lock'[n] = lock[n] + Pins(A, n)
    BY DEF Acquire
  <2>2. lock[n] = Cardinality(On(H, n))
    BY <1>1 DEF LockWords
  <2>3. Cardinality(On(G, n)) = Cardinality(On(H, n)) + Pins(A, n)
    BY <1>1, HoldersGrow
  <2> QED BY <2>1, <2>2, <2>3
<1>3. \A n : On(Holding, n)' = On(G, n)
  BY <1>1 DEF On
<1> HIDE DEF Holding
<1> QED BY <1>2, <1>3 DEF LockWords

\* A block that unlocks A finds it locked.
LEMMA WordsReleased ==
  ASSUME LockWords, NEW p \in Proc, NEW A \in SUBSET Addr, Holding' \in SUBSET (Proc \X Addr),
         Holding = Holding' \cup ({p} \X A), Holding' \cap ({p} \X A) = {},
         lock' = Release(A), last' = last
  PROVE  LockWords' /\ ~ReleasePanics(A)
<1>1. PICK H, G \in SUBSET (Proc \X Addr) : H = Holding /\ G = Holding'
  OBVIOUS
<1>2. ASSUME NEW n \in Node
      PROVE  /\ lock[n] = Cardinality(On(G, n)) + Pins(A, n)
             /\ Cardinality(On(G, n)) \in Nat /\ Pins(A, n) \in Nat
  <2>1. lock[n] = Cardinality(On(H, n))
    BY <1>1 DEF LockWords
  <2>2. /\ Cardinality(On(H, n)) = Cardinality(On(G, n)) + Pins(A, n)
        /\ Cardinality(On(G, n)) \in Nat /\ Pins(A, n) \in Nat
    BY <1>1, HoldersGrow
  <2> QED BY <2>1, <2>2
<1>3. ASSUME NEW n \in Node PROVE lock'[n] = Cardinality(On(G, n))
  <2>1. lock'[n] = lock[n] - Pins(A, n)
    BY DEF Release
  <2>2. PICK i \in Nat, j \in Nat : i = Cardinality(On(G, n)) /\ j = Pins(A, n)
    BY <1>2
  <2>3. lock[n] = i + j
    BY <1>2, <2>2
  <2> QED BY <2>1, <2>2, <2>3
<1>4. ASSUME NEW n \in Node PROVE ~(Pins(A, n) > 0 /\ lock[n] < Pins(A, n))
  <2>1. PICK i \in Nat, j \in Nat : i = Cardinality(On(G, n)) /\ j = Pins(A, n)
    BY <1>2
  <2>2. lock[n] = i + j
    BY <1>2, <2>1
  <2>3. ~(lock[n] < j)
    BY <2>2
  <2> QED BY <2>1, <2>3
<1>5. \A n : On(Holding, n)' = On(G, n)
  BY <1>1 DEF On
<1> HIDE DEF Holding
<1> QED BY <1>3, <1>4, <1>5 DEF LockWords, ReleasePanics

\* What is overwritten or undone is not held by anybody.
LEMMA UnlockedIsFree ==
  ASSUME TypeOK, TreeInv, DagInv, NoCircle, LockWords, NEW s \in Sym,
         WLockable(lock, last[s])
  PROVE  \A h \in Holding : h[2].sym # s
<1> SUFFICES ASSUME NEW h \in Holding, h[2].sym = s PROVE FALSE
  OBVIOUS
<1>1. PICK p \in Proc : \E a \in Held(p) : h = <<p, a>>
  BY DEF Holding
<1>10. PICK a \in Held(p) : h = <<p, a>>
  BY <1>1
<1>2. a.sym = s /\ last[s] # BOT
  BY <1>10, HeldIsWritten
<1>3. last[s] \in Node
  BY <1>2 DEF TypeOK
<1>4. Cardinality(On(Holding, last[s])) = 0
  BY <1>2, <1>3 DEF WLockable, LockWords
<1>5. Holding \in SUBSET (Proc \X Addr)
  <2>1. Holding \subseteq Proc \X Addr
    BY HoldingIs DEF HoldingOf
  <2> QED BY <2>1
<1>6. On(Holding, last[s]) = {}
  <2>1. IsFiniteSet(On(Holding, last[s]))
    BY <1>5, HoldersFinite
  <2> QED BY <1>4, <2>1, FS_EmptySet
<1>7. h \in On(Holding, last[s])
  BY <1>10, <1>2 DEF On
<1> QED BY <1>6, <1>7

\* The version current when a block executes forward is of an earlier block.
LEMMA NoBadEdge ==
  ASSUME TypeOK, DagInv, NEW p \in Proc, NEW A \in SUBSET Addr
  PROVE  ~BadEdge(A, NextNode(p))
<1> SUFFICES ASSUME NEW a \in A, BackwardsInProcess(last[a.sym], NextNode(p)) PROVE FALSE
  BY DEF BadEdge
<1>1. a.sym \in Sym
  BY DEF Addr
<1>2. last[a.sym] # BOT /\ last[a.sym][1] = p /\ last[a.sym][2] > pc[p]
  BY DEF BackwardsInProcess, NextNode
<1>3. Active(pc, last[a.sym]) /\ last[a.sym] \in Node
  BY <1>1, <1>2 DEF TypeOK, DagInv, LastIsTip, IsTip
<1>4. pc[p] > last[a.sym][2]
  BY <1>2, <1>3 DEF Active
<1>5. pc[p] \in Nat /\ last[a.sym][2] \in Nat
  BY <1>3, ProcAssumption DEF TypeOK, Node
<1> QED BY <1>2, <1>4, <1>5

\* Who holds what before and after a block.
LEMMA HoldingForward ==
  ASSUME TypeOK, NEW p \in Proc, pc[p] < Len(prog[p]), pc' = [pc EXCEPT ![p] = @ + 1],
         prog' = prog, NEW b, b = NextBlock(p)
  PROVE  /\ b.kind = "lock" => /\ Holding' = Holding \cup ({p} \X b.src)
                               /\ Holding \cap ({p} \X b.src) = {}
         /\ b.kind = "unlock" => /\ Holding = Holding' \cup ({p} \X b.src)
                                 /\ Holding' \cap ({p} \X b.src) = {}
         /\ b.kind \notin {"lock", "unlock"} => Holding' = Holding
         /\ Holding \in SUBSET (Proc \X Addr) /\ Holding' \in SUBSET (Proc \X Addr)
         /\ b.src \in SUBSET Addr
<1>1. prog \in Programs /\ pc \in [Proc -> Nat] /\ b = prog[p][pc[p] + 1]
  BY DEF TypeOK, NextBlock
<1>2. PICK c, d : c = pc /\ d = pc'
  OBVIOUS
<1>3. PICK H, G : H = HoldingOf(prog, c) /\ G = HoldingOf(prog, d)
  OBVIOUS
<1>4. H = Holding /\ G = Holding'
  BY <1>2, <1>3, HoldingIs
<1>5. /\ prog \in Programs /\ c \in [Proc -> Nat] /\ c[p] < Len(prog[p]) /\ b = prog[p][c[p] + 1]
      /\ d[p] = c[p] + 1 /\ \A q \in Proc : q # p => d[q] = c[q]
  BY <1>1, <1>2
<1>6. /\ b.kind = "lock" => /\ G = H \cup ({p} \X b.src)
                              /\ H \cap ({p} \X b.src) = {}
      /\ b.kind = "unlock" => /\ H = G \cup ({p} \X b.src)
                                /\ G \cap ({p} \X b.src) = {}
      /\ b.kind \notin {"lock", "unlock"} => G = H
      /\ H \in SUBSET (Proc \X Addr) /\ G \in SUBSET (Proc \X Addr)
      /\ b.src \in SUBSET Addr
  BY <1>3, <1>5, HoldingNext
<1> HIDE DEF Holding
<1> QED BY <1>4, <1>6

LEMMA HoldingBackward ==
  ASSUME TypeOK, NEW p \in Proc, pc[p] > 0, pc' = [pc EXCEPT ![p] = @ - 1],
         prog' = prog, NEW b, b = PrevBlock(p)
  PROVE  /\ b.kind = "lock" => /\ Holding = Holding' \cup ({p} \X b.src)
                               /\ Holding' \cap ({p} \X b.src) = {}
         /\ b.kind = "unlock" => /\ Holding' = Holding \cup ({p} \X b.src)
                                 /\ Holding \cap ({p} \X b.src) = {}
         /\ b.kind \notin {"lock", "unlock"} => Holding' = Holding
         /\ Holding \in SUBSET (Proc \X Addr) /\ Holding' \in SUBSET (Proc \X Addr)
         /\ b.src \in SUBSET Addr
<1>1. prog \in Programs /\ pc \in [Proc -> Nat] /\ pc[p] <= Len(prog[p]) /\ Len(prog[p]) \in Nat
  BY ProgramAssumption DEF TypeOK
<1>2. PICK c, d : c = pc' /\ d = pc
  OBVIOUS
<1>3. /\ c \in [Proc -> Nat] /\ c[p] < Len(prog[p]) /\ b = prog[p][c[p] + 1]
      /\ d[p] = c[p] + 1 /\ \A q \in Proc : q # p => d[q] = c[q]
  <2>1. c[p] = pc[p] - 1 /\ c[p] \in Nat /\ c[p] + 1 = pc[p]
    BY <1>1, <1>2
  <2>2. c \in [Proc -> Nat]
    BY <1>1, <1>2
  <2>3. d[p] = c[p] + 1 /\ \A q \in Proc : q # p => d[q] = c[q]
    BY <1>1, <1>2, <2>1
  <2>4. c[p] < Len(prog[p])
    BY <1>1, <2>1
  <2> QED BY <2>1, <2>2, <2>3, <2>4 DEF PrevBlock
<1>4. PICK H, G : H = HoldingOf(prog, c) /\ G = HoldingOf(prog, d)
  OBVIOUS
<1>5. H = Holding' /\ G = Holding
  BY <1>2, <1>4, HoldingIs
<1>6. /\ b.kind = "lock" => /\ G = H \cup ({p} \X b.src)
                              /\ H \cap ({p} \X b.src) = {}
      /\ b.kind = "unlock" => /\ H = G \cup ({p} \X b.src)
                                /\ G \cap ({p} \X b.src) = {}
      /\ b.kind \notin {"lock", "unlock"} => G = H
      /\ H \in SUBSET (Proc \X Addr) /\ G \in SUBSET (Proc \X Addr)
      /\ b.src \in SUBSET Addr
  BY SMTT(30), <1>1, <1>3, <1>4, HoldingNext
<1> HIDE DEF Holding
<1> QED BY <1>5, <1>6

\* A write takes the lock of the version it overwrites and gives back the same one.
LEMMA WriteLock ==
  ASSUME TypeOK, TypeOK', DagInv, NEW p \in Proc, FwdWrite(p)
  PROVE  /\ lock' = lock /\ ~panicked'
         /\ NextBlock(p).dst.sym \in Sym /\ WLockable(lock, last[NextBlock(p).dst.sym])
<1>1. PICK n \in Node : n = NextNode(p)
  BY WriteFacts
<1>2. PICK s \in Sym : s = NextBlock(p).dst.sym
  BY WriteFacts
<1>3. PICK m \in Node \cup {BOT} : m = last[s]
  BY DEF TypeOK
<1>4. PICK E : E = edges'
  OBVIOUS
<1>5. WLockable(lock, m)
  BY <1>2, <1>3 DEF FwdWrite, FwdClear
<1>6. /\ Edge(m, n, s, TRUE) \in E
      /\ \A e \in E : e.dst = n => e.src = last[e.sym]
  BY <1>1, <1>2, <1>3, <1>4, WriteFacts
<1>7. PrevNode(E, n, s) = m
  <2>1. E \subseteq EdgeType
    BY <1>4 DEF TypeOK
  <2>2. PICK e \in E : e = Edge(m, n, s, TRUE)
    BY <1>6
  <2>3. e.dst = n /\ e.wt /\ e.sym = s
    BY <2>2 DEF Edge
  <2>4. PICK f \in E : f.dst = n /\ f.wt /\ f.sym = s /\ f.src = PrevNode(E, n, s)
    BY <2>1, <2>3, PrevNodeType
  <2> QED BY <1>3, <1>6, <2>4
<1>8. /\ lock' = WUnlock(WLock(lock, m), PrevNode(E, n, s))
      /\ panicked' = (BadEdge(Reads(NextBlock(p)), n) \/ WUnlockPanics(WLock(lock, m), PrevNode(E, n, s)))
  BY <1>1, <1>2, <1>3, <1>4 DEF FwdWrite
<1>9. lock \in [Node -> Int]
  BY DEF TypeOK
<1>10. lock' = lock /\ ~WUnlockPanics(WLock(lock, m), m)
  <2>1. CASE m = BOT
    BY <1>7, <1>8, <2>1 DEF WLock, WUnlock, WUnlockPanics
  <2>2. CASE m # BOT
    <3>1. m \in Node /\ lock[m] = 0
      BY <1>5, <2>2 DEF WLockable
    <3>2. lock' = [[lock EXCEPT ![m] = -1] EXCEPT ![m] = @ + 1]
      BY <1>7, <1>8, <2>2 DEF WLock, WUnlock
    <3>3. lock' = lock
      <4>1. \A k \in Node : lock'[k] = lock[k]
        BY <1>9, <3>1, <3>2
      <4>2. lock' \in [Node -> Int]
        BY DEF TypeOK
      <4> QED BY <1>9, <4>1, <4>2
    <3>4. ~WUnlockPanics(WLock(lock, m), m)
      BY <1>9, <3>1 DEF WLock, WUnlockPanics
    <3> QED BY <3>3, <3>4
  <2> QED BY <2>1, <2>2
<1>11. ~BadEdge(Reads(NextBlock(p)), n)
  <2>1. NextBlock(p) \in Block
    BY BlockTypes DEF FwdWrite, FwdReady
  <2>2. Reads(NextBlock(p)) \in SUBSET Addr
    BY <2>1 DEF Reads, Block
  <2> QED BY <1>1, <2>2, NoBadEdge
<1> QED BY <1>2, <1>3, <1>5, <1>7, <1>8, <1>10, <1>11

\* Every step keeps the count, and none panics.
LEMMA WordsStep ==
  TypeOK /\ TypeOK' /\ WholeRuns /\ TreeInv /\ DagInv /\ NoCircle /\ LockWords /\ ~panicked
    /\ [Next]_vars => LockWords' /\ ~panicked'
<1> SUFFICES ASSUME TypeOK, TypeOK', WholeRuns, TreeInv, DagInv, NoCircle, LockWords, ~panicked,
                    [Next]_vars
             PROVE  LockWords' /\ ~panicked'
  OBVIOUS
<1> HIDE DEF Holding
<1>1. ASSUME UNCHANGED <<prog, pc, last, lock, panicked>> PROVE LockWords' /\ ~panicked'
  <2>1. Holding' = Holding
    BY <1>1, HoldingIs
  <2> QED BY <1>1, <2>1, WordsKept
<1>2. ASSUME NEW p \in Proc, FwdWrite(p) PROVE LockWords' /\ ~panicked'
  <2>1. PICK b : b = NextBlock(p)
    OBVIOUS
  <2>2. /\ pc[p] < Len(prog[p]) /\ pc' = [pc EXCEPT ![p] = @ + 1] /\ prog' = prog
        /\ b.kind \notin {"lock", "unlock"}
    BY <1>2, <2>1, ForwardSteps DEF FwdWrite, Writes
  <2>3. Holding' = Holding /\ Holding \in SUBSET (Proc \X Addr)
    BY <2>1, <2>2, HoldingForward
  <2>4. lock' = lock /\ ~panicked' /\ b.dst.sym \in Sym /\ WLockable(lock, last[b.dst.sym])
    BY <1>2, <2>1, WriteLock
  <2>5. \A h \in Holding : h[2].sym # b.dst.sym
    BY <2>4, UnlockedIsFree
  <2>6. \A s \in Sym : s # b.dst.sym => last'[s] = last[s]
    BY <1>2, <2>1 DEF FwdWrite, TypeOK
  <2>7. \A h \in Holding : h[2].sym \in Sym
    BY <2>3 DEF Addr
  <2> QED BY <2>3, <2>4, <2>5, <2>6, <2>7, WordsKept
<1>3. ASSUME NEW p \in Proc, FwdLock(p) PROVE LockWords' /\ ~panicked'
  <2>1. PICK b : b = NextBlock(p)
    OBVIOUS
  <2>2. /\ pc[p] < Len(prog[p]) /\ pc' = [pc EXCEPT ![p] = @ + 1] /\ prog' = prog
    BY <1>3, ForwardSteps
  <2>3. b.kind = "lock" /\ lock' = Acquire(b.src) /\ last' = last
        /\ panicked' = BadEdge(b.src, NextNode(p))
    BY <1>3, <2>1 DEF FwdLock
  <2>4. /\ Holding' = Holding \cup ({p} \X b.src)
        /\ Holding \cap ({p} \X b.src) = {}
        /\ Holding \in SUBSET (Proc \X Addr) /\ b.src \in SUBSET Addr
    BY <2>1, <2>2, <2>3, HoldingForward
  <2> QED BY <2>3, <2>4, WordsAcquired, NoBadEdge
<1>4. ASSUME NEW p \in Proc, FwdUnlock(p) PROVE LockWords' /\ ~panicked'
  <2>1. PICK b : b = NextBlock(p)
    OBVIOUS
  <2>2. /\ pc[p] < Len(prog[p]) /\ pc' = [pc EXCEPT ![p] = @ + 1] /\ prog' = prog
    BY <1>4, ForwardSteps
  <2>3. b.kind = "unlock" /\ lock' = Release(b.src) /\ last' = last
        /\ panicked' = (BadEdge(b.src, NextNode(p)) \/ ReleasePanics(b.src))
    BY <1>4, <2>1 DEF FwdUnlock
  <2>4. /\ Holding = Holding' \cup ({p} \X b.src)
        /\ Holding' \cap ({p} \X b.src) = {}
        /\ Holding' \in SUBSET (Proc \X Addr) /\ b.src \in SUBSET Addr
    BY <2>1, <2>2, <2>3, HoldingForward
  <2> QED BY <2>3, <2>4, WordsReleased, NoBadEdge
<1>5. ASSUME NEW p \in Proc, FwdRead(p) \/ FwdJoin(p) PROVE LockWords' /\ ~panicked'
  <2>1. PICK b : b = NextBlock(p)
    OBVIOUS
  <2>2. /\ pc[p] < Len(prog[p]) /\ pc' = [pc EXCEPT ![p] = @ + 1] /\ prog' = prog
    BY <1>5, ForwardSteps
  <2>3. /\ b.kind \notin {"lock", "unlock"} /\ lock' = lock /\ last' = last
        /\ panicked' = BadEdge(b.src, NextNode(p)) \/ panicked' = panicked
    BY <1>5, <2>1 DEF FwdRead, FwdJoin
  <2>4. Holding' = Holding /\ b.src \in SUBSET Addr
    BY <2>1, <2>2, <2>3, HoldingForward
  <2> QED BY <2>3, <2>4, WordsKept, NoBadEdge
<1>6. ASSUME NEW p \in Proc, BwdWrite(p) PROVE LockWords' /\ ~panicked'
  <2>1. PICK b : b = PrevBlock(p)
    OBVIOUS
  <2>2. /\ pc[p] > 0 /\ pc' = [pc EXCEPT ![p] = @ - 1] /\ prog' = prog
        /\ RunnableBwd(edges, pc, PrevNodeOf(p))
    BY <1>6, BackwardSteps
  <2>3. /\ b.kind \notin {"lock", "unlock"} /\ lock' = lock /\ panicked' = panicked
        /\ WLockable(lock, PrevNodeOf(p)) /\ Writes(b)
    BY <1>6, <2>1 DEF BwdWrite, BwdClear, Writes
  <2>4. Holding' = Holding /\ Holding \in SUBSET (Proc \X Addr)
    BY <2>1, <2>2, <2>3, HoldingBackward
  <2>5. b.dst.sym \in Sym
    BY <2>1, <2>2, BlockTypes DEF Block, Addr
  <2>6. last[b.dst.sym] = PrevNodeOf(p)
    BY <2>1, <2>2, <2>3, UndoFindsTip
  <2>7. \A h \in Holding : h[2].sym # b.dst.sym
    BY <2>3, <2>5, <2>6, UnlockedIsFree
  <2>8. \A s \in Sym : s # b.dst.sym => last'[s] = last[s]
    BY <1>6, <2>1 DEF BwdWrite, TypeOK
  <2>9. \A h \in Holding : h[2].sym \in Sym
    BY <2>4 DEF Addr
  <2> QED BY <2>3, <2>4, <2>7, <2>8, <2>9, WordsKept
<1>7. ASSUME NEW p \in Proc, BwdLock(p) PROVE LockWords' /\ ~panicked'
  <2>1. PICK b : b = PrevBlock(p)
    OBVIOUS
  <2>2. /\ pc[p] > 0 /\ pc' = [pc EXCEPT ![p] = @ - 1] /\ prog' = prog
    BY <1>7, BackwardSteps
  <2>3. b.kind = "lock" /\ lock' = Release(b.src) /\ last' = last
        /\ panicked' = ReleasePanics(b.src)
    BY <1>7, <2>1 DEF BwdLock
  <2>4. /\ Holding = Holding' \cup ({p} \X b.src)
        /\ Holding' \cap ({p} \X b.src) = {}
        /\ Holding' \in SUBSET (Proc \X Addr) /\ b.src \in SUBSET Addr
    BY <2>1, <2>2, <2>3, HoldingBackward
  <2> QED BY <2>3, <2>4, WordsReleased
<1>8. ASSUME NEW p \in Proc, BwdUnlock(p) PROVE LockWords' /\ ~panicked'
  <2>1. PICK b : b = PrevBlock(p)
    OBVIOUS
  <2>2. /\ pc[p] > 0 /\ pc' = [pc EXCEPT ![p] = @ - 1] /\ prog' = prog
    BY <1>8, BackwardSteps
  <2>3. b.kind = "unlock" /\ lock' = Acquire(b.src) /\ last' = last /\ panicked' = panicked
    BY <1>8, <2>1 DEF BwdUnlock
  <2>4. /\ Holding' = Holding \cup ({p} \X b.src)
        /\ Holding \cap ({p} \X b.src) = {}
        /\ Holding \in SUBSET (Proc \X Addr) /\ b.src \in SUBSET Addr
    BY <2>1, <2>2, <2>3, HoldingBackward
  <2> QED BY <2>3, <2>4, WordsAcquired
<1>9. ASSUME NEW p \in Proc, BwdRead(p) \/ BwdFork(p) PROVE LockWords' /\ ~panicked'
  <2>1. PICK b : b = PrevBlock(p)
    OBVIOUS
  <2>2. /\ pc[p] > 0 /\ pc' = [pc EXCEPT ![p] = @ - 1] /\ prog' = prog
    BY <1>9, BackwardSteps
  <2>3. b.kind \notin {"lock", "unlock"} /\ lock' = lock /\ last' = last /\ panicked' = panicked
    BY <1>9, <2>1 DEF BwdRead, BwdFork
  <2>4. Holding' = Holding
    BY <2>1, <2>2, <2>3, HoldingBackward
  <2> QED BY <2>3, <2>4, WordsKept
<1>10. CASE DelDag
  <2>1. \A p \in Proc : pc[p] = 0
    BY <1>10 DEF DelDag, WholeRuns
  <2>2. Holding' = {}
    <3>1. prog' \in Programs /\ pc' = pc
      BY <1>10 DEF DelDag, TypeOK
    <3>2. \A p \in Proc : HeldAt(prog', p, pc'[p]) = {}
      BY <2>1, <3>1, HeldAtEnds
    <3> QED BY <3>2, HoldingIs DEF HoldingOf
  <2>3. \A n : On(Holding, n)' = {}
    BY <2>2 DEF On
  <2>4. \A n \in Node : lock'[n] = 0
    BY <1>10 DEF DelDag
  <2>5. panicked' = panicked
    BY <1>10 DEF DelDag
  <2> QED BY <2>3, <2>4, <2>5, FS_EmptySet DEF LockWords
<1> QED BY <1>1, <1>2, <1>3, <1>4, <1>5, <1>6, <1>7, <1>8, <1>9, <1>10
        DEF Next, Step, FwdFork, BwdJoin, Turn, vars

LEMMA WordsInit == Init => NoCircle /\ LockWords /\ ~panicked
<1> SUFFICES ASSUME Init PROVE NoCircle /\ LockWords /\ ~panicked
  OBVIOUS
<1>1. NoCircle
  BY DEF Init, NoCircle
<1>2. Holding = {}
  <2>1. \A p \in Proc : HeldAt(prog, p, pc[p]) = {}
    BY HeldAtEnds DEF Init
  <2> QED BY <2>1, HoldingIs DEF HoldingOf
<1>3. \A n : On(Holding, n) = {}
  BY <1>2 DEF On
<1> QED BY <1>1, <1>3, FS_EmptySet DEF Init, LockWords

-----------------------------------------------------------------------------
(* Theorems *)

\* The invariant of the locks: no circle of versions, every word counts, and no
\* goroutine has panicked.
THEOREM LocksSound == Spec => [](NoCircle /\ LockWords /\ ~panicked)
<1>1. Init => NoCircle /\ LockWords /\ ~panicked
  BY WordsInit
<1>2. TypeOK /\ TypeOK' /\ WholeRuns /\ TreeInv /\ DagInv /\ NoCircle /\ LockWords /\ ~panicked
        /\ [Next]_vars => NoCircle' /\ LockWords' /\ ~panicked'
  BY WordsStep, NoCircleStep
<1> QED BY <1>1, <1>2, TypeCorrect, TreeInOrder, RunsAreWhole, DagSound, PTL DEF Spec

\* Every lock word is the number of processes and addresses that hold its version,
\* in both directions and over any number of replays.
THEOREM LocksCounted == Spec => []LockCount
<1>1. TypeOK /\ TreeInv /\ DagInv /\ NoCircle /\ LockWords => LockCount
  <2> SUFFICES ASSUME TypeOK, TreeInv, DagInv, NoCircle, LockWords PROVE LockCount
    OBVIOUS
  <2>1. ASSUME NEW h \in Holding PROVE last[h[2].sym] # BOT
    <3>1. PICK p \in Proc : \E a \in Held(p) : h = <<p, a>>
      BY DEF Holding
    <3>2. PICK a \in Held(p) : h = <<p, a>>
      BY <3>1
    <3> QED BY <3>2, HeldIsWritten
  <2> HIDE DEF Holding
  <2> QED BY <2>1 DEF LockWords, LockCount
<1> QED BY <1>1, LocksSound, TypeCorrect, TreeInOrder, DagSound, PTL

\* No goroutine panics: a lock is released only while somebody holds it, and no
\* edge goes back in the order of a process.
THEOREM NeverPanics == Spec => []NoPanic
<1>1. ~panicked => NoPanic
  BY DEF NoPanic
<1> QED BY <1>1, LocksSound, PTL

\* At both ends of a run every version is unlocked.
THEOREM LocksGivenBack == Spec => []LocksReturned
<1>1. TypeOK /\ WholeRuns /\ LockWords => LocksReturned
  <2> SUFFICES ASSUME TypeOK, WholeRuns, LockWords, Stopped, NEW n \in Node PROVE lock[n] = 0
    BY DEF LocksReturned
  <2>1. prog \in Programs
    BY DEF TypeOK
  <2>2. \A p \in Proc : pc[p] = 0 \/ pc[p] = Len(prog[p])
    BY DEF WholeRuns, AtEnd, AtStart
  <2>3. \A p \in Proc : HeldAt(prog, p, pc[p]) = {}
    BY <2>1, <2>2, HeldAtEnds
  <2>4. Holding = {}
    BY <2>3, HoldingIs DEF HoldingOf
  <2>5. On(Holding, n) = {}
    BY <2>4 DEF On
  <2> QED BY <2>5, FS_EmptySet DEF LockWords
<1> QED BY <1>1, LocksSound, TypeCorrect, RunsAreWhole, PTL

\* A step changes nothing that is locked before and after it.
LEMMA HeldIsKept ==
  TypeOK /\ TypeOK' /\ WholeRuns /\ TreeInv /\ DagInv /\ NoCircle /\ LockWords /\ [Next]_vars
    => \A p \in Proc : \A a \in Held(p) \cap Held(p)' :
         mem'[a.cell] = mem[a.cell] /\ last'[a.sym] = last[a.sym]
<1> SUFFICES ASSUME TypeOK, TypeOK', WholeRuns, TreeInv, DagInv, NoCircle, LockWords,
                    [Next]_vars, NEW p \in Proc, NEW a \in Held(p)
             PROVE  mem'[a.cell] = mem[a.cell] /\ last'[a.sym] = last[a.sym]
  OBVIOUS
<1>1. a.sym \in Sym /\ a.cell \in Cell /\ NameOf[a.cell] = a.sym
  BY HeldIsLocked DEF Addr
<1>2. ASSUME NEW s \in Sym, WLockable(lock, last[s]) PROVE a.sym # s
  <2>1. <<p, a>> \in Holding
    BY DEF Holding
  <2>2. <<p, a>>[2] = a
    OBVIOUS
  <2> HIDE DEF Holding
  <2> QED BY <1>2, <2>1, <2>2, UnlockedIsFree
<1>3. ASSUME NEW b, NEW n, NEW v, b.dst.sym \in Sym, WLockable(lock, last[b.dst.sym]),
             NameOf[b.dst.cell] = b.dst.sym,
             mem' = [mem EXCEPT ![b.dst.cell] = v], last' = [last EXCEPT ![b.dst.sym] = n]
      PROVE  mem'[a.cell] = mem[a.cell] /\ last'[a.sym] = last[a.sym]
  <2>1. a.sym # b.dst.sym /\ a.cell # b.dst.cell
    BY <1>1, <1>2, <1>3
  <2> QED BY <1>1, <1>3, <2>1 DEF TypeOK
<1>4. ASSUME NEW q \in Proc, FwdWrite(q)
      PROVE  mem'[a.cell] = mem[a.cell] /\ last'[a.sym] = last[a.sym]
  <2>1. PICK b : b = NextBlock(q)
    OBVIOUS
  <2>2. /\ b.dst.sym \in Sym /\ NameOf[b.dst.cell] = b.dst.sym
        /\ mem' = [mem EXCEPT ![b.dst.cell] = NewVal(b)]
        /\ last' = [last EXCEPT ![b.dst.sym] = NextNode(q)]
    BY <1>4, <2>1, WriteFacts
  <2>3. WLockable(lock, last[b.dst.sym])
    BY <1>4, <2>1, WriteLock
  <2> QED BY <1>3, <2>2, <2>3
<1>5. ASSUME NEW q \in Proc, BwdWrite(q)
      PROVE  mem'[a.cell] = mem[a.cell] /\ last'[a.sym] = last[a.sym]
  <2>1. PICK b : b = PrevBlock(q)
    OBVIOUS
  <2>2. PICK n \in Node : n = PrevNodeOf(q)
    BY <1>5, BackwardSteps, BlockTypes
  <2>3. /\ mem' = [mem EXCEPT ![b.dst.cell] = OldVal(b)]
        /\ last' = [last EXCEPT ![b.dst.sym] = PrevNode(edges, n, b.dst.sym)]
        /\ WLockable(lock, n) /\ Writes(b) /\ pc[q] > 0
    BY <1>5, <2>1, <2>2 DEF BwdWrite, BwdClear, BwdReady
  <2>4. b.dst.sym \in Sym /\ NameOf[b.dst.cell] = b.dst.sym
    <3>1. pc[q] \in Nat /\ pc[q] <= Len(prog[q]) /\ Len(prog[q]) \in Nat
      BY ProgramAssumption DEF TypeOK
    <3>2. IsNode(n) /\ BlockOf(n) = b
      BY <2>1, <2>2, <2>3, <3>1 DEF IsNode, BlockOf, PrevNodeOf, PrevBlock
    <3>3. b.dst \in Reads(BlockOf(n))
      BY <2>3, <3>2 DEF Reads
    <3> QED BY <3>2, <3>3, Named
  <2>5. last[b.dst.sym] = n
    BY <1>5, <2>1, <2>2, <2>3, BackwardSteps, UndoFindsTip
  <2> QED BY <1>3, <2>3, <2>4, <2>5
<1>6. ASSUME NEW q \in Proc,
             \/ FwdLock(q) \/ FwdUnlock(q) \/ FwdRead(q) \/ FwdFork(q) \/ FwdJoin(q)
             \/ BwdLock(q) \/ BwdUnlock(q) \/ BwdRead(q) \/ BwdFork(q) \/ BwdJoin(q)
      PROVE  UNCHANGED <<mem, last>>
  BY <1>6, QuietSteps
<1>7. CASE DelDag
  <2>1. pc[p] = 0
    BY <1>7 DEF DelDag, WholeRuns
  <2>2. PICK k \in DOMAIN prog[p] : k <= 0
    BY <2>1, HeldIsLocked
  <2>3. prog[p] \in Seq(Block)
    BY ProgramAssumption DEF TypeOK
  <2> QED BY <2>2, <2>3
<1> QED BY <1>4, <1>5, <1>6, <1>7 DEF Next, Step, Turn, vars

\* What a process has locked keeps its value and its version while it is locked,
\* whoever writes, in both directions.
THEOREM LocksHold == Spec => LockedReadOnly
BY HeldIsKept, LocksSound, TypeCorrect, TreeInOrder, RunsAreWhole, DagSound, PTL
   DEF Spec, LockedReadOnly
=============================================================================
