--------------------------- MODULE ReplaysProofs ----------------------------
(***************************************************************************)
(* A run that the annotation DAG orders, a replay or a backward run.  A    *)
(* block that isRunnable lets through finds its semaphore ready and the    *)
(* version it overwrites unlocked: the DAG orders the users of a version,  *)
(* and who holds a lock uses the version at both ends.  And there is       *)
(* always a block that isRunnable lets through: the DAG, the order of the  *)
(* blocks of a process and the calls never ask for a circle.               *)
(***************************************************************************)
EXTENDS LocksProofs, WellFoundedInduction, NaturalsInduction

-----------------------------------------------------------------------------
(* The blocks between a lock and its unlock *)

\* A set of natural numbers has a least element.
LEMMA LeastNat ==
  ASSUME NEW S \in SUBSET Nat, S # {}
  PROVE  \E m \in S : \A k \in S : m <= k
<1>1. PICK R : R = OpToRel(<, Nat) /\ IsWellFoundedOn(R, Nat)
  BY NatLessThanWellFounded, Zenon
<1>2. \A i, j \in Nat : <<i, j>> \in R <=> i < j
  BY <1>1 DEF OpToRel
<1>3. PICK m \in S : \A k \in S : ~(<<k, m>> \in R)
  BY <1>1, WFMin
<1>4. ASSUME NEW k \in S PROVE m <= k
  <2>1. m \in Nat /\ k \in Nat
    OBVIOUS
  <2>2. ~(<<k, m>> \in R)
    BY <1>3
  <2>3. ~(k < m)
    BY <1>2, <2>1, <2>2
  <2> QED BY <2>1, <2>3
<1> QED BY <1>4

\* p holds a after each of its blocks i to k: the numbers are those of pc.
HeldFromTo(P, p, a, i, k) == \A j \in i .. k : a \in HeldAt(P, p, j)

\* What is held after k blocks was locked by one of them and held since.
LEMMA LockedBefore ==
  ASSUME NEW P \in Programs, NEW p \in Proc, NEW k \in 0 .. Len(P[p]), NEW a \in HeldAt(P, p, k)
  PROVE  \E j \in 0 .. k - 1 :
           /\ P[p][j + 1].kind = "lock" /\ a \in P[p][j + 1].src
           /\ HeldFromTo(P, p, a, j + 1, k)
<1> DEFINE S == {i \in 0 .. k : a \notin HeldAt(P, p, k - i)}
<1>1. Len(P[p]) \in Nat /\ k \in Nat /\ k <= Len(P[p])
  BY ProgramAssumption
<1>2. S \in SUBSET Nat /\ S # {}
  <2>1. k - k = 0 /\ k \in 0 .. k
    BY <1>1
  <2>2. a \notin HeldAt(P, p, k - k)
    BY <2>1, HeldAtEnds
  <2>3. k \in S
    BY <2>1, <2>2
  <2>4. S \subseteq 0 .. k
    OBVIOUS
  <2> HIDE DEF S
  <2> QED BY <1>1, <2>3, <2>4
<1>3. PICK i \in S : \A h \in S : i <= h
  <2> HIDE DEF S
  <2> QED BY <1>2, LeastNat
<1>4. i \in 0 .. k /\ a \notin HeldAt(P, p, k - i)
  BY <1>3
<1>5. i # 0
  BY <1>1, <1>4
<1>6. PICK j \in 0 .. k - 1 : j = k - i
  BY <1>1, <1>4, <1>5
<1>7. HeldFromTo(P, p, a, j + 1, k)
  <2> SUFFICES ASSUME NEW h \in j + 1 .. k PROVE a \in HeldAt(P, p, h)
    BY DEF HeldFromTo
  <2>1. k - h \in 0 .. k /\ ~(i <= k - h) /\ k - (k - h) = h
    BY <1>1, <1>4, <1>6
  <2>2. k - h \notin S
    <3> HIDE DEF S
    <3> QED BY <1>3, <2>1
  <2> QED BY <2>1, <2>2
<1>8. a \notin HeldAt(P, p, j) /\ a \in HeldAt(P, p, j + 1)
  <2>1. j + 1 \in j + 1 .. k
    BY <1>1
  <2> QED BY <1>4, <1>6, <1>7, <2>1 DEF HeldFromTo
<1>9. PICK b : b = P[p][j + 1]
  OBVIOUS
<1>10. j \in Nat /\ j < Len(P[p])
  BY <1>1
<1>11. b.kind = "lock" /\ a \in b.src
  BY <1>8, <1>9, <1>10, HeldNext
<1> QED BY <1>7, <1>9, <1>11

\* What is held after k blocks is held until one of the next ones unlocks it.
LEMMA UnlockedAfter ==
  ASSUME NEW P \in Programs, NEW p \in Proc, NEW k \in 0 .. Len(P[p]), NEW a \in HeldAt(P, p, k)
  PROVE  \E j \in k .. Len(P[p]) - 1 :
           /\ P[p][j + 1].kind = "unlock" /\ a \in P[p][j + 1].src
           /\ HeldFromTo(P, p, a, k, j)
<1> DEFINE S == {i \in k .. Len(P[p]) : a \notin HeldAt(P, p, i)}
<1>1. Len(P[p]) \in Nat /\ k \in Nat /\ k <= Len(P[p])
  BY ProgramAssumption
<1>2. S \in SUBSET Nat /\ S # {}
  <2>1. Len(P[p]) \in k .. Len(P[p])
    BY <1>1
  <2>2. a \notin HeldAt(P, p, Len(P[p]))
    BY HeldAtEnds
  <2> QED BY <1>1, <2>1, <2>2
<1>3. PICK i \in S : \A h \in S : i <= h
  <2> HIDE DEF S
  <2> QED BY <1>2, LeastNat
<1>4. i \in k .. Len(P[p]) /\ a \notin HeldAt(P, p, i)
  BY <1>3
<1>5. i # k
  BY <1>4
<1>6. PICK j \in k .. Len(P[p]) - 1 : i = j + 1
  BY <1>1, <1>4, <1>5
<1>7. HeldFromTo(P, p, a, k, j)
  <2> SUFFICES ASSUME NEW h \in k .. j PROVE a \in HeldAt(P, p, h)
    BY DEF HeldFromTo
  <2>1. h \in k .. Len(P[p]) /\ ~(i <= h)
    BY <1>1, <1>6
  <2>2. h \notin S
    <3> HIDE DEF S
    <3> QED BY <1>3, <2>1
  <2> QED BY <2>1, <2>2
<1>8. a \in HeldAt(P, p, j) /\ a \notin HeldAt(P, p, j + 1)
  <2>1. j \in k .. j
    BY <1>1
  <2> QED BY <1>4, <1>6, <1>7, <2>1 DEF HeldFromTo
<1>9. PICK b : b = P[p][j + 1]
  OBVIOUS
<1>10. j \in Nat /\ j < Len(P[p])
  BY <1>1
<1>11. b.kind = "unlock" /\ a \in b.src
  BY <1>8, <1>9, <1>10, HeldNext
<1> QED BY <1>7, <1>9, <1>11

-----------------------------------------------------------------------------
(* Who locks a version finds it current until the unlock *)

\* The process of e.dst has held an address of e.sym since that block, when it has
\* executed k blocks.
HeldSince(e, k) ==
  /\ e.dst[2] < k
  /\ \E a \in Addr : a.sym = e.sym /\ HeldFromTo(prog, e.dst[1], a, e.dst[2] + 1, k)

\* The version a block has read is current as long as its process holds the variable.
HeldTip == \A e \in edges : ~e.wt /\ HeldSince(e, pc[e.dst[1]]) => e.src = last[e.sym]

\* The blocks between a lock and its unlock read one version.
OneVersion ==
  \A e, f \in edges :
    ~e.wt /\ ~f.wt /\ e.sym = f.sym /\ e.dst[1] = f.dst[1] /\ HeldSince(e, f.dst[2])
      => e.src = f.src

\* Held up to one block more is held up to this one, unless e is of this one.
LEMMA SinceShorter ==
  ASSUME TypeOK, NEW e \in EdgeType, NEW k \in Nat, HeldSince(e, k + 1)
  PROVE  HeldSince(e, k) \/ e.dst[2] = k
<1>1. e.dst[2] \in Nat
  BY ProcAssumption DEF EdgeType, Node
<1>2. PICK a \in Addr : a.sym = e.sym /\ HeldFromTo(prog, e.dst[1], a, e.dst[2] + 1, k + 1)
  BY DEF HeldSince
<1>3. HeldFromTo(prog, e.dst[1], a, e.dst[2] + 1, k)
  BY <1>1, <1>2 DEF HeldFromTo
<1>4. e.dst[2] < k + 1
  BY DEF HeldSince
<1> QED BY <1>1, <1>2, <1>3, <1>4 DEF HeldSince

\* What e's process has held since e it holds now.
LEMMA SinceHeld ==
  ASSUME TypeOK, NEW e \in EdgeType, HeldSince(e, pc[e.dst[1]])
  PROVE  \E h \in Holding : h[2].sym = e.sym
<1>1. e.dst[1] \in Proc /\ e.dst[2] \in Nat /\ pc[e.dst[1]] \in Nat
  BY ProcAssumption DEF EdgeType, Node, TypeOK
<1>2. PICK a \in Addr : a.sym = e.sym /\ HeldFromTo(prog, e.dst[1], a, e.dst[2] + 1, pc[e.dst[1]])
  BY DEF HeldSince
<1>3. pc[e.dst[1]] \in e.dst[2] + 1 .. pc[e.dst[1]]
  BY <1>1 DEF HeldSince
<1>4. a \in HeldAt(prog, e.dst[1], pc[e.dst[1]])
  BY <1>2, <1>3 DEF HeldFromTo
<1>5. PICK h : h = <<e.dst[1], a>>
  OBVIOUS
<1>6. h \in HoldingOf(prog, pc) /\ h[2] = a
  BY <1>1, <1>2, <1>4, <1>5 DEF HoldingOf
<1> QED BY <1>2, <1>6, HoldingIs

\* The version overwritten or undone by a write block is of a variable nobody holds.
LEMMA WritesWhatIsFree ==
  ASSUME TypeOK, TreeInv, DagInv, NoCircle, LockWords, NEW p \in Proc,
         FwdWrite(p) \/ BwdWrite(p), NEW h \in Holding
  PROVE  last'[h[2].sym] = last[h[2].sym]
<1> HIDE DEF Holding
<1>1. h[2].sym \in Sym
  BY HoldingIs DEF HoldingOf, Addr
<1>2. CASE FwdWrite(p)
  <2>1. PICK s \in Sym : s = NextBlock(p).dst.sym /\ last' = [last EXCEPT ![s] = NextNode(p)]
    BY <1>2, WriteFacts
  <2>2. WLockable(lock, last[s])
    BY <1>2, <2>1 DEF FwdWrite, FwdClear
  <2>3. h[2].sym # s
    BY <2>2, UnlockedIsFree
  <2> QED BY <1>1, <2>1, <2>3 DEF TypeOK
<1>3. CASE BwdWrite(p)
  <2>1. /\ pc[p] > 0 /\ RunnableBwd(edges, pc, PrevNodeOf(p)) /\ Writes(PrevBlock(p))
        /\ WLockable(lock, PrevNodeOf(p))
    BY <1>3 DEF BwdWrite, BwdReady, BwdClear
  <2>2. PICK s \in Sym : /\ s = PrevBlock(p).dst.sym
                         /\ last' = [last EXCEPT ![s] = PrevNode(edges, PrevNodeOf(p), s)]
    <3>1. PrevBlock(p) \in Block
      BY <2>1, BlockTypes
    <3>2. PrevBlock(p).dst.sym \in Sym
      BY <3>1 DEF Block, Addr
    <3> QED BY <1>3, <3>2 DEF BwdWrite
  <2>3. last[s] = PrevNodeOf(p)
    BY <2>1, <2>2, UndoFindsTip
  <2>4. h[2].sym # s
    BY <2>1, <2>3, UnlockedIsFree
  <2> QED BY <1>1, <2>2, <2>4 DEF TypeOK
<1> QED BY <1>2, <1>3

\* A block that executes depends on the current versions only.
LEMMA SourcesCurrent ==
  ASSUME TypeOK, DagInv, NEW p \in Proc,
         FwdWrite(p) \/ FwdLock(p) \/ FwdUnlock(p) \/ FwdRead(p) \/ FwdJoin(p),
         NEW e \in edges', e.dst = NextNode(p)
  PROVE  e.src = last[e.sym]
<1>1. /\ pc[p] < Len(prog[p])
      /\ RunnableFwd(edges, pc, NextNode(p)) \/ NextBlock(p).kind = "call"
      /\ edges' = BlockEdges(p)
  BY ForwardSteps
<1>2. CASE e \in edges
  BY <1>1, <1>2, ReplaySources DEF DagInv
<1>3. CASE e \notin edges
  <2>1. \A t \in Sym : last[t] # NextNode(p)
    BY <1>1, NextInactive DEF DagInv
  <2> QED BY <1>1, <1>3, <2>1, BlockEdgesShape
<1> QED BY <1>2, <1>3

\* What is held keeps its version.
LEMMA HeldKeepsVersion ==
  ASSUME TypeOK, TypeOK', TreeInv, DagInv, NoCircle, LockWords, NEW p \in Proc, Step(p),
         NEW h \in Holding
  PROVE  last'[h[2].sym] = last[h[2].sym]
<1> HIDE DEF Holding
<1>1. CASE FwdWrite(p) \/ BwdWrite(p)
  BY <1>1, WritesWhatIsFree
<1>2. CASE \/ FwdLock(p) \/ FwdUnlock(p) \/ FwdRead(p) \/ FwdFork(p) \/ FwdJoin(p)
           \/ BwdLock(p) \/ BwdUnlock(p) \/ BwdRead(p) \/ BwdFork(p) \/ BwdJoin(p)
  <2>1. last' = last
    BY <1>2, QuietSteps
  <2> QED BY <2>1
<1> QED BY <1>1, <1>2 DEF Step

\* Where the edges of a block that executes forward come from, and the current
\* versions after it.
LEMMA TipForward ==
  ASSUME TypeOK, TypeOK', TreeInv, DagInv, NoCircle, LockWords, HeldTip, OneVersion,
         NEW p \in Proc,
         FwdWrite(p) \/ FwdLock(p) \/ FwdUnlock(p) \/ FwdRead(p) \/ FwdJoin(p)
  PROVE  HeldTip' /\ OneVersion'
<1> HIDE DEF Holding
<1>1. PICK n \in Node : n = NextNode(p)
  BY ForwardSteps, BlockTypes
<1>2. /\ pc[p] < Len(prog[p]) /\ pc' = [pc EXCEPT ![p] = @ + 1] /\ prog' = prog
      /\ prog \in Programs /\ pc \in [Proc -> Nat] /\ n = <<p, pc[p]>>
  BY <1>1, ForwardSteps DEF TypeOK, NextNode
<1>3. /\ edges \subseteq edges'
      /\ \A e \in edges' \ edges : e.dst = n
      /\ edges' = edges \/ \A e \in edges : Active(pc, e.dst)
      /\ \A e \in edges' : e.dst = n => e.src = last[e.sym]
  BY <1>1, ForwardEdges, SourcesCurrent
<1>4. \A e \in edges' : /\ e \in EdgeType /\ e.sym \in Sym /\ e.dst # BOT
                        /\ e.dst = <<e.dst[1], e.dst[2]>>
                        /\ e.dst[1] \in Proc /\ e.dst[2] \in Nat
  <2>1. \A e \in edges' : e \in EdgeType /\ e.sym \in Sym /\ e.dst \in Node
    BY DEF TypeOK, EdgeType
  <2>2. \A m \in Node : m # BOT /\ m = <<m[1], m[2]>> /\ m[1] \in Proc /\ m[2] \in Nat
    BY BotAssumption, ProcAssumption DEF Node
  <2> QED BY <2>1, <2>2
<1>5. ASSUME NEW e \in edges', ~e.wt, HeldSince(e, pc[e.dst[1]])'
      PROVE  e.src = last'[e.sym]
  <2>1. HeldSince(e, pc'[e.dst[1]])
    BY <1>2, <1>5 DEF HeldSince
  <2>2. CASE HeldSince(e, pc[e.dst[1]])
    <3>1. e.dst # n
      BY <1>2, <1>4, <2>2 DEF HeldSince
    <3>2. e \in edges /\ e.src = last[e.sym]
      BY <1>3, <1>5, <2>2, <3>1 DEF HeldTip
    <3>3. PICK h \in Holding : h[2].sym = e.sym
      BY <1>4, <2>2, SinceHeld
    <3>4. last'[h[2].sym] = last[h[2].sym]
      BY <3>3, HeldKeepsVersion DEF Step
    <3> QED BY <3>2, <3>3, <3>4
  <2>3. CASE ~HeldSince(e, pc[e.dst[1]])
    <3>1. e.dst[1] = p /\ pc'[e.dst[1]] = pc[p] + 1
      BY <1>2, <1>4, <2>1, <2>3
    <3>2. e.dst[2] = pc[p]
      BY <1>2, <1>4, <2>1, <2>3, <3>1, SinceShorter
    <3>3. e.dst = n /\ e.src = last[e.sym]
      BY <1>2, <1>3, <1>4, <3>1, <3>2
    <3>4. CASE FwdWrite(p)
      <4>1. PICK b : b = NextBlock(p)
        OBVIOUS
      <4>2. b.kind \notin {"lock", "unlock"} /\ b = prog[p][pc[p] + 1]
        BY <3>4, <4>1 DEF FwdWrite, Writes, NextBlock
      <4>3. HeldAt(prog, p, pc[p] + 1) = HeldAt(prog, p, pc[p])
        BY <1>2, <4>2, HeldNext
      <4>4. PICK a \in Addr : /\ a.sym = e.sym
                              /\ HeldFromTo(prog, p, a, pc[p] + 1, pc[p] + 1)
        BY <1>2, <2>1, <3>1, <3>2 DEF HeldSince
      <4>5. a \in HeldAt(prog, p, pc[p])
        BY <1>2, <4>3, <4>4 DEF HeldFromTo
      <4>6. PICK h : h = <<p, a>>
        OBVIOUS
      <4>7. h \in Holding /\ h[2] = a
        BY <4>5, <4>6, HoldingIs DEF HoldingOf
      <4>8. last'[h[2].sym] = last[h[2].sym]
        BY <3>4, <4>7, WritesWhatIsFree
      <4> QED BY <3>3, <4>4, <4>7, <4>8
    <3>5. CASE FwdLock(p) \/ FwdUnlock(p) \/ FwdRead(p) \/ FwdJoin(p)
      <4>1. last' = last
        BY <3>5, QuietSteps
      <4> QED BY <3>3, <4>1
    <3> QED BY <3>4, <3>5
  <2> QED BY <2>2, <2>3
<1>6. ASSUME NEW e \in edges', NEW f \in edges', ~e.wt, ~f.wt, e.sym = f.sym,
             e.dst[1] = f.dst[1], HeldSince(e, f.dst[2])'
      PROVE  e.src = f.src
  <2>1. HeldSince(e, f.dst[2]) /\ e.dst[2] < f.dst[2]
    BY <1>2, <1>6 DEF HeldSince
  <2>2. CASE e \in edges /\ f \in edges
    BY <1>6, <2>1, <2>2 DEF OneVersion
  <2>3. CASE f \notin edges
    <3>1. f.dst = n /\ f.src = last[f.sym]
      BY <1>3, <2>3
    <3>2. e.dst # n /\ HeldSince(e, pc[e.dst[1]])
      BY <1>2, <1>6, <2>1, <3>1
    <3>3. e.src = last[e.sym]
      BY <1>3, <1>6, <3>2 DEF HeldTip
    <3> QED BY <1>6, <3>1, <3>3
  <2>4. CASE e \notin edges /\ f \in edges
    <3>1. e.dst = n /\ Active(pc, f.dst)
      BY <1>3, <2>4
    <3>2. pc[p] > f.dst[2] /\ pc[p] < f.dst[2]
      BY <1>2, <1>4, <1>6, <2>1, <3>1 DEF Active
    <3> QED BY <1>2, <1>4, <3>2
  <2> QED BY <2>2, <2>3, <2>4
<1> QED BY <1>5, <1>6 DEF HeldTip, OneVersion

LEMMA TipBackward ==
  ASSUME TypeOK, TypeOK', TreeInv, DagInv, NoCircle, LockWords, HeldTip, OneVersion,
         NEW p \in Proc,
         BwdWrite(p) \/ BwdLock(p) \/ BwdUnlock(p) \/ BwdRead(p) \/ BwdFork(p)
  PROVE  HeldTip' /\ OneVersion'
<1> HIDE DEF Holding
<1>1. PICK n \in Node : n = PrevNodeOf(p)
  BY BackwardSteps, BlockTypes
<1>2. PICK k \in Nat : /\ pc[p] = k + 1 /\ n = <<p, k>> /\ k < Len(prog[p])
                       /\ pc' = [pc EXCEPT ![p] = k] /\ prog' = prog /\ edges' = edges
                       /\ prog \in Programs /\ pc \in [Proc -> Nat]
  <2>1. pc[p] > 0 /\ pc' = [pc EXCEPT ![p] = @ - 1] /\ UNCHANGED <<prog, edges>>
    BY BackwardSteps
  <2>2. pc \in [Proc -> Nat] /\ pc[p] <= Len(prog[p]) /\ Len(prog[p]) \in Nat
    BY ProgramAssumption DEF TypeOK
  <2>3. PICK k \in Nat : k = pc[p] - 1
    BY <2>1, <2>2
  <2>4. pc[p] = k + 1 /\ k < Len(prog[p])
    BY <2>2, <2>3
  <2>5. n = <<p, k>> /\ pc' = [pc EXCEPT ![p] = k]
    BY <1>1, <2>1, <2>3 DEF PrevNodeOf
  <2> QED BY <2>1, <2>2, <2>4, <2>5 DEF TypeOK
<1>3. PICK b : b = prog[p][k + 1] /\ b = BlockOf(n) /\ b = PrevBlock(p)
  BY <1>2 DEF BlockOf, PrevBlock
<1>4. OneVersion'
  <2> SUFFICES ASSUME NEW e \in edges, NEW f \in edges, ~e.wt, ~f.wt, e.sym = f.sym,
                      e.dst[1] = f.dst[1], HeldSince(e, f.dst[2])'
               PROVE  e.src = f.src
    BY <1>2 DEF OneVersion
  <2>1. HeldSince(e, f.dst[2])
    BY <1>2 DEF HeldSince
  <2> QED BY <2>1 DEF OneVersion
<1>5. ASSUME NEW e \in edges, ~e.wt, HeldSince(e, pc[e.dst[1]])'
      PROVE  e.src = last'[e.sym]
  <2>1. HeldSince(e, pc'[e.dst[1]])
    BY <1>2, <1>5 DEF HeldSince
  <2>2. e \in EdgeType /\ e.dst[1] \in Proc
    BY ProcAssumption DEF TypeOK, EdgeType, Node
  <2>3. CASE HeldSince(e, pc[e.dst[1]])
    <3>1. e.src = last[e.sym]
      BY <1>5, <2>3 DEF HeldTip
    <3>2. PICK h \in Holding : h[2].sym = e.sym
      BY <2>2, <2>3, SinceHeld
    <3>3. last'[h[2].sym] = last[h[2].sym]
      BY <3>2, HeldKeepsVersion DEF Step
    <3> QED BY <3>1, <3>2, <3>3
  <2>4. CASE ~HeldSince(e, pc[e.dst[1]])
    <3>1. e.dst[1] = p /\ HeldSince(e, k)
      BY <1>2, <2>1, <2>2, <2>4
    <3>2. PICK a \in Addr : /\ a.sym = e.sym /\ e.dst[2] \in Nat /\ e.dst[2] < k
                            /\ HeldFromTo(prog, p, a, e.dst[2] + 1, k)
      BY <2>2, <3>1, ProcAssumption DEF HeldSince, EdgeType, Node
    <3>3. a \in HeldAt(prog, p, k)
      BY <3>2 DEF HeldFromTo
    <3>4. a \notin HeldAt(prog, p, k + 1)
      <4>1. SUFFICES ASSUME a \in HeldAt(prog, p, k + 1) PROVE HeldSince(e, k + 1)
        BY <1>2, <2>4, <3>1
      <4>2. HeldFromTo(prog, p, a, e.dst[2] + 1, k + 1)
        BY <3>2, <4>1 DEF HeldFromTo
      <4> QED BY <3>1, <3>2, <4>2 DEF HeldSince
    <3>5. b.kind = "unlock" /\ a \in b.src
      <4>1. /\ b.kind = "lock" => HeldAt(prog, p, k + 1) = HeldAt(prog, p, k) \cup b.src
            /\ b.kind = "unlock" => HeldAt(prog, p, k) = HeldAt(prog, p, k + 1) \cup b.src
            /\ b.kind \notin {"lock", "unlock"} => HeldAt(prog, p, k + 1) = HeldAt(prog, p, k)
        <5>1. prog \in Programs /\ b = prog[p][k + 1] /\ k < Len(prog[p])
          BY <1>2, <1>3
        <5>2. PICK P \in Programs : P = prog
          BY <5>1
        <5>3. b = P[p][k + 1] /\ k < Len(P[p])
          BY <5>1, <5>2
        <5> QED BY SMTT(30), <5>2, <5>3, HeldNext
      <4> QED BY <3>3, <3>4, <4>1
    <3>6. IsNode(n) /\ Active(pc, n) /\ ~Writes(b) /\ a \in Reads(BlockOf(n))
      BY <1>2, <1>3, <3>5 DEF IsNode, Active, Writes, Reads
    <3>7. PICK f \in edges : f.dst = n /\ f.sym = a.sym /\ ~f.wt
      BY <3>6 DEF DagInv, Mode, Recorded, InEdges
    <3>8. f.src = last[f.sym]
      <4>1. RunnableBwd(edges, pc, n) /\ ~WriterOf(n, f.sym)
        BY <1>1, <1>3, <3>6, BackwardSteps DEF WriterOf
      <4> QED BY <3>6, <3>7, <4>1, UndoFindsSources
    <3>9. e.src = f.src
      <4>1. f.dst[1] = p /\ f.dst[2] = k
        BY <1>2, <3>7
      <4> QED BY <1>5, <3>1, <3>2, <3>7, <4>1 DEF OneVersion
    <3>10. last' = last
      BY <1>3, <3>6, BackwardSteps
    <3> QED BY <3>2, <3>7, <3>8, <3>9, <3>10
  <2> QED BY <2>3, <2>4
<1>6. HeldTip'
  BY <1>2, <1>5 DEF HeldTip
<1> QED BY <1>4, <1>6

LEMMA TipStep ==
  TypeOK /\ TypeOK' /\ TreeInv /\ DagInv /\ NoCircle /\ LockWords /\ HeldTip /\ OneVersion
    /\ [Next]_vars => HeldTip' /\ OneVersion'
<1> SUFFICES ASSUME TypeOK, TypeOK', TreeInv, DagInv, NoCircle, LockWords, HeldTip, OneVersion,
                    [Next]_vars
             PROVE  HeldTip' /\ OneVersion'
  OBVIOUS
<1>1. ASSUME UNCHANGED <<prog, pc, edges, last>> PROVE HeldTip' /\ OneVersion'
  BY <1>1 DEF HeldTip, OneVersion, HeldSince
<1>2. ASSUME NEW p \in Proc,
             FwdWrite(p) \/ FwdLock(p) \/ FwdUnlock(p) \/ FwdRead(p) \/ FwdJoin(p)
      PROVE  HeldTip' /\ OneVersion'
  BY <1>2, TipForward
<1>3. ASSUME NEW p \in Proc,
             BwdWrite(p) \/ BwdLock(p) \/ BwdUnlock(p) \/ BwdRead(p) \/ BwdFork(p)
      PROVE  HeldTip' /\ OneVersion'
  BY <1>3, TipBackward
<1>4. CASE DelDag
  BY <1>4 DEF DelDag, HeldTip, OneVersion
<1> QED BY <1>1, <1>2, <1>3, <1>4 DEF Next, Step, FwdFork, BwdJoin, Turn, vars

\* The invariant of what is held: the version a process has locked is current until
\* it unlocks it, and both blocks have read that version.
THEOREM LockedIsCurrent == Spec => [](HeldTip /\ OneVersion)
<1>1. Init => HeldTip /\ OneVersion
  BY DEF Init, HeldTip, OneVersion
<1> QED BY <1>1, TipStep, TypeCorrect, TreeInOrder, DagSound, LocksSound, PTL DEF Spec

-----------------------------------------------------------------------------
(* A block let through does not wait *)

\* The value a semaphore block left behind and the one it found are in the log.
LEMMA SemaphoreLogged ==
  ASSUME TypeOK, DagInv, LogInv, NEW n \in Node, IsNode(n), Recorded(n),
         BlockOf(n).kind \in {"V", "P"}
  PROVE  LET b == BlockOf(n)
             s == b.dst.sym
         IN  \E m : /\ Edge(m, n, s, TRUE) \in edges
                    /\ last[s] = m => mem[b.dst.cell] = Awaits(b.kind)
                    /\ last[s] = n => mem[b.dst.cell] = 1 - Awaits(b.kind)
<1>1. PICK b, s : b = BlockOf(n) /\ s = b.dst.sym
  OBVIOUS
<1>2. Writes(b) /\ b.kind # "upd" /\ b.dst \in Reads(BlockOf(n))
  BY <1>1 DEF Writes, Reads
<1>3. s \in Sym /\ b.dst.cell \in Cell /\ NameOf[b.dst.cell] = s
  BY <1>1, <1>2, Named
<1>4. WriterOf(n, s)
  BY <1>1, <1>2 DEF WriterOf
<1>5. PICK l \in log : l.ver = n /\ l.sym = s
  BY <1>4, RecordedIsLogged
<1>6. Edge(l.over, n, s, TRUE) \in edges /\ l.ver # BOT
  BY <1>5, EntryFacts
<1>7. /\ ImageOf(s, l.over)[b.dst.cell] = Awaits(b.kind)
      /\ l.img[b.dst.cell] = 1 - Awaits(b.kind)
  <2>1. Computed(l)
    BY DEF LogInv
  <2> QED BY <1>1, <1>2, <1>5, <2>1 DEF Computed
<1>8. last[s] = l.over => mem[b.dst.cell] = Awaits(b.kind)
  BY <1>3, <1>7, CurrentImage
<1>9. last[s] = n => mem[b.dst.cell] = 1 - Awaits(b.kind)
  BY <1>3, <1>5, <1>6, <1>7, CurrentImage, ImageOfEntry
<1> QED BY <1>1, <1>6, <1>8, <1>9

\* A locked version has a holder, which locked it in a block of its own that has
\* read it, and will unlock it in another one.
LEMMA LockedByBlocks ==
  ASSUME TypeOK, DagInv, LockWords, HeldTip, OneVersion,
         NEW s \in Sym, NEW m \in Node, last[s] = m, lock[m] # 0
  PROVE  \E j, u \in Node :
           /\ IsNode(j) /\ Active(pc, j) /\ ~Writes(BlockOf(j))
           /\ \E e \in edges : ~e.wt /\ e.src = m /\ e.dst = j /\ e.sym = s
           /\ IsNode(u) /\ ~Active(pc, u) /\ ~Writes(BlockOf(u))
           /\ Recorded(u) => \E e \in edges : ~e.wt /\ e.src = m /\ e.dst = u /\ e.sym = s
<1> HIDE DEF Holding
<1>1. PICK h \in Holding : last[h[2].sym] = m
  <2>1. On(Holding, m) # {}
    BY FS_EmptySet DEF LockWords
  <2> QED BY <2>1 DEF On
<1>2. PICK q \in Proc, a \in Addr : h = <<q, a>> /\ a \in HeldAt(prog, q, pc[q])
  BY HoldingIs DEF HoldingOf
<1>3. a.sym = s
  <2>1. a.sym \in Sym /\ h[2] = a
    BY <1>2 DEF Addr
  <2>2. m # BOT
    BY BotAssumption
  <2>3. WriterOf(m, s) /\ WriterOf(m, a.sym)
    BY <1>1, <2>1, <2>2 DEF DagInv, LastIsTip, IsTip
  <2> QED BY <2>3 DEF WriterOf
<1>4. /\ prog \in Programs /\ prog[q] \in Seq(Block) /\ Len(prog[q]) \in Nat
      /\ Len(prog[q]) <= MaxLen /\ pc[q] \in 0 .. Len(prog[q]) /\ MaxLen \in Nat
  BY ProgramAssumption, ProcAssumption DEF TypeOK
<1>5. PICK j \in 0 .. pc[q] - 1 :
        /\ prog[q][j + 1].kind = "lock" /\ a \in prog[q][j + 1].src
        /\ HeldFromTo(prog, q, a, j + 1, pc[q])
  BY <1>2, <1>4, LockedBefore
<1>6. PICK u \in pc[q] .. Len(prog[q]) - 1 :
        /\ prog[q][u + 1].kind = "unlock" /\ a \in prog[q][u + 1].src
        /\ HeldFromTo(prog, q, a, pc[q], u)
  BY <1>2, <1>4, UnlockedAfter
<1>7. PICK jn \in Node, un \in Node : jn = <<q, j>> /\ un = <<q, u>>
  <2>1. j \in 0 .. MaxLen - 1 /\ u \in 0 .. MaxLen - 1
    BY <1>4
  <2> QED BY <2>1 DEF Node
<1>8. /\ IsNode(jn) /\ BlockOf(jn) = prog[q][j + 1]
      /\ IsNode(un) /\ BlockOf(un) = prog[q][u + 1]
      /\ Active(pc, jn) /\ ~Active(pc, un)
  BY <1>4, <1>7, BotAssumption DEF IsNode, BlockOf, Active
<1>9. /\ ~Writes(BlockOf(jn)) /\ a \in Reads(BlockOf(jn))
      /\ ~Writes(BlockOf(un)) /\ a \in Reads(BlockOf(un))
  BY <1>5, <1>6, <1>8 DEF Writes, Reads
<1>10. PICK e \in edges : ~e.wt /\ e.src = m /\ e.dst = jn /\ e.sym = s
  <2>1. PICK e \in edges : e.dst = jn /\ e.sym = a.sym /\ ~e.wt
    BY <1>8, <1>9 DEF DagInv, Mode, Recorded, InEdges
  <2>2. HeldSince(e, pc[e.dst[1]])
    BY <1>4, <1>5, <1>7, <2>1 DEF HeldSince
  <2> QED BY <1>3, <2>1, <2>2 DEF HeldTip
<1>11. ASSUME Recorded(un)
       PROVE  \E f \in edges : ~f.wt /\ f.src = m /\ f.dst = un /\ f.sym = s
  <2>1. PICK f \in edges : f.dst = un /\ f.sym = a.sym /\ ~f.wt
    BY <1>9, <1>11 DEF Recorded, InEdges
  <2>2. HeldFromTo(prog, q, a, j + 1, u)
    <3>1. \A i \in j + 1 .. u : i \in j + 1 .. pc[q] \/ i \in pc[q] .. u
      BY <1>4
    <3> QED BY <1>5, <1>6, <3>1 DEF HeldFromTo
  <2>3. HeldSince(e, f.dst[2]) /\ e.dst[1] = f.dst[1]
    BY <1>3, <1>4, <1>7, <1>10, <2>1, <2>2 DEF HeldSince
  <2> QED BY <1>3, <1>10, <2>1, <2>3 DEF OneVersion
<1> QED BY <1>8, <1>9, <1>10, <1>11

\* Forward: the semaphore has the value the block found when it ran first, and who
\* held the version to overwrite has unlocked it, for its unlock has read it.
LEMMA AdmittedForward ==
  ASSUME TypeOK, DagInv, LogInv, LockWords, HeldTip, OneVersion,
         NEW p \in Proc, FwdReady(p), Writes(NextBlock(p)), InEdges(edges, NextNode(p)) # {}
  PROVE  FwdClear(NextBlock(p))
<1>1. pc[p] < Len(prog[p]) /\ RunnableFwd(edges, pc, NextNode(p))
  BY DEF FwdReady
<1>2. PICK n \in Node : /\ n = NextNode(p) /\ IsNode(n) /\ BlockOf(n) = NextBlock(p)
                        /\ ~Active(pc, n)
  BY <1>1, NextInactive DEF DagInv
<1>3. PICK b : b = NextBlock(p) /\ b \in Block
  BY <1>1, BlockTypes
<1>4. PICK s \in Sym : s = b.dst.sym
  BY <1>3 DEF Block, Addr
<1>5. \A k \in Node : IsNode(k) => Recorded(k)
  BY <1>2 DEF DagInv, Mode, InEdges
<1>6. ASSUME NEW m, Edge(m, n, s, TRUE) \in edges PROVE last[s] = m
  <2>1. Edge(m, n, s, TRUE).dst = n /\ Edge(m, n, s, TRUE).src = m /\ Edge(m, n, s, TRUE).sym = s
    BY DEF Edge
  <2> QED BY <1>1, <1>2, <1>6, <2>1, ReplaySources DEF DagInv
<1>7. ASSUME b.kind # "upd" PROVE mem[b.dst.cell] = Awaits(b.kind)
  <2>1. b.kind \in {"V", "P"}
    BY <1>3, <1>7 DEF Writes
  <2> QED BY <1>2, <1>3, <1>4, <1>5, <1>6, <2>1, SemaphoreLogged
<1>8. WLockable(lock, last[s])
  <2> SUFFICES ASSUME last[s] # BOT, lock[last[s]] # 0 PROVE FALSE
    BY DEF WLockable
  <2>1. PICK m \in Node : m = last[s]
    BY DEF TypeOK
  <2>2. PICK u \in Node :
          /\ IsNode(u) /\ ~Active(pc, u) /\ ~Writes(BlockOf(u))
          /\ Recorded(u) => \E e \in edges : ~e.wt /\ e.src = m /\ e.dst = u /\ e.sym = s
    BY <2>1, LockedByBlocks
  <2>3. PICK f \in edges : f.src = m /\ f.dst = u /\ f.sym = s
    BY <1>5, <2>2
  <2>4. PICK e \in edges : e.dst = n /\ e.sym = s /\ e.wt
    BY <1>2, <1>3, <1>4, <1>5 DEF Recorded, InEdges
  <2>5. e.src = m
    BY <1>1, <1>2, <2>1, <2>4, ReplaySources DEF DagInv
  <2>6. u # n
    BY <1>2, <1>3, <2>2
  <2> QED BY <1>1, <1>2, <2>2, <2>3, <2>4, <2>5, <2>6 DEF RunnableFwd, InEdges, OutEdges
<1> QED BY <1>3, <1>4, <1>7, <1>8 DEF FwdClear

\* Backward: the semaphore has the value the block left, and who holds the version
\* to remove has undone its unlock and not its lock, which depends on the block.
LEMMA AdmittedBackward ==
  ASSUME TypeOK, DagInv, LogInv, LockWords, HeldTip, OneVersion,
         NEW p \in Proc, BwdReady(p), Writes(PrevBlock(p))
  PROVE  BwdClear(PrevBlock(p), PrevNodeOf(p))
<1>1. pc[p] > 0 /\ RunnableBwd(edges, pc, PrevNodeOf(p))
  BY DEF BwdReady
<1>2. PICK n \in Node : n = PrevNodeOf(p)
  BY <1>1, BlockTypes
<1>3. PICK b : b = PrevBlock(p) /\ b \in Block
  BY <1>1, BlockTypes
<1>4. PICK s \in Sym : s = b.dst.sym
  BY <1>3 DEF Block, Addr
<1>5. last[s] = n
  BY <1>1, <1>2, <1>3, <1>4, UndoFindsTip
<1>6. IsNode(n) /\ BlockOf(n) = b /\ Active(pc, n)
  <2>1. pc[p] \in Nat /\ pc[p] <= Len(prog[p]) /\ Len(prog[p]) \in Nat
    BY ProgramAssumption DEF TypeOK
  <2> QED BY <1>1, <1>2, <1>3, <2>1 DEF IsNode, BlockOf, Active, PrevNodeOf, PrevBlock
<1>7. ASSUME b.kind # "upd" PROVE mem[b.dst.cell] = 1 - Awaits(b.kind)
  <2>1. b.kind \in {"V", "P"} /\ Recorded(n)
    BY <1>3, <1>6, <1>7 DEF Writes, DagInv, Mode
  <2> QED BY <1>4, <1>5, <1>6, <2>1, SemaphoreLogged
<1>8. WLockable(lock, n)
  <2> SUFFICES ASSUME lock[n] # 0 PROVE FALSE
    BY DEF WLockable
  <2>1. PICK j \in Node : /\ Active(pc, j)
                          /\ \E e \in edges : ~e.wt /\ e.src = n /\ e.dst = j /\ e.sym = s
    BY <1>5, LockedByBlocks
  <2> QED BY <1>1, <1>2, <2>1 DEF RunnableBwd, OutEdges
<1> QED BY <1>2, <1>3, <1>7, <1>8 DEF BwdClear

\* A replayed or reversed write block that isRunnable lets through finds its
\* semaphore at the value it waits for and the version it overwrites or removes
\* unlocked: WaitV, WaitP and WLockAddr return at once, the DAG alone orders the
\* run.  Under NameAssumption, WrittenAssumption and PairAssumption.
THEOREM AdmittedNeverWait == LSpec => []AdmittedRuns
<1>1. TypeOK /\ DagInv /\ LogInv /\ LockWords /\ HeldTip /\ OneVersion => AdmittedRuns
  BY AdmittedForward, AdmittedBackward DEF AdmittedRuns
<1> QED BY <1>1, SameBehaviours, TypeCorrect, DagSound, LocksSound, LockedIsCurrent, LogSound, PTL
-----------------------------------------------------------------------------
(* The order of a run *)

\* A block begins and ends; only for a call other blocks come in between.
Begin(n) == <<n[1], 2 * n[2]>>
End(n) == <<n[1], 2 * n[2] + 1>>
Moments == {x \in Proc \X Nat : x[2] < 2 * Len(prog[x[1]])}

\* How many moments of p are past.
Pos(p) == 2 * pc[p] + (IF p \in inCall THEN 1 ELSE 0)

\* x is part of what the process does while block k of its caller runs.
During(x, k) == 2 * Mark(prog, x[1], k) <= x[2] /\ x[2] < 2 * Mark(prog, x[1], k + 1)

\* x comes before y: in one process; as the writer of a version before its users;
\* as a user of a version before the block that overwrites it; as the begin of a
\* call before what it runs, and what it runs before its end.
Before(x, y) ==
  \/ x[1] = y[1] /\ x[2] < y[2]
  \/ \E e \in edges : e.src # BOT /\ x = End(e.src) /\ y = Begin(e.dst)
  \/ \E e, f \in edges :
       /\ e.wt /\ f.sym = e.sym /\ f.src = e.src /\ f.dst # e.dst
       /\ x = End(f.dst) /\ y = Begin(e.dst)
  \/ \E k \in Nat : y[1] # Root /\ x = <<Caller(y[1]), 2 * k>> /\ During(y, k)
  \/ \E k \in Nat : x[1] # Root /\ y = <<Caller(x[1]), 2 * k + 1>> /\ During(x, k)

\* What the DAG has recorded: all of a run, or what the first run has done so far.
Past == {x \in Moments : outcomes # {} \/ x[2] < Pos(x[1])}

\* The order has no circle: whatever is left of a run has a first and a last moment.
Ordered ==
  \A S \in SUBSET Past : S # {} =>
    /\ \E x \in S : \A y \in S : ~Before(y, x)
    /\ \E x \in S : \A y \in S : ~Before(x, y)

\* A complete run has left a complete DAG, and only such a run is followed by a
\* backward one.  The first run has recorded only what it has executed.
Complete ==
  /\ outcomes # {} => \A n \in Node : IsNode(n) => Recorded(n)
  /\ outcomes = {} => \A e \in edges : Active(pc, e.dst)
  /\ rev /\ outcomes = {} => Root \notin live

LEMMA OrderGrows ==
  ASSUME Ordered, NEW t, NEW u, Past' \subseteq Past \cup {t, u},
         \A x, y \in Past : Before(x, y)' => Before(x, y),
         \A y \in Past \cup {t} : ~Before(t, y)',
         \A y \in Past \cup {t, u} : ~Before(u, y)'
  PROVE  Ordered'
<1> SUFFICES ASSUME NEW S \in SUBSET (Past'), S # {}
             PROVE  /\ \E x \in S : \A y \in S : ~Before(y, x)'
                    /\ \E x \in S : \A y \in S : ~Before(x, y)'
  BY DEF Ordered
<1>1. S \subseteq Past \cup {t, u}
  OBVIOUS
<1>2. PICK Q : Q = S \cap Past
  OBVIOUS
<1>3. Q # {} => /\ \E x \in Q : \A y \in Q : ~Before(y, x)
                /\ \E x \in Q : \A y \in Q : ~Before(x, y)
  BY <1>2 DEF Ordered
<1>4. Q # {} => /\ \E x \in Q : \A y \in Q : ~Before(y, x)'
                /\ \E x \in Q : \A y \in Q : ~Before(x, y)'
  BY <1>2, <1>3
<1>5. \E x \in S : \A y \in S : ~Before(y, x)'
  <2>1. CASE Q # {}
    <3>1. PICK x \in Q : \A y \in Q : ~Before(y, x)'
      BY <1>4, <2>1
    <3>2. \A y \in S : y \in Q \/ y = t \/ y = u
      BY <1>1, <1>2
    <3>3. x \in S /\ x \in Past
      BY <1>2
    <3> QED BY <3>1, <3>2, <3>3
  <2>2. CASE Q = {}
    <3>1. \A y \in S : y = t \/ y = u
      BY <1>1, <1>2, <2>2
    <3>2. CASE t \in S
      BY <3>1, <3>2
    <3>3. CASE t \notin S
      <4>1. S = {u}
        BY <3>1, <3>3
      <4> QED BY <4>1
    <3> QED BY <3>2, <3>3
  <2> QED BY <2>1, <2>2
<1>6. \E x \in S : \A y \in S : ~Before(x, y)'
  <2>1. CASE u \in S
    BY <1>1, <2>1
  <2>2. CASE u \notin S /\ t \in S
    <3>1. \A y \in S : y \in Past \/ y = t
      BY <1>1, <2>2
    <3> QED BY <2>2, <3>1
  <2>3. CASE u \notin S /\ t \notin S
    <3>1. S = Q
      BY <1>1, <1>2, <2>3
    <3> QED BY <1>4, <3>1
  <2> QED BY <2>1, <2>2, <2>3
<1> QED BY <1>5, <1>6

\* The counters of a called process only grow with the progress of its caller.
LEMMA MarkGrows ==
  ASSUME TypeOK, NEW c \in Proc \ {Root}, NEW i \in Nat, NEW j \in Nat,
         i <= j, j <= Len(prog[Caller(c)])
  PROVE  Mark(prog, c, i) <= Mark(prog, c, j)
<1>1. PICK P \in Programs, L \in Nat : P = prog /\ L = Len(prog[Caller(c)])
  BY CallerFacts DEF TypeOK
<1>2. \A k \in 0 .. L : Mark(P, c, k) \in Nat
  BY <1>1, CallerFacts
<1>3. ASSUME NEW k \in Nat, k < L PROVE Mark(P, c, k) <= Mark(P, c, k + 1)
  <2>1. k + 1 \in 1 .. L /\ k + 1 - 1 = k /\ k \in 0 .. L /\ k + 1 \in 0 .. L
    BY <1>1, <1>3
  <2>2. CallIsWhole(P, c, k + 1)
    BY <1>1, <2>1, CallAssumption
  <2>3. Mark(P, c, k) < Mark(P, c, k + 1) \/ Mark(P, c, k + 1) = Mark(P, c, k)
    BY <2>1, <2>2 DEF CallIsWhole
  <2> QED BY <1>2, <2>1, <2>3
<1> DEFINE S == {d \in Nat : i + d <= L /\ Mark(P, c, i + d) < Mark(P, c, i)}
<1>4. S = {}
  <2>1. SUFFICES ASSUME S # {} PROVE FALSE
    OBVIOUS
  <2>2. PICK d \in S : \A k \in S : d <= k
    <3>1. S \in SUBSET Nat
      OBVIOUS
    <3> HIDE DEF S
    <3> QED BY <2>1, <3>1, LeastNat
  <2>3. d \in Nat /\ i + d <= L /\ Mark(P, c, i + d) < Mark(P, c, i)
    BY <2>2
  <2>4. i + 0 = i /\ i \in 0 .. L
    BY <1>1
  <2>5. d # 0
    BY <1>2, <2>3, <2>4
  <2>6. PICK k \in Nat : d = k + 1
    <3>1. d - 1 \in Nat /\ d = (d - 1) + 1
      BY <2>3, <2>5
    <3> QED BY <3>1
  <2>7. k \notin S
    <3>1. ~(d <= k)
      BY <2>6
    <3> HIDE DEF S
    <3> QED BY <2>2, <3>1
  <2>8. i + k \in 0 .. L /\ i + d \in 0 .. L /\ i + k < L /\ i + d = (i + k) + 1
    BY <1>1, <2>3, <2>6
  <2>9. ~(Mark(P, c, i + k) < Mark(P, c, i))
    BY <2>7, <2>8
  <2>10. Mark(P, c, i + k) <= Mark(P, c, i + d)
    BY <1>3, <2>8
  <2> QED BY <1>2, <2>3, <2>4, <2>8, <2>9, <2>10
<1>5. j - i \in Nat /\ i + (j - i) = j /\ j \in 0 .. L /\ i \in 0 .. L
  BY <1>1
<1>6. j - i \notin S
  BY <1>4
<1>7. ~(Mark(P, c, j) < Mark(P, c, i))
  BY <1>1, <1>5, <1>6
<1> QED BY <1>1, <1>2, <1>5, <1>7

\* The moment a process reaches in the first run comes before nothing that is past.
LEMMA NewestMoment ==
  ASSUME TypeOK, TreeInv, ~rev, outcomes = {}, NEW p \in live, prog' = prog,
         \A e \in edges' : e.src # BOT => e.src \in Node /\ Active(pc, e.src),
         \A e, f \in edges' : e.wt /\ f.sym = e.sym /\ f.src = e.src /\ f.dst # e.dst
                                => f.dst # NextNode(p),
         \A e \in edges' : e.dst \in Node,
         NEW i \in Nat,
         \/ i = 2 * pc[p] /\ p \notin inCall
         \/ i = 2 * pc[p] + 1,
         NEW z, z \in Past \/ \E j \in Nat : j <= i /\ z = <<p, j>>
  PROVE  ~Before(<<p, i>>, z)'
<1>1. PICK t : t = <<p, i>>
  OBVIOUS
<1>2. /\ p \in Proc /\ t[1] = p /\ t[2] = i /\ pc \in [Proc -> Nat]
      /\ prog \in Programs
  BY <1>1 DEF TypeOK
<1>3. \A q \in Proc : pc[q] \in Nat /\ Pos(q) \in {2 * pc[q], 2 * pc[q] + 1}
  BY <1>2 DEF Pos
<1>4. /\ z[1] \in Proc /\ z[2] \in Nat
      /\ z[1] = p => z[2] <= i
      /\ z[1] # p => z[2] < Pos(z[1])
      /\ z = <<z[1], z[2]>>
  <2>1. CASE z \in Past
    <3>1. z \in Proc \X Nat /\ z[2] < Pos(z[1])
      BY <2>1 DEF Past, Moments
    <3>2. z[1] = p => z[2] <= i
      <4>1. CASE i = 2 * pc[p] /\ p \notin inCall
        BY <1>2, <3>1, <4>1 DEF Pos
      <4>2. CASE i = 2 * pc[p] + 1
        BY <1>2, <1>3, <3>1, <4>2
      <4> QED BY <4>1, <4>2
    <3> QED BY <3>1, <3>2
  <2>2. CASE \E j \in Nat : j <= i /\ z = <<p, j>>
    BY <1>2, <2>2
  <2> QED BY <2>1, <2>2
<1>5. ~(t[1] = z[1] /\ t[2] < z[2])
  BY <1>2, <1>4
<1>6. \A n \in Node : n[2] \in Nat /\ n[1] \in Proc /\ n = <<n[1], n[2]>> /\ n # BOT
  BY BotAssumption, ProcAssumption DEF Node
<1>7. ASSUME NEW n \in Node, t = End(n) PROVE n = NextNode(p) /\ ~Active(pc, n)
  <2>1. n[1] = p /\ i = 2 * n[2] + 1 /\ n[2] \in Nat
    BY <1>1, <1>6, <1>7 DEF End
  <2>2. n[2] = pc[p]
    <3>1. PICK k \in Nat, l \in Nat : k = n[2] /\ l = pc[p]
      BY <1>2, <1>3, <2>1
    <3>2. i = 2 * k + 1 /\ (i = 2 * l \/ i = 2 * l + 1)
      BY <2>1, <3>1
    <3>3. k = l
      BY <3>2
    <3> QED BY <3>1, <3>3
  <2> QED BY <1>2, <1>3, <1>6, <2>1, <2>2 DEF NextNode, Active
<1>8. ~\E e \in edges' : e.src # BOT /\ t = End(e.src) /\ z = Begin(e.dst)
  BY <1>7
<1>9. ~\E e, f \in edges' :
         /\ e.wt /\ f.sym = e.sym /\ f.src = e.src /\ f.dst # e.dst
         /\ t = End(f.dst) /\ z = Begin(e.dst)
  BY <1>7
<1>10. ASSUME NEW k \in Nat, z[1] # Root, t = <<Caller(z[1]), 2 * k>>, During(z, k)
       PROVE  FALSE
  <2>1. PICK c \in Proc \ {Root} : c = z[1]
    BY <1>4, <1>10
  <2>2. Caller(c) = p /\ i = 2 * k /\ c # p
    BY <1>1, <1>10, <2>1, CallerFacts
  <2>3. p \notin inCall /\ k = pc[p]
    BY <1>2, <1>3, <2>2
  <2>4. c \notin live /\ c \notin inCall /\ ~Called(c)
    BY <2>1, <2>2, <2>3 DEF TreeInv, Called
  <2>5. pc[c] = Mark(prog, c, pc[p])
    BY <2>1, <2>2, <2>4 DEF TreeInv, Placed, From
  <2>6. z[2] < 2 * Mark(prog, c, k)
    <3>1. Pos(c) = 2 * pc[c] + 0
      BY <2>4 DEF Pos
    <3>2. Pos(c) = 2 * pc[c]
      BY <1>3, <2>1, <3>1
    <3>3. z[2] < Pos(c)
      BY <1>4, <2>1, <2>2
    <3> QED BY <2>3, <2>5, <3>2, <3>3
  <2>7. 2 * Mark(prog, c, k) <= z[2]
    BY <1>10, <2>1 DEF During
  <2>8. Mark(prog, c, k) \in Nat
    BY <1>3, <2>3, <2>5, <2>1
  <2> QED BY <1>4, <2>6, <2>7, <2>8
<1>11. ASSUME NEW k \in Nat, t[1] # Root, z = <<Caller(t[1]), 2 * k + 1>>, During(t, k)
       PROVE  FALSE
  <2>1. p \in live \ {Root} /\ p \in Proc \ {Root}
    BY <1>2, <1>11
  <2>2. PICK q \in Proc : q = Caller(p) /\ q # p
    BY <2>1, CallerFacts
  <2>3. z[1] = q /\ z[2] = 2 * k + 1
    BY <1>2, <1>11, <2>2
  <2>4. k + 1 <= pc[q] /\ pc[q] <= Len(prog[q]) /\ pc[q] \in Nat /\ k + 1 \in Nat
    <3>1. 2 * k + 1 < Pos(q)
      BY <1>4, <2>2, <2>3
    <3> QED BY <1>3, <3>1 DEF TypeOK
  <2>5. Mark(prog, p, k + 1) <= Mark(prog, p, pc[q])
    BY <2>1, <2>2, <2>4, MarkGrows
  <2>6. Mark(prog, p, pc[q]) <= pc[p] /\ Mark(prog, p, pc[q]) \in Nat
    BY <2>1, <2>2, RunningBlock DEF From
  <2>7. Mark(prog, p, k + 1) \in Nat
    <3>1. k + 1 \in 0 .. Len(prog[q]) /\ Len(prog[q]) \in Nat
      BY <2>1, <2>2, <2>4, CallerFacts
    <3> QED BY <2>1, <2>2, <3>1, CallerFacts
  <2>8. i < 2 * Mark(prog, p, k + 1)
    BY <1>2, <1>11 DEF During
  <2>9. i >= 2 * pc[p]
    BY <1>2, <1>3
  <2> QED BY <1>3, <1>2, <2>5, <2>6, <2>7, <2>8, <2>9
<1>12. \A x, k : During(x, k)' <=> During(x, k)
  BY DEF During
<1> QED BY <1>1, <1>5, <1>8, <1>9, <1>10, <1>11, <1>12 DEF Before

\* Edges stay, and with them what they record.
LEMMA RecordedStays ==
  ASSUME prog' = prog, edges \subseteq edges', NEW n
  PROVE  /\ IsNode(n)' <=> IsNode(n)
         /\ Recorded(n) => Recorded(n)'
<1>1. IsNode(n)' <=> IsNode(n)
  BY DEF IsNode
<1>2. BlockOf(n)' = BlockOf(n)
  BY DEF BlockOf
<1>3. InEdges(edges, n) \subseteq InEdges(edges', n)
  BY DEF InEdges
<1> HIDE DEF BlockOf, InEdges
<1> QED BY <1>1, <1>2, <1>3 DEF Recorded

\* The blocks of a replay have their edges.
LEMMA ReplayEdges ==
  ASSUME TypeOK, DagInv, Complete, outcomes # {}, NEW p \in Proc,
         FwdWrite(p) \/ FwdLock(p) \/ FwdUnlock(p) \/ FwdRead(p) \/ FwdJoin(p)
  PROVE  edges' = edges
<1> SUFFICES ASSUME NEW e \in edges' \ edges PROVE FALSE
  BY ForwardEdges
<1>1. pc[p] < Len(prog[p]) /\ edges' = BlockEdges(p)
  BY ForwardSteps
<1>2. PICK n \in Node : /\ n = NextNode(p) /\ IsNode(n) /\ BlockOf(n) = NextBlock(p)
                        /\ ~Active(pc, n) /\ \A t \in Sym : last[t] # n
  BY <1>1, NextInactive DEF DagInv
<1>3. IF e.wt THEN Writes(BlockOf(n)) ELSE \E a \in Reads(BlockOf(n)) : a.sym = e.sym
  <2>1. e \in BlockEdges(p) \ edges
    BY <1>1
  <2>2. IF e.wt THEN Writes(NextBlock(p)) /\ e.sym = NextBlock(p).dst.sym
                ELSE \E a \in Reads(NextBlock(p)) : a.sym = e.sym
    BY <1>1, <1>2, <2>1, BlockEdgesShape
  <2> QED BY <1>2, <2>2
<1>4. PICK f \in edges : f.dst = n
  BY <1>2, <1>3 DEF Complete, Recorded, InEdges
<1>5. \A g \in edges : Active(pc, g.dst)
  BY ForwardEdges
<1> QED BY <1>2, <1>4, <1>5

LEMMA CompleteStep ==
  TypeOK /\ TypeOK' /\ TreeInv /\ WholeRuns /\ DagInv /\ Complete /\ [Next]_vars => Complete'
<1> SUFFICES ASSUME TypeOK, TypeOK', TreeInv, WholeRuns, DagInv, Complete, [Next]_vars
             PROVE  Complete'
  OBVIOUS
<1>1. ASSUME UNCHANGED <<prog, pc, edges, rev, live, outcomes>> PROVE Complete'
  BY <1>1, RecordedStays DEF Complete, Active
<1>2. ASSUME NEW p \in Proc,
             FwdWrite(p) \/ FwdLock(p) \/ FwdUnlock(p) \/ FwdRead(p) \/ FwdJoin(p)
      PROVE  Complete'
  <2>1. prog' = prog /\ rev' = rev /\ ~rev /\ pc[p] < Len(prog[p])
        /\ pc' = [pc EXCEPT ![p] = @ + 1]
    BY <1>2, ForwardSteps
  <2>2. outcomes' = outcomes
    BY <1>2 DEF FwdWrite, FwdLock, FwdUnlock, FwdRead, FwdJoin
  <2>3. edges \subseteq edges' /\ \A e \in edges' \ edges : e.dst = NextNode(p)
    BY <1>2, ForwardEdges
  <2>4. ASSUME outcomes = {}, NEW e \in edges' PROVE Active(pc', e.dst)
    <3>1. e.dst \in Node
      BY DEF TypeOK, EdgeType
    <3>2. Active(pc, e.dst) \/ e.dst = NextNode(p)
      BY <2>3, <2>4 DEF Complete
    <3> QED BY <2>1, <3>1, <3>2, ActiveStep
  <2>5. ASSUME outcomes # {}, NEW n \in Node, IsNode(n)' PROVE Recorded(n)'
    BY <2>1, <2>3, <2>5, RecordedStays DEF Complete
  <2> QED BY <2>1, <2>2, <2>4, <2>5 DEF Complete
<1>3. ASSUME NEW p \in Proc, FwdFork(p) PROVE Complete'
  BY <1>3, RecordedStays DEF FwdFork, FwdReady, Complete, Active
<1>4. ASSUME NEW p \in Proc,
             BwdWrite(p) \/ BwdLock(p) \/ BwdUnlock(p) \/ BwdRead(p) \/ BwdFork(p) \/ BwdJoin(p)
      PROVE  Complete'
  <2>1. rev /\ p \in live /\ UNCHANGED <<prog, edges, rev, outcomes>>
    BY <1>4 DEF BwdWrite, BwdLock, BwdUnlock, BwdRead, BwdFork, BwdJoin, BwdReady, TreeInv
  <2>2. outcomes # {}
    BY <2>1, NobodyRuns DEF Complete
  <2> QED BY <2>1, <2>2, RecordedStays DEF Complete
<1>5. CASE Turn
  <2>1. UNCHANGED <<prog, pc, edges>> /\ rev' = ~rev /\ (rev => outcomes' = outcomes)
        /\ (~rev => outcomes' # {}) /\ Stopped
    BY <1>5 DEF Turn
  <2>2. CASE rev
    BY <2>1, <2>2, RecordedStays DEF Complete, Active
  <2>3. CASE ~rev
    <3>1. \A n \in Node : IsNode(n) => Active(pc, n)
      BY <2>1, <2>3, BotAssumption DEF WholeRuns, AtEnd, IsNode, Active, TypeOK, Node
    <3>2. \A n \in Node : IsNode(n) => Recorded(n)
      BY <3>1 DEF DagInv, Mode
    <3> QED BY <2>1, <2>3, <3>2, RecordedStays DEF Complete
  <2> QED BY <2>2, <2>3
<1>6. CASE DelDag
  BY <1>6 DEF DelDag, AtStart, Stopped, Complete
<1> QED BY <1>1, <1>2, <1>3, <1>4, <1>5, <1>6 DEF Next, Step, vars

\* The same order of the same moments.
LEMMA OrderStays ==
  ASSUME Ordered, prog' = prog, edges' = edges, Past' \subseteq Past
  PROVE  Ordered'
<1>1. \A x, y : Before(x, y)' <=> Before(x, y)
  BY DEF Before, During
<1> QED BY <1>1 DEF Ordered

\* A block executed in the first run is the last so far.
LEMMA OrderForward ==
  ASSUME TypeOK, TypeOK', TreeInv, DagInv, Complete, Ordered, outcomes = {}, NEW p \in Proc,
         FwdWrite(p) \/ FwdLock(p) \/ FwdUnlock(p) \/ FwdRead(p) \/ FwdJoin(p)
  PROVE  Ordered'
<1>1. PICK n \in Node : n = NextNode(p)
  BY ForwardSteps, BlockTypes
<1>2. /\ pc[p] < Len(prog[p]) /\ prog' = prog /\ ~rev /\ pc \in [Proc -> Nat]
      /\ pc' = [pc EXCEPT ![p] = @ + 1]
      /\ \A t \in Sym : last[t] # n /\ Active(pc, last[t])
  BY <1>1, ForwardSteps, NextInactive DEF DagInv, TypeOK
<1>3. /\ outcomes' = outcomes /\ inCall' = inCall \ {p} /\ p \in live
      /\ FwdJoin(p) <=> p \in inCall
  BY DEF FwdWrite, FwdLock, FwdUnlock, FwdRead, FwdJoin, FwdReady, TreeInv
<1>4. /\ edges \subseteq edges'
      /\ \A e \in edges' \ edges : e.dst = n
      /\ \A e \in edges' : e.dst = n => e.src = last[e.sym]
      /\ \A e \in edges : Active(pc, e.dst)
  BY <1>1, ForwardEdges, SourcesCurrent DEF Complete
<1>5. \A e \in edges' : e.dst \in Node /\ e.src \in Node \cup {BOT} /\ e.sym \in Sym
  BY DEF TypeOK, EdgeType
<1>6. ASSUME NEW e \in edges' PROVE Active(pc, e.src)
  BY <1>2, <1>4, <1>5 DEF DagInv, ActiveClosed
<1>7. ASSUME NEW e \in edges', NEW f \in edges', e.wt, f.sym = e.sym, f.src = e.src,
             f.dst # e.dst, f.dst = n
      PROVE  FALSE
  <2>1. e \in edges /\ e.src = last[e.sym] /\ Active(pc, e.dst)
    BY <1>4, <1>7
  <2>2. IsTip(e.sym, last[e.sym])
    BY <1>5 DEF DagInv, LastIsTip
  <2> QED BY <1>7, <2>1, <2>2 DEF IsTip
<1>8. PICK t, u : t = <<p, 2 * pc[p]>> /\ u = <<p, 2 * pc[p] + 1>>
  OBVIOUS
<1>9. \A i, z : /\ (i = 2 * pc[p] /\ p \notin inCall) \/ i = 2 * pc[p] + 1
                /\ z \in Past \/ \E j \in Nat : j <= i /\ z = <<p, j>>
                => ~Before(<<p, i>>, z)'
  <2> SUFFICES ASSUME NEW i, (i = 2 * pc[p] /\ p \notin inCall) \/ i = 2 * pc[p] + 1,
                      NEW z, z \in Past \/ \E j \in Nat : j <= i /\ z = <<p, j>>
               PROVE  ~Before(<<p, i>>, z)'
    OBVIOUS
  <2>1. i \in Nat
    BY <1>2
  <2> QED BY <1>1, <1>2, <1>3, <1>5, <1>6, <1>7, <2>1, NewestMoment
<1>10. \A z \in Past \cup {t, u} : ~Before(u, z)'
  <2>1. 2 * pc[p] \in Nat /\ 2 * pc[p] + 1 \in Nat /\ 2 * pc[p] <= 2 * pc[p] + 1
    BY <1>2
  <2> QED BY <1>8, <1>9, <2>1
<1>11. p \notin inCall => \A z \in Past \cup {t} : ~Before(t, z)'
  <2>1. 2 * pc[p] \in Nat /\ 2 * pc[p] <= 2 * pc[p]
    BY <1>2
  <2> QED BY <1>8, <1>9, <2>1
<1>12. p \in inCall => t \in Past
  <2>1. 2 * pc[p] < 2 * Len(prog[p]) /\ 2 * pc[p] \in Nat /\ 2 * pc[p] < 2 * pc[p] + 1
    BY <1>2, ProgramAssumption DEF TypeOK
  <2> QED BY <1>8, <2>1 DEF Past, Moments, Pos
<1>13. Past' \subseteq Past \cup {t, u}
  <2> SUFFICES ASSUME NEW x \in Past', x \notin Past PROVE x = t \/ x = u
    OBVIOUS
  <2>1. /\ x \in Proc \X Nat /\ x[2] < 2 * Len(prog[x[1]]) /\ x[2] < Pos(x[1])'
        /\ ~(x[2] < Pos(x[1]))
    BY <1>2, <1>3 DEF Past, Moments
  <2>2. x[1] = p
    BY <1>2, <1>3, <2>1 DEF Pos
  <2>3. Pos(p)' = 2 * pc'[p] + 0
    BY <1>3 DEF Pos
  <2>4. pc'[p] = pc[p] + 1 /\ pc[p] \in Nat /\ Pos(p) \in {2 * pc[p], 2 * pc[p] + 1}
    BY <1>2 DEF Pos
  <2>5. x[2] = 2 * pc[p] \/ x[2] = 2 * pc[p] + 1
    <3>1. PICK k \in Nat, i \in Nat : k = pc[p] /\ i = x[2]
      BY <2>1, <2>4
    <3>2. i < 2 * (k + 1) + 0 /\ (~(i < 2 * k) \/ ~(i < 2 * k + 1))
      BY <2>1, <2>2, <2>3, <2>4, <3>1
    <3> QED BY <3>1, <3>2
  <2> QED BY <1>8, <2>1, <2>2, <2>5
<1>14. \A x, y \in Past : Before(x, y)' => Before(x, y)
  <2> SUFFICES ASSUME NEW x \in Past, NEW y \in Past, Before(x, y)' PROVE Before(x, y)
    OBVIOUS
  <2>1. ASSUME NEW m \in Node, End(m) \in Past \/ Begin(m) \in Past
        PROVE  m # n \/ p \in inCall
    <3> SUFFICES ASSUME m = n, p \notin inCall PROVE FALSE
      OBVIOUS
    <3>1. Pos(p) = 2 * pc[p] + 0 /\ End(m) = u /\ Begin(m) = t
      BY <1>1, <1>8 DEF Pos, End, Begin, NextNode
    <3>2. 2 * pc[p] + 1 < 2 * pc[p] + 0 \/ 2 * pc[p] < 2 * pc[p] + 0
      BY <1>8, <2>1, <3>1 DEF Past
    <3> QED BY <1>2, <3>2
  <2>2. p \in inCall => edges' = edges
    BY <1>3 DEF FwdJoin
  <2>3. ASSUME NEW e \in edges', y = Begin(e.dst) PROVE e \in edges
    BY <1>4, <1>5, <2>1, <2>2, <2>3
  <2>4. ASSUME NEW f \in edges', x = End(f.dst) PROVE f \in edges
    BY <1>4, <1>5, <2>1, <2>2, <2>4
  <2>5. \A z, k : During(z, k)' <=> During(z, k)
    BY <1>2 DEF During
  <2> QED BY <2>3, <2>4, <2>5 DEF Before
<1>15. CASE p \notin inCall
  BY <1>10, <1>11, <1>13, <1>14, <1>15, OrderGrows
<1>16. CASE p \in inCall
  <2>1. Past' \subseteq Past \cup {u, u}
    BY <1>12, <1>13, <1>16
  <2> QED BY <1>10, <1>14, <2>1, OrderGrows
<1> QED BY <1>15, <1>16

\* So is the begin of a call.
LEMMA OrderFork ==
  ASSUME TypeOK, TypeOK', TreeInv, DagInv, Complete, Ordered, outcomes = {}, NEW p \in Proc,
         FwdFork(p)
  PROVE  Ordered'
<1>1. /\ p \in live /\ p \notin inCall /\ ~rev /\ pc[p] < Len(prog[p]) /\ pc \in [Proc -> Nat]
      /\ UNCHANGED <<prog, pc, edges, outcomes>> /\ inCall' = inCall \cup {p}
  BY DEF FwdFork, FwdReady, TypeOK
<1>2. ~Active(pc, NextNode(p))
  BY <1>1, NextInactive DEF DagInv
<1>3. \A e \in edges : /\ e.dst \in Node /\ e.src \in Node \cup {BOT}
                       /\ Active(pc, e.dst) /\ Active(pc, e.src) /\ e.dst # NextNode(p)
  BY <1>1, <1>2 DEF TypeOK, EdgeType, Complete, DagInv, ActiveClosed
<1>4. PICK t : t = <<p, 2 * pc[p]>>
  OBVIOUS
<1>5. \A z \in Past \cup {t} : ~Before(t, z)'
  <2>1. 2 * pc[p] \in Nat /\ 2 * pc[p] <= 2 * pc[p]
    BY <1>1
  <2> QED BY <1>1, <1>3, <1>4, <2>1, NewestMoment
<1>6. Past' \subseteq Past \cup {t, t}
  <2> SUFFICES ASSUME NEW x \in Past', x \notin Past PROVE x = t
    OBVIOUS
  <2>1. /\ x \in Proc \X Nat /\ x[2] < Pos(x[1])' /\ ~(x[2] < Pos(x[1]))
    BY <1>1 DEF Past, Moments
  <2>2. x[1] = p
    BY <1>1, <2>1 DEF Pos
  <2>3. Pos(p)' = 2 * pc[p] + 1 /\ Pos(p) = 2 * pc[p] + 0
    BY <1>1 DEF Pos
  <2>4. x[2] = 2 * pc[p]
    BY <1>1, <2>1, <2>2, <2>3
  <2> QED BY <1>4, <2>1, <2>2, <2>4
<1>7. \A x, y : Before(x, y)' <=> Before(x, y)
  BY <1>1 DEF Before, During
<1> QED BY <1>5, <1>6, <1>7, OrderGrows

\* At the end of the first run all of it is past.
LEMMA OrderTurn ==
  ASSUME TypeOK, TreeInv, WholeRuns, Complete, Ordered, Turn
  PROVE  Ordered'
<1>1. UNCHANGED <<prog, pc, inCall, edges>> /\ Stopped /\ (rev => outcomes' = outcomes)
  BY DEF Turn
<1>2. CASE rev
  <2>1. Past' = Past
    BY <1>1, <1>2 DEF Past, Moments, Pos
  <2> QED BY <1>1, <2>1, OrderStays
<1>3. CASE ~rev
  <2>1. inCall = {} /\ \A p \in Proc : pc[p] = Len(prog[p])
    BY <1>1, <1>3, NobodyRuns DEF Stopped, WholeRuns, AtEnd
  <2>2. \A p \in Proc : Pos(p) = 2 * Len(prog[p])
    <3> TAKE p \in Proc
    <3>1. pc[p] \in Nat /\ Pos(p) = 2 * pc[p] + 0
      BY <2>1 DEF Pos, TypeOK
    <3> QED BY <2>1, <3>1
  <2>3. Past = Moments
    BY <2>2 DEF Past, Moments
  <2>4. Past' \subseteq Past
    BY <1>1, <2>3 DEF Past, Moments
  <2> QED BY <1>1, <2>4, OrderStays
<1> QED BY <1>2, <1>3

LEMMA OrderStep ==
  TypeOK /\ TypeOK' /\ TreeInv /\ WholeRuns /\ DagInv /\ Complete /\ Ordered /\ [Next]_vars
    => Ordered'
<1> SUFFICES ASSUME TypeOK, TypeOK', TreeInv, WholeRuns, DagInv, Complete, Ordered, [Next]_vars
             PROVE  Ordered'
  OBVIOUS
<1>1. ASSUME outcomes # {}, UNCHANGED <<prog, edges, outcomes>> PROVE Ordered'
  <2>1. Past' = Past
    BY <1>1 DEF Past, Moments
  <2> QED BY <1>1, <2>1, OrderStays
<1>2. ASSUME NEW p \in Proc,
             FwdWrite(p) \/ FwdLock(p) \/ FwdUnlock(p) \/ FwdRead(p) \/ FwdJoin(p)
      PROVE  Ordered'
  <2>1. prog' = prog /\ outcomes' = outcomes
    BY <1>2 DEF FwdWrite, FwdLock, FwdUnlock, FwdRead, FwdJoin
  <2> QED BY <1>1, <1>2, <2>1, OrderForward, ReplayEdges
<1>3. ASSUME NEW p \in Proc, FwdFork(p) PROVE Ordered'
  <2>1. UNCHANGED <<prog, edges, outcomes>>
    BY <1>3 DEF FwdFork
  <2> QED BY <1>1, <1>3, <2>1, OrderFork
<1>4. ASSUME NEW p \in Proc,
             BwdWrite(p) \/ BwdLock(p) \/ BwdUnlock(p) \/ BwdRead(p) \/ BwdFork(p) \/ BwdJoin(p)
      PROVE  Ordered'
  <2>1. rev /\ p \in live /\ UNCHANGED <<prog, edges, rev, outcomes>>
    BY <1>4 DEF BwdWrite, BwdLock, BwdUnlock, BwdRead, BwdFork, BwdJoin, BwdReady, TreeInv
  <2>2. outcomes # {}
    BY <2>1, NobodyRuns DEF Complete
  <2> QED BY <1>1, <2>1, <2>2
<1>5. CASE Turn
  BY <1>5, OrderTurn
<1>6. CASE DelDag
  <2>1. UNCHANGED <<prog, pc, inCall>> /\ outcomes' = {} /\ Stopped /\ rev
    BY <1>6 DEF DelDag, AtStart
  <2>2. inCall = {} /\ \A p \in Proc : pc[p] = 0
    BY <2>1, NobodyRuns DEF Stopped, WholeRuns, AtStart
  <2>3. \A p \in Proc : Pos(p)' = 0
    BY <2>1, <2>2 DEF Pos
  <2>4. Past' = {}
    BY <2>1, <2>3 DEF Past, Moments
  <2> QED BY <2>4 DEF Ordered
<1>7. CASE UNCHANGED vars
  <2>1. Past' = Past /\ UNCHANGED <<prog, edges>>
    BY <1>7 DEF vars, Past, Moments, Pos
  <2> QED BY <2>1, OrderStays
<1> QED BY <1>2, <1>3, <1>4, <1>5, <1>6, <1>7 DEF Next, Step

\* The order that the DAG and the calls ask for has no circle, and the DAG is
\* complete once a run is.
THEOREM RunsAreOrdered == Spec => [](Complete /\ Ordered)
<1>1. Init => Complete /\ Ordered
  <2> SUFFICES ASSUME Init PROVE Complete /\ Ordered
    OBVIOUS
  <2>1. Complete
    BY DEF Init, Complete
  <2>2. \A p \in Proc : Pos(p) = 0
    BY DEF Init, Pos
  <2>3. Past = {}
    BY <2>2 DEF Init, Past, Moments
  <2> QED BY <2>1, <2>3 DEF Ordered
<1> QED BY <1>1, CompleteStep, OrderStep, TypeCorrect, TreeInOrder, RunsAreWhole, DagSound, PTL
        DEF Spec

-----------------------------------------------------------------------------
(* A replay or a backward run can go on *)

\* Every block of a called process is part of a block of its caller.
LEMMA CallOf ==
  ASSUME TypeOK, NEW c \in Proc \ {Root}, NEW i \in Nat, i < Len(prog[c]),
         NEW lo \in 0 .. Len(prog[Caller(c)]), Mark(prog, c, lo) <= i
  PROVE  \E k \in lo .. Len(prog[Caller(c)]) - 1 :
           /\ Mark(prog, c, k) <= i /\ i < Mark(prog, c, k + 1)
           /\ Mark(prog, c, k) \in Nat /\ Mark(prog, c, k + 1) \in Nat
           /\ prog[Caller(c)][k + 1].kind = "call" /\ c \in prog[Caller(c)][k + 1].kids
<1>1. PICK P \in Programs, L \in Nat : P = prog /\ L = Len(prog[Caller(c)])
  BY CallerFacts DEF TypeOK
<1>2. \A k \in 0 .. L : Mark(P, c, k) \in Nat
  BY <1>1, CallerFacts
<1>3. Mark(P, c, L) = Len(P[c]) /\ lo \in 0 .. L /\ i < Len(P[c]) /\ Mark(P, c, lo) <= i
  BY <1>1, CallAssumption
<1>4. lo < L
  <2>1. SUFFICES ASSUME lo = L PROVE FALSE
    BY <1>3
  <2> QED BY <1>2, <1>3, <2>1
<1> DEFINE S == {k \in Nat : lo <= k /\ k < L /\ i < Mark(P, c, k + 1)}
<1>5. PICK k \in S : \A h \in S : k <= h
  <2>1. L - 1 \in S
    <3>1. L - 1 \in Nat /\ lo <= L - 1 /\ L - 1 < L /\ (L - 1) + 1 = L
      BY <1>3, <1>4
    <3> QED BY <1>3, <3>1
  <2>2. S \in SUBSET Nat
    OBVIOUS
  <2> HIDE DEF S
  <2> QED BY <2>1, <2>2, LeastNat
<1>6. k \in Nat /\ lo <= k /\ k < L /\ i < Mark(P, c, k + 1)
  BY <1>5
<1>7. Mark(P, c, k) <= i
  <2>1. CASE k = lo
    BY <1>3, <2>1
  <2>2. CASE k # lo
    <3>1. PICK h \in Nat : k = h + 1
      <4>1. k - 1 \in Nat /\ k = (k - 1) + 1
        BY <1>3, <1>6, <2>2
      <4> QED BY <4>1
    <3>2. h \notin S
      <4>1. ~(k <= h)
        BY <3>1
      <4> HIDE DEF S
      <4> QED BY <1>5, <4>1
    <3>3. lo <= h /\ h < L /\ k \in 0 .. L
      BY <1>3, <1>6, <2>2, <3>1
    <3>4. ~(i < Mark(P, c, k))
      BY <3>1, <3>2, <3>3
    <3> QED BY <1>2, <3>3, <3>4
  <2> QED BY <2>1, <2>2
<1>8. k \in lo .. L - 1 /\ k \in 0 .. L /\ k + 1 \in 0 .. L /\ k + 1 \in 1 .. L /\ (k + 1) - 1 = k
  BY <1>3, <1>6
<1>9. prog[Caller(c)][k + 1].kind = "call" /\ c \in prog[Caller(c)][k + 1].kids
  <2>1. SUFFICES ASSUME prog[Caller(c)][k + 1].kind # "call" \/ c \notin prog[Caller(c)][k + 1].kids
                 PROVE  FALSE
    OBVIOUS
  <2>2. Mark(prog, c, k + 1) = Mark(prog, c, k)
    BY <1>1, <1>8, <2>1, NotCalled
  <2> QED BY <1>1, <1>2, <1>6, <1>7, <1>8, <2>2
<1> QED BY <1>1, <1>2, <1>6, <1>7, <1>8, <1>9

\* How far a process is.
LEMMA PosFacts ==
  ASSUME TypeOK, NEW p \in Proc
  PROVE  /\ pc[p] \in Nat /\ pc[p] <= Len(prog[p]) /\ Len(prog[p]) \in Nat /\ prog \in Programs
         /\ p \in inCall => Pos(p) = 2 * pc[p] + 1 /\ pc[p] < Len(prog[p])
         /\ p \notin inCall => Pos(p) = 2 * pc[p]
         /\ Pos(p) \in Nat /\ Pos(p) <= 2 * Len(prog[p])
<1>1. /\ pc[p] \in Nat /\ pc[p] <= Len(prog[p]) /\ Len(prog[p]) \in Nat /\ prog \in Programs
      /\ p \in inCall => pc[p] < Len(prog[p])
  BY ProgramAssumption DEF TypeOK
<1>2. /\ p \in inCall => Pos(p) = 2 * pc[p] + 1
      /\ p \notin inCall => Pos(p) = 2 * pc[p] + 0
  BY DEF Pos
<1> QED BY <1>1, <1>2

\* Both moments of a block of the program are moments, and past when it is active.
LEMMA NodeMoments ==
  ASSUME TypeOK, NEW n \in Node, IsNode(n)
  PROVE  /\ Begin(n) \in Moments /\ End(n) \in Moments
         /\ End(n)[2] < Pos(n[1]) => Active(pc, n)
         /\ Active(pc, n) => Begin(n)[2] < Pos(n[1])
         /\ Begin(n)[1] = n[1] /\ End(n)[1] = n[1]
<1>1. n[1] \in Proc /\ n[2] \in Nat
  BY ProcAssumption DEF Node
<1>2. n[2] < Len(prog[n[1]])
  BY DEF IsNode
<1>3. PICK p \in Proc, k \in Nat, i \in Nat, l \in Nat :
        p = n[1] /\ k = n[2] /\ i = pc[p] /\ l = Len(prog[p])
  BY <1>1, PosFacts
<1>4. 2 * k < 2 * l /\ 2 * k + 1 < 2 * l /\ 2 * k \in Nat /\ 2 * k + 1 \in Nat
  BY <1>2, <1>3
<1>5. Begin(n) \in Moments /\ End(n) \in Moments
  BY <1>3, <1>4 DEF Begin, End, Moments
<1>6. Pos(p) = 2 * i \/ Pos(p) = 2 * i + 1
  BY <1>3, PosFacts
<1>7. 2 * k + 1 < Pos(p) => i > k
  BY <1>6
<1>8. i > k => 2 * k < Pos(p)
  BY <1>6
<1>9. /\ Begin(n)[2] = 2 * k /\ End(n)[2] = 2 * k + 1
      /\ Begin(n)[1] = n[1] /\ End(n)[1] = n[1]
  BY <1>3 DEF Begin, End
<1>10. Active(pc, n) <=> i > k
  BY <1>3, BotAssumption DEF Active
<1> QED BY <1>3, <1>5, <1>7, <1>8, <1>9, <1>10

\* Whatever is current can be locked: nobody write-locks a version between blocks.
LEMMA Readable ==
  ASSUME TypeOK, LockWords, NEW A \in SUBSET Addr
  PROVE  Lockable(A)
<1> HIDE DEF Holding
<1> SUFFICES ASSUME NEW a \in A, last[a.sym] # BOT PROVE lock[last[a.sym]] >= 0
  BY DEF Lockable, RLockable
<1>1. last[a.sym] \in Node
  BY DEF Addr, TypeOK
<1>2. lock[last[a.sym]] = Cardinality(On(Holding, last[a.sym]))
  BY <1>1 DEF LockWords
<1>3. Holding \in SUBSET (Proc \X Addr)
  <2>1. Holding \subseteq Proc \X Addr
    BY HoldingIs DEF HoldingOf
  <2> QED BY <2>1
<1> QED BY <1>2, <1>3, HoldersFinite

\* The children of a call that runs have been called.
LEMMA KidsCalled ==
  ASSUME TypeOK, TreeInv, NEW p \in inCall, NEW c \in NextBlock(p).kids \cap live
  PROVE  /\ c \in Proc \ {Root} /\ Caller(c) = p /\ Called(c)
         /\ From(c) = Mark(prog, c, pc[p]) /\ To(c) = Mark(prog, c, pc[p] + 1)
         /\ From(c) \in Nat /\ To(c) \in Nat /\ To(c) <= Len(prog[c]) /\ pc[c] \in Nat
         /\ From(c) <= pc[c] /\ pc[c] <= To(c)
         /\ ~rev \/ c \in inCall => pc[c] < To(c)
         /\ rev /\ c \notin inCall => pc[c] > From(c)
<1>1. p \in Proc /\ NextBlock(p).kind = "call" /\ pc[p] < Len(prog[p])
  BY DEF TreeInv, TypeOK
<1>2. c # Root /\ Caller(c) = p
  <2>1. prog \in Programs /\ pc[p] + 1 \in DOMAIN prog[p]
    BY <1>1, ProgramAssumption DEF TypeOK
  <2> QED BY <1>1, <2>1, CallAssumption DEF NextBlock
<1>3. c \in live \ {Root} /\ c \in Proc \ {Root}
  BY <1>2 DEF TypeOK
<1>4. Called(c) /\ Placed(c)
  BY <1>3 DEF TreeInv
<1> QED BY <1>2, <1>3, <1>4, RunningBlock DEF From, To, Placed

\* Forward, take the first moment that is left.  Its process runs, for its caller is
\* in the call that it is part of; and nothing that its next block waits for is left.
LEMMA ReplayForward ==
  ASSUME TypeOK, TreeInv, DagInv, LogInv, LockWords, HeldTip, OneVersion, Complete, Ordered,
         ~panicked, ~rev, outcomes # {}, Root \in live
  PROVE  \E p \in Proc : CanMove(p)
<1> DEFINE U == {x \in Moments : ~(x[2] < Pos(x[1]))}
<1>1. U \subseteq Past /\ U # {}
  <2>1. PICK x : x = <<Root, 2 * Len(prog[Root]) - 1>>
    OBVIOUS
  <2>2. Root \in Proc /\ pc[Root] < Len(prog[Root])
    BY ProcAssumption DEF TreeInv, MainPlaced
  <2>3. PICK i \in Nat, l \in Nat : i = pc[Root] /\ l = Len(prog[Root]) /\ i < l
    BY <2>2, PosFacts
  <2>4. Pos(Root) <= 2 * i + 1
    BY <2>2, <2>3, PosFacts
  <2>5. x \in Moments /\ ~(x[2] < Pos(x[1]))
    <3>1. 2 * l - 1 \in Nat /\ 2 * l - 1 < 2 * l /\ ~(2 * l - 1 < Pos(Root))
      BY <2>2, <2>3, <2>4, PosFacts
    <3> QED BY <2>1, <2>2, <2>3, <3>1 DEF Moments
  <2> QED BY <2>5 DEF Past
<1>2. PICK x \in U : \A y \in U : ~Before(y, x)
  <2>1. U \in SUBSET Past
    BY <1>1
  <2> HIDE DEF U
  <2> QED BY <1>1, <2>1 DEF Ordered
<1>3. PICK p \in Proc : p = x[1] /\ x = <<p, x[2]>> /\ x[2] \in Nat /\ x[2] < 2 * Len(prog[p])
                        /\ ~(x[2] < Pos(p))
  BY <1>2 DEF Moments
<1>4. ASSUME NEW y \in Moments, Before(y, x) PROVE y[2] < Pos(y[1])
  BY <1>2, <1>4
<1>5. /\ pc[p] \in Nat /\ Len(prog[p]) \in Nat /\ prog \in Programs
      /\ pc[p] < Len(prog[p])
      /\ x[2] = Pos(p)
  <2>1. x[2] = Pos(p)
    <3>1. SUFFICES ASSUME Pos(p) < x[2] PROVE FALSE
      BY <1>3, PosFacts
    <3>2. PICK y : y = <<p, Pos(p)>>
      OBVIOUS
    <3>3. y \in Moments /\ y[1] = p /\ y[2] = Pos(p)
      BY <1>3, <3>1, <3>2, PosFacts DEF Moments
    <3>4. Before(y, x)
      BY <1>3, <3>1, <3>3 DEF Before
    <3> QED BY <1>4, <3>3, <3>4, PosFacts
  <2> QED BY <1>3, <2>1, PosFacts
<1>6. p \in live
  <2> SUFFICES ASSUME p \notin live PROVE FALSE
    OBVIOUS
  <2>1. p \in Proc \ {Root} /\ p \notin inCall
    BY DEF TreeInv
  <2>2. PICK q \in Proc : q = Caller(p)
    BY <2>1, CallerFacts
  <2>3. Pos(p) = 2 * pc[p] /\ From(p) <= pc[p] /\ (Called(p) => pc[p] = To(p))
    <3>1. Called(p) => pc[p] = To(p) /\ From(p) <= pc[p]
      BY <2>1 DEF TreeInv, Placed
    <3>2. ~Called(p) => pc[p] = From(p)
      BY <2>1 DEF TreeInv, Placed
    <3> QED BY <1>5, <2>1, <3>1, <3>2, PosFacts
  <2>4. PICK k \in pc[q] .. Len(prog[q]) - 1 :
          /\ Mark(prog, p, k) <= pc[p] /\ pc[p] < Mark(prog, p, k + 1)
          /\ Mark(prog, p, k) \in Nat /\ Mark(prog, p, k + 1) \in Nat
          /\ prog[q][k + 1].kind = "call" /\ p \in prog[q][k + 1].kids
    <3>1. pc[q] \in 0 .. Len(prog[q]) /\ Mark(prog, p, pc[q]) <= pc[p]
      BY <2>2, <2>3, PosFacts DEF From
    <3> QED BY <1>5, <2>1, <2>2, <3>1, CallOf
  <2>5. k \in Nat /\ pc[q] <= k /\ k < Len(prog[q]) /\ pc[q] \in Nat
    BY <2>2, PosFacts
  <2>6. PICK y : y = <<q, 2 * k>>
    OBVIOUS
  <2>7. y \in Moments /\ y[1] = q /\ y[2] = 2 * k
    BY <2>2, <2>5, <2>6, PosFacts DEF Moments
  <2>8. Before(y, x)
    <3>1. During(x, k)
      BY <1>3, <1>5, <2>3, <2>4 DEF During
    <3> QED BY <1>3, <2>1, <2>2, <2>5, <2>6, <3>1 DEF Before
  <2>9. 2 * k < Pos(q)
    BY <1>4, <2>7, <2>8
  <2>10. q \in inCall /\ k = pc[q]
    BY <2>2, <2>5, <2>9, PosFacts
  <2>11. Called(p) /\ To(p) = Mark(prog, p, k + 1)
    BY <2>2, <2>4, <2>10 DEF Called, NextBlock, To
  <2> QED BY <1>5, <2>3, <2>4, <2>11
<1>7. CASE p \in inCall
  <2>1. NextBlock(p).kids \cap live = {}
    <3> SUFFICES ASSUME NEW c \in NextBlock(p).kids \cap live PROVE FALSE
      OBVIOUS
    <3>1. /\ c \in Proc \ {Root} /\ Caller(c) = p
          /\ From(c) = Mark(prog, c, pc[p]) /\ To(c) = Mark(prog, c, pc[p] + 1)
          /\ From(c) \in Nat /\ To(c) \in Nat /\ To(c) <= Len(prog[c]) /\ pc[c] \in Nat
          /\ From(c) <= pc[c] /\ pc[c] < To(c)
      BY <1>7, KidsCalled
    <3>2. Pos(c) \in Nat /\ 2 * From(c) <= Pos(c) /\ Pos(c) < 2 * To(c) /\ Pos(c) < 2 * Len(prog[c])
      BY <3>1, PosFacts
    <3>3. PICK y : y = <<c, Pos(c)>>
      OBVIOUS
    <3>4. y \in Moments /\ y[1] = c /\ y[2] = Pos(c)
      BY <3>1, <3>2, <3>3 DEF Moments
    <3>5. Before(y, x)
      <4>1. During(y, pc[p])
        BY <3>1, <3>2, <3>4 DEF During
      <4>2. x = <<Caller(c), 2 * pc[p] + 1>>
        BY <1>3, <1>5, <1>7, <3>1, PosFacts
      <4> QED BY <1>5, <3>1, <3>4, <4>1, <4>2 DEF Before
    <3> QED BY <1>4, <3>2, <3>4, <3>5
  <2> QED BY <1>7, <2>1 DEF CanMove
<1>8. CASE p \notin inCall
  <2>1. PICK n \in Node : /\ n = NextNode(p) /\ IsNode(n) /\ BlockOf(n) = NextBlock(p)
                          /\ NextBlock(p) \in Block
    BY <1>5, NextInactive, BlockTypes DEF DagInv
  <2>2. x = Begin(n)
    BY <1>3, <1>5, <1>8, <2>1, PosFacts DEF Begin, NextNode
  <2>3. ASSUME NEW m \in Node, IsNode(m), Before(End(m), x) PROVE Active(pc, m)
    <3>1. End(m) \in Moments /\ End(m)[1] = m[1]
      BY <2>3, NodeMoments
    <3>2. End(m)[2] < Pos(m[1])
      BY <1>4, <2>3, <3>1
    <3> QED BY <2>3, <3>2, NodeMoments
  <2>4. RunnableFwd(edges, pc, n)
    <3> SUFFICES ASSUME NEW e \in edges, e.dst = n
                 PROVE  /\ Active(pc, e.src)
                        /\ e.wt => \A f \in edges : f.src = e.src /\ f.sym = e.sym /\ f.dst # n
                                                      => Active(pc, f.dst)
      BY DEF RunnableFwd, InEdges, OutEdges
    <3>1. ASSUME e.wt, NEW f \in edges, f.src = e.src, f.sym = e.sym, f.dst # n
          PROVE  Active(pc, f.dst)
      <4>1. f.dst \in Node /\ IsNode(f.dst)
        BY DEF TypeOK, EdgeType, DagInv, EdgeShape
      <4>2. Before(End(f.dst), x)
        BY <2>2, <3>1 DEF Before
      <4> QED BY <2>3, <4>1, <4>2
    <3>2. CASE e.src # BOT
      <4>1. e.src \in Node /\ IsNode(e.src)
        BY <3>2 DEF TypeOK, EdgeType, DagInv, EdgeShape, WriterOf
      <4>2. Before(End(e.src), x)
        BY <2>2, <3>2 DEF Before
      <4> QED BY <2>3, <4>1, <4>2, <3>1
    <3>3. CASE e.src = BOT
      BY <3>3, <3>1 DEF Active
    <3> QED BY <3>1, <3>2, <3>3
  <2>5. FwdReady(p)
    BY <1>5, <1>6, <1>8, <2>1, <2>4 DEF FwdReady
  <2>6. Writes(NextBlock(p)) => FwdClear(NextBlock(p))
    <3>1. Writes(NextBlock(p)) => InEdges(edges, NextNode(p)) # {}
      BY <2>1 DEF Complete, Recorded
    <3> QED BY <2>5, <3>1, AdmittedForward
  <2>7. Lockable(NextBlock(p).src)
    BY <2>1, Readable DEF Block
  <2> QED BY <2>5, <2>6, <2>7 DEF CanMove
<1> QED BY <1>7, <1>8

\* Backward, take the last moment that is past: the same, the other way round.
LEMMA ReplayBackward ==
  ASSUME TypeOK, TreeInv, DagInv, LogInv, LockWords, HeldTip, OneVersion, Complete, Ordered,
         ~panicked, rev, Root \in live
  PROVE  \E p \in Proc : CanMove(p)
<1> DEFINE D == {x \in Moments : x[2] < Pos(x[1])}
<1>1. D \subseteq Past /\ D # {}
  <2>1. PICK x : x = <<Root, 0>>
    OBVIOUS
  <2>2. Root \in Proc /\ 0 < Pos(Root)
    <3>1. Root \in Proc /\ (Root \notin inCall => pc[Root] > 0)
      BY ProcAssumption DEF TreeInv, MainPlaced
    <3> QED BY <3>1, PosFacts
  <2>3. x \in Moments /\ x[2] < Pos(x[1])
    BY <2>1, <2>2, PosFacts DEF Moments
  <2> QED BY <2>3 DEF Past
<1>2. PICK x \in D : \A y \in D : ~Before(x, y)
  <2>1. D \in SUBSET Past
    BY <1>1
  <2> HIDE DEF D
  <2> QED BY <1>1, <2>1 DEF Ordered
<1>3. PICK p \in Proc : p = x[1] /\ x = <<p, x[2]>> /\ x[2] \in Nat /\ x[2] < 2 * Len(prog[p])
                        /\ x[2] < Pos(p)
  BY <1>2 DEF Moments
<1>4. ASSUME NEW y \in Moments, Before(x, y) PROVE ~(y[2] < Pos(y[1]))
  BY <1>2, <1>4
<1>5. /\ pc[p] \in Nat /\ Len(prog[p]) \in Nat /\ prog \in Programs
      /\ pc[p] <= Len(prog[p])
      /\ x[2] = Pos(p) - 1 /\ Pos(p) \in Nat
  <2>1. x[2] = Pos(p) - 1
    <3>1. SUFFICES ASSUME x[2] < Pos(p) - 1 PROVE FALSE
      BY <1>3, PosFacts
    <3>2. PICK y : y = <<p, Pos(p) - 1>>
      OBVIOUS
    <3>3. y \in Moments /\ y[1] = p /\ y[2] = Pos(p) - 1
      BY <1>3, <3>1, <3>2, PosFacts DEF Moments
    <3>4. Before(x, y)
      BY <1>3, <3>1, <3>3 DEF Before
    <3> QED BY <1>4, <3>3, <3>4, PosFacts
  <2> QED BY <1>3, <2>1, PosFacts
<1>6. p \notin inCall => pc[p] > 0 /\ x[2] = 2 * (pc[p] - 1) + 1
  BY <1>3, <1>5, PosFacts
<1>7. p \in live
  <2> SUFFICES ASSUME p \notin live PROVE FALSE
    OBVIOUS
  <2>1. p \in Proc \ {Root} /\ p \notin inCall
    BY DEF TreeInv
  <2>2. PICK q \in Proc : q = Caller(p)
    BY <2>1, CallerFacts
  <2>3. pc[p] = From(p) /\ pc[p] > 0 /\ pc[p] - 1 \in Nat /\ pc[p] - 1 < Len(prog[p])
    BY <1>5, <1>6, <2>1 DEF TreeInv, Placed
  <2>4. PICK k \in 0 .. Len(prog[q]) - 1 :
          /\ Mark(prog, p, k) <= pc[p] - 1 /\ pc[p] - 1 < Mark(prog, p, k + 1)
          /\ Mark(prog, p, k) \in Nat /\ Mark(prog, p, k + 1) \in Nat
    <3>1. 0 \in 0 .. Len(prog[q]) /\ Mark(prog, p, 0) <= pc[p] - 1
      <4>1. Mark(prog, p, 0) = 0
        BY <1>5, <2>1, CallAssumption
      <4> QED BY <2>2, <2>3, <4>1, PosFacts
    <3> QED BY <2>1, <2>2, <2>3, <3>1, CallOf
  <2>5. k \in Nat /\ k < Len(prog[q]) /\ pc[q] \in Nat /\ pc[q] <= Len(prog[q])
    BY <2>2, PosFacts
  <2>6. k < pc[q]
    <3>1. SUFFICES ASSUME pc[q] <= k PROVE FALSE
      BY <2>5
    <3>2. k <= Len(prog[Caller(p)])
      BY <2>2, <2>5, PosFacts
    <3>3. Mark(prog, p, pc[q]) <= Mark(prog, p, k)
      BY <2>1, <2>5, <3>1, <3>2, MarkGrows
    <3>4. Mark(prog, p, pc[q]) = pc[p]
      BY <2>2, <2>3 DEF From
    <3> QED BY <1>5, <2>4, <3>3, <3>4
  <2>7. PICK y : y = <<q, 2 * k + 1>>
    OBVIOUS
  <2>8. y \in Moments /\ y[1] = q /\ y[2] < Pos(q)
    <3>1. PICK j \in Nat, l \in Nat : j = pc[q] /\ l = Len(prog[q])
      BY <2>2, PosFacts
    <3>2. k < j /\ k < l /\ (Pos(q) = 2 * j \/ Pos(q) = 2 * j + 1)
      BY <2>2, <2>5, <2>6, <3>1, PosFacts
    <3>3. 2 * k + 1 \in Nat /\ 2 * k + 1 < 2 * l /\ 2 * k + 1 < Pos(q)
      BY <2>5, <3>2
    <3> QED BY <2>2, <2>7, <3>1, <3>3 DEF Moments
  <2>9. Before(x, y)
    <3>1. During(x, k)
      BY <1>3, <1>5, <1>6, <2>1, <2>4 DEF During
    <3> QED BY <1>3, <2>1, <2>2, <2>5, <2>7, <3>1 DEF Before
  <2> QED BY <1>4, <2>8, <2>9
<1>8. CASE p \in inCall
  <2>1. NextBlock(p).kids \cap live = {}
    <3> SUFFICES ASSUME NEW c \in NextBlock(p).kids \cap live PROVE FALSE
      OBVIOUS
    <3>1. /\ c \in Proc \ {Root} /\ Caller(c) = p
          /\ From(c) = Mark(prog, c, pc[p]) /\ To(c) = Mark(prog, c, pc[p] + 1)
          /\ From(c) \in Nat /\ To(c) \in Nat /\ To(c) <= Len(prog[c]) /\ pc[c] \in Nat
          /\ From(c) <= pc[c] /\ pc[c] <= To(c)
          /\ c \in inCall => pc[c] < To(c)
          /\ c \notin inCall => pc[c] > From(c)
      BY <1>8, KidsCalled
    <3>2. /\ Pos(c) \in Nat /\ Pos(c) - 1 \in Nat
          /\ 2 * From(c) <= Pos(c) - 1 /\ Pos(c) - 1 < 2 * To(c)
          /\ Pos(c) - 1 < 2 * Len(prog[c])
      <4>1. PICK a \in Nat, b \in Nat, i \in Nat, l \in Nat :
              a = From(c) /\ b = To(c) /\ i = pc[c] /\ l = Len(prog[c])
        BY <3>1, PosFacts
      <4>2. \/ Pos(c) = 2 * i + 1 /\ a <= i /\ i < b
            \/ Pos(c) = 2 * i /\ a < i /\ i <= b
        BY <3>1, <4>1, PosFacts
      <4>3. b <= l
        BY <3>1, <4>1
      <4>4. PICK j : j = Pos(c)
        OBVIOUS
      <4>5. j \in Nat /\ j - 1 \in Nat /\ 2 * a <= j - 1 /\ j - 1 < 2 * b /\ j - 1 < 2 * l
        <5>1. CASE j = 2 * i + 1 /\ a <= i /\ i < b
          BY <4>3, <5>1
        <5>2. CASE j = 2 * i /\ a < i /\ i <= b
          BY <4>3, <5>2
        <5> QED BY <4>2, <4>4, <5>1, <5>2
      <4> QED BY <4>1, <4>4, <4>5
    <3>3. PICK y : y = <<c, Pos(c) - 1>>
      OBVIOUS
    <3>4. y \in Moments /\ y[1] = c /\ y[2] = Pos(c) - 1
      BY <3>1, <3>2, <3>3 DEF Moments
    <3>5. Before(x, y)
      <4>1. During(y, pc[p])
        BY <3>1, <3>2, <3>4 DEF During
      <4>2. x = <<Caller(c), 2 * pc[p]>>
        BY <1>3, <1>5, <1>8, <3>1, PosFacts
      <4> QED BY <1>5, <3>1, <3>4, <4>1, <4>2 DEF Before
    <3> QED BY <1>4, <3>2, <3>4, <3>5
  <2> QED BY <1>8, <2>1 DEF CanMove
<1>9. CASE p \notin inCall
  <2>1. PICK n \in Node : /\ n = PrevNodeOf(p) /\ IsNode(n) /\ BlockOf(n) = PrevBlock(p)
                          /\ PrevBlock(p) \in Block
    <3>1. pc[p] > 0
      BY <1>6, <1>9
    <3>2. PICK m \in Node : m = PrevNodeOf(p)
      BY <3>1, BlockTypes
    <3>3. IsNode(m) /\ BlockOf(m) = PrevBlock(p)
      BY <1>5, <3>1, <3>2 DEF IsNode, BlockOf, PrevNodeOf, PrevBlock
    <3> QED BY <3>1, <3>2, <3>3, BlockTypes
  <2>2. x = End(n)
    BY <1>3, <1>6, <1>9, <2>1 DEF End, PrevNodeOf
  <2>3. ASSUME NEW m \in Node, IsNode(m), Before(x, Begin(m)) PROVE ~Active(pc, m)
    BY <1>4, <2>3, NodeMoments
  <2>4. RunnableBwd(edges, pc, n)
    <3>1. ASSUME NEW e \in edges, e.src = n PROVE ~Active(pc, e.dst)
      <4>1. e.dst \in Node /\ IsNode(e.dst) /\ e.src # BOT
        BY <3>1, BotAssumption DEF TypeOK, EdgeType, DagInv, EdgeShape
      <4>2. Before(x, Begin(e.dst))
        BY <2>2, <3>1, <4>1 DEF Before
      <4> QED BY <2>3, <4>1, <4>2
    <3>2. ASSUME NEW e \in edges, e.dst = n, NEW f \in edges,
                 f.src = e.src, f.sym = e.sym, f.wt, f.dst # n
          PROVE  ~Active(pc, f.dst)
      <4>1. f.dst \in Node /\ IsNode(f.dst)
        BY DEF TypeOK, EdgeType, DagInv, EdgeShape
      <4>2. Before(x, Begin(f.dst))
        BY <2>2, <3>2 DEF Before
      <4> QED BY <2>3, <4>1, <4>2
    <3> QED BY <3>1, <3>2 DEF RunnableBwd, InEdges, OutEdges
  <2>5. BwdReady(p)
    BY <1>6, <1>7, <1>9, <2>1, <2>4 DEF BwdReady
  <2>6. Writes(PrevBlock(p)) => BwdClear(PrevBlock(p), PrevNodeOf(p))
    BY <2>5, AdmittedBackward
  <2>7. Lockable(PrevBlock(p).src)
    BY <2>1, Readable DEF Block
  <2> QED BY <2>5, <2>6, <2>7 DEF CanMove
<1> QED BY <1>8, <1>9

\* Nobody waits in a circle, forward or backward, in a run that the DAG orders, whatever
\* the call tree and the schedule of the first run, of programs that keep to
\* - NameAssumption: a cell has one name (run aliases: not all do);
\* - WrittenAssumption: what is locked has been written (run uninitialised: not all do);
\* - PairAssumption: a process locks and unlocks a variable in turn.
THEOREM ReplaysMove == LSpec => []ReplayMoves
<1>1. /\ TypeOK /\ TreeInv /\ DagInv /\ LogInv /\ LockWords /\ ~panicked
      /\ HeldTip /\ OneVersion /\ Complete /\ Ordered
      => ReplayMoves
  BY ReplayForward, ReplayBackward DEF ReplayMoves, TypeOK
<1> QED BY <1>1, SameBehaviours, TypeCorrect, TreeInOrder, DagSound, LocksSound, LockedIsCurrent,
           RunsAreOrdered, LogSound, PTL
=============================================================================
