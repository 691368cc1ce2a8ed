------------------------ MODULE AnnotationDagProofs ------------------------
(***************************************************************************)
(* Proofs about AnnotationDag, for every program and every set of          *)
(* processes, variables and values.                                        *)
(***************************************************************************)
EXTENDS AnnotationDag, FiniteSetTheorems, TLAPS

-----------------------------------------------------------------------------
(* Types *)

\* The next and the previous block of a process are blocks of its program,
\* and their nodes are nodes.
LEMMA BlockTypes ==
  ASSUME TypeOK, NEW p \in Proc
  PROVE  /\ pc[p] < Len(prog[p]) => NextBlock(p) \in Block /\ NextNode(p) \in Node
         /\ pc[p] > 0 => PrevBlock(p) \in Block /\ PrevNodeOf(p) \in Node
<1>1. prog[p] \in Seq(Block) /\ Len(prog[p]) \in Nat /\ Len(prog[p]) <= MaxLen
  BY ProgramAssumption DEF TypeOK
<1>2. pc[p] \in Nat /\ pc[p] <= Len(prog[p]) /\ MaxLen \in Nat
  BY ProcAssumption DEF TypeOK
<1>3. \A k \in 1 .. Len(prog[p]) : prog[p][k] \in Block
  BY <1>1
<1>4. CASE pc[p] < Len(prog[p])
  <2>1. pc[p] + 1 \in 1 .. Len(prog[p]) /\ pc[p] \in 0 .. MaxLen - 1
    BY <1>1, <1>2, <1>4
  <2> QED BY <1>3, <2>1, <1>2, <1>4 DEF NextBlock, NextNode, PrevBlock, PrevNodeOf, Node
<1>5. CASE pc[p] > 0
  <2>1. pc[p] \in 1 .. Len(prog[p]) /\ pc[p] - 1 \in 0 .. MaxLen - 1
    BY <1>1, <1>2, <1>5
  <2> QED BY <1>3, <2>1, <1>4 DEF PrevBlock, PrevNodeOf, Node
<1> QED BY <1>4, <1>5

\* PrevNode answers with a node or with BOT.
LEMMA PrevNodeType ==
  ASSUME NEW E, E \subseteq EdgeType, NEW n, NEW s
  PROVE  /\ PrevNode(E, n, s) \in Node \cup {BOT}
         /\ \/ /\ PrevNode(E, n, s) = BOT
               /\ ~\E e \in E : e.dst = n /\ e.wt /\ e.sym = s
            \/ \E e \in E : e.dst = n /\ e.wt /\ e.sym = s /\ e.src = PrevNode(E, n, s)
<1> DEFINE Overwrites == {e \in InEdges(E, n) : e.wt /\ e.sym = s}
<1>1. CASE Overwrites = {}
  BY <1>1 DEF PrevNode, InEdges
<1>2. CASE Overwrites # {}
  <2>1. PICK e \in Overwrites : e = CHOOSE f \in Overwrites : TRUE
    BY <1>2
  <2>2. PrevNode(E, n, s) = e.src
    BY <1>2, <2>1 DEF PrevNode
  <2> QED BY <2>1, <2>2 DEF InEdges, EdgeType
<1> QED BY <1>1, <1>2

\* The edges of a block that executes are edges.
LEMMA ReadEdgesType ==
  ASSUME TypeOK, NEW A \in SUBSET Addr, NEW n \in Node
  PROVE  AddReads(edges, A, n) \subseteq EdgeType
<1>1. \A a \in A : last[a.sym] \in Node \cup {BOT} /\ a.sym \in Sym
  BY DEF TypeOK, Addr
<1> SUFFICES ASSUME NEW e \in AddReads(edges, A, n) PROVE e \in EdgeType
  OBVIOUS
<1>2. CASE e \in edges
  BY <1>2 DEF TypeOK
<1>3. CASE e \notin edges
  <2>1. PICK a \in A : e = Edge(last[a.sym], n, a.sym, FALSE)
    BY <1>3 DEF AddReads
  <2> QED BY <1>1, <2>1 DEF Edge, EdgeType
<1> QED BY <1>2, <1>3

LEMMA WriteEdgeType ==
  ASSUME NEW E, E \subseteq EdgeType, NEW m \in Node \cup {BOT}, NEW n \in Node, NEW s \in Sym
  PROVE  AddEdge(E, m, n, s, TRUE) \subseteq EdgeType
<1>1. Edge(m, n, s, TRUE) \in EdgeType
  BY DEF Edge, EdgeType
<1> QED BY <1>1 DEF AddEdge

\* Lock words stay integers.
LEMMA WLockType ==
  ASSUME NEW L \in [Node -> Int], NEW n
  PROVE  WLock(L, n) \in [Node -> Int] /\ WUnlock(L, n) \in [Node -> Int]
<1>1. [L EXCEPT ![n] = -1] \in [Node -> Int]
  <2>1. -1 \in Int
    OBVIOUS
  <2> QED BY <2>1
<1>2. [L EXCEPT ![n] = @ + 1] \in [Node -> Int]
  <2>1. \A k \in Node : L[k] + 1 \in Int /\ L[k] \in Int
    OBVIOUS
  <2> QED BY <2>1
<1> QED BY <1>1, <1>2 DEF WLock, WUnlock

\* There are finitely many addresses.
LEMMA AddrFinite == IsFiniteSet(Addr)
<1> DEFINE F == [q \in Sym \X Cell |-> [sym |-> q[1], cell |-> q[2]]]
<1>1. IsFiniteSet(Sym \X Cell)
  BY FiniteAssumption, FS_Product
<1>2. F \in [Sym \X Cell -> Addr]
  BY DEF Addr
<1>3. ASSUME NEW r \in Addr PROVE \E q \in Sym \X Cell : F[q] = r
  <2>1. r.sym \in Sym /\ r.cell \in Cell /\ r = [sym |-> r.sym, cell |-> r.cell]
    BY DEF Addr
  <2>2. <<r.sym, r.cell>> \in Sym \X Cell /\ F[<<r.sym, r.cell>>] = r
    BY <2>1
  <2> QED BY <2>2
<1>4. F \in Surjection(Sym \X Cell, Addr)
  BY <1>2, <1>3 DEF Surjection
<1> HIDE DEF F
<1> QED BY <1>1, <1>4, FS_Surjection

\* Sets of addresses are finite, so a lock word stays an integer.
LEMMA PinsType ==
  ASSUME TypeOK, NEW A \in SUBSET Addr
  PROVE  /\ Acquire(A) \in [Node -> Int]
         /\ Release(A) \in [Node -> Int]
<1>1. IsFiniteSet(Addr)
  BY AddrFinite
<1>2. \A n \in Node : Pins(A, n) \in Nat
  <2> SUFFICES ASSUME NEW n \in Node PROVE Pins(A, n) \in Nat
    OBVIOUS
  <2>1. {a \in A : last[a.sym] = n} \subseteq Addr
    OBVIOUS
  <2> QED BY <1>1, <2>1, FS_Subset, FS_CardinalityType DEF Pins
<1> QED BY <1>2 DEF TypeOK, Acquire, Release

-----------------------------------------------------------------------------
(* Type correctness *)

LEMMA TypeInit == Init => TypeOK
<1> SUFFICES ASSUME Init PROVE TypeOK
  OBVIOUS
<1>1. prog \in Programs /\ prog \in [Proc -> Seq(Block)]
  BY ProgramAssumption DEF Init
<1>2. \A p \in Proc : pc[p] <= Len(prog[p])
  BY <1>1 DEF Init
<1>3. edges \subseteq EdgeType /\ outcomes \subseteq [Cell -> Val] /\ live \in SUBSET Proc
  BY ProcAssumption DEF Init
<1>4. lock \in [Node -> Int] /\ last \in [Sym -> Node \cup {BOT}] /\ pc \in [Proc -> Nat]
  BY DEF Init
<1> QED BY <1>1, <1>2, <1>3, <1>4, ValAssumption DEF Init, TypeOK

\* Every step keeps the types.
LEMMA TypeStep == TypeOK /\ [Next]_vars => TypeOK'
<1> SUFFICES ASSUME TypeOK, [Next]_vars PROVE TypeOK'
  OBVIOUS
<1> USE DEF TypeOK
<1>1. ASSUME NEW p \in Proc, pc[p] < Len(prog[p]), Advance(p), UNCHANGED <<prog, inCall>>,
             p \notin inCall
      PROVE  /\ pc' \in [Proc -> Nat] /\ live' \in SUBSET Proc
             /\ \A q \in Proc : pc'[q] <= Len(prog'[q])
             /\ \A q \in inCall' : pc'[q] < Len(prog'[q])
  <2>1. \A q \in Proc : Len(prog[q]) \in Nat
    BY ProgramAssumption
  <2> QED BY <1>1, <2>1 DEF Advance
<1>2. ASSUME NEW p \in Proc, pc[p] > 0, Retreat(p), UNCHANGED <<prog, inCall>>,
             p \notin inCall
      PROVE  /\ pc' \in [Proc -> Nat] /\ live' \in SUBSET Proc
             /\ \A q \in Proc : pc'[q] <= Len(prog'[q])
             /\ \A q \in inCall' : pc'[q] < Len(prog'[q])
  <2>1. \A q \in Proc : Len(prog[q]) \in Nat
    BY ProgramAssumption
  <2> QED BY <1>2, <2>1 DEF Retreat
<1>3. ASSUME NEW p \in Proc, FwdWrite(p) PROVE TypeOK'
  <2> DEFINE b == NextBlock(p)
             n == NextNode(p)
             s == b.dst.sym
             E == AddEdge(AddReads(edges, Reads(b), n), last[s], n, s, TRUE)
  <2>1. b \in Block /\ n \in Node /\ Writes(b)
    BY <1>3, BlockTypes DEF FwdWrite, FwdReady
  <2>2. Reads(b) \in SUBSET Addr /\ b.dst \in Addr /\ s \in Sym /\ b.dst.cell \in Cell
    BY <2>1 DEF Reads, Block, Addr
  <2>3. edges' \subseteq EdgeType
    <3>1. AddReads(edges, Reads(b), n) \subseteq EdgeType
      BY <2>1, <2>2, ReadEdgesType
    <3>2. E \subseteq EdgeType
      <4>1. last[s] \in Node \cup {BOT}
        BY <2>2
      <4> HIDE DEF b, n
      <4> QED BY <3>1, <2>1, <2>2, <4>1, WriteEdgeType
    <3> QED BY <3>2, <1>3 DEF FwdWrite
  <2>4. mem' \in [Cell -> Val]
    <3>1. NewVal(b) \in Val
      <4>1. CASE b.kind = "upd"
        <5>1. b = prog[p][pc[p] + 1] /\ pc[p] + 1 \in DOMAIN prog[p]
          <6>1. prog[p] \in Seq(Block) /\ pc[p] < Len(prog[p]) /\ pc[p] \in Nat
            BY <1>3, ProgramAssumption DEF FwdWrite, FwdReady
          <6> QED BY <6>1 DEF NextBlock
        <5>2. [a \in b.src |-> mem[a.cell]] \in [b.src -> Val]
          BY <2>1 DEF Block, Addr
        <5>3. Arg(b) \in Val
          BY <5>1, <5>2, ValueAssumption DEF Arg
        <5>4. b.op \in Op /\ mem[b.dst.cell] \in Val
          BY <2>1, <2>2 DEF Block
        <5> QED BY <4>1, <5>3, <5>4, ValueAssumption DEF NewVal
      <4>2. CASE b.kind # "upd"
        BY <4>2, ValAssumption DEF NewVal, Awaits
      <4> QED BY <4>1, <4>2
    <3> QED BY <3>1, <2>2, <1>3 DEF FwdWrite
  <2>5. last' \in [Sym -> Node \cup {BOT}]
    BY <2>1, <1>3 DEF FwdWrite
  <2>6. lock' \in [Node -> Int]
    <3>1. WLock(lock, last[s]) \in [Node -> Int]
      BY WLockType
    <3>2. WUnlock(WLock(lock, last[s]), PrevNode(E, n, s)) \in [Node -> Int]
      BY <3>1, WLockType
    <3> QED BY <3>2, <1>3 DEF FwdWrite
  <2>7. panicked' \in BOOLEAN
    BY <1>3 DEF FwdWrite
  <2>8. /\ Advance(p) /\ UNCHANGED <<prog, inCall, rev, outcomes>>
        /\ pc[p] < Len(prog[p]) /\ p \notin inCall
    BY <1>3 DEF FwdWrite, FwdReady
  <2> HIDE DEF b, n, s, E
  <2> QED BY <2>3, <2>4, <2>5, <2>6, <2>7, <2>8, <1>1
<1>4. ASSUME NEW p \in Proc, FwdLock(p) \/ FwdUnlock(p) \/ FwdRead(p) PROVE TypeOK'
  <2> DEFINE b == NextBlock(p)
  <2>1. b \in Block /\ NextNode(p) \in Node /\ pc[p] < Len(prog[p]) /\ p \notin inCall
    BY <1>4, BlockTypes DEF FwdLock, FwdUnlock, FwdRead, FwdReady
  <2>2. b.src \in SUBSET Addr
    BY <2>1 DEF Block
  <2>3. edges' \subseteq EdgeType
    BY <1>4, <2>1, <2>2, ReadEdgesType DEF FwdLock, FwdUnlock, FwdRead
  <2>4. lock' \in [Node -> Int]
    BY <1>4, <2>2, PinsType DEF FwdLock, FwdUnlock, FwdRead
  <2>5. panicked' \in BOOLEAN
    BY <1>4 DEF FwdLock, FwdUnlock, FwdRead, BadEdge, ReleasePanics
  <2>6. Advance(p) /\ UNCHANGED <<prog, inCall, last, mem, rev, outcomes>>
    BY <1>4 DEF FwdLock, FwdUnlock, FwdRead
  <2> QED BY <2>1, <2>3, <2>4, <2>5, <2>6, <1>1
<1>5. ASSUME NEW p \in Proc, FwdFork(p) PROVE TypeOK'
  <2>1. NextBlock(p).kids \in SUBSET Proc
    BY <1>5, BlockTypes DEF FwdFork, FwdReady, Block
  <2> QED BY <1>5, <2>1 DEF FwdFork, FwdReady
<1>6. ASSUME NEW p \in Proc, FwdJoin(p) PROVE TypeOK'
  <2>1. pc[p] < Len(prog[p]) /\ \A q \in Proc : Len(prog[q]) \in Nat
    BY <1>6, ProgramAssumption DEF FwdJoin
  <2> QED BY <1>6, <2>1 DEF FwdJoin, Advance
<1>7. ASSUME NEW p \in Proc, BwdWrite(p) PROVE TypeOK'
  <2> DEFINE b == PrevBlock(p)
  <2>1. b \in Block /\ PrevNodeOf(p) \in Node /\ Writes(b)
    BY <1>7, BlockTypes DEF BwdWrite, BwdReady
  <2>2. b.dst.sym \in Sym /\ b.dst.cell \in Cell
    BY <2>1 DEF Block, Addr
  <2>3. OldVal(b) \in Val
    <3>1. CASE b.kind = "upd"
      <4>1. b = prog[p][pc[p]] /\ pc[p] \in DOMAIN prog[p]
        BY <1>7, ProgramAssumption DEF BwdWrite, BwdReady, PrevBlock
      <4>2. [a \in b.src |-> mem[a.cell]] \in [b.src -> Val]
        BY <2>1 DEF Block, Addr
      <4>3. Arg(b) \in Val
        BY ZenonT(40), <4>1, <4>2, ValueAssumption DEF Arg
      <4>4. b.op \in Op /\ mem[b.dst.cell] \in Val
        BY <2>1, <2>2 DEF Block
      <4> QED BY <3>1, <4>3, <4>4, ValueAssumption DEF OldVal
    <3>2. CASE b.kind # "upd"
      BY <3>2, ValAssumption DEF OldVal, Awaits
    <3> QED BY <3>1, <3>2
  <2>4. mem' \in [Cell -> Val]
    BY <2>2, <2>3, <1>7 DEF BwdWrite
  <2>5. last' \in [Sym -> Node \cup {BOT}]
    BY <1>7, PrevNodeType DEF BwdWrite
  <2>6. /\ Retreat(p) /\ UNCHANGED <<prog, inCall, edges, lock, rev, panicked, outcomes>>
        /\ pc[p] > 0 /\ p \notin inCall
    BY <1>7 DEF BwdWrite, BwdReady
  <2> QED BY <2>4, <2>5, <2>6, <1>2
<1>8. ASSUME NEW p \in Proc, BwdLock(p) \/ BwdUnlock(p) \/ BwdRead(p) PROVE TypeOK'
  <2> DEFINE b == PrevBlock(p)
  <2>1. b \in Block /\ pc[p] > 0 /\ p \notin inCall
    BY <1>8, BlockTypes DEF BwdLock, BwdUnlock, BwdRead, BwdReady
  <2>2. b.src \in SUBSET Addr
    BY <2>1 DEF Block
  <2>3. lock' \in [Node -> Int]
    BY <1>8, <2>2, PinsType DEF BwdLock, BwdUnlock, BwdRead
  <2>4. panicked' \in BOOLEAN
    BY <1>8 DEF BwdLock, BwdUnlock, BwdRead, ReleasePanics
  <2>5. Retreat(p) /\ UNCHANGED <<prog, inCall, edges, last, mem, rev, outcomes>>
    BY <1>8 DEF BwdLock, BwdUnlock, BwdRead
  <2> QED BY <2>1, <2>3, <2>4, <2>5, <1>2
<1>9. ASSUME NEW p \in Proc, BwdFork(p) PROVE TypeOK'
  <2>1. PrevBlock(p).kids \in SUBSET Proc /\ \A q \in Proc : Len(prog[q]) \in Nat
    BY <1>9, BlockTypes, ProgramAssumption DEF BwdFork, BwdReady, Block
  <2> QED BY <1>9, <2>1 DEF BwdFork, BwdReady
<1>10. ASSUME NEW p \in Proc, BwdJoin(p) PROVE TypeOK'
  BY <1>10 DEF BwdJoin
<1>11. CASE Turn
  BY <1>11, ProcAssumption DEF Turn
<1>12. CASE DelDag
  BY <1>12 DEF DelDag
<1>13. CASE UNCHANGED vars
  BY <1>13 DEF vars
<1> QED BY <1>3, <1>4, <1>5, <1>6, <1>7, <1>8, <1>9, <1>10, <1>11, <1>12, <1>13
        DEF Next, Step

\* In every reachable state the variables have their types: a counter stays
\* within the program, and the DAG and dag.last hold only nodes of blocks.
THEOREM TypeCorrect == Spec => []TypeOK
BY TypeInit, TypeStep, PTL DEF Spec

-----------------------------------------------------------------------------
(* The DAG *)

\* What a block that executes forward adds to the DAG.
BlockEdges(p) ==
  LET b == NextBlock(p)
      n == NextNode(p)
      E == AddReads(edges, Reads(b), n)
  IN  IF Writes(b) THEN AddEdge(E, last[b.dst.sym], n, b.dst.sym, TRUE) ELSE E

\* Nodes before and after a step of one process.
LEMMA ActiveStep ==
  ASSUME TypeOK, NEW p \in Proc, NEW n \in Node \cup {BOT}
  PROVE  /\ pc' = [pc EXCEPT ![p] = @ + 1] =>
              (Active(pc', n) <=> Active(pc, n) \/ n = NextNode(p))
         /\ pc[p] > 0 /\ pc' = [pc EXCEPT ![p] = @ - 1] =>
              (Active(pc', n) <=> Active(pc, n) /\ n # PrevNodeOf(p))
<1>1. CASE n = BOT
  <2>1. pc[p] > 0 => PrevNodeOf(p) # BOT
    BY BlockTypes, BotAssumption
  <2> QED BY <1>1, <2>1 DEF Active
<1>2. CASE n \in Node
  <2>1. n = <<n[1], n[2]>> /\ n[1] \in Proc /\ n[2] \in Nat /\ n # BOT
    BY <1>2, ProcAssumption, BotAssumption DEF Node
  <2>2. pc \in [Proc -> Nat]
    BY DEF TypeOK
  <2> QED BY <2>1, <2>2 DEF Active, NextNode, PrevNodeOf
<1> QED BY <1>1, <1>2

\* The edges of a step: those of the DAG, and edges into the block's node from
\* the versions it finds.
LEMMA BlockEdgesShape ==
  ASSUME TypeOK, NEW p \in Proc, pc[p] < Len(prog[p]),
         \A t \in Sym : last[t] # NextNode(p)
  PROVE  LET b == NextBlock(p)
             n == NextNode(p)
         IN  /\ BlockEdges(p) \subseteq EdgeType
             /\ edges \subseteq BlockEdges(p)
             /\ \A e \in BlockEdges(p) \ edges :
                  /\ e.dst = n /\ e.src = last[e.sym]
                  /\ IF e.wt THEN Writes(b) /\ e.sym = b.dst.sym
                             ELSE \E a \in Reads(b) : a.sym = e.sym
             /\ \A a \in Reads(b) : Edge(last[a.sym], n, a.sym, FALSE) \in BlockEdges(p)
             /\ Writes(b) => Edge(last[b.dst.sym], n, b.dst.sym, TRUE) \in BlockEdges(p)
<1> DEFINE b == NextBlock(p)
           n == NextNode(p)
           s == b.dst.sym
           R == AddReads(edges, Reads(b), n)
<1>1. b \in Block /\ n \in Node
  BY BlockTypes
<1>2. Reads(b) \in SUBSET Addr /\ s \in Sym
  BY <1>1 DEF Reads, Block, Addr
<1>3. last[s] \in Node \cup {BOT} /\ last[s] # n
  BY <1>2 DEF TypeOK
<1>4. \A a \in Reads(b) : a.sym \in Sym /\ last[a.sym] # n
  BY <1>2 DEF Addr
<1>5. R \subseteq EdgeType
  BY <1>1, <1>2, ReadEdgesType
<1>6. AddEdge(R, last[s], n, s, TRUE) \subseteq EdgeType
  <2> HIDE DEF R, n, s
  <2> QED BY <1>1, <1>2, <1>3, <1>5, WriteEdgeType
<1>7. R = edges \cup {Edge(last[a.sym], n, a.sym, FALSE) : a \in Reads(b)}
  BY <1>4 DEF AddReads
<1>8. BlockEdges(p) = IF Writes(b) THEN R \cup {Edge(last[s], n, s, TRUE)} ELSE R
  BY <1>3 DEF BlockEdges, AddEdge
<1>9. ASSUME NEW e \in BlockEdges(p) \ edges
      PROVE  /\ e.dst = n /\ e.src = last[e.sym]
             /\ IF e.wt THEN Writes(b) /\ e.sym = s ELSE \E a \in Reads(b) : a.sym = e.sym
  <2>1. CASE e \in R
    <3>1. PICK a \in Reads(b) : e = Edge(last[a.sym], n, a.sym, FALSE)
      BY <1>7, <1>9, <2>1
    <3> QED BY <3>1 DEF Edge
  <2>2. CASE e \notin R
    <3>1. Writes(b) /\ e = Edge(last[s], n, s, TRUE)
      BY <1>8, <1>9, <2>2
    <3> QED BY <3>1 DEF Edge
  <2> QED BY <2>1, <2>2
<1>10. BlockEdges(p) \subseteq EdgeType
  BY <1>5, <1>6 DEF BlockEdges
<1> HIDE DEF R
<1> QED BY <1>7, <1>8, <1>9, <1>10

\* The node about to execute is not active, and the current versions are.
LEMMA NextInactive ==
  ASSUME TypeOK, LastIsTip, NEW p \in Proc, pc[p] < Len(prog[p])
  PROVE  /\ NextNode(p) \in Node /\ IsNode(NextNode(p)) /\ BlockOf(NextNode(p)) = NextBlock(p)
         /\ ~Active(pc, NextNode(p))
         /\ \A t \in Sym : last[t] # NextNode(p) /\ Active(pc, last[t])
<1>1. NextNode(p) \in Node /\ NextNode(p) # BOT
  BY BlockTypes, BotAssumption
<1>2. IsNode(NextNode(p)) /\ BlockOf(NextNode(p)) = NextBlock(p)
  BY <1>1 DEF IsNode, BlockOf, NextNode, NextBlock
<1>3. ~Active(pc, NextNode(p))
  <2>1. pc[p] \in Nat
    BY DEF TypeOK
  <2> QED BY <1>1, <2>1 DEF Active, NextNode
<1>4. \A t \in Sym : Active(pc, last[t])
  BY DEF LastIsTip, IsTip, Active
<1> QED BY <1>1, <1>2, <1>3, <1>4

\* A block that isRunnable lets through finds exactly the versions it read or
\* overwrote before: this is what keeps a replay on the recorded DAG.
LEMMA ReplaySources ==
  ASSUME TypeOK, EdgeShape, LastIsTip, ReadersFirst,
         NEW p \in Proc, pc[p] < Len(prog[p]),
         RunnableFwd(edges, pc, NextNode(p)) \/ NextBlock(p).kind = "call",
         NEW e \in edges, e.dst = NextNode(p)
  PROVE  e.src = last[e.sym]
<1> DEFINE n == NextNode(p)
<1>1. e.sym \in Sym /\ e.src \in Node \cup {BOT} /\ e \in InEdges(edges, n)
  BY DEF TypeOK, EdgeType, InEdges
<1>2. ~Active(pc, n) /\ IsNode(n) /\ BlockOf(n) = NextBlock(p)
  BY NextInactive
<1>3. NextBlock(p).kind # "call"
  <2> SUFFICES ASSUME NextBlock(p).kind = "call" PROVE FALSE
    OBVIOUS
  <2>1. NextBlock(p).src = {}
    <3>1. prog \in Programs /\ pc[p] \in Nat /\ prog[p] \in Seq(Block)
      BY ProgramAssumption DEF TypeOK
    <3>2. pc[p] + 1 \in DOMAIN prog[p]
      BY <3>1
    <3> QED BY <3>1, <3>2, ProgramAssumption DEF NextBlock
  <2>2. ~Writes(NextBlock(p)) /\ Reads(NextBlock(p)) = {}
    BY <2>1 DEF Writes, Reads
  <2> QED BY <1>2, <2>2 DEF EdgeShape, WriterOf
<1>4. Active(pc, e.src)
  BY <1>1, <1>3 DEF RunnableFwd
<1>5. e.src = BOT \/ (WriterOf(e.src, e.sym) /\ Active(pc, e.src))
  BY <1>4 DEF EdgeShape
<1>6. SUFFICES ASSUME e.src # last[e.sym] PROVE FALSE
  OBVIOUS
<1>7. PICK g \in edges : g.wt /\ g.sym = e.sym /\ g.src = e.src /\ Active(pc, g.dst)
  <2>1. \A t \in Sym : \A m \in Node \cup {BOT} :
          (m = BOT \/ (WriterOf(m, t) /\ Active(pc, m))) /\ m # last[t] =>
            \E g \in edges : g.wt /\ g.sym = t /\ g.src = m /\ Active(pc, g.dst)
    BY DEF LastIsTip, IsTip
  <2> QED BY SMTT(20), <1>1, <1>5, <1>6, <2>1
<1>8. Active(pc, e.dst)
  BY <1>7 DEF ReadersFirst
<1> QED BY <1>2, <1>8

\* Either the DAG is complete and the step adds nothing, or every block in it has
\* been executed.
LEMMA ReplayOrFirst ==
  ASSUME TypeOK, DagInv, NEW p \in Proc, pc[p] < Len(prog[p]),
         RunnableFwd(edges, pc, NextNode(p)) \/ NextBlock(p).kind = "call"
  PROVE  \/ BlockEdges(p) = edges
         \/ \A e \in edges : Active(pc, e.dst)
<1> DEFINE b == NextBlock(p)
           n == NextNode(p)
<1> SUFFICES ASSUME \A k \in Node : IsNode(k) => Recorded(k) PROVE BlockEdges(p) = edges
  BY DEF DagInv, Mode
<1>1. IsNode(n) /\ n \in Node /\ BlockOf(n) = b /\ \A t \in Sym : last[t] # n
  BY NextInactive DEF DagInv
<1>2. Recorded(n)
  BY <1>1
<1>3. \A e \in edges : e.dst = n => e.src = last[e.sym]
  BY ReplaySources DEF DagInv
<1>4. ASSUME NEW e \in BlockEdges(p), e \notin edges PROVE FALSE
  <2>1. /\ e.dst = n /\ e.src = last[e.sym] /\ e \in EdgeType
        /\ IF e.wt THEN Writes(b) /\ e.sym = b.dst.sym ELSE \E a \in Reads(b) : a.sym = e.sym
    BY <1>1, <1>4, BlockEdgesShape
  <2>2. PICK f \in edges : f.dst = n /\ f.sym = e.sym /\ f.wt = e.wt
    <3>1. e.wt \in BOOLEAN /\ \A f \in edges : f.wt \in BOOLEAN
      BY <2>1 DEF TypeOK, EdgeType
    <3> QED BY <1>1, <1>2, <2>1, <3>1 DEF Recorded, InEdges
  <2>3. f.src = e.src /\ f \in EdgeType
    BY <1>3, <2>1, <2>2 DEF TypeOK
  <2>4. f = e
    BY <2>1, <2>2, <2>3 DEF EdgeType
  <2> QED BY <1>4, <2>4
<1> QED BY <1>1, <1>4, BlockEdgesShape

\* A block executed forward keeps the invariant.
LEMMA DagForward ==
  ASSUME TypeOK, DagInv, ~rev, NEW p \in Proc, pc[p] < Len(prog[p]),
         RunnableFwd(edges, pc, NextNode(p)) \/ NextBlock(p).kind = "call",
         pc' = [pc EXCEPT ![p] = @ + 1],
         edges' = BlockEdges(p),
         last' = IF Writes(NextBlock(p)) THEN [last EXCEPT ![NextBlock(p).dst.sym] = NextNode(p)]
                                         ELSE last,
         UNCHANGED <<prog, rev>>
  PROVE  DagInv'
<1>101. PICK n : n = NextNode(p)
  OBVIOUS
<1>102. PICK b : b = NextBlock(p)
  OBVIOUS
<1> DEFINE s == b.dst.sym
           tip(t) == IF Writes(b) /\ t = s THEN n ELSE last[t]
<1>1. /\ n \in Node /\ n # BOT /\ IsNode(n) /\ BlockOf(n) = b /\ ~Active(pc, n)
      /\ \A t \in Sym : last[t] # n /\ Active(pc, last[t]) /\ last[t] \in Node \cup {BOT}
      /\ b \in Block
  BY <1>101, <1>102, NextInactive, BlockTypes, BotAssumption DEF DagInv, TypeOK
<1>2. (Writes(b) => s \in Sym) /\ \A a \in Reads(b) : a.sym \in Sym
  BY <1>1 DEF Reads, Block, Addr
<1>3. /\ edges \subseteq edges' /\ edges' \subseteq EdgeType
      /\ \A e \in edges' \ edges :
           /\ e.dst = n /\ e.src = last[e.sym]
           /\ IF e.wt THEN Writes(b) /\ e.sym = s ELSE \E a \in Reads(b) : a.sym = e.sym
      /\ \A a \in Reads(b) : Edge(last[a.sym], n, a.sym, FALSE) \in edges'
      /\ Writes(b) => Edge(last[s], n, s, TRUE) \in edges'
  <2>1. \A t \in Sym : last[t] # NextNode(p)
    BY <1>101, <1>1
  <2>2. /\ edges \subseteq edges' /\ edges' \subseteq EdgeType
        /\ \A e \in edges' \ edges :
             /\ e.dst = NextNode(p) /\ e.src = last[e.sym]
             /\ IF e.wt THEN Writes(NextBlock(p)) /\ e.sym = NextBlock(p).dst.sym
                        ELSE \E a \in Reads(NextBlock(p)) : a.sym = e.sym
        /\ \A a \in Reads(NextBlock(p)) : Edge(last[a.sym], NextNode(p), a.sym, FALSE) \in edges'
        /\ Writes(NextBlock(p)) =>
             Edge(last[NextBlock(p).dst.sym], NextNode(p), NextBlock(p).dst.sym, TRUE) \in edges'
    BY <2>1, BlockEdgesShape
  <2> QED BY <1>101, <1>102, <2>2
<1>4. \A e \in edges' : /\ e.src \in Node \cup {BOT} /\ e.dst \in Node /\ e.sym \in Sym
                         /\ e.wt \in BOOLEAN
                         /\ e = [src |-> e.src, dst |-> e.dst, sym |-> e.sym, wt |-> e.wt]
  BY <1>3 DEF EdgeType
<1>5. \A e \in edges' : e.dst = n => e.src = last[e.sym]
  BY <1>101, <1>3, ReplaySources DEF DagInv
<1>6. edges' = edges \/ \A e \in edges : Active(pc, e.dst)
  BY ReplayOrFirst
<1>7. \A k \in Node \cup {BOT} : Active(pc', k) <=> Active(pc, k) \/ k = n
  BY <1>101, ActiveStep
<1>8. \A t \in Sym : last'[t] = tip(t)
  BY <1>101, <1>102, <1>2 DEF TypeOK
<1>9. /\ \A k, t : WriterOf(k, t)' <=> WriterOf(k, t)
      /\ \A k : (IsNode(k)' <=> IsNode(k)) /\ BlockOf(k)' = BlockOf(k)
  BY DEF WriterOf, IsNode, BlockOf
<1>10. \A t \in Sym : WriterOf(n, t) <=> Writes(b) /\ t = s
  BY <1>1 DEF WriterOf
<1> HIDE DEF s, tip
<1>11. EdgeShape'
  <2> SUFFICES ASSUME NEW e \in edges'
               PROVE  /\ e.src # e.dst /\ IsNode(e.dst)
                      /\ e.src = BOT \/ WriterOf(e.src, e.sym)
                      /\ IF e.wt THEN WriterOf(e.dst, e.sym)
                                 ELSE \E a \in Reads(BlockOf(e.dst)) : a.sym = e.sym
    BY <1>9 DEF EdgeShape
  <2>1. CASE e \in edges
    BY <2>1 DEF DagInv, EdgeShape
  <2>2. CASE e \notin edges
    <3>1. e.src = BOT \/ WriterOf(e.src, e.sym)
      BY <1>3, <1>4, <2>2 DEF DagInv, LastIsTip, IsTip
    <3> QED BY <1>1, <1>3, <1>4, <1>10, <2>2, <3>1
  <2> QED BY <2>1, <2>2
<1>12. OneRead'
  <2> SUFFICES ASSUME NEW e \in edges', NEW f \in edges',
                      ~e.wt, ~f.wt, e.sym = f.sym, e.dst = f.dst
               PROVE  e = f
    BY DEF OneRead
  <2>1. CASE e.dst = n
    BY <1>4, <1>5, <2>1
  <2>2. CASE e.dst # n
    BY <1>3, <2>2 DEF DagInv, OneRead
  <2> QED BY <2>1, <2>2
<1>13. OneOverwrite'
  <2> SUFFICES ASSUME NEW e \in edges', NEW f \in edges', e.wt, f.wt, e.sym = f.sym,
                      e.src = f.src \/ e.dst = f.dst
               PROVE  e = f
    BY DEF OneOverwrite
  <2>1. CASE e \in edges /\ f \in edges
    BY <2>1 DEF DagInv, OneOverwrite
  <2>2. CASE e.dst = n /\ f.dst = n
    BY <1>4, <1>5, <2>2
  <2>3. ASSUME NEW g \in edges', NEW h \in edges, g \notin edges, g.wt, h.wt, g.sym = h.sym,
               g.src = h.src
        PROVE  FALSE
    <3>1. Active(pc, h.dst)
      BY <1>6, <2>3
    <3>2. h.src = last[h.sym] /\ h.sym \in Sym
      BY <1>3, <1>4, <2>3
    <3> QED BY <2>3, <3>1, <3>2 DEF DagInv, LastIsTip, IsTip
  <2>4. CASE e \notin edges /\ f \in edges /\ f.dst # n
    BY <1>3, <2>3, <2>4
  <2>5. CASE f \notin edges /\ e \in edges /\ e.dst # n
    BY <1>3, <2>3, <2>5
  <2> QED BY <1>3, <2>1, <2>2, <2>4, <2>5
<1>14. ActiveClosed'
  <2> SUFFICES ASSUME NEW e \in edges', Active(pc', e.dst) PROVE Active(pc', e.src)
    BY DEF ActiveClosed
  <2>1. CASE e.dst = n
    BY <1>1, <1>4, <1>5, <1>7, <2>1
  <2>2. CASE e.dst # n
    BY <1>3, <1>4, <1>7, <2>2 DEF DagInv, ActiveClosed
  <2> QED BY <2>1, <2>2
<1>15. LastIsTip'
  <2> SUFFICES ASSUME NEW t \in Sym, NEW m, m = last'[t] PROVE IsTip(t, m)'
    BY DEF LastIsTip
  <2>4. m = tip(t)
    BY <1>8
  <2> SUFFICES /\ m = BOT \/ (WriterOf(m, t) /\ Active(pc', m))
               /\ \A e \in edges' : e.wt /\ e.sym = t /\ e.src = m => ~Active(pc', e.dst)
               /\ \A k \in Node \cup {BOT} :
                    (k = BOT \/ (WriterOf(k, t) /\ Active(pc', k))) /\ k # m =>
                      \E e \in edges' : e.wt /\ e.sym = t /\ e.src = k /\ Active(pc', e.dst)
    BY <1>9 DEF IsTip
  <2>1. \A k \in Node \cup {BOT} :
          (k = BOT \/ (WriterOf(k, t) /\ Active(pc, k))) /\ k # last[t] =>
             \E e \in edges : e.wt /\ e.sym = t /\ e.src = k /\ Active(pc, e.dst)
    BY DEF DagInv, LastIsTip, IsTip
  <2>2. CASE Writes(b) /\ t = s
    <3>1. m = n /\ WriterOf(n, t) /\ Active(pc', n)
      BY <1>1, <1>7, <1>10, <2>2, <2>4 DEF tip
    <3>2. ASSUME NEW e \in edges', e.src = n PROVE ~Active(pc', e.dst)
      <4>1. e \in edges
        BY <1>1, <1>3, <1>4, <3>2
      <4>2. ~Active(pc, e.dst) /\ e.dst # n
        BY <1>1, <3>2, <4>1 DEF DagInv, ActiveClosed, EdgeShape
      <4> QED BY <1>4, <1>7, <4>1, <4>2
    <3>3. ASSUME NEW k \in Node \cup {BOT}, k = BOT \/ (WriterOf(k, t) /\ Active(pc', k)), k # n
          PROVE  \E e \in edges' : e.wt /\ e.sym = t /\ e.src = k /\ Active(pc', e.dst)
      <4>1. CASE k = last[t]
        <5>1. Edge(last[s], n, s, TRUE) \in edges'
          BY <1>3, <2>2
        <5> QED BY <2>2, <3>1, <4>1, <5>1 DEF Edge
      <4>2. CASE k # last[t]
        <5>1. PICK e \in edges : e.wt /\ e.sym = t /\ e.src = k /\ Active(pc, e.dst)
          BY <1>7, <2>1, <3>3, <4>2
        <5> QED BY <1>3, <1>4, <1>7, <5>1
      <4> QED BY <4>1, <4>2
    <3> QED BY <3>1, <3>2, <3>3
  <2>3. CASE ~(Writes(b) /\ t = s)
    <3>1. m = last[t] /\ ~WriterOf(n, t)
      BY <1>10, <2>3, <2>4 DEF tip
    <3>2. last[t] = BOT \/ (WriterOf(last[t], t) /\ Active(pc', last[t]))
      BY <1>1, <1>7 DEF DagInv, LastIsTip, IsTip
    <3>3. ASSUME NEW e \in edges', e.wt, e.sym = t, e.src = last[t] PROVE ~Active(pc', e.dst)
      <4>1. e.dst # n /\ e \in edges
        BY <1>3, <1>10, <2>3, <3>3 DEF DagInv, EdgeShape
      <4>2. ~Active(pc, e.dst)
        BY <3>3, <4>1 DEF DagInv, LastIsTip, IsTip
      <4> QED BY <1>4, <1>7, <4>1, <4>2
    <3>4. ASSUME NEW k \in Node \cup {BOT}, k = BOT \/ (WriterOf(k, t) /\ Active(pc', k)), k # last[t]
          PROVE  \E e \in edges' : e.wt /\ e.sym = t /\ e.src = k /\ Active(pc', e.dst)
      <4>1. PICK e \in edges : e.wt /\ e.sym = t /\ e.src = k /\ Active(pc, e.dst)
        BY <1>7, <2>1, <3>1, <3>4
      <4> QED BY <1>3, <1>4, <1>7, <4>1
    <3> QED BY <3>1, <3>2, <3>3, <3>4
  <2> QED BY <2>2, <2>3
<1>16. ReadersFirst'
  <2> SUFFICES ASSUME NEW e \in edges', NEW f \in edges', e.wt, e.sym = f.sym, e.src = f.src,
                      Active(pc', e.dst)
               PROVE  Active(pc', f.dst)
    BY DEF ReadersFirst
  <2>1. CASE f.dst = n
    BY <1>1, <1>7, <2>1
  <2>2. CASE f.dst # n /\ e.dst # n
    <3>1. e \in edges /\ f \in edges /\ Active(pc, e.dst)
      BY <1>3, <1>4, <1>7, <2>2
    <3>2. Active(pc, f.dst)
      BY <3>1 DEF DagInv, ReadersFirst
    <3> QED BY <1>4, <1>7, <3>2
  <2>3. CASE f.dst # n /\ e.dst = n
    <3>1. f \in edges
      BY <1>3, <2>3
    <3>2. CASE edges' = edges
      <4>1. RunnableFwd(edges, pc, n)
        <5>1. WriterOf(n, e.sym)
          BY <2>3, <3>2 DEF DagInv, EdgeShape
        <5>2. b.kind # "call"
          BY <1>4, <1>10, <5>1 DEF Writes
        <5> QED BY <1>101, <1>102, <5>2
      <4>2. e \in InEdges(edges, n) /\ f \in OutEdges(edges, e.src)
        BY <2>3, <3>1, <3>2 DEF InEdges, OutEdges
      <4>3. Active(pc, f.dst)
        BY <2>3, <4>1, <4>2 DEF RunnableFwd
      <4> QED BY <1>4, <1>7, <4>3
    <3>3. CASE \A g \in edges : Active(pc, g.dst)
      BY <1>4, <1>7, <3>1, <3>3
    <3> QED BY <1>6, <3>2, <3>3
  <2> QED BY <2>1, <2>2, <2>3
<1>17. Mode'
  <2>1. ASSUME NEW k, Recorded(k) PROVE Recorded(k)'
    BY <1>3, <1>9, <2>1 DEF Recorded, InEdges
  <2>2. Recorded(n)'
    <3>1. \A a \in Reads(b) : \E e \in edges' : e.dst = n /\ e.sym = a.sym /\ ~e.wt
      BY <1>3 DEF Edge
    <3>2. Writes(b) => \E e \in edges' : e.dst = n /\ e.sym = s /\ e.wt
      BY <1>3 DEF Edge
    <3>3. BlockOf(n)' = b
      BY <1>1, <1>9
    <3>4. b.dst.sym = s
      BY DEF s
    <3> HIDE DEF BlockOf
    <3> QED BY <3>1, <3>2, <3>3, <3>4 DEF Recorded, InEdges
  <2>3. ASSUME NEW k \in Node, IsNode(k)', Active(pc', k) PROVE Recorded(k)'
    <3>1. CASE k = n
      BY <2>2, <3>1
    <3>2. CASE k # n
      BY <1>7, <1>9, <2>1, <2>3, <3>2 DEF DagInv, Mode
    <3> QED BY <3>1, <3>2
  <2>4. \/ \A e \in edges' : Active(pc', e.dst)
        \/ \A k \in Node : IsNode(k)' => Recorded(k)'
    <3>1. CASE \A e \in edges : Active(pc, e.dst)
      BY <1>1, <1>3, <1>4, <1>7, <3>1
    <3>2. CASE \A k \in Node : IsNode(k) => Recorded(k)
      BY <1>9, <2>1, <3>2
    <3> QED BY <3>1, <3>2 DEF DagInv, Mode
  <2> QED BY <2>3, <2>4 DEF Mode
<1> QED BY <1>11, <1>12, <1>13, <1>14, <1>15, <1>16, <1>17 DEF DagInv

\* Backward, a write block that is let through wrote the current version.
LEMMA UndoFindsTip ==
  ASSUME TypeOK, DagInv, NEW p \in Proc, pc[p] > 0,
         RunnableBwd(edges, pc, PrevNodeOf(p)), Writes(PrevBlock(p))
  PROVE  last[PrevBlock(p).dst.sym] = PrevNodeOf(p)
<1>1. PICK n \in Node : n = PrevNodeOf(p)
  BY BlockTypes
<1>2. PICK s \in Sym : s = PrevBlock(p).dst.sym
  BY BlockTypes DEF Block, Addr
<1>3. pc[p] \in Nat /\ pc[p] <= Len(prog[p]) /\ Len(prog[p]) \in Nat
  BY ProgramAssumption DEF TypeOK
<1>4. IsNode(n) /\ BlockOf(n) = PrevBlock(p) /\ Active(pc, n)
  BY <1>1, <1>3 DEF IsNode, BlockOf, PrevNodeOf, PrevBlock, Active
<1>5. WriterOf(n, s)
  BY <1>2, <1>4 DEF WriterOf
<1>6. SUFFICES ASSUME last[s] # n PROVE FALSE
  BY <1>1, <1>2
<1>7. PICK e \in edges : e.wt /\ e.sym = s /\ e.src = n /\ Active(pc, e.dst)
  BY <1>4, <1>5, <1>6 DEF DagInv, LastIsTip, IsTip
<1>8. e \in OutEdges(edges, n)
  BY <1>7 DEF OutEdges
<1> QED BY <1>1, <1>7, <1>8 DEF RunnableBwd

\* A block undone keeps the invariant.
LEMMA DagBackward ==
  ASSUME TypeOK, DagInv, rev, NEW p \in Proc, pc[p] > 0,
         RunnableBwd(edges, pc, PrevNodeOf(p)),
         pc' = [pc EXCEPT ![p] = @ - 1],
         last' = IF Writes(PrevBlock(p))
                 THEN [last EXCEPT ![PrevBlock(p).dst.sym] =
                         PrevNode(edges, PrevNodeOf(p), PrevBlock(p).dst.sym)]
                 ELSE last,
         UNCHANGED <<prog, rev, edges>>
  PROVE  DagInv'
<1>1. PICK n \in Node : n = PrevNodeOf(p)
  BY BlockTypes
<1>2. PICK b \in Block : b = PrevBlock(p)
  BY BlockTypes
<1> DEFINE s == b.dst.sym
<1>3. s \in Sym
  BY DEF Block, Addr
<1>4. pc[p] \in Nat /\ pc[p] <= Len(prog[p]) /\ Len(prog[p]) \in Nat
  BY ProgramAssumption DEF TypeOK
<1>5. IsNode(n) /\ BlockOf(n) = b /\ Active(pc, n) /\ n # BOT
  BY <1>1, <1>2, <1>4, BotAssumption DEF IsNode, BlockOf, PrevNodeOf, PrevBlock, Active
<1>6. \A t \in Sym : WriterOf(n, t) <=> Writes(b) /\ t = s
  BY <1>5 DEF WriterOf
<1>7. \A k \in Node \cup {BOT} : Active(pc', k) <=> Active(pc, k) /\ k # n
  BY <1>1, ActiveStep
<1>8. \A e \in edges : e.src \in Node \cup {BOT} /\ e.dst \in Node /\ e.sym \in Sym
  BY DEF TypeOK, EdgeType
<1>9. \A e \in edges : e.src = n => ~Active(pc, e.dst)
  BY <1>1 DEF RunnableBwd, OutEdges
<1>10. ASSUME NEW e \in edges, NEW f \in edges, f.dst = n, ~f.wt, e.src = f.src, e.sym = f.sym,
              e.wt, e.dst # n
       PROVE  ~Active(pc, e.dst)
  <2>1. f \in InEdges(edges, n) /\ e \in OutEdges(edges, f.src)
    BY <1>10 DEF InEdges, OutEdges
  <2> QED BY <1>1, <1>10, <2>1 DEF RunnableBwd
<1>11. \A k \in Node : IsNode(k) => Recorded(k)
  BY <1>4 DEF DagInv, Mode
<1>12. /\ \A k, t : WriterOf(k, t)' <=> WriterOf(k, t)
       /\ \A k : (IsNode(k)' <=> IsNode(k)) /\ BlockOf(k)' = BlockOf(k)
       /\ \A k : Recorded(k)' <=> Recorded(k)
  BY DEF WriterOf, IsNode, BlockOf, Recorded
<1>13. EdgeShape' /\ OneRead' /\ OneOverwrite'
  BY DEF DagInv, EdgeShape, OneRead, OneOverwrite, WriterOf, IsNode, BlockOf
<1> HIDE DEF s
<1>14. ActiveClosed'
  <2> SUFFICES ASSUME NEW e \in edges, Active(pc', e.dst) PROVE Active(pc', e.src)
    BY DEF ActiveClosed
  <2> QED BY <1>7, <1>8, <1>9 DEF DagInv, ActiveClosed
<1>15. LastIsTip'
  <2> SUFFICES ASSUME NEW t \in Sym, NEW m, m = last'[t] PROVE IsTip(t, m)'
    BY DEF LastIsTip
  <2> SUFFICES /\ m = BOT \/ (WriterOf(m, t) /\ Active(pc', m))
               /\ \A e \in edges : e.wt /\ e.sym = t /\ e.src = m => ~Active(pc', e.dst)
               /\ \A k \in Node \cup {BOT} :
                    (k = BOT \/ (WriterOf(k, t) /\ Active(pc', k))) /\ k # m =>
                      \E e \in edges : e.wt /\ e.sym = t /\ e.src = k /\ Active(pc', e.dst)
    BY <1>12 DEF IsTip
  <2>1. /\ last[t] = BOT \/ (WriterOf(last[t], t) /\ Active(pc, last[t]))
        /\ \A e \in edges : e.wt /\ e.sym = t /\ e.src = last[t] => ~Active(pc, e.dst)
        /\ \A k \in Node \cup {BOT} :
             (k = BOT \/ (WriterOf(k, t) /\ Active(pc, k))) /\ k # last[t] =>
               \E e \in edges : e.wt /\ e.sym = t /\ e.src = k /\ Active(pc, e.dst)
    BY DEF DagInv, LastIsTip, IsTip
  <2>2. CASE Writes(b) /\ t = s
    <3>1. last[t] = n
      BY <1>1, <1>2, <2>2, UndoFindsTip DEF s
    <3>2. m = PrevNode(edges, n, t)
      BY <1>1, <1>2, <2>2 DEF TypeOK, s
    <3>3. PICK e0 \in edges : e0.dst = n /\ e0.wt /\ e0.sym = t /\ e0.src = m
      <4>1. \E e \in edges : e.dst = n /\ e.wt /\ e.sym = t
        BY <1>5, <1>11, <2>2 DEF Recorded, InEdges, s
      <4>2. edges \subseteq EdgeType
        BY DEF TypeOK
      <4> QED BY <3>2, <4>1, <4>2, PrevNodeType
    <3>4. m \in Node \cup {BOT} /\ m # n /\ Active(pc, m) /\ (m = BOT \/ WriterOf(m, t))
      BY <1>5, <1>8, <3>3 DEF DagInv, ActiveClosed, EdgeShape
    <3>5. ASSUME NEW e \in edges, e.wt, e.sym = t, e.src = m PROVE ~Active(pc', e.dst)
      <4>1. e = e0
        BY <3>3, <3>5 DEF DagInv, OneOverwrite
      <4> QED BY <1>7, <3>3, <4>1
    <3>6. ASSUME NEW k \in Node \cup {BOT}, k = BOT \/ (WriterOf(k, t) /\ Active(pc', k)), k # m
          PROVE  \E e \in edges : e.wt /\ e.sym = t /\ e.src = k /\ Active(pc', e.dst)
      <4>1. k # n /\ (k = BOT \/ (WriterOf(k, t) /\ Active(pc, k)))
        BY <1>5, <1>7, <3>6
      <4>2. PICK e \in edges : e.wt /\ e.sym = t /\ e.src = k /\ Active(pc, e.dst)
        BY <2>1, <3>1, <4>1
      <4>3. e.dst # n
        BY <3>3, <3>6, <4>2 DEF DagInv, OneOverwrite
      <4> QED BY <1>7, <1>8, <4>2, <4>3
    <3> QED BY <1>7, <3>4, <3>5, <3>6
  <2>3. CASE ~(Writes(b) /\ t = s)
    <3>1. m = last[t] /\ ~WriterOf(n, t)
      BY <1>2, <1>3, <1>6, <2>3 DEF TypeOK, s
    <3>2. m \in Node \cup {BOT} /\ m # n
      BY <1>5, <2>1, <3>1 DEF TypeOK
    <3>3. ASSUME NEW k \in Node \cup {BOT}, k = BOT \/ (WriterOf(k, t) /\ Active(pc', k)), k # m
          PROVE  \E e \in edges : e.wt /\ e.sym = t /\ e.src = k /\ Active(pc', e.dst)
      <4>1. PICK e \in edges : e.wt /\ e.sym = t /\ e.src = k /\ Active(pc, e.dst)
        BY <1>7, <2>1, <3>1, <3>3
      <4>2. e.dst # n
        BY <3>1, <4>1 DEF DagInv, EdgeShape
      <4> QED BY <1>7, <1>8, <4>1, <4>2
    <3>4. m = BOT \/ (WriterOf(m, t) /\ Active(pc', m))
      BY ZenonT(40), <1>7, <2>1, <3>1, <3>2
    <3>5. ASSUME NEW e \in edges, e.wt, e.sym = t, e.src = m PROVE ~Active(pc', e.dst)
      BY <1>7, <1>8, <2>1, <3>1, <3>5
    <3> QED BY <3>3, <3>4, <3>5
  <2> QED BY <2>2, <2>3
<1>16. ReadersFirst'
  <2> SUFFICES ASSUME NEW e \in edges, NEW f \in edges, e.wt, e.sym = f.sym, e.src = f.src,
                      Active(pc', e.dst)
               PROVE  Active(pc', f.dst)
    BY DEF ReadersFirst
  <2>1. Active(pc, e.dst) /\ e.dst # n /\ Active(pc, f.dst)
    BY <1>7, <1>8 DEF DagInv, ReadersFirst
  <2>2. f.dst # n
    BY <1>10, <2>1 DEF DagInv, OneOverwrite
  <2> QED BY <1>7, <1>8, <2>1, <2>2
<1>17. Mode'
  BY <1>11, <1>12 DEF Mode
<1> QED BY <1>13, <1>14, <1>15, <1>16, <1>17 DEF DagInv

\* The forward steps that execute a block all do this to the DAG.
LEMMA ForwardSteps ==
  ASSUME TypeOK, NEW p \in Proc,
         FwdWrite(p) \/ FwdLock(p) \/ FwdUnlock(p) \/ FwdRead(p) \/ FwdJoin(p)
  PROVE  /\ pc[p] < Len(prog[p]) /\ ~rev /\ UNCHANGED <<prog, rev>>
         /\ RunnableFwd(edges, pc, NextNode(p)) \/ NextBlock(p).kind = "call"
         /\ pc' = [pc EXCEPT ![p] = @ + 1]
         /\ edges' = BlockEdges(p)
         /\ last' = IF Writes(NextBlock(p)) THEN [last EXCEPT ![NextBlock(p).dst.sym] = NextNode(p)]
                                            ELSE last
<1>1. CASE FwdWrite(p)
  BY <1>1 DEF FwdWrite, FwdReady, Advance, BlockEdges
<1>2. CASE FwdLock(p)
  BY <1>2 DEF FwdLock, FwdReady, Advance, BlockEdges, Writes, Reads
<1>3. CASE FwdUnlock(p)
  BY <1>3 DEF FwdUnlock, FwdReady, Advance, BlockEdges, Writes, Reads
<1>4. CASE FwdRead(p)
  BY <1>4 DEF FwdRead, FwdReady, Advance, BlockEdges, Writes, Reads
<1>5. CASE FwdJoin(p)
  <2>1. pc[p] < Len(prog[p]) /\ NextBlock(p).kind = "call"
    BY <1>5 DEF FwdJoin, TypeOK
  <2>2. NextBlock(p).src = {}
    <3>1. prog \in Programs /\ pc[p] \in Nat /\ prog[p] \in Seq(Block)
      BY ProgramAssumption DEF TypeOK
    <3>2. pc[p] + 1 \in DOMAIN prog[p]
      BY <2>1, <3>1
    <3> QED BY <2>1, <3>1, <3>2, ProgramAssumption DEF NextBlock
  <2> QED BY <1>5, <2>1, <2>2 DEF FwdJoin, Advance, BlockEdges, Writes, Reads, AddReads
<1> QED BY <1>1, <1>2, <1>3, <1>4, <1>5

\* The backward steps that undo a block.
LEMMA BackwardSteps ==
  ASSUME TypeOK, NEW p \in Proc,
         BwdWrite(p) \/ BwdLock(p) \/ BwdUnlock(p) \/ BwdRead(p) \/ BwdFork(p)
  PROVE  /\ pc[p] > 0 /\ rev /\ UNCHANGED <<prog, rev, edges>>
         /\ RunnableBwd(edges, pc, PrevNodeOf(p))
         /\ pc' = [pc EXCEPT ![p] = @ - 1]
         /\ last' = IF Writes(PrevBlock(p))
                    THEN [last EXCEPT ![PrevBlock(p).dst.sym] =
                            PrevNode(edges, PrevNodeOf(p), PrevBlock(p).dst.sym)]
                    ELSE last
<1>1. CASE BwdWrite(p)
  BY <1>1 DEF BwdWrite, BwdReady, Retreat
<1>2. CASE BwdLock(p)
  BY <1>2 DEF BwdLock, BwdReady, Retreat, Writes
<1>3. CASE BwdUnlock(p)
  BY <1>3 DEF BwdUnlock, BwdReady, Retreat, Writes
<1>4. CASE BwdRead(p)
  BY <1>4 DEF BwdRead, BwdReady, Retreat, Writes
<1>5. CASE BwdFork(p)
  BY <1>5 DEF BwdFork, BwdReady, Writes
<1> QED BY <1>1, <1>2, <1>3, <1>4, <1>5

LEMMA DagInit == Init => DagInv
<1> SUFFICES ASSUME Init PROVE DagInv
  OBVIOUS
<1>1. \A n \in Node : ~Active(pc, n)
  BY BotAssumption, ProcAssumption DEF Init, Active, Node
<1>2. EdgeShape /\ OneRead /\ OneOverwrite /\ ActiveClosed /\ ReadersFirst
  BY DEF Init, EdgeShape, OneRead, OneOverwrite, ActiveClosed, ReadersFirst
<1>3. LastIsTip
  BY <1>1 DEF Init, LastIsTip, IsTip
<1>4. Mode
  BY <1>1 DEF Init, Mode
<1> QED BY <1>2, <1>3, <1>4 DEF DagInv

\* Every step keeps the invariant, provided runs are whole.
LEMMA DagStep == TypeOK /\ WholeRuns /\ DagInv /\ [Next]_vars => DagInv'
<1> SUFFICES ASSUME TypeOK, WholeRuns, DagInv, [Next]_vars PROVE DagInv'
  OBVIOUS
<1>1. ASSUME UNCHANGED <<prog, pc, edges, last>>, rev' = rev PROVE DagInv'
  <2>1. EdgeShape' /\ OneRead' /\ OneOverwrite'
    BY <1>1 DEF DagInv, EdgeShape, OneRead, OneOverwrite, WriterOf, IsNode, BlockOf
  <2>2. ActiveClosed' /\ ReadersFirst'
    BY <1>1 DEF DagInv, ActiveClosed, ReadersFirst
  <2>3. LastIsTip'
    BY <1>1 DEF DagInv, LastIsTip, IsTip, WriterOf, IsNode, BlockOf
  <2>4. Mode'
    BY <1>1 DEF DagInv, Mode, IsNode, BlockOf, Recorded
  <2> QED BY <2>1, <2>2, <2>3, <2>4 DEF DagInv
<1>2. ASSUME NEW p \in Proc,
             FwdWrite(p) \/ FwdLock(p) \/ FwdUnlock(p) \/ FwdRead(p) \/ FwdJoin(p)
      PROVE  DagInv'
  BY <1>2, ForwardSteps, DagForward
<1>3. ASSUME NEW p \in Proc,
             BwdWrite(p) \/ BwdLock(p) \/ BwdUnlock(p) \/ BwdRead(p) \/ BwdFork(p)
      PROVE  DagInv'
  BY <1>3, BackwardSteps, DagBackward
<1>4. ASSUME NEW p \in Proc, FwdFork(p) \/ BwdJoin(p) PROVE DagInv'
  BY <1>1, <1>4 DEF FwdFork, BwdJoin
<1>5. CASE Turn
  <2>1. UNCHANGED <<prog, pc, edges, last>> /\ rev' = ~rev
    BY <1>5 DEF Turn
  <2>2. Mode'
    <3>1. CASE rev
      BY <2>1, <3>1 DEF DagInv, Mode, IsNode, BlockOf, Recorded
    <3>2. CASE ~rev
      <4>1. \A p \in Proc : pc[p] = Len(prog[p])
        BY <1>5, <3>2 DEF Turn, AtEnd, WholeRuns
      <4>2. \A n \in Node : IsNode(n) => Active(pc, n)
        BY <4>1 DEF IsNode, Active, Node
      <4>3. \A n \in Node : IsNode(n) => Recorded(n)
        BY <4>2 DEF DagInv, Mode
      <4> QED BY <2>1, <4>3 DEF Mode, IsNode, BlockOf, Recorded
    <3> QED BY <3>1, <3>2
  <2>3. EdgeShape' /\ OneRead' /\ OneOverwrite'
    BY <2>1 DEF DagInv, EdgeShape, OneRead, OneOverwrite, WriterOf, IsNode, BlockOf
  <2>4. ActiveClosed' /\ ReadersFirst'
    BY <2>1 DEF DagInv, ActiveClosed, ReadersFirst
  <2>5. LastIsTip'
    BY <2>1 DEF DagInv, LastIsTip, IsTip, WriterOf, IsNode, BlockOf
  <2> QED BY <2>2, <2>3, <2>4, <2>5 DEF DagInv
<1>6. CASE DelDag
  <2>1. edges' = {} /\ last' = [s \in Sym |-> BOT] /\ UNCHANGED <<prog, pc, rev>>
    BY <1>6 DEF DelDag
  <2>2. \A p \in Proc : pc[p] = 0
    BY <1>6 DEF DelDag, WholeRuns
  <2>3. \A n \in Node : ~Active(pc, n)
    BY <2>2, BotAssumption, ProcAssumption DEF Active, Node
  <2>4. LastIsTip'
    BY <2>1, <2>3 DEF LastIsTip, IsTip
  <2>5. Mode'
    BY <2>1, <2>2, <2>3 DEF Mode
  <2> QED BY <2>1, <2>4, <2>5 DEF DagInv, EdgeShape, OneRead, OneOverwrite, ActiveClosed, ReadersFirst
<1>7. CASE UNCHANGED vars
  BY <1>1, <1>7 DEF vars
<1> QED BY <1>2, <1>3, <1>4, <1>5, <1>6, <1>7 DEF Next, Step
=============================================================================
