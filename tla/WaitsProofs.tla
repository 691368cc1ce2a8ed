---------------------------- MODULE WaitsProofs -----------------------------
(***************************************************************************)
(* A block that waits in the middle does what it would do in one step at   *)
(* the end of its wait.  So what holds of AnnotationDag holds with the     *)
(* wait loops as steps.                                                    *)
(***************************************************************************)
EXTENDS Waits, ReplaysProofs

-----------------------------------------------------------------------------
(* The invariants of the blocks that are done *)

BlocksInv ==
  /\ TypeOK /\ TreeInv /\ WholeRuns /\ DagInv /\ LogInv
  /\ NoCircle /\ LockWords /\ ~panicked /\ HeldTip /\ OneVersion

LEMMA BlocksInit == LInit => BlocksInv
<1>1. LInit => Init
  BY DEF LInit
<1>2. Init => TypeOK
  BY TypeInit
<1>3. Init => TreeInv
  BY TreeInit
<1>4. TypeOK /\ TreeInv => WholeRuns
  BY TreeIsWhole
<1>5. Init => DagInv
  BY DagInit
<1>6. LInit => LogInv
  BY LogInit
<1>7. Init => NoCircle /\ LockWords /\ ~panicked
  BY WordsInit
<1>8. Init => HeldTip /\ OneVersion
  BY DEF Init, HeldTip, OneVersion
<1> QED BY <1>1, <1>2, <1>3, <1>4, <1>5, <1>6, <1>7, <1>8 DEF BlocksInv

LEMMA BlocksStep == BlocksInv /\ [LNext]_lvars => BlocksInv'
<1> SUFFICES ASSUME BlocksInv, [LNext]_lvars PROVE BlocksInv'
  OBVIOUS
<1>1. [Next]_vars
  BY StepsAreSteps
<1>2. TypeOK'
  BY <1>1, TypeStep DEF BlocksInv
<1>3. TreeInv'
  BY <1>1, <1>2, TreeStep DEF BlocksInv
<1>4. WholeRuns'
  <2>1. (TypeOK /\ TreeInv => WholeRuns)'
    BY TreeIsWhole, PTL
  <2> QED BY <1>2, <1>3, <2>1
<1>5. DagInv'
  BY <1>1, DagStep DEF BlocksInv
<1>6. LogInv'
  BY <1>2, LogStep DEF BlocksInv
<1>7. NoCircle' /\ LockWords' /\ ~panicked'
  BY <1>1, <1>2, WordsStep, NoCircleStep DEF BlocksInv
<1>8. HeldTip' /\ OneVersion'
  BY <1>1, <1>2, TipStep DEF BlocksInv
<1> QED BY <1>2, <1>3, <1>4, <1>5, <1>6, <1>7, <1>8 DEF BlocksInv

-----------------------------------------------------------------------------
(* Waiting *)

\* p waits in its block b, of node n: it executes for the first time, and what it
\* has read is still so.
Paused(p, b, n) ==
  /\ pc[p] < Len(prog[p]) /\ Writes(b)
  /\ early[p] = [a \in ReadFirst(b) |-> mem[a.cell]]
  /\ InEdges(edges, n) = {}
  /\ InEdges(ahead, n) = {Edge(last[a.sym], n, a.sym, FALSE) : a \in ReadFirst(b)}

\* Who waits runs, forward, and nobody else has recorded something ahead.
WaitInv ==
  /\ Waiting \subseteq live \ inCall
  /\ Waiting # {} => ~rev
  /\ \A p \in Waiting : Paused(p, NextBlock(p), NextNode(p))
  /\ \A e \in ahead : \E p \in Waiting : e.dst = NextNode(p)

\* What a block may wait with is held by its process.
LEMMA ReadFirstHeld ==
  ASSUME TypeOK, NEW p \in Proc, pc[p] < Len(prog[p]), Writes(NextBlock(p)),
         NEW a \in ReadFirst(NextBlock(p))
  PROVE  a \in Held(p) /\ a \in Addr
<1>1. PICK P \in Programs, k \in Nat, l \in Nat :
        P = prog /\ k = pc[p] /\ l = Len(P[p]) /\ k < l /\ P[p] \in Seq(Block)
  BY ProgramAssumption DEF TypeOK
<1>2. Writes(P[p][k + 1]) /\ a \in P[p][k + 1].src \cap Early /\ k + 1 \in DOMAIN P[p]
  BY <1>1 DEF NextBlock, ReadFirst
<1>3. PICK j \in 1 .. k :
        /\ P[p][j].kind = "lock" /\ a \in P[p][j].src
        /\ \A i \in j + 1 .. k : ~(P[p][i].kind = "unlock" /\ a \in P[p][i].src)
  <2>1. PICK m : m = k + 1 /\ m \in DOMAIN P[p] /\ m - 1 = k
    BY <1>1, <1>2
  <2>2. \E j \in 1 .. m - 1 :
          /\ P[p][j].kind = "lock" /\ a \in P[p][j].src
          /\ \A i \in j + 1 .. m - 1 : ~(P[p][i].kind = "unlock" /\ a \in P[p][i].src)
    <3>1. m \in DOMAIN P[p] /\ Writes(P[p][m]) /\ a \in P[p][m].src \cap Early
      BY <1>2, <2>1
    <3> QED BY <3>1, EarlyAssumption, Zenon
  <2> QED BY <2>1, <2>2
<1>4. a \in HeldAt(P, p, j)
  <2>1. PICK i \in Nat : j = i + 1
    <3>1. j - 1 \in Nat /\ j = (j - 1) + 1
      BY <1>1
    <3> QED BY <3>1
  <2>2. i < Len(P[p])
    BY <1>1, <2>1
  <2>3. PICK b : b = P[p][i + 1]
    OBVIOUS
  <2>4. HeldAt(P, p, i + 1) = HeldAt(P, p, i) \cup b.src /\ a \in b.src
    BY <1>3, <2>1, <2>2, <2>3, HeldNext
  <2> QED BY <2>1, <2>4
<1> DEFINE S == {i \in j .. k : a \notin HeldAt(P, p, i)}
<1>5. S = {}
  <2>1. SUFFICES ASSUME S # {} PROVE FALSE
    OBVIOUS
  <2>2. PICK m \in S : \A h \in S : m <= h
    <3>1. S \in SUBSET Nat
      BY <1>1
    <3> HIDE DEF S
    <3> QED BY <2>1, <3>1, LeastNat
  <2>3. m \in j .. k /\ a \notin HeldAt(P, p, m) /\ m # j
    BY <1>4, <2>2
  <2>4. PICK i \in j .. k : m = i + 1
    <3>1. m - 1 \in j .. k /\ m = (m - 1) + 1
      BY <1>1, <2>3
    <3> QED BY <3>1
  <2>5. i \notin S
    <3>1. ~(m <= i)
      BY <1>1, <2>4
    <3> HIDE DEF S
    <3> QED BY <2>2, <3>1
  <2>6. a \in HeldAt(P, p, i) /\ i \in Nat /\ i < Len(P[p])
    BY <1>1, <2>3, <2>4, <2>5
  <2>7. PICK b : b = P[p][i + 1]
    OBVIOUS
  <2>8. b.kind = "unlock" /\ a \in b.src
    BY <2>3, <2>4, <2>6, <2>7, HeldNext
  <2> QED BY <1>1, <1>3, <2>3, <2>4, <2>7, <2>8
<1>6. k \in j .. k
  BY <1>1
<1>7. a \in HeldAt(P, p, k)
  BY <1>5, <1>6
<1>8. Held(p) = HeldAt(prog, p, pc[p])
  BY DEF Held, HeldAt, Times
<1> QED BY <1>1, <1>7, <1>8 DEF HeldAt

\* A process that stays where it is in the middle of a block finds what it has read
\* unchanged.
LEMMA StillWaiting ==
  ASSUME BlocksInv, BlocksInv', [LNext]_lvars, WaitInv, NEW q \in Waiting,
         prog' = prog, pc'[q] = pc[q]
  PROVE  /\ NextBlock(q)' = NextBlock(q) /\ NextNode(q)' = NextNode(q)
         /\ \A a \in ReadFirst(NextBlock(q)) :
              mem'[a.cell] = mem[a.cell] /\ last'[a.sym] = last[a.sym]
<1>1. q \in Proc /\ pc[q] < Len(prog[q]) /\ Writes(NextBlock(q))
  BY DEF WaitInv, Paused, BlocksInv, TypeOK
<1>2. NextBlock(q)' = NextBlock(q) /\ NextNode(q)' = NextNode(q)
  BY DEF NextBlock, NextNode
<1>3. ASSUME NEW a \in ReadFirst(NextBlock(q))
      PROVE  mem'[a.cell] = mem[a.cell] /\ last'[a.sym] = last[a.sym]
  <2>1. a \in Held(q)
    BY <1>1, <1>3, ReadFirstHeld DEF BlocksInv
  <2>2. Held(q)' = Held(q)
    BY DEF Held
  <2>3. [Next]_vars
    BY StepsAreSteps
  <2> QED BY <1>1, <2>1, <2>2, <2>3, HeldIsKept DEF BlocksInv
<1> QED BY <1>2, <1>3

\* What the next block of a process reads, and the edges that gives.
LEMMA NewBlock ==
  ASSUME BlocksInv, NEW p \in Proc, pc[p] < Len(prog[p]),
         NEW b, b = NextBlock(p), NEW n, n = NextNode(p)
  PROVE  /\ b \in Block /\ n \in Node /\ n[1] = p /\ \A t \in Sym : last[t] # n
         /\ b.src \subseteq Reads(b) /\ ReadFirst(b) \subseteq b.src /\ Reads(b) \subseteq Addr
<1>1. TypeOK /\ LastIsTip
  BY DEF BlocksInv, DagInv
<1>2. b \in Block
  BY <1>1, BlockTypes
<1>3. n \in Node /\ n[1] = p /\ \A t \in Sym : last[t] # n
  <2>1. NextNode(p)[1] = p
    BY DEF NextNode
  <2> QED BY <1>1, <2>1, NextInactive
<1>4. b.src \subseteq Reads(b) /\ ReadFirst(b) \subseteq b.src /\ Reads(b) \subseteq Addr
  BY <1>2 DEF Reads, ReadFirst, Block
<1> QED BY <1>2, <1>3, <1>4

LEMMA NewEdges ==
  ASSUME BlocksInv, NEW p \in Proc, pc[p] < Len(prog[p]),
         NEW b, b = NextBlock(p), NEW n, n = NextNode(p)
  PROVE  \A A \in SUBSET Reads(b) : ~BadEdge(A, n) /\ {a \in A : last[a.sym] # n} = A
<1> SUFFICES ASSUME NEW A \in SUBSET Reads(b) PROVE ~BadEdge(A, n) /\ {a \in A : last[a.sym] # n} = A
  OBVIOUS
<1>1. A \subseteq Addr /\ \A t \in Sym : last[t] # n
  BY NewBlock
<1>2. ~BadEdge(A, n)
  BY <1>1, NoBadEdge DEF BlocksInv
<1>3. {a \in A : last[a.sym] # n} = A
  BY <1>1 DEF Addr
<1> QED BY <1>2, <1>3

\* A step of p leaves the other processes waiting.
LEMMA OthersWait ==
  ASSUME BlocksInv, BlocksInv', [LNext]_lvars, WaitInv, NEW p \in Proc,
         prog' = prog,
         \A e : e.dst # NextNode(p) => (e \in edges' <=> e \in edges) /\ (e \in ahead' <=> e \in ahead),
         NEW q \in Waiting, q # p, pc'[q] = pc[q], early'[q] = early[q]
  PROVE  NextNode(q)' = NextNode(q) /\ Paused(q, NextBlock(q), NextNode(q))'
<1>1. PICK b : b = NextBlock(q)
  OBVIOUS
<1>2. PICK n : n = NextNode(q)
  OBVIOUS
<1>3. /\ NextBlock(q)' = b /\ NextNode(q)' = n
      /\ \A a \in ReadFirst(b) : mem'[a.cell] = mem[a.cell] /\ last'[a.sym] = last[a.sym]
  BY <1>1, <1>2, StillWaiting
<1>4. Paused(q, b, n)
  BY <1>1, <1>2 DEF WaitInv
<1>5. n # NextNode(p)
  BY <1>2 DEF NextNode
<1>6. InEdges(edges', n) = {} /\ InEdges(ahead', n) = InEdges(ahead, n)
  BY <1>4, <1>5 DEF InEdges, Paused
<1>7. early'[q] = [a \in ReadFirst(b) |-> mem'[a.cell]]
  BY <1>3, <1>4 DEF Paused
<1>8. {Edge(last'[a.sym], n, a.sym, FALSE) : a \in ReadFirst(b)}
        = {Edge(last[a.sym], n, a.sym, FALSE) : a \in ReadFirst(b)}
  BY <1>3
<1>9. Paused(q, b, n)'
  BY <1>4, <1>6, <1>7, <1>8 DEF Paused
<1> QED BY <1>2, <1>3, <1>9

\* The block of p begins to wait: nothing is done yet.
LEMMA PrepareWaits ==
  ASSUME BlocksInv, WaitInv, NEW p \in Proc, Prepare(p)
  PROVE  UNCHANGED lvars /\ WaitInv'
<1>1. PICK b : b = NextBlock(p)
  OBVIOUS
<1>2. PICK n : n = NextNode(p)
  OBVIOUS
<1>3. /\ FwdReady(p) /\ p \notin Waiting /\ Writes(b) /\ ~FwdClear(b)
      /\ pc[p] < Len(prog[p]) /\ p \in live \ inCall /\ ~rev
      /\ ahead' = AddReads(ahead, ReadFirst(b), n)
      /\ early' = [q \in Waiting \cup {p} |->
                     IF q = p THEN [a \in ReadFirst(b) |-> mem[a.cell]] ELSE early[q]]
      /\ panicked' = BadEdge(ReadFirst(b), n)
      /\ UNCHANGED <<prog, pc, live, inCall, edges, last, lock, mem, rev, outcomes, log>>
  BY <1>1, <1>2 DEF Prepare, FwdReady
<1>4. n[1] = p /\ ReadFirst(b) \in SUBSET Reads(b)
  BY <1>1, <1>2, <1>3, NewBlock
<1>5. /\ ~BadEdge(ReadFirst(b), n)
      /\ ahead' = ahead \cup {Edge(last[a.sym], n, a.sym, FALSE) : a \in ReadFirst(b)}
  <2>1. /\ ~BadEdge(ReadFirst(b), n)
        /\ {a \in ReadFirst(b) : last[a.sym] # n} = ReadFirst(b)
    BY <1>1, <1>2, <1>3, <1>4, NewEdges
  <2> QED BY <1>3, <2>1 DEF AddReads
<1>6. UNCHANGED lvars
  <2>1. panicked' = FALSE /\ panicked = FALSE
    BY <1>3, <1>5 DEF BlocksInv, TypeOK
  <2> QED BY <1>3, <2>1 DEF lvars, vars
<1>7. InEdges(edges, n) = {}
  BY <1>1, <1>2, <1>3, AdmittedForward DEF BlocksInv
<1>8. InEdges(ahead, n) = {}
  <2>1. SUFFICES ASSUME NEW e \in ahead, e.dst = n PROVE FALSE
    BY DEF InEdges
  <2>2. PICK q \in Waiting : e.dst = NextNode(q)
    BY DEF WaitInv
  <2> QED BY <1>3, <1>4, <2>1, <2>2 DEF NextNode
<1>9. InEdges(ahead', n) = {Edge(last[a.sym], n, a.sym, FALSE) : a \in ReadFirst(b)}
  BY <1>5, <1>8 DEF InEdges, Edge
<1>10. /\ Waiting' = Waiting \cup {p}
       /\ early'[p] = [a \in ReadFirst(b) |-> mem[a.cell]]
       /\ \A q \in Waiting : early'[q] = early[q]
  BY <1>3 DEF Waiting
<1>11. NextBlock(p)' = b /\ NextNode(p)' = n
  BY <1>1, <1>2, <1>3 DEF NextBlock, NextNode
<1>12. BlocksInv' /\ [LNext]_lvars
  BY <1>6, BlocksStep
<1>13. ASSUME NEW q \in Waiting
       PROVE  NextNode(q)' = NextNode(q) /\ Paused(q, NextBlock(q), NextNode(q))'
  <2>1. \A e : e.dst # NextNode(p) => (e \in edges' <=> e \in edges) /\ (e \in ahead' <=> e \in ahead)
    BY <1>2, <1>3, <1>5 DEF Edge
  <2> QED BY <1>3, <1>10, <1>12, <2>1, OthersWait
<1>14. \A e \in ahead' : \E q \in Waiting' : e.dst = NextNode(q)'
  <2> SUFFICES ASSUME NEW e \in ahead' PROVE \E q \in Waiting' : e.dst = NextNode(q)'
    OBVIOUS
  <2>1. CASE e.dst = n
    BY <1>10, <1>11, <2>1
  <2>2. CASE e \in ahead
    <3>1. PICK q \in Waiting : e.dst = NextNode(q)
      BY <2>2 DEF WaitInv
    <3> QED BY <1>10, <1>13, <3>1
  <2>3. e \in ahead \/ e.dst = n
    BY <1>5 DEF Edge
  <2> QED BY <2>1, <2>2, <2>3
<1>15. Paused(p, b, n)'
  BY <1>3, <1>7, <1>9, <1>10 DEF Paused
<1>16. Waiting' \subseteq live' \ inCall' /\ ~rev'
  BY <1>3, <1>10 DEF WaitInv
<1>17. \A q \in Waiting' : Paused(q, NextBlock(q), NextNode(q))'
  BY <1>10, <1>11, <1>13, <1>15
<1> QED BY <1>6, <1>14, <1>16, <1>17 DEF WaitInv

\* The wait of p is over: its block does what it does as one step.
LEMMA ResumeWrites ==
  ASSUME BlocksInv, WaitInv, NEW p \in Proc, Resume(p)
  PROVE  FwdWrite(p) /\ Note(p)
<1>1. PICK b : b = NextBlock(p)
  OBVIOUS
<1>2. PICK n : n = NextNode(p)
  OBVIOUS
<1>3. PICK s : s = b.dst.sym
  OBVIOUS
<1>4. PICK late : late = Reads(b) \ ReadFirst(b)
  OBVIOUS
<1>5. PICK mine : mine = InEdges(ahead, n)
  OBVIOUS
<1>6. PICK E : E = AddEdge(AddReads(edges \cup mine, late, n), last[s], n, s, TRUE)
  OBVIOUS
<1>7. /\ ~panicked /\ ~rev /\ p \in Waiting /\ FwdClear(b)
      /\ mem' = [mem EXCEPT ![b.dst.cell] = LateVal(b, early[p])]
      /\ edges' = E
      /\ last' = [last EXCEPT ![s] = n]
      /\ lock' = WUnlock(WLock(lock, last[s]), PrevNode(E, n, s))
      /\ panicked' = (BadEdge(late, n) \/ WUnlockPanics(WLock(lock, last[s]), PrevNode(E, n, s)))
      /\ Advance(p) /\ Note(p)
      /\ UNCHANGED <<prog, inCall, rev, outcomes>>
  BY <1>1, <1>2, <1>3, <1>4, <1>5, <1>6 DEF Resume
<1>8. Paused(p, b, n) /\ p \in live \ inCall
  BY <1>1, <1>2, <1>7 DEF WaitInv
<1>9. pc[p] < Len(prog[p]) /\ Writes(b) /\ InEdges(edges, n) = {}
  BY <1>8 DEF Paused
<1>10. ReadFirst(b) \subseteq b.src /\ b.src \subseteq Reads(b)
  BY <1>1, <1>2, <1>9, NewBlock
<1>11. /\ ~BadEdge(late, n) /\ {a \in late : last[a.sym] # n} = late
       /\ ~BadEdge(Reads(b), n) /\ {a \in Reads(b) : last[a.sym] # n} = Reads(b)
  <2>1. late \in SUBSET Reads(b) /\ Reads(b) \in SUBSET Reads(b)
    BY <1>4
  <2>2. \A A \in SUBSET Reads(b) : ~BadEdge(A, n) /\ {a \in A : last[a.sym] # n} = A
    BY <1>1, <1>2, <1>9, NewEdges
  <2> QED BY <2>1, <2>2
<1>12. AddReads(edges \cup mine, late, n) = AddReads(edges, Reads(b), n)
  <2>1. mine = {Edge(last[a.sym], n, a.sym, FALSE) : a \in ReadFirst(b)}
    BY <1>5, <1>8 DEF Paused
  <2>2. Reads(b) = ReadFirst(b) \cup late
    BY <1>4, <1>10
  <2>3. {Edge(last[a.sym], n, a.sym, FALSE) : a \in Reads(b)}
          = mine \cup {Edge(last[a.sym], n, a.sym, FALSE) : a \in late}
    BY <2>1, <2>2
  <2>4. AddReads(edges \cup mine, late, n)
          = (edges \cup mine) \cup {Edge(last[a.sym], n, a.sym, FALSE) : a \in late}
    BY <1>11 DEF AddReads
  <2>5. AddReads(edges, Reads(b), n) = edges \cup {Edge(last[a.sym], n, a.sym, FALSE) : a \in Reads(b)}
    BY <1>11 DEF AddReads
  <2> QED BY <2>3, <2>4, <2>5
<1>13. NewVal(b) = LateVal(b, early[p])
  <2>1. early[p] = [a \in ReadFirst(b) |-> mem[a.cell]]
    BY <1>8 DEF Paused
  <2>2. [a \in b.src |-> IF a \in DOMAIN early[p] THEN early[p][a] ELSE mem[a.cell]]
          = [a \in b.src |-> mem[a.cell]]
    BY <2>1
  <2> QED BY <2>2 DEF NewVal, LateVal, Arg
<1>14. FwdReady(p)
  <2>1. RunnableFwd(edges, pc, n)
    BY <1>9 DEF RunnableFwd
  <2> QED BY <1>2, <1>7, <1>8, <1>9, <2>1 DEF FwdReady
<1>15. FwdWrite(p)
  BY <1>1, <1>2, <1>3, <1>6, <1>7, <1>9, <1>11, <1>12, <1>13, <1>14 DEF FwdWrite
<1> QED BY <1>7, <1>15

\* The other processes go on waiting.
LEMMA ResumeLeaves ==
  ASSUME BlocksInv, WaitInv, NEW p \in Proc, Resume(p)
  PROVE  [LNext]_lvars /\ WaitInv'
<1>1. FwdWrite(p) /\ Note(p)
  BY ResumeWrites
<1>2. LNext /\ BlocksInv'
  <2>1. LNext
    BY <1>1 DEF LNext, LStep
  <2> QED BY <2>1, BlocksStep
<1>3. /\ p \in Waiting /\ ~rev
      /\ ahead' = ahead \ InEdges(ahead, NextNode(p))
      /\ early' = [q \in Waiting \ {p} |-> early[q]]
      /\ Advance(p) /\ UNCHANGED <<prog, inCall, rev>>
  BY DEF Resume
<1>4. /\ Waiting' = Waiting \ {p}
      /\ \A q \in Waiting' : early'[q] = early[q]
  BY <1>3 DEF Waiting
<1>5. /\ \A q \in Proc \ {p} : pc'[q] = pc[q]
      /\ live \ {p} \subseteq live' /\ inCall' = inCall
  BY <1>3 DEF Advance, BlocksInv, TypeOK
<1>6. \A e : e.dst # NextNode(p) => (e \in edges' <=> e \in edges) /\ (e \in ahead' <=> e \in ahead)
  <2>1. ASSUME NEW e, e.dst # NextNode(p) PROVE e \in edges' <=> e \in edges
    <3>1. edges \subseteq edges' /\ \A f \in edges' \ edges : f.dst = NextNode(p)
      BY <1>1, WriteFacts DEF BlocksInv
    <3> QED BY <2>1, <3>1
  <2>2. ASSUME NEW e, e.dst # NextNode(p) PROVE e \in ahead' <=> e \in ahead
    BY <1>3, <2>2 DEF InEdges
  <2> QED BY <2>1, <2>2
<1>7. ASSUME NEW q \in Waiting'
      PROVE  NextNode(q)' = NextNode(q) /\ Paused(q, NextBlock(q), NextNode(q))'
  <2>1. q \in Waiting /\ q # p /\ q \in Proc
    BY <1>4 DEF WaitInv, BlocksInv, TypeOK
  <2> QED BY <1>2, <1>3, <1>4, <1>5, <1>6, <2>1, OthersWait
<1>8. ASSUME NEW e \in ahead' PROVE \E q \in Waiting' : e.dst = NextNode(q)'
  <2>1. e \in ahead /\ e.dst # NextNode(p)
    BY <1>3, <1>8 DEF InEdges
  <2>2. PICK q \in Waiting : e.dst = NextNode(q)
    BY <2>1 DEF WaitInv
  <2>3. q \in Waiting'
    BY <1>4, <2>1, <2>2
  <2> QED BY <1>7, <2>2, <2>3
<1>9. Waiting' \subseteq live' \ inCall' /\ ~rev'
  BY <1>3, <1>4, <1>5 DEF WaitInv
<1> QED BY <1>2, <1>7, <1>8, <1>9 DEF WaitInv

\* A process that does not wait takes a step: the others go on waiting.
LEMMA StepLeaves ==
  ASSUME BlocksInv, WaitInv, NEW p \in Proc, p \notin Waiting, LStep(p), UNCHANGED <<early, ahead>>
  PROVE  [LNext]_lvars /\ WaitInv'
<1>1. LNext /\ BlocksInv' /\ Step(p)
  <2>1. LNext
    BY DEF LNext
  <2>2. Step(p)
    BY DEF LStep, Step
  <2> QED BY <2>1, <2>2, BlocksStep
<1>2. Waiting' = Waiting /\ \A q \in Waiting : early'[q] = early[q]
  BY DEF Waiting
<1>3. CASE Waiting = {}
  <2>1. ahead' = {}
    BY <1>3 DEF WaitInv
  <2> QED BY <1>1, <1>2, <1>3, <2>1 DEF WaitInv
<1>4. CASE Waiting # {}
  <2>1. ~rev
    BY <1>4 DEF WaitInv
  <2>2. \/ FwdWrite(p) \/ FwdLock(p) \/ FwdUnlock(p) \/ FwdRead(p) \/ FwdFork(p) \/ FwdJoin(p)
    BY <1>1, <2>1 DEF Step, BwdWrite, BwdLock, BwdUnlock, BwdRead, BwdFork, BwdJoin, BwdReady
  <2>3. /\ prog' = prog /\ rev' = rev
        /\ \A q \in Proc \ {p} : pc'[q] = pc[q]
        /\ live \ {p} \subseteq live' /\ inCall' \subseteq inCall \cup {p}
    BY <2>2 DEF FwdWrite, FwdLock, FwdUnlock, FwdRead, FwdFork, FwdJoin, Advance, BlocksInv, TypeOK
  <2>4. \A e : e.dst # NextNode(p) => (e \in edges' <=> e \in edges)
    <3>1. CASE FwdFork(p)
      BY <3>1 DEF FwdFork
    <3>2. CASE FwdWrite(p) \/ FwdLock(p) \/ FwdUnlock(p) \/ FwdRead(p) \/ FwdJoin(p)
      <4>1. edges' = BlockEdges(p)
        BY <3>2, ForwardSteps DEF BlocksInv
      <4> QED BY <4>1 DEF BlockEdges, AddEdge, AddReads, Edge
    <3> QED BY <2>2, <3>1, <3>2
  <2>5. ASSUME NEW q \in Waiting'
        PROVE  NextNode(q)' = NextNode(q) /\ Paused(q, NextBlock(q), NextNode(q))'
    <3>1. q \in Waiting /\ q # p /\ q \in Proc
      BY <1>2 DEF WaitInv, BlocksInv, TypeOK
    <3> QED BY <1>1, <1>2, <2>3, <2>4, <3>1, OthersWait
  <2>6. ASSUME NEW e \in ahead' PROVE \E q \in Waiting' : e.dst = NextNode(q)'
    <3>1. PICK q \in Waiting : e.dst = NextNode(q)
      BY <2>6 DEF WaitInv
    <3> QED BY <1>2, <2>5, <3>1
  <2>7. Waiting' \subseteq live' \ inCall' /\ ~rev'
    BY <1>2, <2>1, <2>3 DEF WaitInv
  <2> QED BY <1>1, <2>5, <2>6, <2>7 DEF WaitInv
<1> QED BY <1>3, <1>4

LEMMA WaitStep == BlocksInv /\ WaitInv /\ [WNext]_wvars => [LNext]_lvars /\ WaitInv'
<1> SUFFICES ASSUME BlocksInv, WaitInv, [WNext]_wvars PROVE [LNext]_lvars /\ WaitInv'
  OBVIOUS
<1>1. ASSUME NEW p \in Proc, Prepare(p) PROVE [LNext]_lvars /\ WaitInv'
  BY <1>1, PrepareWaits
<1>2. ASSUME NEW p \in Proc, Resume(p) PROVE [LNext]_lvars /\ WaitInv'
  BY <1>2, ResumeLeaves
<1>3. ASSUME NEW p \in Proc, p \notin Waiting, LStep(p), UNCHANGED <<early, ahead>>
      PROVE  [LNext]_lvars /\ WaitInv'
  BY <1>3, StepLeaves
<1>4. ASSUME Stopped, early' = early, ahead' = ahead \/ ahead' = {} PROVE WaitInv'
  <2>1. live = {}
    BY <1>4, NobodyRuns DEF Stopped, BlocksInv
  <2>2. Waiting = {} /\ ahead = {}
    BY <2>1 DEF WaitInv
  <2>3. Waiting' = {} /\ ahead' = {}
    BY <1>4, <2>2 DEF Waiting
  <2> QED BY <2>3 DEF WaitInv
<1>5. CASE Turn /\ UNCHANGED <<log, early, ahead>>
  BY <1>4, <1>5 DEF Turn, LNext
<1>6. CASE DelDag /\ log' = {} /\ ahead' = {} /\ early' = early
  BY <1>4, <1>6 DEF DelDag, AtStart, LNext
<1>7. CASE UNCHANGED wvars
  <2>1. /\ lvars' = lvars /\ early' = early /\ ahead' = ahead
        /\ UNCHANGED <<prog, pc, live, inCall, edges, last, mem, rev>>
    BY <1>7 DEF wvars, lvars, vars
  <2>2. Waiting' = Waiting
    BY <2>1 DEF Waiting
  <2>3. ASSUME NEW q \in Waiting
        PROVE  NextNode(q)' = NextNode(q) /\ Paused(q, NextBlock(q), NextNode(q))'
    <3>1. PICK b, n : b = NextBlock(q) /\ n = NextNode(q)
      OBVIOUS
    <3>2. NextBlock(q)' = b /\ NextNode(q)' = n
      BY <2>1, <3>1 DEF NextBlock, NextNode
    <3>3. Paused(q, b, n)
      BY <3>1 DEF WaitInv
    <3>4. Paused(q, b, n)'
      BY <2>1, <3>3 DEF Paused
    <3> QED BY <3>1, <3>2, <3>4
  <2>4. Waiting' \subseteq live' \ inCall' /\ (Waiting' # {} => ~rev')
    BY <2>1, <2>2 DEF WaitInv
  <2>5. \A e \in ahead' : \E q \in Waiting' : e.dst = NextNode(q)'
    BY <2>1, <2>2, <2>3 DEF WaitInv
  <2>6. WaitInv'
    BY <2>2, <2>3, <2>4, <2>5 DEF WaitInv
  <2> QED BY <2>1, <2>6
<1> QED BY <1>1, <1>2, <1>3, <1>5, <1>6, <1>7 DEF WNext, WStep

-----------------------------------------------------------------------------
(* What follows *)

LEMMA WaitsSound == WSpec => [](BlocksInv /\ WaitInv)
<1>1. WInit => BlocksInv /\ WaitInv
  <2>1. WInit => WaitInv
    BY DEF WInit, WaitInv, Waiting
  <2> QED BY <2>1, BlocksInit DEF WInit
<1> QED BY <1>1, BlocksStep, WaitStep, PTL DEF WSpec

\* A block that waits in the middle, and reads part of its variables before, does
\* what it does as one step at the end of the wait.
THEOREM WaitsImplementSteps == WSpec => WaitsAreAtomic
<1>1. WInit => LInit
  BY DEF WInit
<1> QED BY <1>1, WaitStep, WaitsSound, PTL DEF WSpec, WaitsAreAtomic, LSpec

\* What a waiting process has read is still so.
THEOREM ReadAheadStays == WSpec => []EarlyStays
<1>1. BlocksInv /\ WaitInv => EarlyStays
  <2> SUFFICES ASSUME BlocksInv, WaitInv, NEW p \in Waiting, NEW a \in DOMAIN early[p]
               PROVE  /\ mem[a.cell] = early[p][a]
                      /\ \A e \in InEdges(WholeDag, NextNode(p)) : e.sym = a.sym => e.src = last[a.sym]
    BY DEF EarlyStays
  <2>1. PICK b, n : b = NextBlock(p) /\ n = NextNode(p)
    OBVIOUS
  <2>2. Paused(p, b, n)
    BY <2>1 DEF WaitInv
  <2>3. a \in ReadFirst(b) /\ early[p][a] = mem[a.cell]
    BY <2>2 DEF Paused
  <2>4. ASSUME NEW e \in InEdges(WholeDag, n) PROVE e.src = last[e.sym]
    <3>1. e \in InEdges(ahead, n)
      BY <2>2, <2>4 DEF Paused, WholeDag, InEdges
    <3> QED BY <2>2, <3>1 DEF Paused, Edge
  <2> QED BY <2>1, <2>3, <2>4
<1> QED BY <1>1, WaitsSound, PTL

\* So the wait loops change nothing of what holds without them, under the same assumptions
\* (NameAssumption, WrittenAssumption, PairAssumption) and EarlyAssumption.
THEOREM WaitsKeepAll ==
  WSpec => /\ [](NoPanic /\ WholeRuns /\ UndoTip /\ Restored /\ LocksReturned /\ OneOutcome)
           /\ LockedReadOnly /\ KeepsVersions
BY WaitsImplementSteps, SameBehaviours, NeverPanics, RunsAreWhole, UndoesTheTip, RestoresMemory,
   LocksGivenBack, OutcomesAgree, LocksHold, ImplementsStore, PTL DEF WaitsAreAtomic

=============================================================================
