--------------------------- MODULE CallTreeProofs ---------------------------
(***************************************************************************)
(* Fork and join keep runs whole, for every call tree; hence the safety of *)
(* the annotation DAG holds of every reachable state.                      *)
(***************************************************************************)
EXTENDS CallTree, AnnotationDagProofs

-----------------------------------------------------------------------------
(* Facts about the tree *)

\* What the assumptions say of the callers of processes.
LEMMA CallerFacts ==
  ASSUME TypeOK, NEW c \in Proc \ {Root}
  PROVE  /\ Caller(c) \in Proc /\ Caller(c) # c
         /\ pc[c] \in Nat /\ Len(prog[c]) \in Nat
         /\ pc[Caller(c)] \in Nat /\ pc[Caller(c)] <= Len(prog[Caller(c)])
         /\ Len(prog[Caller(c)]) \in Nat
         /\ \A k \in 0 .. Len(prog[Caller(c)]) : Mark(prog, c, k) \in 0 .. Len(prog[c])
<1>1. Caller(c) \in Proc
  BY TreeAssumption
<1>2. Caller(c) # c
  <2>1. {c} \in SUBSET (Proc \ {Root}) /\ {c} # {}
    OBVIOUS
  <2>2. \E d \in {c} : Caller(d) \notin {c}
    BY <2>1, TreeAssumption
  <2> QED BY <2>2
<1>3. prog \in Programs /\ prog \in [Proc -> Seq(Block)]
  BY ProgramAssumption DEF TypeOK
<1>4. \A k \in 0 .. Len(prog[Caller(c)]) : Mark(prog, c, k) \in 0 .. Len(prog[c])
  BY <1>3, CallAssumption
<1> QED BY <1>1, <1>2, <1>3, <1>4 DEF TypeOK

\* A block that does not call c leaves c where it is.
LEMMA NotCalled ==
  ASSUME TypeOK, NEW c \in Proc \ {Root}, NEW k \in 1 .. Len(prog[Caller(c)]),
         prog[Caller(c)][k].kind # "call" \/ c \notin prog[Caller(c)][k].kids
  PROVE  Mark(prog, c, k) = Mark(prog, c, k - 1)
<1>1. prog \in Programs
  BY DEF TypeOK
<1>2. CallIsWhole(prog, c, k)
  BY <1>1, CallAssumption
<1> QED BY <1>2 DEF CallIsWhole

\* A block that calls c runs it from a begin to the matching end.
LEMMA CalledRuns ==
  ASSUME TypeOK, NEW c \in Proc \ {Root}, NEW k \in 1 .. Len(prog[Caller(c)]),
         prog[Caller(c)][k].kind = "call", c \in prog[Caller(c)][k].kids
  PROVE  /\ Mark(prog, c, k - 1) < Mark(prog, c, k)
         /\ \A j \in Mark(prog, c, k - 1) + 1 .. Mark(prog, c, k) :
              /\ prog[c][j].first <=> j = Mark(prog, c, k - 1) + 1
              /\ prog[c][j].last <=> j = Mark(prog, c, k)
<1>1. prog \in Programs
  BY DEF TypeOK
<1>2. CallIsWhole(prog, c, k)
  BY <1>1, CallAssumption
<1> QED BY <1>2 DEF CallIsWhole

\* A process that runs a block, other than main, is called: it is between its
\* begin and its end, and returns at the far one.
LEMMA RunningBlock ==
  ASSUME TypeOK, TreeInv, NEW p \in live \ {Root}
  PROVE  /\ Called(p) /\ Caller(p) \in inCall \cap Proc /\ Caller(p) # p
         /\ From(p) \in Nat /\ To(p) \in Nat /\ pc[p] \in Nat
         /\ From(p) < To(p) /\ To(p) <= Len(prog[p])
         /\ From(p) <= pc[p] /\ pc[p] <= To(p)
         /\ pc[p] < To(p) => /\ NextBlock(p).last <=> pc[p] + 1 = To(p)
                             /\ NextBlock(p).first <=> pc[p] = From(p)
         /\ pc[p] > From(p) => (PrevBlock(p).first <=> pc[p] - 1 = From(p))
<1>1. p \in Proc \ {Root} /\ Called(p) /\ Placed(p)
  BY DEF TypeOK, TreeInv
<1>2. Caller(p) \in inCall /\ Caller(p) \in Proc /\ Caller(p) # p
  BY <1>1, CallerFacts DEF Called
<1>3. pc[Caller(p)] < Len(prog[Caller(p)]) /\ NextBlock(Caller(p)).kind = "call"
  BY <1>2 DEF TypeOK, TreeInv
<1>4. /\ pc[p] \in Nat /\ Len(prog[p]) \in Nat
      /\ pc[Caller(p)] \in Nat /\ Len(prog[Caller(p)]) \in Nat
      /\ \A k \in 0 .. Len(prog[Caller(p)]) : Mark(prog, p, k) \in 0 .. Len(prog[p])
  BY <1>1, CallerFacts
<1> DEFINE k == pc[Caller(p)] + 1
<1>5. k \in 1 .. Len(prog[Caller(p)]) /\ k - 1 = pc[Caller(p)]
  BY <1>3, <1>4
<1>6. prog[Caller(p)][k].kind = "call" /\ p \in prog[Caller(p)][k].kids
  BY <1>1, <1>3 DEF Called, NextBlock
<1>7. From(p) = Mark(prog, p, k - 1) /\ To(p) = Mark(prog, p, k)
  BY <1>5 DEF From, To
<1>8. From(p) \in 0 .. Len(prog[p]) /\ To(p) \in 0 .. Len(prog[p])
  BY <1>4, <1>5, <1>7
<1> HIDE DEF k
<1>9. /\ From(p) < To(p)
      /\ \A j \in From(p) + 1 .. To(p) :
           /\ prog[p][j].first <=> j = From(p) + 1
           /\ prog[p][j].last <=> j = To(p)
  BY <1>1, <1>5, <1>6, <1>7, CalledRuns
<1>10. From(p) <= pc[p] /\ pc[p] <= To(p)
  BY <1>1 DEF Placed
<1>11. ASSUME pc[p] < To(p)
       PROVE  /\ NextBlock(p).last <=> pc[p] + 1 = To(p)
              /\ NextBlock(p).first <=> pc[p] = From(p)
  <2>1. pc[p] + 1 \in From(p) + 1 .. To(p)
    BY <1>4, <1>8, <1>10, <1>11
  <2> QED BY SMTT(20), <2>1, <1>4, <1>8, <1>9 DEF NextBlock
<1>12. ASSUME pc[p] > From(p) PROVE PrevBlock(p).first <=> pc[p] - 1 = From(p)
  <2>1. pc[p] \in From(p) + 1 .. To(p)
    BY <1>4, <1>8, <1>10, <1>12
  <2>2. pc[p] = From(p) + 1 <=> pc[p] - 1 = From(p)
    BY <1>4, <1>8
  <2> QED BY <2>1, <2>2, <1>9 DEF PrevBlock
<1> QED BY <1>1, <1>2, <1>4, <1>8, <1>9, <1>10, <1>11, <1>12

\* The same of main.
LEMMA MainBlock ==
  ASSUME TypeOK
  PROVE  /\ Root \in Proc /\ pc[Root] \in Nat /\ Len(prog[Root]) \in Nat
         /\ Len(prog[Root]) > 0 /\ pc[Root] <= Len(prog[Root])
         /\ pc[Root] < Len(prog[Root]) =>
              /\ NextBlock(Root).last <=> pc[Root] + 1 = Len(prog[Root])
              /\ NextBlock(Root).first <=> pc[Root] = 0
         /\ pc[Root] > 0 => (PrevBlock(Root).first <=> pc[Root] - 1 = 0)
<1>1. Root \in Proc /\ prog \in Programs /\ Len(prog[Root]) \in Nat
  BY ProcAssumption, ProgramAssumption DEF TypeOK
<1>2. pc[Root] \in Nat /\ pc[Root] <= Len(prog[Root])
  BY <1>1 DEF TypeOK
<1>3. MainIsWhole(prog)
  BY <1>1, CallAssumption
<1>4. ASSUME pc[Root] < Len(prog[Root])
      PROVE  /\ NextBlock(Root).last <=> pc[Root] + 1 = Len(prog[Root])
             /\ NextBlock(Root).first <=> pc[Root] = 0
  <2>1. pc[Root] + 1 \in 1 .. Len(prog[Root]) /\ (pc[Root] + 1 = 1 <=> pc[Root] = 0)
    BY <1>1, <1>2, <1>4
  <2> QED BY <2>1, <1>3 DEF MainIsWhole, NextBlock
<1>5. ASSUME pc[Root] > 0 PROVE PrevBlock(Root).first <=> pc[Root] - 1 = 0
  <2>1. pc[Root] \in 1 .. Len(prog[Root]) /\ (pc[Root] = 1 <=> pc[Root] - 1 = 0)
    BY <1>1, <1>2, <1>5
  <2> QED BY <2>1, <1>3 DEF MainIsWhole, PrevBlock
<1> QED BY <1>1, <1>2, <1>3, <1>4, <1>5 DEF MainIsWhole

-----------------------------------------------------------------------------
(* Each kind of step keeps the tree in order *)

\* A block forward, or the return of a call forward.
LEMMA TreeForward ==
  ASSUME TypeOK, TreeInv, NEW p \in live, ~rev, pc[p] < Len(prog[p]), Advance(p),
         UNCHANGED <<prog, rev>>, inCall' = inCall \ {p},
         p \in inCall => NextBlock(p).kids \cap live = {},
         p \notin inCall => NextBlock(p).kind # "call"
  PROVE  TreeInv'
<1>1. /\ p \in Proc /\ pc[p] \in Nat /\ pc'[p] = pc[p] + 1
      /\ \A q \in Proc : q # p => pc'[q] = pc[q]
      /\ live' \subseteq live /\ live \ {p} \subseteq live'
      /\ p \in live' <=> ~NextBlock(p).last
  BY DEF TypeOK, Advance
<1>2. \A q \in Proc : q # p => NextBlock(q)' = NextBlock(q)
  BY <1>1 DEF NextBlock
<1>3. ASSUME NEW c \in Proc \ {Root}, Caller(c) # p
      PROVE  (Called(c)' <=> Called(c)) /\ From(c)' = From(c) /\ To(c)' = To(c)
  <2>1. Caller(c) \in Proc
    BY CallerFacts
  <2> QED BY <1>1, <1>2, <1>3, <2>1 DEF Called, From, To
<1>4. ASSUME NEW c \in Proc \ {Root}, Caller(c) = p
      PROVE  c # p /\ ~Called(c)' /\ pc[c] = To(c) /\ From(c)' = To(c)
  <2>1. c # p /\ From(c)' = To(c) /\ ~Called(c)'
    BY <1>1, <1>4, CallerFacts DEF From, To, Called
  <2>2. pc[p] + 1 \in 1 .. Len(prog[p]) /\ (pc[p] + 1) - 1 = pc[p]
    BY <1>1, <1>4, CallerFacts
  <2>3. CASE Called(c)
    <3>1. c \notin live
      BY <1>4, <2>3 DEF Called
    <3> QED BY <2>1, <2>3, <3>1 DEF TreeInv, Placed
  <2>4. CASE ~Called(c)
    <3>1. NextBlock(p).kind # "call" \/ c \notin NextBlock(p).kids
      BY <1>4, <2>4 DEF Called
    <3>2. To(c) = From(c)
      BY <1>4, <2>2, <3>1, NotCalled DEF NextBlock, From, To
    <3> QED BY <2>1, <2>4, <3>2 DEF TreeInv, Placed
  <2> QED BY <2>1, <2>3, <2>4
<1>5. ASSUME NEW q \in inCall' PROVE q \in live' /\ NextBlock(q)'.kind = "call"
  <2>1. q # p /\ q \in inCall /\ q \in Proc
    BY <1>5 DEF TypeOK
  <2> QED BY <1>1, <1>2, <2>1 DEF TreeInv
<1>6. ASSUME NEW c \in live' \ {Root} PROVE Called(c)'
  <2>1. c \in Proc \ {Root} /\ c \in live /\ Called(c)
    BY <1>1 DEF TypeOK, TreeInv
  <2>2. Caller(c) # p
    BY <2>1 DEF Called
  <2> QED BY <1>3, <2>1, <2>2
<1>7. ASSUME NEW c \in Proc \ {Root} PROVE Placed(c)'
  <2>1. CASE Caller(c) = p
    BY <1>1, <1>4, <2>1 DEF Placed
  <2>2. CASE c # p /\ Caller(c) # p
    <3>1. (c \in live' <=> c \in live) /\ (c \in inCall' <=> c \in inCall) /\ pc'[c] = pc[c]
      BY <1>1, <2>2
    <3> QED BY <1>3, <2>2, <3>1 DEF TreeInv, Placed
  <2>3. CASE c = p
    <3>1. /\ Called(p) /\ Caller(p) # p
          /\ From(p) \in Nat /\ To(p) \in Nat /\ From(p) <= pc[p]
          /\ pc[p] < To(p) => (NextBlock(p).last <=> pc[p] + 1 = To(p))
      BY <2>3, RunningBlock
    <3>2. pc[p] < To(p)
      BY <2>3, <3>1 DEF TreeInv, Placed
    <3>3. Called(p)' /\ From(p)' = From(p) /\ To(p)' = To(p)
      BY <1>3, <2>3, <3>1
    <3>4. /\ From(p) <= pc'[p] /\ pc'[p] <= To(p)
          /\ p \in live' => pc'[p] < To(p)
          /\ p \notin live' => pc'[p] = To(p)
      BY <1>1, <3>1, <3>2
    <3> QED BY <2>3, <3>3, <3>4 DEF Placed
  <2> QED BY <2>1, <2>2, <2>3
<1>8. MainPlaced'
  <2>1. CASE p = Root
    <3>1. /\ p \in live' => pc'[p] < Len(prog[p])
          /\ p \notin live' => pc'[p] = Len(prog[p])
      BY <1>1, <2>1, MainBlock
    <3> QED BY <2>1, <3>1 DEF MainPlaced
  <2>2. CASE p # Root
    BY <1>1, <2>2, ProcAssumption DEF TreeInv, MainPlaced
  <2> QED BY <2>1, <2>2
<1> QED BY <1>5, <1>6, <1>7, <1>8 DEF TreeInv

\* A block backward.
LEMMA TreeBackward ==
  ASSUME TypeOK, TreeInv, NEW p \in live, rev, pc[p] > 0, Retreat(p),
         UNCHANGED <<prog, rev, inCall>>, p \notin inCall, PrevBlock(p).kind # "call"
  PROVE  TreeInv'
<1>1. /\ p \in Proc /\ pc[p] \in Nat /\ pc'[p] = pc[p] - 1
      /\ \A q \in Proc : q # p => pc'[q] = pc[q]
      /\ live' \subseteq live /\ live \ {p} \subseteq live'
      /\ p \in live' <=> ~PrevBlock(p).first
  BY DEF TypeOK, Retreat
<1>2. \A q \in Proc : q # p => NextBlock(q)' = NextBlock(q)
  BY <1>1 DEF NextBlock
<1>3. ASSUME NEW c \in Proc \ {Root}, Caller(c) # p
      PROVE  (Called(c)' <=> Called(c)) /\ From(c)' = From(c) /\ To(c)' = To(c)
  <2>1. Caller(c) \in Proc
    BY CallerFacts
  <2> QED BY <1>1, <1>2, <1>3, <2>1 DEF Called, From, To
<1>4. ASSUME NEW c \in Proc \ {Root}, Caller(c) = p
      PROVE  c # p /\ ~Called(c)' /\ pc[c] = From(c)'
  <2>1. c # p /\ ~Called(c)' /\ ~Called(c)
    BY <1>4, CallerFacts DEF Called
  <2>2. pc[p] \in 1 .. Len(prog[p])
    BY <1>1, <1>4, CallerFacts
  <2>3. From(c) = Mark(prog, c, pc[p]) /\ From(c)' = Mark(prog, c, pc[p] - 1)
    BY <1>1, <1>4 DEF From
  <2>4. From(c)' = From(c)
    BY <1>4, <2>2, <2>3, NotCalled DEF PrevBlock
  <2> QED BY <2>1, <2>4 DEF TreeInv, Placed
<1>5. ASSUME NEW q \in inCall' PROVE q \in live' /\ NextBlock(q)'.kind = "call"
  <2>1. q # p /\ q \in inCall /\ q \in Proc
    BY <1>5 DEF TypeOK
  <2> QED BY <1>1, <1>2, <2>1 DEF TreeInv
<1>6. ASSUME NEW c \in live' \ {Root} PROVE Called(c)'
  <2>1. c \in Proc \ {Root} /\ c \in live /\ Called(c)
    BY <1>1 DEF TypeOK, TreeInv
  <2>2. Caller(c) # p
    BY <2>1 DEF Called
  <2> QED BY <1>3, <2>1, <2>2
<1>7. ASSUME NEW c \in Proc \ {Root} PROVE Placed(c)'
  <2>1. CASE Caller(c) = p
    BY <1>1, <1>4, <2>1 DEF Placed
  <2>2. CASE c # p /\ Caller(c) # p
    <3>1. (c \in live' <=> c \in live) /\ (c \in inCall' <=> c \in inCall) /\ pc'[c] = pc[c]
      BY <1>1, <2>2
    <3> QED BY <1>3, <2>2, <3>1 DEF TreeInv, Placed
  <2>3. CASE c = p
    <3>1. /\ Called(p) /\ Caller(p) # p
          /\ From(p) \in Nat /\ To(p) \in Nat /\ pc[p] <= To(p)
          /\ pc[p] > From(p) => (PrevBlock(p).first <=> pc[p] - 1 = From(p))
      BY <2>3, RunningBlock
    <3>2. pc[p] > From(p)
      BY <2>3, <3>1 DEF TreeInv, Placed
    <3>3. Called(p)' /\ From(p)' = From(p) /\ To(p)' = To(p)
      BY <1>3, <2>3, <3>1
    <3>4. /\ From(p) <= pc'[p] /\ pc'[p] <= To(p)
          /\ p \in live' => pc'[p] > From(p)
          /\ p \notin live' => pc'[p] = From(p)
      BY <1>1, <3>1, <3>2
    <3> QED BY <2>3, <3>3, <3>4 DEF Placed
  <2> QED BY <2>1, <2>2, <2>3
<1>8. MainPlaced'
  <2>1. CASE p = Root
    <3>1. /\ p \in live' => pc'[p] > 0
          /\ p \notin live' => pc'[p] = 0
      BY <1>1, <2>1, MainBlock
    <3> QED BY <2>1, <3>1 DEF MainPlaced
  <2>2. CASE p # Root
    BY <1>1, <2>2, ProcAssumption DEF TreeInv, MainPlaced
  <2> QED BY <2>1, <2>2
<1> QED BY <1>5, <1>6, <1>7, <1>8 DEF TreeInv

\* The start of a call: forward the counter stays, backward it goes down.
LEMMA TreeFork ==
  ASSUME TypeOK, TypeOK', TreeInv, NEW p \in live \ inCall, NEW K, UNCHANGED <<prog, rev>>,
         live' = live \cup K, inCall' = inCall \cup {p},
         NextBlock(p)'.kind = "call", NextBlock(p)'.kids = K,
         \/ ~rev /\ pc' = pc
         \/ rev /\ pc[p] > 0 /\ pc' = [pc EXCEPT ![p] = @ - 1]
  PROVE  TreeInv'
<1>1. p \in Proc /\ pc[p] \in Nat /\ prog \in Programs /\ pc'[p] < Len(prog[p])
  BY DEF TypeOK
<1>2. \A q \in Proc : q # p => pc'[q] = pc[q]
  BY DEF TypeOK
<1>3. \A q \in Proc : q # p => NextBlock(q)' = NextBlock(q)
  BY <1>2 DEF NextBlock
<1>4. \A c \in K : c \in Proc \ {Root} /\ Caller(c) = p
  <2>1. prog[p] \in Seq(Block) /\ pc'[p] \in Nat /\ Len(prog[p]) \in Nat
    BY <1>1, ProgramAssumption DEF TypeOK
  <2>2. pc'[p] + 1 \in DOMAIN prog[p]
    BY <1>1, <2>1
  <2>3. prog[p][pc'[p] + 1] \in Block
    BY <2>1, <2>2
  <2> QED BY <1>1, <2>2, <2>3, CallAssumption DEF NextBlock, Block
<1>5. ASSUME NEW c \in Proc \ {Root}, Caller(c) # p
      PROVE  /\ (Called(c)' <=> Called(c)) /\ From(c)' = From(c) /\ To(c)' = To(c)
             /\ c \notin K
  <2>1. Caller(c) \in Proc
    BY CallerFacts
  <2> QED BY <1>2, <1>3, <1>4, <1>5, <2>1 DEF Called, From, To
<1>6. ASSUME NEW c \in Proc \ {Root}, Caller(c) = p
      PROVE  /\ c # p /\ c \notin live /\ c \notin inCall /\ pc'[c] = pc[c]
             /\ Called(c)' <=> c \in K
             /\ c \in K => /\ From(c)' < To(c)'
                           /\ pc[c] = IF rev THEN To(c)' ELSE From(c)'
             /\ c \notin K => pc[c] = From(c)'
             /\ From(c)' \in Nat /\ To(c)' \in Nat
  <2>1. c # p /\ ~Called(c) /\ pc[c] = From(c)
    BY <1>6, CallerFacts DEF Called, TreeInv, Placed
  <2>2. c \notin live /\ c \notin inCall
    BY <1>6, <2>1 DEF TreeInv
  <2>3. Called(c)' <=> c \in K
    BY <1>6 DEF Called
  <2> DEFINE k == pc'[p] + 1
  <2>4. /\ k \in 1 .. Len(prog[Caller(c)]) /\ k - 1 = pc'[p] /\ k \in 0 .. Len(prog[Caller(c)])
        /\ pc'[p] \in 0 .. Len(prog[Caller(c)])
    <3>1. pc'[p] \in Nat
      BY <1>1 DEF TypeOK
    <3> QED BY <1>1, <1>6, <3>1, CallerFacts
  <2>5. From(c)' = Mark(prog, c, k - 1) /\ To(c)' = Mark(prog, c, k)
    BY <1>6, <2>4 DEF From, To
  <2>6. From(c) = IF rev THEN To(c)' ELSE From(c)'
    <3>1. From(c) = Mark(prog, c, pc[p])
      BY <1>6 DEF From
    <3>2. k = (IF rev THEN pc[p] ELSE pc[p] + 1) /\ (~rev => k - 1 = pc[p])
      BY <1>1 DEF TypeOK
    <3> HIDE DEF k
    <3> QED BY <2>5, <3>1, <3>2
  <2>7. NextBlock(p)' = prog[Caller(c)][k]
    BY <1>6 DEF NextBlock
  <2>8. From(c)' \in Nat /\ To(c)' \in Nat
    BY <2>4, <2>5, CallerFacts
  <2> HIDE DEF k
  <2>9. c \in K => From(c)' < To(c)'
    BY <2>4, <2>5, <2>7, CalledRuns
  <2>10. c \notin K => To(c)' = From(c)'
    BY <2>4, <2>5, <2>7, NotCalled
  <2> QED BY <1>2, <2>1, <2>2, <2>3, <2>6, <2>8, <2>9, <2>10
<1>7. ASSUME NEW q \in inCall' PROVE q \in live' /\ NextBlock(q)'.kind = "call"
  <2>1. CASE q = p
    BY <2>1
  <2>2. CASE q # p
    <3>1. q \in inCall /\ q \in Proc
      BY <1>7, <2>2 DEF TypeOK
    <3> QED BY <1>3, <2>2, <3>1 DEF TreeInv
  <2> QED BY <2>1, <2>2
<1>8. ASSUME NEW c \in live' \ {Root} PROVE Called(c)'
  <2>1. CASE c \in K
    BY <1>4, <1>6, <2>1
  <2>2. CASE c \notin K
    <3>1. c \in Proc \ {Root} /\ c \in live /\ Called(c)
      BY <1>8, <2>2 DEF TypeOK, TreeInv
    <3>2. Caller(c) # p
      BY <3>1 DEF Called
    <3> QED BY <1>5, <3>1, <3>2
  <2> QED BY <2>1, <2>2
<1>9. ASSUME NEW c \in Proc \ {Root} PROVE Placed(c)'
  <2>1. CASE Caller(c) = p
    <3>1. c \in live' <=> c \in K
      BY <1>6, <2>1
    <3>2. c \notin inCall'
      BY <1>6, <2>1
    <3> QED BY <1>6, <2>1, <3>1, <3>2 DEF Placed
  <2>2. CASE c # p /\ Caller(c) # p
    <3>1. (c \in live' <=> c \in live) /\ (c \in inCall' <=> c \in inCall) /\ pc'[c] = pc[c]
      BY <1>2, <1>5, <2>2
    <3> QED BY <1>5, <2>2, <3>1 DEF TreeInv, Placed
  <2>3. CASE c = p
    <3>1. /\ Called(p) /\ Caller(p) # p
          /\ From(p) \in Nat /\ To(p) \in Nat
          /\ From(p) <= pc[p] /\ pc[p] <= To(p) /\ From(p) < To(p)
      BY <2>3, RunningBlock
    <3>2. IF rev THEN pc[p] > From(p) ELSE pc[p] < To(p)
      BY <2>3, <3>1 DEF TreeInv, Placed
    <3>3. Called(p)' /\ From(p)' = From(p) /\ To(p)' = To(p)
      BY <1>5, <2>3, <3>1
    <3>4. pc'[p] = IF rev THEN pc[p] - 1 ELSE pc[p]
      BY <1>1 DEF TypeOK
    <3>5. From(p) <= pc'[p] /\ pc'[p] < To(p) /\ pc'[p] <= To(p)
      BY <1>1, <3>1, <3>2, <3>4
    <3> QED BY <2>3, <3>3, <3>5 DEF Placed
  <2> QED BY <2>1, <2>2, <2>3
<1>10. MainPlaced'
  <2>1. Root \in live' <=> Root \in live
    BY <1>4
  <2>2. CASE p = Root
    BY <1>1, <2>2 DEF MainPlaced
  <2>3. CASE p # Root
    BY <1>2, <2>1, <2>3, ProcAssumption DEF TreeInv, MainPlaced
  <2> QED BY <2>2, <2>3
<1> QED BY <1>7, <1>8, <1>9, <1>10 DEF TreeInv

\* The return of a call backward.
LEMMA TreeReturn ==
  ASSUME TypeOK, TreeInv, NEW p \in inCall, BwdJoin(p)
  PROVE  TreeInv'
<1>1. /\ p \in Proc /\ p \in live /\ pc[p] \in Nat /\ pc[p] < Len(prog[p]) /\ pc' = pc
      /\ rev /\ UNCHANGED <<prog, rev>> /\ inCall' = inCall \ {p}
      /\ live' \subseteq live /\ live \ {p} \subseteq live'
      /\ p \in live' <=> ~NextBlock(p).first
  BY DEF TypeOK, TreeInv, BwdJoin
<1>2. \A q : NextBlock(q)' = NextBlock(q)
  BY <1>1 DEF NextBlock
<1>3. ASSUME NEW c \in Proc \ {Root}
      PROVE  /\ Caller(c) # p => (Called(c)' <=> Called(c))
             /\ From(c)' = From(c) /\ To(c)' = To(c)
  BY <1>1, <1>2 DEF Called, From, To
<1>4. ASSUME NEW c \in Proc \ {Root}, Caller(c) = p
      PROVE  c # p /\ ~Called(c)' /\ pc[c] = From(c)
  <2>1. c # p /\ ~Called(c)'
    BY <1>1, <1>4, CallerFacts DEF Called
  <2>2. Called(c) => c \notin live
    BY <1>4 DEF BwdJoin, Called
  <2> QED BY <1>1, <2>1, <2>2 DEF TreeInv, Placed
<1>5. ASSUME NEW q \in inCall' PROVE q \in live' /\ NextBlock(q)'.kind = "call"
  BY <1>1, <1>2, <1>5 DEF TreeInv
<1>6. ASSUME NEW c \in live' \ {Root} PROVE Called(c)'
  <2>1. c \in Proc \ {Root} /\ c \in live /\ Called(c)
    BY <1>1 DEF TypeOK, TreeInv
  <2>2. Caller(c) # p
    BY <2>1 DEF Called, BwdJoin
  <2> QED BY <1>3, <2>1, <2>2
<1>7. ASSUME NEW c \in Proc \ {Root} PROVE Placed(c)'
  <2>1. CASE Caller(c) = p
    BY <1>1, <1>3, <1>4, <2>1 DEF Placed
  <2>2. CASE c # p /\ Caller(c) # p
    <3>1. (c \in live' <=> c \in live) /\ (c \in inCall' <=> c \in inCall) /\ pc'[c] = pc[c]
      BY <1>1, <2>2
    <3> QED BY <1>1, <1>3, <2>2, <3>1 DEF TreeInv, Placed
  <2>3. CASE c = p
    <3>1. /\ Called(p) /\ Caller(p) # p
          /\ From(p) \in Nat /\ To(p) \in Nat /\ From(p) <= pc[p] /\ pc[p] <= To(p)
          /\ pc[p] < To(p) => (NextBlock(p).first <=> pc[p] = From(p))
      BY <1>1, <2>3, RunningBlock
    <3>2. pc[p] < To(p)
      BY <1>1, <2>3, <3>1 DEF TreeInv, Placed
    <3>3. Called(p)' /\ From(p)' = From(p) /\ To(p)' = To(p)
      BY <1>3, <2>3, <3>1
    <3>4. p \in live' => pc[p] > From(p)
      BY <1>1, <3>1, <3>2
    <3>5. p \notin live' => pc[p] = From(p)
      BY <1>1, <3>1, <3>2
    <3> QED BY <1>1, <2>3, <3>1, <3>3, <3>4, <3>5 DEF Placed
  <2> QED BY <2>1, <2>2, <2>3
<1>8. MainPlaced'
  <2>1. CASE p = Root
    <3>1. /\ p \in live' => pc[p] > 0
          /\ p \notin live' => pc[p] = 0
      BY <1>1, <2>1, MainBlock
    <3> QED BY <1>1, <2>1, <3>1 DEF MainPlaced
  <2>2. CASE p # Root
    BY <1>1, <2>2 DEF TreeInv, MainPlaced
  <2> QED BY <2>1, <2>2
<1> QED BY <1>5, <1>6, <1>7, <1>8 DEF TreeInv

-----------------------------------------------------------------------------
(* Runs are whole *)

\* When main has returned nobody runs.
LEMMA NobodyRuns ==
  ASSUME TypeOK, TreeInv, Root \notin live
  PROVE  live = {} /\ inCall = {}
<1>1. inCall \subseteq live
  BY DEF TreeInv
<1>2. live \in SUBSET (Proc \ {Root})
  BY DEF TypeOK
<1>3. \A c \in live : Caller(c) \in live
  BY <1>1, <1>2 DEF TreeInv, Called
<1>4. live = {}
  BY <1>2, <1>3, TreeAssumption
<1> QED BY <1>1, <1>4

\* And everybody is where main is: at the end, or at the start.
LEMMA TreeIsWhole ==
  ASSUME TypeOK, TreeInv
  PROVE  WholeRuns
<1> SUFFICES ASSUME Root \notin live
             PROVE  \A p \in Proc : pc[p] = IF rev THEN 0 ELSE Len(prog[p])
  BY DEF WholeRuns, AtEnd, AtStart, Stopped
<1>1. live = {} /\ inCall = {}
  BY NobodyRuns
<1>2. ASSUME NEW c \in Proc \ {Root} PROVE pc[c] = Mark(prog, c, pc[Caller(c)])
  BY <1>1 DEF TreeInv, Placed, Called, From
<1>3. pc[Root] = IF rev THEN 0 ELSE Len(prog[Root])
  BY DEF TreeInv, MainPlaced
<1>4. prog \in Programs
  BY DEF TypeOK
<1> DEFINE Astray == {p \in Proc : pc[p] # IF rev THEN 0 ELSE Len(prog[p])}
<1>5. \A c \in Proc \ {Root} : Caller(c) \in Proc
  BY TreeAssumption
<1>6. ASSUME NEW c \in Proc \ {Root}, Caller(c) \notin Astray PROVE c \notin Astray
  <2>1. pc[Caller(c)] = IF rev THEN 0 ELSE Len(prog[Caller(c)])
    BY <1>5, <1>6
  <2>2. Mark(prog, c, 0) = 0 /\ Mark(prog, c, Len(prog[Caller(c)])) = Len(prog[c])
    BY <1>4, CallAssumption
  <2> QED BY <1>2, <2>1, <2>2
<1>7. Astray \in SUBSET (Proc \ {Root})
  BY <1>3
<1> HIDE DEF Astray
<1>8. Astray = {}
  BY <1>6, <1>7, TreeAssumption
<1> QED BY <1>8 DEF Astray

LEMMA TreeInit == Init => TreeInv
<1> SUFFICES ASSUME Init PROVE TreeInv
  OBVIOUS
<1>1. prog \in Programs /\ Root \in Proc /\ Len(prog[Root]) > 0 /\ Len(prog[Root]) \in Nat
  BY ProcAssumption, ProgramAssumption, CallAssumption DEF Init, MainIsWhole
<1>2. \A c \in Proc \ {Root} : ~Called(c) /\ pc[c] = From(c)
  BY <1>1, TreeAssumption, CallAssumption DEF Init, Called, From
<1>3. MainPlaced
  BY <1>1 DEF Init, MainPlaced
<1>4. \A c \in Proc \ {Root} : Placed(c)
  BY <1>2 DEF Placed
<1> QED BY <1>3, <1>4 DEF Init, TreeInv

\* The start of a run: the other direction.
LEMMA TreeTurn ==
  ASSUME TypeOK, TreeInv, Turn
  PROVE  TreeInv'
<1>1. live = {} /\ inCall = {} /\ WholeRuns
  BY NobodyRuns, TreeIsWhole DEF Turn, Stopped
<1>2. rev \in BOOLEAN /\ rev' = ~rev /\ live' = {Root} /\ UNCHANGED <<prog, pc, inCall>>
  BY DEF TypeOK, Turn
<1>3. \A c \in Proc \ {Root} : ~Called(c) /\ ~Called(c)' /\ From(c)' = From(c)
  BY <1>1, <1>2 DEF Called, From
<1>4. \A c \in Proc \ {Root} : Placed(c)'
  BY <1>2, <1>3 DEF TreeInv, Placed
<1>5. MainPlaced'
  <2>1. pc[Root] = IF rev THEN 0 ELSE Len(prog[Root])
    BY <1>1, MainBlock DEF Turn, Stopped, WholeRuns, AtEnd, AtStart
  <2> QED BY <1>1, <1>2, <2>1, MainBlock DEF MainPlaced
<1> QED BY <1>1, <1>2, <1>4, <1>5 DEF TreeInv

\* Every step keeps the tree in order.
LEMMA TreeStep == TypeOK /\ TypeOK' /\ TreeInv /\ [Next]_vars => TreeInv'
<1> SUFFICES ASSUME TypeOK, TypeOK', TreeInv, [Next]_vars PROVE TreeInv'
  OBVIOUS
<1>1. ASSUME UNCHANGED <<prog, pc, live, inCall, rev>> PROVE TreeInv'
  BY <1>1 DEF TreeInv, Placed, MainPlaced, Called, From, To, NextBlock
<1>2. ASSUME NEW p \in Proc, FwdWrite(p) \/ FwdLock(p) \/ FwdUnlock(p) \/ FwdRead(p)
      PROVE  TreeInv'
  <2>1. NextBlock(p).kind # "call"
    BY <1>2 DEF FwdWrite, FwdLock, FwdUnlock, FwdRead, Writes
  <2>2. /\ FwdReady(p) /\ Advance(p) /\ UNCHANGED <<prog, rev, inCall>>
    BY <1>2 DEF FwdWrite, FwdLock, FwdUnlock, FwdRead
  <2>3. p \in live /\ p \notin inCall /\ inCall' = inCall \ {p} /\ ~rev /\ pc[p] < Len(prog[p])
    BY <2>2 DEF FwdReady
  <2> QED BY <2>1, <2>2, <2>3, TreeForward
<1>3. ASSUME NEW p \in Proc, FwdJoin(p) PROVE TreeInv'
  <2>1. p \in live /\ p \in inCall /\ pc[p] < Len(prog[p])
    BY <1>3 DEF FwdJoin, TypeOK, TreeInv
  <2> QED BY <1>3, <2>1, TreeForward DEF FwdJoin
<1>4. ASSUME NEW p \in Proc, FwdFork(p) PROVE TreeInv'
  <2>1. p \in live \ inCall /\ NextBlock(p)' = NextBlock(p) /\ NextBlock(p).kind = "call"
    BY <1>4 DEF FwdFork, FwdReady, NextBlock
  <2>2. /\ UNCHANGED <<prog, rev>> /\ live' = live \cup NextBlock(p).kids
        /\ inCall' = inCall \cup {p} /\ ~rev /\ pc' = pc
    BY <1>4 DEF FwdFork, FwdReady
  <2> DEFINE K == NextBlock(p).kids
  <2>3. live' = live \cup K /\ NextBlock(p)'.kids = K
    BY <2>1, <2>2
  <2> HIDE DEF K
  <2> QED BY <2>1, <2>2, <2>3, TreeFork
<1>5. ASSUME NEW p \in Proc, BwdFork(p) PROVE TreeInv'
  <2>1. /\ p \in live \ inCall /\ rev /\ pc[p] > 0 /\ UNCHANGED <<prog, rev>>
        /\ pc' = [pc EXCEPT ![p] = @ - 1] /\ inCall' = inCall \cup {p}
        /\ live' = live \cup PrevBlock(p).kids /\ PrevBlock(p).kind = "call"
    BY <1>5 DEF BwdFork, BwdReady
  <2>2. NextBlock(p)' = PrevBlock(p)
    <3>1. pc'[p] + 1 = pc[p]
      BY <2>1 DEF TypeOK
    <3> QED BY <2>1, <3>1 DEF NextBlock, PrevBlock
  <2> DEFINE K == PrevBlock(p).kids
  <2>3. live' = live \cup K /\ NextBlock(p)'.kids = K
    BY <2>1, <2>2
  <2> HIDE DEF K
  <2> QED BY <2>1, <2>2, <2>3, TreeFork
<1>6. ASSUME NEW p \in Proc, BwdWrite(p) \/ BwdLock(p) \/ BwdUnlock(p) \/ BwdRead(p)
      PROVE  TreeInv'
  <2>1. PrevBlock(p).kind # "call"
    BY <1>6 DEF BwdWrite, BwdLock, BwdUnlock, BwdRead, Writes
  <2>2. BwdReady(p) /\ Retreat(p) /\ UNCHANGED <<prog, rev, inCall>>
    BY <1>6 DEF BwdWrite, BwdLock, BwdUnlock, BwdRead
  <2>3. p \in live /\ p \notin inCall /\ rev /\ pc[p] > 0
    BY <2>2 DEF BwdReady
  <2> QED BY <2>1, <2>2, <2>3, TreeBackward
<1>7. ASSUME NEW p \in Proc, BwdJoin(p) PROVE TreeInv'
  BY <1>7, TreeReturn DEF BwdJoin
<1>8. CASE Turn
  BY <1>8, TreeTurn
<1>9. CASE DelDag
  BY <1>1, <1>9 DEF DelDag
<1>10. CASE UNCHANGED vars
  BY <1>1, <1>10 DEF vars
<1> QED BY <1>2, <1>3, <1>4, <1>5, <1>6, <1>7, <1>8, <1>9, <1>10 DEF Next, Step

\* Fork and join (getChildPC, and the wg.Wait of call) keep the call tree in
\* order: who runs has been called, who waits in a call runs a call block, and
\* each counter is where the caller's progress puts it.
THEOREM TreeInOrder == Spec => []TreeInv
<1>1. Init => TreeInv
  BY TreeInit
<1>2. TypeOK /\ TypeOK' /\ TreeInv /\ [Next]_vars => TreeInv'
  BY TreeStep
<1> QED BY <1>1, <1>2, TypeCorrect, PTL DEF Spec

\* Main returns only when every process of the tree has run all its blocks, and
\* backward only when every process has undone all of them.
THEOREM RunsAreWhole == Spec => []WholeRuns
<1>1. TypeOK /\ TreeInv => WholeRuns
  BY TreeIsWhole
<1> QED BY <1>1, TypeCorrect, TreeInOrder, PTL

-----------------------------------------------------------------------------
(* The annotation DAG *)

\* The inductive invariant of the DAG: an edge records an access of its block,
\* what an executed block depends on is executed, dag.last is the one version
\* nobody has overwritten, readers come before the overwriting block, and the
\* DAG is complete once a run is.
THEOREM DagSound == Spec => []DagInv
<1>1. Init => DagInv
  BY DagInit
<1>2. TypeOK /\ WholeRuns /\ DagInv /\ [Next]_vars => DagInv'
  BY DagStep
<1> QED BY <1>1, <1>2, TypeCorrect, RunsAreWhole, PTL DEF Spec

\* PrevNode (dag.go:92) has one write edge to find: over any number of replays
\* no version is overwritten twice, and no block overwrites two versions.
THEOREM VersionsOverwrittenOnce == Spec => []OneOverwrite
<1>1. DagInv => OneOverwrite
  BY DEF DagInv
<1> QED BY <1>1, DagSound, PTL

\* Backward, isRunnable lets a write block through only when its version is the
\* current one: setlast(PrevNode) goes back exactly one version.
THEOREM UndoesTheTip == Spec => []UndoTip
<1>1. TypeOK /\ DagInv => UndoTip
  <2> SUFFICES ASSUME TypeOK, DagInv, NEW p \in Proc, BwdReady(p), Writes(PrevBlock(p))
               PROVE  last[PrevBlock(p).dst.sym] = PrevNodeOf(p)
    BY DEF UndoTip
  <2> QED BY UndoFindsTip DEF BwdReady
<1> QED BY <1>1, TypeCorrect, DagSound, PTL

\* What a step that executes a block does to the DAG.
LEMMA ForwardEdges ==
  ASSUME TypeOK, DagInv, NEW p \in Proc,
         FwdWrite(p) \/ FwdLock(p) \/ FwdUnlock(p) \/ FwdRead(p) \/ FwdJoin(p)
  PROVE  /\ edges \subseteq edges'
         /\ \A e \in edges' \ edges : e.dst = NextNode(p)
         /\ edges' = edges \/ \A e \in edges : Active(pc, e.dst)
<1>1. /\ pc[p] < Len(prog[p]) /\ edges' = BlockEdges(p)
      /\ RunnableFwd(edges, pc, NextNode(p)) \/ NextBlock(p).kind = "call"
  BY ForwardSteps
<1>2. \A t \in Sym : last[t] # NextNode(p)
  BY <1>1, NextInactive DEF DagInv
<1>3. edges \subseteq edges' /\ \A e \in edges' \ edges : e.dst = NextNode(p)
  BY <1>1, <1>2, BlockEdgesShape
<1>4. BlockEdges(p) = edges \/ \A e \in edges : Active(pc, e.dst)
  BY <1>1, ReplayOrFirst
<1> QED BY <1>1, <1>3, <1>4

\* A replayed block adds no edge to the DAG and only deldag removes one: what a
\* run recorded is what every later run of either direction obeys.
THEOREM ReplayKeepsTheDag == Spec => ReplayAddsNothing
<1> DEFINE Kept == edges' # {} => /\ edges \subseteq edges'
                                  /\ \A e \in edges' \ edges : InEdges(edges, e.dst) = {}
<1>1. TypeOK /\ DagInv /\ [Next]_vars => [Kept]_vars
  <2> SUFFICES ASSUME TypeOK, DagInv, [Next]_vars PROVE Kept
    OBVIOUS
  <2>1. ASSUME NEW p \in Proc,
               FwdWrite(p) \/ FwdLock(p) \/ FwdUnlock(p) \/ FwdRead(p) \/ FwdJoin(p)
        PROVE  Kept
    <3>1. pc[p] < Len(prog[p])
      BY <2>1, ForwardSteps
    <3>2. ~Active(pc, NextNode(p))
      BY <3>1, NextInactive DEF DagInv
    <3> QED BY <2>1, <3>2, ForwardEdges DEF InEdges
  <2>2. ASSUME UNCHANGED edges PROVE Kept
    BY <2>2
  <2>3. ASSUME NEW p \in Proc, FwdFork(p) \/ BwdWrite(p) \/ BwdLock(p) \/ BwdUnlock(p)
                               \/ BwdRead(p) \/ BwdFork(p) \/ BwdJoin(p)
        PROVE  UNCHANGED edges
    BY <2>3 DEF FwdFork, BwdWrite, BwdLock, BwdUnlock, BwdRead, BwdFork, BwdJoin
  <2>4. CASE Turn \/ UNCHANGED vars
    BY <2>2, <2>4 DEF Turn, vars
  <2>5. CASE DelDag
    BY <2>5 DEF DelDag
  <2> QED BY <2>1, <2>2, <2>3, <2>4, <2>5 DEF Next, Step
<1> QED BY <1>1, TypeCorrect, DagSound, PTL DEF Spec, ReplayAddsNothing

-----------------------------------------------------------------------------
(* The check before the wait *)

\* A block executed elsewhere does not take back the permission to run forward:
\* active nodes stay active, and the edges it adds lead to itself.
LEMMA ForwardPermission ==
  ASSUME TypeOK, DagInv, NEW p \in Proc, NEW q \in Proc, p # q,
         FwdWrite(q) \/ FwdLock(q) \/ FwdUnlock(q) \/ FwdRead(q) \/ FwdJoin(q),
         NEW n, n = NextNode(p), RunnableFwd(edges, pc, n)
  PROVE  RunnableFwd(edges', pc', n)
<1>1. PICK m \in Node : m = NextNode(q)
  BY ForwardSteps, BlockTypes
<1>2. m # n
  BY <1>1 DEF NextNode
<1>3. edges \subseteq edges' /\ \A e \in edges' \ edges : e.dst = m
  BY <1>1, ForwardEdges
<1>4. \A k \in Node \cup {BOT} : Active(pc', k) <=> Active(pc, k) \/ k = m
  BY <1>1, ForwardSteps, ActiveStep
<1>5. \A e \in edges : e.src \in Node \cup {BOT} /\ e.dst \in Node
  BY DEF TypeOK, EdgeType
<1>6. ASSUME NEW e \in InEdges(edges', n)
      PROVE  /\ Active(pc', e.src)
             /\ e.wt => \A f \in OutEdges(edges', e.src) :
                          f.sym = e.sym /\ f.dst # n => Active(pc', f.dst)
  <2>1. e \in InEdges(edges, n)
    BY <1>2, <1>3, <1>6 DEF InEdges
  <2>2. Active(pc', e.src)
    BY <1>4, <1>5, <2>1 DEF RunnableFwd, InEdges
  <2>3. ASSUME e.wt, NEW f \in OutEdges(edges', e.src), f.sym = e.sym, f.dst # n
        PROVE  Active(pc', f.dst)
    <3>1. CASE f \in edges
      BY <1>4, <1>5, <2>1, <2>3, <3>1 DEF RunnableFwd, OutEdges
    <3>2. CASE f \notin edges
      BY <1>1, <1>3, <1>4, <2>3, <3>2 DEF OutEdges
    <3> QED BY <3>1, <3>2
  <2> QED BY <2>2, <2>3
<1> QED BY <1>6 DEF RunnableFwd

\* Nor to run backward: inactive nodes stay inactive.
LEMMA BackwardPermission ==
  ASSUME TypeOK, NEW q \in Proc,
         BwdWrite(q) \/ BwdLock(q) \/ BwdUnlock(q) \/ BwdRead(q) \/ BwdFork(q),
         NEW n, RunnableBwd(edges, pc, n)
  PROVE  RunnableBwd(edges', pc', n)
<1>1. edges' = edges
  BY BackwardSteps
<1>2. \A k \in Node \cup {BOT} : ~Active(pc, k) => ~Active(pc', k)
  BY BackwardSteps, ActiveStep
<1>3. \A e \in edges : e.dst \in Node
  BY DEF TypeOK, EdgeType
<1> QED BY <1>1, <1>2, <1>3 DEF RunnableBwd, InEdges, OutEdges

\* The answer of isRunnable, asked once (pc.go:100) before the block waits with
\* exmut released, stays right whatever the other processes do meanwhile.
THEOREM PermissionStays == Spec => RunnableStable
<1> DEFINE Stays(p) == pc'[p] = pc[p] /\ rev' = rev =>
                         /\ FwdReady(p) => RunnableFwd(edges', pc', NextNode(p))
                         /\ BwdReady(p) => RunnableBwd(edges', pc', PrevNodeOf(p))
<1>1. TypeOK /\ DagInv /\ [Next]_vars => [\A p \in Proc : Stays(p)]_vars
  <2> SUFFICES ASSUME TypeOK, DagInv, [Next]_vars, NEW p \in Proc PROVE Stays(p)
    OBVIOUS
  <2>1. ASSUME NEW q \in Proc,
               FwdWrite(q) \/ FwdLock(q) \/ FwdUnlock(q) \/ FwdRead(q) \/ FwdJoin(q)
        PROVE  Stays(p)
    <3>1. pc[q] \in Nat /\ pc' = [pc EXCEPT ![q] = @ + 1] /\ ~rev
      BY <2>1, ForwardSteps DEF TypeOK
    <3>2. CASE p = q
      BY <3>1, <3>2 DEF TypeOK
    <3>3. CASE p # q
      BY <2>1, <3>1, <3>3, ForwardPermission DEF FwdReady, BwdReady
    <3> QED BY <3>2, <3>3
  <2>2. ASSUME NEW q \in Proc,
               BwdWrite(q) \/ BwdLock(q) \/ BwdUnlock(q) \/ BwdRead(q) \/ BwdFork(q)
        PROVE  Stays(p)
    BY <2>2, BackwardSteps, BackwardPermission DEF FwdReady, BwdReady
  <2>3. ASSUME UNCHANGED <<edges, pc>> PROVE Stays(p)
    BY <2>3 DEF FwdReady, BwdReady
  <2>4. ASSUME NEW q \in Proc, FwdFork(q) \/ BwdJoin(q) PROVE UNCHANGED <<edges, pc>>
    BY <2>4 DEF FwdFork, BwdJoin
  <2>5. CASE Turn \/ UNCHANGED vars
    BY <2>3, <2>5 DEF Turn, vars
  <2>6. CASE DelDag
    BY <2>6 DEF DelDag, AtStart, FwdReady, BwdReady, RunnableBwd, InEdges, OutEdges
  <2> QED BY <2>1, <2>2, <2>3, <2>4, <2>5, <2>6 DEF Next, Step
<1> QED BY <1>1, TypeCorrect, DagSound, PTL DEF Spec, RunnableStable
=============================================================================
