--------------------------- MODULE DebuggerProofs ---------------------------
(***************************************************************************)
(* The goroutines of the interpreter exclude each other, its broadcasts    *)
(* are not lost, and its heads and counters agree at the end of each run,  *)
(* for any number of processes, any call tree and any capacity of the      *)
(* channels.                                                               *)
(***************************************************************************)
EXTENDS Debugger, FiniteSetTheorems, TLAPS

-----------------------------------------------------------------------------
(* The inductive invariant *)

Calling(g) == gor[g].at \in {"call", "wait"}
InBlock(g) == gor[g].at \in {"block", "sem", "semrelay", "call", "wait"}

\* The goroutines that report to g when they end.
Children(g) == {h \in Gor : Alive(h) /\ gor[h].boss = g}

\* wg counts the children, those still to start included, and only a call has
\* children.
JoinsOf(g) ==
  /\ Calling(g) => gor[g].wg = Len(gor[g].todo) + Cardinality(Children(g))
  /\ ~Calling(g) => Children(g) = {}
  /\ At(g, "wait") => gor[g].todo = << >>
  /\ InBlock(g) => broken \/ gor[g].blk \in DOMAIN Body[g[1]]

Joins == \A g \in Gor : JoinsOf(g)

GorType == [at : Places, dir : BOOLEAN, ret : {"normal", "eof", "procend"},
            boss : Gor \cup {NoGor}, blk : Int, todo : Seq(Proc), wg : Nat, susp : BOOLEAN]

\* TypeOK without the goroutines.
Rest ==
  /\ running \in BOOLEAN /\ rev \in BOOLEAN /\ runs \in 1 .. MaxRuns
  /\ dbg \in {"select", "closed", "suspend", "suspended", "run", "ever", "main",
             "enter", "step", "stepping"}
  /\ runever \in Seq(BOOLEAN) /\ Len(runever) <= Cap
  /\ runclose \in 0 .. Cap /\ dagupdate \in 0 .. Cap
  /\ newproc \in 0 .. Cap /\ termproc \in 0 .. Cap
  /\ exmut \in BOOLEAN /\ broken \in BOOLEAN /\ ended \in BOOLEAN
  /\ head \in [Proc -> Int] /\ pc \in [Proc -> Int] /\ sem \in [Sem -> {0, 1}]

\* The type invariant, with the goroutines apart from the rest.
LEMMA TypeParts == TypeOK <=> Rest /\ gor \in [Gor -> GorType]
BY DEF TypeOK, Rest, GorType

-----------------------------------------------------------------------------
(* Facts about the constants *)

\* There are finitely many goroutines, each of a process.
LEMMA GorFinite == IsFiniteSet(Gor) /\ \A g \in Gor : g[1] \in Proc
<1>1. IsFiniteSet(1 .. MaxGor)
  BY FS_Interval, BoundAssumption
<1>2. IsFiniteSet(Proc)
  BY TreeAssumption
<1> QED BY <1>1, <1>2, FS_Product DEF Gor

\* What a line number of a body leads to is an instruction.
LEMMA BlockFacts ==
  ASSUME NEW p \in Proc
  PROVE  /\ Body[p] \in Seq(Instr) /\ Len(Body[p]) \in Nat \ {0}
         /\ \A k \in DOMAIN Body[p] : /\ k \in Int
                                      /\ Body[p][k] \in Instr
                                      /\ Body[p][k].kids \in Seq(Proc)
                                      /\ Body[p][k].sem \in Sem
<1>1. Body[p] \in Seq(Instr) /\ Len(Body[p]) > 0
  BY BodyAssumption
<1>2. \A k \in DOMAIN Body[p] : k \in Int /\ Body[p][k] \in Instr
  BY <1>1
<1> QED BY <1>1, <1>2 DEF Instr

\* Goroutines that start have no children and are in no block.
LEMMA NewFacts ==
  ASSUME NEW b \in Gor \cup {NoGor}
  PROVE  /\ New(b) \in GorType /\ New(b).at = "select" /\ New(b).boss = b
         /\ Dead \in GorType /\ Dead.at = "none"
<1>1. << >> \in Seq(Proc)
  OBVIOUS
<1>2. \A c \in Gor \cup {NoGor} : New(c) \in GorType /\ New(c).at = "select" /\ New(c).boss = c
  BY <1>1 DEF New, GorType, Places
<1>3. Dead = [New(NoGor) EXCEPT !.at = "none"] /\ New(NoGor) \in GorType
  BY <1>2 DEF Dead
<1>4. Dead \in GorType /\ Dead.at = "none"
  BY <1>3 DEF GorType, Places
<1> QED BY <1>2, <1>4

\* Block numbers and the places to start from are whole numbers.
LEMMA BlockNoFacts ==
  ASSUME TypeOK, NEW p \in Proc, NEW d \in BOOLEAN
  PROVE  BlockNo(p, d) \in Int /\ Start(p, d) \in Int
<1>1. head[p] \in Int /\ Len(Body[p]) \in Nat
  BY BlockFacts DEF TypeOK
<1> QED BY <1>1 DEF BlockNo, Start, Lines

\* What the type invariant says of one goroutine.
LEMMA GorTyped ==
  ASSUME TypeOK, NEW g \in Gor
  PROVE  gor \in [Gor -> GorType] /\ gor[g] \in GorType /\ gor[g].boss \in Gor \cup {NoGor}
         /\ gor[g].dir \in BOOLEAN /\ gor[g].blk \in Int /\ gor[g].wg \in Nat
         /\ gor[g].todo \in Seq(Proc)
BY DEF TypeOK, GorType

\* A return keeps the type of the goroutine.
LEMMA ReturnsFacts ==
  ASSUME NEW g
  PROVE  Returns(g) \in {"normal", "eof", "procend"}
BY DEF Returns

-----------------------------------------------------------------------------
(* Types *)

\* A child that ends was counted.
LEMMA ExitType ==
  ASSUME TypeOK, Joins, NEW g \in Gor, Alive(g), ~Calling(g), NEW s \in BOOLEAN, Exit(g, s)
  PROVE  gor' \in [Gor -> GorType]
<1>1. gor \in [Gor -> GorType] /\ Dead \in GorType
  BY GorTyped, NewFacts
<1>2. CASE gor[g].boss = NoGor
  BY <1>1, <1>2 DEF Exit
<1>3. CASE gor[g].boss # NoGor
  <2>1. PICK b \in Gor : b = gor[g].boss
    BY <1>3, GorTyped
  <2>2. g \in Children(b)
    BY <2>1 DEF Children
  <2>3. Calling(b) /\ b # g
    BY <2>2 DEF Joins, JoinsOf
  <2>4. IsFiniteSet(Children(b))
    BY GorFinite, FS_Subset DEF Children
  <2>5. Cardinality(Children(b)) \in Nat /\ Cardinality(Children(b)) # 0
    BY <2>2, <2>4, FS_CardinalityType, FS_EmptySet
  <2>6. gor[b].todo \in Seq(Proc) /\ gor[b].wg = Len(gor[b].todo) + Cardinality(Children(b))
    BY <2>3, GorTyped DEF Joins, JoinsOf
  <2>7. gor[b].wg - 1 \in Nat
    BY <2>5, <2>6
  <2>8. gor[b] \in GorType /\ gor[b].susp \in BOOLEAN
    BY GorTyped DEF GorType
  <2>9. [gor[b] EXCEPT !.wg = @ - 1, !.susp = @ \/ s] \in GorType
    BY <2>7, <2>8 DEF GorType
  <2>10. gor' = [[gor EXCEPT ![g] = Dead] EXCEPT ![b] = [gor[b] EXCEPT !.wg = @ - 1, !.susp = @ \/ s]]
    BY <1>1, <1>3, <2>1, <2>3 DEF Exit
  <2> QED BY <1>1, <2>9, <2>10
<1> QED BY <1>2, <1>3

\* Places and fields of one goroutine change.
LEMMA MoveType ==
  ASSUME TypeOK, NEW g \in Gor, NEW w \in Places, Move(g, w)
  PROVE  gor' \in [Gor -> GorType]
<1>1. gor \in [Gor -> GorType] /\ gor[g] \in GorType
  BY GorTyped
<1>2. [gor[g] EXCEPT !.at = w] \in GorType
  BY <1>1 DEF GorType
<1>3. gor' = [gor EXCEPT ![g] = [gor[g] EXCEPT !.at = w]]
  BY <1>1 DEF Move
<1> QED BY <1>1, <1>2, <1>3

\* A block leaves the head on a line.
LEMMA HeadAfterType ==
  ASSUME TypeOK, NEW g \in Gor, NEW n \in Int
  PROVE  HeadAfter(g, n) \in Int
<1>1. head[g[1]] \in Int /\ gor[g].blk \in Int
  BY GorFinite, GorTyped DEF TypeOK
<1> QED BY <1>1 DEF HeadAfter, Lines

\* The counters of a process move by whole numbers.
LEMMA CountersType ==
  ASSUME TypeOK, NEW p \in Proc, NEW d \in BOOLEAN, NEW x \in Int
  PROVE  /\ [head EXCEPT ![p] = x] \in [Proc -> Int]
         /\ (IF d THEN pc ELSE [pc EXCEPT ![p] = @ + 1]) \in [Proc -> Int]
         /\ (IF d THEN [pc EXCEPT ![p] = @ - 1] ELSE pc) \in [Proc -> Int]
<1>1. head \in [Proc -> Int] /\ pc \in [Proc -> Int]
  BY DEF TypeOK
<1>2. pc[p] + 1 \in Int /\ pc[p] - 1 \in Int
  BY <1>1
<1> QED BY <1>1, <1>2

\* The end of a block keeps them too.
LEMMA FinishType ==
  ASSUME TypeOK, NEW g \in Gor, Finish(g, Lines)
  PROVE  gor' \in [Gor -> GorType] /\ head' \in [Proc -> Int] /\ pc' \in [Proc -> Int]
<1>1. gor \in [Gor -> GorType] /\ gor[g] \in GorType /\ gor[g].dir \in BOOLEAN /\ g[1] \in Proc
  BY GorTyped, GorFinite
<1>2. PICK r \in {"normal", "eof", "procend"} : r = Returns(g)
  BY ReturnsFacts
<1>3. [gor[g] EXCEPT !.at = "update", !.ret = r] \in GorType
  <2>1. "update" \in Places
    BY DEF Places
  <2> QED BY <1>1, <2>1 DEF GorType
<1>4. gor' = [gor EXCEPT ![g] = [gor[g] EXCEPT !.at = "update", !.ret = r]]
  BY <1>1, <1>2 DEF Finish
<1>5. gor' \in [Gor -> GorType]
  BY <1>1, <1>3, <1>4
<1>6. HeadAfter(g, Lines) \in Int
  BY HeadAfterType DEF Lines
<1>7. head' \in [Proc -> Int] /\ pc' \in [Proc -> Int]
  BY <1>1, <1>6, CountersType DEF Finish
<1> QED BY <1>5, <1>7

\* Every step of a goroutine keeps the types.
LEMMA StepType ==
  ASSUME TypeOK, Joins, NEW g \in Gor, Step(g)
  PROVE  TypeOK'
<1>1. Rest /\ gor \in [Gor -> GorType]
  BY TypeParts
<1>2. TypeOK' <=> Rest' /\ gor' \in [Gor -> GorType]
  BY DEF TypeOK, Rest, GorType
<1>3. Rest /\ gor \in [Gor -> GorType] /\ gor[g] \in GorType /\ g[1] \in Proc
  BY <1>1, GorTyped, GorFinite
<1>4. Cap \in Nat \ {0}
  BY BoundAssumption
<1> USE <1>3, <1>4 DEF Rest
<1>5. CASE TakeRun(g)
  <2>1. gor' \in [Gor -> GorType]
    <3>1. Head(runever) \in BOOLEAN
      BY <1>5 DEF TakeRun
    <3>2. [gor[g] EXCEPT !.at = "relay", !.dir = Head(runever)] \in GorType
      BY <3>1 DEF GorType, Places
    <3>3. gor' = [gor EXCEPT ![g] = [gor[g] EXCEPT !.at = "relay", !.dir = Head(runever)]]
      BY <1>5 DEF TakeRun
    <3> QED BY <3>2, <3>3
  <2>2. Rest'
    BY <1>5 DEF TakeRun, loop, procs
  <2> QED BY <1>2, <2>1, <2>2
<1>6. CASE RelayRun(g)
  <2>1. gor' \in [Gor -> GorType]
    BY <1>6, MoveType DEF RelayRun, Places
  <2>2. Rest'
    BY <1>6 DEF RelayRun, loop, procs, GorType
  <2> QED BY <1>2, <2>1, <2>2
<1>7. CASE TakeClose(g)
  <2>1. gor' \in [Gor -> GorType]
    BY <1>7, MoveType DEF TakeClose, Places, GorType
  <2>2. Rest'
    BY <1>7 DEF TakeClose, loop, chans, procs, Unlock
  <2> QED BY <1>2, <2>1, <2>2
<1>8. CASE Leave(g)
  <2>1. gor' \in [Gor -> GorType]
    BY <1>8, ExitType DEF Leave, On, At, Alive, Calling
  <2>2. Rest'
    BY <1>8 DEF Leave, loop, procs
  <2> QED BY <1>2, <2>1, <2>2
<1>9. CASE Poll(g)
  <2>1. gor' \in [Gor -> GorType]
    BY <1>9, MoveType DEF Poll, Places, GorType
  <2>2. Rest'
    BY <1>9 DEF Poll, loop, chans, procs, Unlock
  <2> QED BY <1>2, <2>1, <2>2
<1>10. CASE Acquire(g)
  <2>1. gor' \in [Gor -> GorType]
    BY <1>10, BlockNoFacts DEF Acquire, GorType, Places
  <2>2. Rest'
    <3>1. exmut' \in BOOLEAN /\ broken' \in BOOLEAN
      BY <1>10 DEF Acquire
    <3> QED BY <1>10, <3>1 DEF Acquire, loop, chans
  <2> QED BY <1>2, <2>1, <2>2
<1>11. CASE Plain(g)
  <2>1. gor' \in [Gor -> GorType]
    BY <1>11, FinishType DEF Plain
  <2>2. Rest'
    <3>1. head' \in [Proc -> Int] /\ pc' \in [Proc -> Int]
      BY <1>11, FinishType DEF Plain
    <3> QED BY <1>11, <3>1 DEF Plain, Finish, Unlock, loop, chans
  <2> QED BY <1>2, <2>1, <2>2
<1>12. CASE SemPass(g)
  <2>1. gor' \in [Gor -> GorType]
    BY <1>12, FinishType DEF SemPass
  <2>2. Rest'
    <3>1. head' \in [Proc -> Int] /\ pc' \in [Proc -> Int]
      BY <1>12, FinishType DEF SemPass
    <3> QED BY <1>12, <3>1 DEF SemPass, Finish, Unlock, loop, chans
  <2> QED BY <1>2, <2>1, <2>2
<1>13. CASE SemWait(g)
  <2>1. gor' \in [Gor -> GorType]
    BY <1>13, MoveType DEF SemWait, Places, GorType
  <2>2. Rest'
    BY <1>13 DEF SemWait, loop, chans, procs, Unlock
  <2> QED BY <1>2, <2>1, <2>2
<1>14. CASE SemTimeout(g)
  <2>1. gor' \in [Gor -> GorType]
    BY <1>14, MoveType DEF SemTimeout, Places, GorType
  <2>2. Rest'
    BY <1>14 DEF SemTimeout, loop, chans, procs, Unlock
  <2> QED BY <1>2, <2>1, <2>2
<1>15. CASE SemClose(g)
  <2>1. gor' \in [Gor -> GorType]
    BY <1>15, MoveType DEF SemClose, Places, GorType
  <2>2. Rest'
    BY <1>15 DEF SemClose, loop, chans, procs, Unlock
  <2> QED BY <1>2, <2>1, <2>2
<1>16. CASE SemRelay(g)
  <2>1. gor' \in [Gor -> GorType]
    BY <1>16, MoveType DEF SemRelay, Places, GorType
  <2>2. Rest'
    BY <1>16 DEF SemRelay, loop, chans, procs, Unlock
  <2> QED BY <1>2, <2>1, <2>2
<1>17. CASE Call(g)
  <2>1. ~broken /\ At(g, "block")
    BY <1>17 DEF Call, On
  <2>2. gor[g].blk \in DOMAIN Body[g[1]]
    BY <2>1 DEF Joins, JoinsOf, InBlock, At
  <2>3. Instruction(g).kids \in Seq(Proc)
    BY <2>2, BlockFacts DEF Instruction
  <2>4. gor' \in [Gor -> GorType]
    <3>1. PICK K \in Seq(Proc) : K = Instruction(g).kids
      BY <2>3
    <3>2. [gor[g] EXCEPT !.at = "call", !.todo = K, !.wg = Len(K), !.susp = FALSE] \in GorType
      <4>1. Len(K) \in Nat /\ "call" \in Places /\ FALSE \in BOOLEAN
        BY DEF Places
      <4> HIDE DEF Places
      <4> QED BY <4>1 DEF GorType
    <3>3. gor' = [gor EXCEPT ![g] = [gor[g] EXCEPT !.at = "call", !.todo = K, !.wg = Len(K),
                                                   !.susp = FALSE]]
      BY <1>17, <3>1 DEF Call
    <3> QED BY <3>2, <3>3
  <2>5. Rest'
    BY <1>17 DEF Call, loop, chans, procs
  <2> QED BY <1>2, <2>4, <2>5
<1>18. CASE CallChild(g)
  <2>1. gor[g].todo \in Seq(Proc) /\ gor[g].todo # << >> /\ gor[g].dir \in BOOLEAN
    BY <1>18 DEF CallChild, GorType
  <2>2. PICK c \in Proc : c = Head(gor[g].todo)
    BY <2>1
  <2>3. PICK h \in FreeSlot(c) : gor' = [gor EXCEPT ![h] = New(g), ![g].todo = Tail(@)]
    BY <1>18, <2>2 DEF CallChild
  <2>4. h \in Gor /\ h # g
    BY <1>18, <2>3 DEF FreeSlot, Gor, CallChild, On, At, Alive
  <2>5. New(g) \in GorType /\ Tail(gor[g].todo) \in Seq(Proc)
    BY <2>1, NewFacts
  <2>6. gor' \in [Gor -> GorType]
    BY <2>3, <2>4, <2>5 DEF GorType
  <2>7. Start(c, gor[g].dir) \in Int
    BY <2>1, <2>2, BlockNoFacts
  <2>8. Rest'
    <3>1. head' \in [Proc -> Int]
      BY <1>18, <2>2, <2>7 DEF CallChild
    <3>2. newproc' \in 0 .. Cap
      BY <1>18 DEF CallChild
    <3> QED BY <1>18, <3>1, <3>2 DEF CallChild, loop
  <2> QED BY <1>2, <2>6, <2>8
<1>19. CASE CallWait(g)
  <2>1. gor' \in [Gor -> GorType]
    BY <1>19, MoveType DEF CallWait, Places, GorType
  <2>2. Rest'
    BY <1>19 DEF CallWait, loop, chans, procs, Unlock
  <2> QED BY <1>2, <2>1, <2>2
<1>20. CASE CallReturn(g)
  <2>1. gor' \in [Gor -> GorType]
    BY <1>20, MoveType DEF CallReturn, Places, GorType
  <2>2. Rest'
    BY <1>20 DEF CallReturn, loop, chans, procs, Unlock
  <2> QED BY <1>2, <2>1, <2>2
<1>21. CASE CallEnd(g)
  <2>1. gor' \in [Gor -> GorType]
    <3>1. gor' = [gor EXCEPT ![g] = [gor[g] EXCEPT !.at = "update", !.ret = Returns(g)]]
      BY <1>21 DEF CallEnd
    <3>2. "update" \in Places
      BY DEF Places
    <3>3. [gor[g] EXCEPT !.at = "update", !.ret = Returns(g)] \in GorType
      BY <3>2, ReturnsFacts DEF GorType
    <3> QED BY <3>1, <3>3
  <2>2. Rest'
    <3>1. PICK n \in Int : n = IF gor[g].susp THEN Lines - 1 ELSE Lines
      BY DEF Lines
    <3>2. gor[g].dir \in BOOLEAN
      BY GorTyped
    <3>3. /\ head' = [head EXCEPT ![g[1]] = HeadAfter(g, n)]
          /\ pc' = IF gor[g].dir THEN pc ELSE [pc EXCEPT ![g[1]] = @ + 1]
      BY <1>21, <3>1 DEF CallEnd
    <3>4. head' \in [Proc -> Int] /\ pc' \in [Proc -> Int]
      BY <3>2, <3>3, HeadAfterType, CountersType, GorFinite
    <3> QED BY <1>21, <3>4 DEF CallEnd, loop, chans
  <2> QED BY <1>2, <2>1, <2>2
<1>22. CASE Update(g)
  <2>1. gor' \in [Gor -> GorType]
    BY <1>22, MoveType DEF Update, Places, GorType
  <2>2. Rest'
    BY <1>22 DEF Update, loop, chans, procs, Unlock
  <2> QED BY <1>2, <2>1, <2>2
<1>23. CASE Send(g)
  <2>1. gor' \in [Gor -> GorType]
    BY <1>23, MoveType DEF Send, Places, GorType
  <2>2. Rest'
    BY <1>23 DEF Send, loop, chans, procs, Unlock
  <2> QED BY <1>2, <2>1, <2>2
<1>24. CASE Eof(g)
  <2>1. gor' \in [Gor -> GorType]
    BY <1>24, MoveType DEF Eof, Places, GorType
  <2>2. Rest'
    BY <1>24 DEF Eof, loop, chans, procs, Unlock
  <2> QED BY <1>2, <2>1, <2>2
<1>25. CASE EofSend(g)
  <2>1. gor' \in [Gor -> GorType]
    BY <1>25, ExitType DEF EofSend, On, At, Alive, Calling
  <2>2. Rest'
    BY <1>25 DEF EofSend, loop, procs
  <2> QED BY <1>2, <2>1, <2>2
<1>26. CASE ProcEnd(g)
  <2>1. gor' \in [Gor -> GorType]
    BY <1>26, ExitType DEF ProcEnd, On, At, Alive, Calling
  <2>2. Rest'
    BY <1>26 DEF ProcEnd, loop, procs
  <2> QED BY <1>2, <2>1, <2>2
<1> QED BY <1>5, <1>6, <1>7, <1>8, <1>9, <1>10, <1>11, <1>12, <1>13, <1>14, <1>15, <1>16,
        <1>17, <1>18, <1>19, <1>20, <1>21, <1>22, <1>23, <1>24, <1>25, <1>26 DEF Step

\* The command loop starts goroutines of main only.
LEMMA LoopType ==
  ASSUME TypeOK, Proceed \/ Command
  PROVE  TypeOK'
<1>1. Cap \in Nat \ {0} /\ MaxRuns \in Nat \ {0} /\ Root \in Proc
      /\ Rest /\ gor \in [Gor -> GorType]
  BY BoundAssumption, BodyAssumption, TypeParts
<1>2. CASE UNCHANGED gor
  <2> SUFFICES Rest'
    BY <1>1, <1>2 DEF TypeOK, Rest, GorType
  <2>1. CASE GetPid
    BY <1>1, <1>2, <2>1 DEF Rest, GetPid, loop, procs
  <2>2. CASE Closed
    BY <1>1, <1>2, <2>2 DEF Rest, Closed, chans, procs
  <2>3. CASE ClosedRelay
    <3>1. running' \in BOOLEAN /\ ended' \in BOOLEAN
      BY <1>1, <2>3 DEF Rest, ClosedRelay
    <3> QED BY <1>1, <1>2, <2>3, <3>1 DEF Rest, ClosedRelay, chans, procs
  <2>4. CASE SuspendEver
    BY <1>1, <1>2, <2>4 DEF Rest, SuspendEver, chans, procs
  <2>5. CASE SuspendSend
    <3>1. running' \in BOOLEAN /\ ended' \in BOOLEAN
      BY <1>1, <2>5 DEF Rest, SuspendSend
    <3> QED BY <1>1, <1>2, <2>5, <3>1 DEF Rest, SuspendSend, chans, procs
  <2>6. CASE RunEver
    BY <1>1, <1>2, <2>6 DEF Rest, RunEver, chans, procs
  <2>7. CASE RunSend
    BY <1>1, <1>2, <2>7 DEF Rest, RunSend, chans, procs
  <2>8. CASE EnterEver
    BY <1>1, <1>2, <2>8 DEF Rest, EnterEver, chans, procs
  <2>9. CASE Suspend
    BY <1>1, <1>2, <2>9 DEF Rest, Suspend, chans, procs
  <2>10. CASE Direction
    BY <1>1, <1>2, <2>10 DEF Rest, Direction, chans, procs
  <2>11. CASE Run
    <3>1. running' \in BOOLEAN /\ ended' \in BOOLEAN
      BY <1>1, <2>11 DEF Rest, Run
    <3> QED BY <1>1, <1>2, <2>11, <3>1 DEF Rest, Run, chans, procs
  <2>12. CASE Enter
    <3>1. running' \in BOOLEAN /\ ended' \in BOOLEAN
      BY <1>1, <2>12 DEF Rest, Enter
    <3> QED BY <1>1, <1>2, <2>12, <3>1 DEF Rest, Enter, chans, procs
  <2>13. CASE RunMain \/ StepBlock
    <3>1. \E h \in Gor : ~Alive(h) /\ Alive(h)'
      <4>1. PICK h \in FreeSlot(Root), r \in {New(NoGor),
                      [New(NoGor) EXCEPT !.at = "block", !.dir = rev, !.blk = BlockNo(Root, rev)]} :
              gor' = [gor EXCEPT ![h] = r]
        BY <2>13 DEF RunMain, StepBlock
      <4>2. h \in Gor /\ ~Alive(h)
        BY <1>1, <4>1 DEF FreeSlot, Gor
      <4>3. r.at # "none"
        BY <4>1, NewFacts DEF New
      <4> QED BY <1>1, <4>1, <4>2, <4>3 DEF Alive, At
    <3> QED BY <1>2, <3>1 DEF Alive, At
  <2> QED BY <2>1, <2>2, <2>3, <2>4, <2>5, <2>6, <2>7, <2>8, <2>9, <2>10, <2>11, <2>12,
          <2>13 DEF Proceed, Command
<1>3. ASSUME NEW h \in FreeSlot(Root), NEW r \in GorType, gor' = [gor EXCEPT ![h] = r]
      PROVE  gor' \in [Gor -> GorType]
  BY <1>1, <1>3 DEF FreeSlot, Gor
<1>4. CASE RunMain
  <2>1. gor' \in [Gor -> GorType]
    BY <1>3, <1>4, NewFacts DEF RunMain
  <2>2. Start(Root, rev) \in Int
    BY <1>1, BlockNoFacts DEF TypeOK
  <2>3. head' \in [Proc -> Int]
    BY <1>1, <1>4, <2>2, BodyAssumption DEF RunMain, Rest
  <2>4. newproc' \in 0 .. Cap
    BY <1>1, <1>4, BoundAssumption DEF RunMain, Rest
  <2>5. Rest'
    BY <1>1, <1>4, <2>3, <2>4 DEF RunMain, Rest
  <2> QED BY <2>1, <2>5, TypeParts DEF TypeOK, Rest, GorType
<1>5. CASE StepBlock
  <2>1. BlockNo(Root, rev) \in Int /\ rev \in BOOLEAN
    BY <1>1, BlockNoFacts DEF TypeOK
  <2>2. [New(NoGor) EXCEPT !.at = "block", !.dir = rev, !.blk = BlockNo(Root, rev)] \in GorType
    <3>1. PICK r \in GorType : r = New(NoGor)
      BY NewFacts
    <3>2. PICK k \in Int : k = BlockNo(Root, rev)
      BY <2>1
    <3>3. [r EXCEPT !.at = "block", !.dir = rev, !.blk = k] \in GorType
      BY <2>1 DEF GorType, Places
    <3> QED BY <3>1, <3>2, <3>3
  <2>3. gor' \in [Gor -> GorType]
    BY <1>3, <1>5, <2>2 DEF StepBlock
  <2>4. pc' \in [Proc -> Int]
    BY <1>1, <1>5, CountersType DEF StepBlock, TypeOK
  <2> QED BY <1>1, <1>5, <2>3, <2>4 DEF TypeOK, Rest, StepBlock, GorType, chans
<1> QED BY <1>2, <1>4, <1>5 DEF Proceed, Command, GetPid, Closed, ClosedRelay,
        SuspendEver, SuspendSend, RunEver, RunSend, EnterEver, Suspend, Direction, Run,
        Enter

-----------------------------------------------------------------------------
(* Calls and their children *)

\* The children of a goroutine are finitely many, before and after a step.
LEMMA ChildrenFinite ==
  ASSUME NEW g
  PROVE  IsFiniteSet(Children(g)) /\ IsFiniteSet(Children(g)')
BY GorFinite, FS_Subset DEF Children

\* A goroutine that reports to somebody is counted there.
LEMMA BossCalls ==
  ASSUME TypeOK, Joins, NEW g \in Gor, Alive(g), gor[g].boss # NoGor
  PROVE  /\ gor[g].boss \in Gor /\ Calling(gor[g].boss) /\ g \in Children(gor[g].boss)
         /\ Cardinality(Children(gor[g].boss)) \in Nat \ {0}
<1>1. PICK b \in Gor : b = gor[g].boss
  BY GorTyped
<1>2. g \in Children(b)
  BY <1>1 DEF Children
<1>3. Cardinality(Children(b)) \in Nat /\ Cardinality(Children(b)) # 0
  BY <1>2, ChildrenFinite, FS_CardinalityType, FS_EmptySet
<1> QED BY <1>1, <1>2, <1>3 DEF Joins, JoinsOf

\* A goroutine outside calls moves to another place outside calls.
LEMMA JoinsMove ==
  ASSUME TypeOK, TypeOK', Joins, NEW g \in Gor, Alive(g), Alive(g)',
         Calling(g) => Children(g) = {},
         \A h \in Gor \ {g} : gor'[h] = gor[h],
         gor'[g].boss = gor[g].boss, ~Calling(g)',
         InBlock(g)' => broken' \/ gor'[g].blk \in DOMAIN Body[g[1]],
         broken => broken'
  PROVE  Joins'
<1>1. \A h \in Gor : Children(h)' = Children(h)
  BY DEF Children, Alive, At
<1>2. Children(g) = {}
  BY DEF Joins, JoinsOf
<1>3. ASSUME NEW h \in Gor \ {g}
      PROVE  JoinsOf(h)'
  BY <1>1, <1>3 DEF Joins, JoinsOf, Calling, At, InBlock
<1> QED BY <1>1, <1>2, <1>3 DEF Joins, JoinsOf, Calling, At

\* A goroutine of main starts.
LEMMA JoinsNew ==
  ASSUME TypeOK, TypeOK', Joins, NEW g \in Gor, ~Alive(g), Alive(g)',
         \A h \in Gor \ {g} : gor'[h] = gor[h],
         gor'[g].boss = NoGor, ~Calling(g)',
         InBlock(g)' => broken' \/ gor'[g].blk \in DOMAIN Body[g[1]],
         broken => broken'
  PROVE  Joins'
<1>1. \A h \in Gor : Children(h)' = Children(h)
  BY NoGorAssumption DEF Children, Alive, At
<1>2. Children(g) = {}
  BY DEF Joins, JoinsOf, Calling, Alive, At
<1>3. ASSUME NEW h \in Gor \ {g}
      PROVE  JoinsOf(h)'
  BY <1>1, <1>3 DEF Joins, JoinsOf, Calling, At, InBlock
<1> QED BY <1>1, <1>2, <1>3 DEF Joins, JoinsOf, Calling, At

\* A goroutine ends.
LEMMA JoinsExit ==
  ASSUME TypeOK, TypeOK', Joins, NEW g \in Gor, Alive(g), ~Calling(g), NEW s \in BOOLEAN, Exit(g, s),
         broken' = broken
  PROVE  Joins'
<1>1. gor \in [Gor -> GorType] /\ Dead.at = "none" /\ gor[g].boss \in Gor \cup {NoGor}
  BY GorTyped, NewFacts
<1>2. Children(g) = {}
  BY DEF Joins, JoinsOf
<1>3. CASE gor[g].boss = NoGor
  <2>1. gor' = [gor EXCEPT ![g] = Dead]
    BY <1>3 DEF Exit
  <2>2. ~Alive(g)' /\ \A h \in Gor \ {g} : gor'[h] = gor[h]
    BY <1>1, <2>1 DEF Alive, At
  <2>3. \A h \in Gor : Children(h)' = Children(h)
    BY <1>3, <2>2, NoGorAssumption DEF Children, Alive, At
  <2>4. ~Calling(g)' /\ ~InBlock(g)' /\ ~At(g, "wait")'
    BY <2>2 DEF Calling, InBlock, Alive, At
  <2>5. ASSUME NEW h \in Gor \ {g}
        PROVE  JoinsOf(h)'
    BY <2>2, <2>3, <2>5 DEF Joins, JoinsOf, Calling, At, InBlock
  <2> QED BY <1>2, <2>3, <2>4, <2>5 DEF Joins, JoinsOf
<1>4. CASE gor[g].boss # NoGor
  <2>1. PICK b \in Gor : b = gor[g].boss
    BY <1>1, <1>4
  <2>2. Calling(b) /\ b # g /\ g \in Children(b) /\ Cardinality(Children(b)) \in Nat \ {0}
    BY <1>4, <2>1, BossCalls
  <2>3. gor' = [gor EXCEPT ![g] = Dead, ![b] = [gor[b] EXCEPT !.wg = @ - 1, !.susp = @ \/ s]]
    BY <1>1, <1>4, <2>1, <2>2 DEF Exit
  <2>4. /\ ~Alive(g)' /\ \A h \in Gor \ {g, b} : gor'[h] = gor[h]
        /\ gor'[b].wg = gor[b].wg - 1 /\ gor'[b].todo = gor[b].todo /\ gor'[b].at = gor[b].at
        /\ gor'[b].blk = gor[b].blk /\ gor'[b].boss = gor[b].boss
    <3>1. /\ gor'[g] = Dead /\ \A h \in Gor \ {g, b} : gor'[h] = gor[h]
          /\ gor'[b] = [gor[b] EXCEPT !.wg = @ - 1, !.susp = @ \/ s]
      BY <1>1, <2>2, <2>3
    <3>2. gor[b] \in GorType
      BY <1>1
    <3>3. /\ gor'[b].wg = gor[b].wg - 1 /\ gor'[b].todo = gor[b].todo /\ gor'[b].at = gor[b].at
          /\ gor'[b].blk = gor[b].blk /\ gor'[b].boss = gor[b].boss
      BY <3>1, <3>2 DEF GorType
    <3>4. ~Alive(g)'
      BY <1>1, <3>1 DEF Alive, At
    <3> QED BY <3>1, <3>3, <3>4
  <2>5. /\ Children(b)' = Children(b) \ {g}
        /\ \A h \in Gor \ {b} : Children(h)' = Children(h)
    BY <2>1, <2>4 DEF Children, Alive, At
  <2>6. Cardinality(Children(b)') = Cardinality(Children(b)) - 1
    <3>1. IsFiniteSet(Children(b)) /\ g \in Children(b)
      BY <2>2, ChildrenFinite
    <3>2. Cardinality(Children(b) \ {g}) = Cardinality(Children(b)) - 1
      BY <3>1, FS_RemoveElement
    <3> QED BY <2>5, <3>2
  <2>7. ~Calling(g)' /\ ~InBlock(g)' /\ ~At(g, "wait")'
    BY <2>4 DEF Calling, InBlock, Alive, At
  <2>8. gor[b].wg = Len(gor[b].todo) + Cardinality(Children(b))
        /\ (At(b, "wait") => gor[b].todo = << >>)
        /\ (InBlock(b) => broken \/ gor[b].blk \in DOMAIN Body[b[1]])
    BY <2>2 DEF Joins, JoinsOf
  <2>9. Len(gor[b].todo) \in Nat /\ gor[b].wg \in Nat
    BY GorTyped
  <2>10. /\ gor'[b].wg = Len(gor'[b].todo) + Cardinality(Children(b)')
         /\ Calling(b)'
         /\ At(b, "wait")' => gor'[b].todo = << >>
         /\ InBlock(b)' => broken' \/ gor'[b].blk \in DOMAIN Body[b[1]]
    BY <2>2, <2>4, <2>6, <2>8, <2>9 DEF Calling, InBlock, At
  <2>11. ASSUME NEW h \in Gor \ {g, b}
        PROVE  JoinsOf(h)'
    BY <2>4, <2>5, <2>11 DEF Joins, JoinsOf, Calling, At, InBlock
  <2> QED BY <1>2, <2>5, <2>2, <2>7, <2>10, <2>11 DEF Joins, JoinsOf
<1> QED BY <1>3, <1>4

\* A call counts its children before it starts them, and each it starts was to be
\* started.
LEMMA JoinsCall ==
  ASSUME TypeOK, TypeOK', Joins, NEW g \in Gor, Call(g) \/ CallChild(g) \/ CallWait(g)
  PROVE  Joins'
<1>1. gor \in [Gor -> GorType] /\ gor' \in [Gor -> GorType] /\ g[1] \in Proc
  BY TypeParts, GorFinite DEF TypeOK, GorType
<1>2. CASE Call(g)
  <2>1. ~broken /\ broken' = broken /\ At(g, "block")
    BY <1>2 DEF Call, On
  <2>2. gor[g].blk \in DOMAIN Body[g[1]] /\ Children(g) = {}
    BY <2>1 DEF Joins, JoinsOf, InBlock, Calling, At
  <2>3. PICK K \in Seq(Proc) : K = Instruction(g).kids
    BY <1>1, <2>2, BlockFacts DEF Instruction
  <2>4. gor' = [gor EXCEPT ![g].at = "call", ![g].todo = K, ![g].wg = Len(K), ![g].susp = FALSE]
    BY <1>2, <2>3 DEF Call
  <2>5. /\ \A h \in Gor \ {g} : gor'[h] = gor[h]
        /\ gor'[g].at = "call" /\ gor'[g].todo = K /\ gor'[g].wg = Len(K)
        /\ gor'[g].blk = gor[g].blk /\ gor'[g].boss = gor[g].boss
    BY <1>1, <2>4 DEF GorType
  <2>6. \A h \in Gor : Children(h)' = Children(h)
    BY <2>1, <2>5 DEF Children, Alive, At
  <2>7. Cardinality(Children(g)') = 0
    BY <2>2, <2>6, FS_EmptySet
  <2>8. JoinsOf(g)'
    BY <2>2, <2>5, <2>7 DEF JoinsOf, Calling, At
  <2>9. ASSUME NEW h \in Gor \ {g} PROVE JoinsOf(h)'
    BY <2>1, <2>5, <2>6, <2>9 DEF Joins, JoinsOf, Calling, At, InBlock
  <2> QED BY <2>8, <2>9 DEF Joins
<1>3. CASE CallChild(g)
  <2>1. ~broken /\ broken' = broken /\ At(g, "call") /\ gor[g].todo # << >>
        /\ gor[g].todo \in Seq(Proc) /\ gor[g].wg \in Nat
    BY <1>3, GorTyped DEF CallChild, On
  <2>2. PICK c \in Proc : c = Head(gor[g].todo)
    BY <2>1
  <2>3. PICK k \in FreeSlot(c) : gor' = [gor EXCEPT ![k] = New(g), ![g].todo = Tail(@)]
    BY <1>3, <2>2 DEF CallChild
  <2>4. k \in Gor /\ ~Alive(k) /\ k # g
    BY <2>1, <2>3 DEF FreeSlot, Gor, Alive, At
  <2>5. New(g).at = "select" /\ New(g).boss = g
    BY NewFacts
  <2>6. /\ \A h \in Gor \ {g, k} : gor'[h] = gor[h]
        /\ gor'[g].at = "call" /\ gor'[g].todo = Tail(gor[g].todo) /\ gor'[g].wg = gor[g].wg
        /\ gor'[g].blk = gor[g].blk /\ gor'[g].boss = gor[g].boss
        /\ gor'[k].at = "select" /\ gor'[k].boss = g
    BY <1>1, <2>1, <2>3, <2>4, <2>5 DEF GorType, At
  <2>7. /\ Children(g)' = Children(g) \cup {k}
        /\ \A h \in Gor \ {g} : Children(h)' = Children(h)
        /\ k \notin Children(g)
    BY <2>1, <2>4, <2>6 DEF Children, Alive, At
  <2>8. Cardinality(Children(g)') = Cardinality(Children(g)) + 1
    BY <2>7, ChildrenFinite, FS_AddElement
  <2>9. /\ gor[g].wg = Len(gor[g].todo) + Cardinality(Children(g))
        /\ gor[g].blk \in DOMAIN Body[g[1]]
        /\ Len(Tail(gor[g].todo)) = Len(gor[g].todo) - 1 /\ Len(gor[g].todo) \in Nat
        /\ Cardinality(Children(g)) \in Nat
    BY <2>1, ChildrenFinite, FS_CardinalityType DEF Joins, JoinsOf, Calling, InBlock, At
  <2>10. JoinsOf(g)'
    BY <2>6, <2>8, <2>9 DEF JoinsOf, Calling, At
  <2>11. Children(k) = {}
    BY <2>4 DEF Joins, JoinsOf, Calling, Alive, At
  <2>12. JoinsOf(k)'
    BY <2>4, <2>6, <2>7, <2>11 DEF JoinsOf, Calling, InBlock, At
  <2>13. ASSUME NEW h \in Gor \ {g, k} PROVE JoinsOf(h)'
    BY <2>1, <2>6, <2>7, <2>13 DEF Joins, JoinsOf, Calling, At, InBlock
  <2> QED BY <2>10, <2>12, <2>13 DEF Joins
<1>4. CASE CallWait(g)
  <2>1. ~broken /\ At(g, "call") /\ gor[g].todo = << >> /\ gor' = [gor EXCEPT ![g].at = "wait"]
    BY <1>4 DEF CallWait, On, Move
  <2>2. /\ \A h \in Gor \ {g} : gor'[h] = gor[h]
        /\ gor'[g].at = "wait" /\ gor'[g].todo = gor[g].todo /\ gor'[g].wg = gor[g].wg
        /\ gor'[g].blk = gor[g].blk /\ gor'[g].boss = gor[g].boss
    BY <1>1, <2>1 DEF GorType
  <2>3. \A h \in Gor : Children(h)' = Children(h)
    BY <2>1, <2>2 DEF Children, Alive, At
  <2>4. ASSUME NEW h \in Gor PROVE JoinsOf(h)'
    BY <2>1, <2>2, <2>3, <2>4 DEF Joins, JoinsOf, Calling, At, InBlock
  <2> QED BY <2>4 DEF Joins
<1> QED BY <1>2, <1>3, <1>4

\* wg.Wait: when the count is down to zero, all children have ended.
LEMMA Waited ==
  ASSUME TypeOK, Joins, NEW g \in Gor, CallReturn(g)
  PROVE  Children(g) = {}
<1>1. At(g, "wait") /\ gor[g].wg = 0
  BY DEF CallReturn, On
<1>2. gor[g].todo = << >> /\ gor[g].wg = Len(gor[g].todo) + Cardinality(Children(g))
  BY <1>1 DEF Joins, JoinsOf, Calling, At
<1>3. Cardinality(Children(g)) = 0
  BY <1>1, <1>2, ChildrenFinite, FS_CardinalityType
<1> QED BY <1>3, ChildrenFinite, FS_EmptySet

\* Steps that take a goroutine from one place outside calls to another,
Moves(g) ==
  /\ Alive(g) /\ Alive(g)' /\ (Calling(g) => Children(g) = {}) /\ ~Calling(g)'
  /\ \A h \in Gor \ {g} : gor'[h] = gor[h]
  /\ gor'[g].boss = gor[g].boss
  /\ InBlock(g)' => broken' \/ gor'[g].blk \in DOMAIN Body[g[1]]
  /\ broken => broken'

\* and to its end.
Ends(g) ==
  Alive(g) /\ ~Calling(g) /\ broken' = broken /\ \E s \in BOOLEAN : Exit(g, s)

\* A step of a goroutine is a step of a call, a move outside calls, or the end.
LEMMA StepKinds ==
  ASSUME TypeOK, Joins, NEW g \in Gor, Step(g)
  PROVE  Moves(g) \/ Ends(g) \/ Call(g) \/ CallChild(g) \/ CallWait(g)
<1>1. gor \in [Gor -> GorType] /\ gor[g] \in GorType /\ g[1] \in Proc
  BY TypeParts, GorFinite
<1>2. /\ InBlock(g) => broken \/ gor[g].blk \in DOMAIN Body[g[1]]
      /\ ~Calling(g) => Children(g) = {}
  BY DEF Joins, JoinsOf
<1>3. CASE Call(g) \/ CallChild(g) \/ CallWait(g)
  BY <1>3
<1>4. CASE Leave(g) \/ EofSend(g) \/ ProcEnd(g)
  BY <1>4 DEF Ends, Leave, EofSend, ProcEnd, On, At, Alive, Calling
<1>5. CASE TakeRun(g)
  BY <1>1, <1>2, <1>5 DEF Moves, TakeRun, On, At, Alive, Calling, InBlock, GorType, Places
<1>6. CASE RelayRun(g)
  BY <1>1, <1>2, <1>6 DEF Moves, RelayRun, Move, On, At, Alive, Calling, InBlock, GorType,
         Places
<1>7. CASE TakeClose(g)
  BY <1>1, <1>2, <1>7 DEF Moves, TakeClose, Move, On, At, Alive, Calling, InBlock,
         GorType, Places
<1>8. CASE Poll(g)
  BY <1>1, <1>2, <1>8 DEF Moves, Poll, Move, On, At, Alive, Calling, InBlock, GorType, Places
<1>9. CASE Acquire(g)
  BY <1>1, <1>2, <1>9 DEF Moves, Acquire, On, At, Alive, Calling, InBlock, GorType, Places
<1>10. CASE Plain(g)
  BY <1>1, <1>2, <1>10 DEF Moves, Plain, Finish, Unlock, On, At, Alive, Calling, InBlock,
         GorType, Places
<1>11. CASE SemPass(g)
  BY <1>1, <1>2, <1>11 DEF Moves, SemPass, Finish, Unlock, On, At, Alive, Calling,
         InBlock, GorType, Places
<1>12. CASE SemWait(g)
  BY <1>1, <1>2, <1>12 DEF Moves, SemWait, Move, Unlock, On, At, Alive, Calling, InBlock,
         GorType, Places
<1>13. CASE SemTimeout(g)
  BY <1>1, <1>2, <1>13 DEF Moves, SemTimeout, Move, On, At, Alive, Calling, InBlock,
         GorType, Places
<1>14. CASE SemClose(g)
  BY <1>1, <1>2, <1>14 DEF Moves, SemClose, Move, On, At, Alive, Calling, InBlock,
         GorType, Places
<1>15. CASE SemRelay(g)
  BY <1>1, <1>2, <1>15 DEF Moves, SemRelay, Move, On, At, Alive, Calling, InBlock,
         GorType, Places
<1>16. CASE CallReturn(g)
  BY <1>1, <1>2, <1>16, Waited DEF Moves, CallReturn, Move, On, At, Alive, Calling,
         InBlock, GorType, Places
<1>17. CASE CallEnd(g)
  BY <1>1, <1>2, <1>17 DEF Moves, CallEnd, On, At, Alive, Calling, InBlock, GorType, Places
<1>18. CASE Update(g)
  BY <1>1, <1>2, <1>18 DEF Moves, Update, Move, On, At, Alive, Calling, InBlock, GorType, Places
<1>19. CASE Send(g)
  BY <1>1, <1>2, <1>19 DEF Moves, Send, Move, On, At, Alive, Calling, InBlock, GorType, Places
<1>20. CASE Eof(g)
  BY <1>1, <1>2, <1>20 DEF Moves, Eof, Move, On, At, Alive, Calling, InBlock, GorType, Places
<1> QED BY <1>3, <1>4, <1>5, <1>6, <1>7, <1>8, <1>9, <1>10, <1>11, <1>12, <1>13, <1>14,
        <1>15, <1>16, <1>17, <1>18, <1>19, <1>20 DEF Step

\* The count of each call is right after every step of a goroutine.
LEMMA JoinsStep ==
  ASSUME TypeOK, TypeOK', Joins, NEW g \in Gor, Step(g)
  PROVE  Joins'
<1>1. CASE Moves(g)
  BY <1>1, JoinsMove DEF Moves
<1>2. CASE Ends(g)
  BY <1>2, JoinsExit DEF Ends
<1>3. CASE Call(g) \/ CallChild(g) \/ CallWait(g)
  BY <1>3, JoinsCall
<1> QED BY <1>1, <1>2, <1>3, StepKinds

\* And after every step of the command loop.
LEMMA JoinsLoop ==
  ASSUME TypeOK, TypeOK', Joins, Proceed \/ Command
  PROVE  Joins'
<1>1. gor \in [Gor -> GorType] /\ Root \in Proc
  BY TypeParts, BodyAssumption
<1>2. CASE RunMain \/ StepBlock
  <2> DEFINE Started(h, r) ==
               /\ ~Alive(h) /\ h[1] = Root /\ gor' = [gor EXCEPT ![h] = r]
               /\ r.boss = NoGor /\ r.at \notin {"none", "call", "wait"}
               /\ r.at \in {"block", "sem", "semrelay"} => broken' \/ r.blk \in DOMAIN Body[Root]
               /\ broken => broken'
  <2>0. PICK h \in Gor : \E r : Started(h, r)
    <3>1. CASE RunMain
      <4>1. PICK h \in FreeSlot(Root) : gor' = [gor EXCEPT ![h] = New(NoGor)]
        BY <3>1 DEF RunMain
      <4>2. h \in Gor /\ ~Alive(h) /\ h[1] = Root /\ broken' = broken
        BY <1>1, <3>1, <4>1 DEF FreeSlot, Gor, RunMain
      <4> QED BY <4>1, <4>2, NewFacts
    <3>2. CASE StepBlock
      <4> DEFINE r == [New(NoGor) EXCEPT !.at = "block", !.dir = rev, !.blk = BlockNo(Root, rev)]
      <4>1. PICK h \in FreeSlot(Root) : gor' = [gor EXCEPT ![h] = r]
        BY <3>2 DEF StepBlock
      <4>2. h \in Gor /\ ~Alive(h) /\ h[1] = Root
        BY <1>1, <4>1 DEF FreeSlot, Gor
      <4>3. r.at = "block" /\ r.boss = NoGor /\ r.blk = BlockNo(Root, rev)
        BY <4>1 DEF New
      <4>4. /\ broken => broken'
            /\ broken' \/ BlockNo(Root, rev) \in DOMAIN Body[Root]
        BY <3>2 DEF StepBlock
      <4> QED BY <4>1, <4>2, <4>3, <4>4
    <3> QED BY <1>2, <3>1, <3>2
  <2>1. PICK r : Started(h, r)
    BY <2>0
  <2>2. /\ Alive(h)' /\ ~Calling(h)' /\ gor'[h].boss = NoGor
        /\ \A k \in Gor \ {h} : gor'[k] = gor[k]
        /\ InBlock(h)' => broken' \/ gor'[h].blk \in DOMAIN Body[h[1]]
    BY <1>1, <2>1 DEF Alive, At, Calling, InBlock
  <2> QED BY <2>1, <2>2, JoinsNew
<1>3. CASE UNCHANGED <<gor, broken>>
  <2>1. \A h \in Gor : Children(h)' = Children(h)
    BY <1>3 DEF Children, Alive, At
  <2> QED BY <1>3, <2>1 DEF Joins, JoinsOf, Calling, InBlock, At
<1> QED BY <1>2, <1>3 DEF Proceed, Command, GetPid, Closed, ClosedRelay, SuspendEver,
        SuspendSend, RunEver, RunSend, EnterEver, Suspend, Direction, Run, Enter

\* At the start the types are right and nobody calls.
LEMMA InitJoins == Init => TypeOK /\ Joins
<1> SUFFICES ASSUME Init PROVE TypeOK /\ Joins
  OBVIOUS
<1>1. Cap \in Nat \ {0} /\ MaxRuns \in Nat \ {0} /\ MaxGor \in Nat \ {0} /\ Root \in Proc
  BY BoundAssumption, BodyAssumption
<1>2. New(NoGor) \in GorType /\ Dead \in GorType /\ New(NoGor).at = "select" /\ Dead.at = "none"
      /\ New(NoGor).boss = NoGor
  BY NewFacts
<1>3. gor \in [Gor -> GorType]
  BY <1>2 DEF Init
<1>4. Rest
  <2>1. /\ head \in [Proc -> Int] /\ pc \in [Proc -> Int] /\ sem \in [Sem -> {0, 1}]
        /\ runever \in Seq(BOOLEAN) /\ Len(runever) = 1
    BY DEF Init
  <2>2. /\ running \in BOOLEAN /\ rev \in BOOLEAN /\ exmut \in BOOLEAN /\ broken \in BOOLEAN
        /\ ended \in BOOLEAN
    BY ZenonT(30) DEF Init
  <2>3. /\ runclose \in 0 .. Cap /\ dagupdate \in 0 .. Cap
        /\ newproc \in 0 .. Cap /\ termproc \in 0 .. Cap
        /\ runs \in 1 .. MaxRuns /\ dbg = "select"
    BY <1>1 DEF Init
  <2> QED BY <1>1, <2>1, <2>2, <2>3 DEF Rest
<1>5. TypeOK
  BY <1>3, <1>4, TypeParts
<1>6. ASSUME NEW g \in Gor PROVE ~Calling(g) /\ ~InBlock(g) /\ ~At(g, "wait") /\ Children(g) = {}
  BY <1>2, <1>6, NoGorAssumption DEF Init, Calling, InBlock, At, Children, Alive
<1> QED BY <1>5, <1>6 DEF Joins, JoinsOf

\* Types are right, channels never hold more than their capacity, and wg never
\* goes below zero, however the user interrupts and starts runs.
THEOREM TypeCorrect == Spec => [](TypeOK /\ Joins)
<1>1. TypeOK /\ Joins /\ [Next]_vars => (TypeOK /\ Joins)'
  <2> SUFFICES ASSUME TypeOK, Joins, [Next]_vars PROVE TypeOK' /\ Joins'
    OBVIOUS
  <2>1. CASE UNCHANGED vars
    <3>1. TypeOK'
      BY <2>1 DEF TypeOK, vars, loop, chans, procs
    <3>2. \A h \in Gor : Children(h)' = Children(h)
      BY <2>1 DEF Children, Alive, At, vars
    <3>3. Joins'
      BY <2>1, <3>2 DEF Joins, JoinsOf, Calling, InBlock, At, vars
    <3> QED BY <3>1, <3>3
  <2>2. CASE \E g \in Gor : Step(g)
    BY <2>2, StepType, JoinsStep
  <2>3. CASE Proceed \/ Command
    BY <2>3, LoopType, JoinsLoop
  <2> QED BY <2>1, <2>2, <2>3 DEF Next
<1> QED BY <1>1, InitJoins, PTL DEF Spec

-----------------------------------------------------------------------------
(* Broadcasts *)

\* A step of g leaves the other goroutines where they are.
LEMMA Others ==
  ASSUME TypeOK, Joins, NEW g \in Gor, Step(g), NEW h \in Gor \ {g}, Alive(h)
  PROVE  /\ Alive(h)' /\ gor'[h].at = gor[h].at /\ gor'[h].dir = gor[h].dir
         /\ gor'[h].boss = gor[h].boss /\ gor'[h].blk = gor[h].blk /\ gor'[h].todo = gor[h].todo
         /\ gor'[h].ret = gor[h].ret
<1>1. gor \in [Gor -> GorType]
  BY TypeParts
<1>2. CASE \E s \in BOOLEAN : Exit(g, s)
  <2>1. CASE gor[g].boss = NoGor
    BY <1>1, <1>2, <2>1 DEF Exit, Alive, At
  <2>2. CASE gor[g].boss # NoGor
    <3>1. PICK b \in Gor, s \in BOOLEAN :
            gor' = [[gor EXCEPT ![g] = Dead] EXCEPT ![b].wg = @ - 1, ![b].susp = @ \/ s]
      BY <1>1, <1>2, <2>2, GorTyped DEF Exit
    <3>2. gor[h] \in GorType
      BY <1>1
    <3> QED BY <1>1, <3>1, <3>2 DEF Alive, At, GorType
  <2> QED BY <2>1, <2>2
<1>3. CASE CallChild(g)
  <2>1. PICK k \in FreeSlot(Head(gor[g].todo)) : gor' = [gor EXCEPT ![k] = New(g), ![g].todo = Tail(@)]
    BY <1>3 DEF CallChild
  <2>2. k # h
    BY <2>1 DEF FreeSlot
  <2> QED BY <1>1, <2>1, <2>2 DEF Alive, At
<1>4. CASE gor'[h] = gor[h]
  BY <1>4 DEF Alive, At
<1>5. (\E s \in BOOLEAN : Exit(g, s)) \/ CallChild(g) \/ gor'[h] = gor[h]
  <2>1. CASE TakeRun(g) \/ RelayRun(g) \/ TakeClose(g) \/ Poll(g) \/ Acquire(g)
               \/ Plain(g) \/ SemPass(g) \/ SemWait(g) \/ SemTimeout(g)
    BY <1>1, <2>1 DEF TakeRun, RelayRun, TakeClose, Poll, Acquire, Plain, SemPass,
           SemWait, SemTimeout, Move, Finish
  <2>2. CASE SemClose(g) \/ SemRelay(g) \/ Call(g) \/ CallWait(g) \/ CallReturn(g)
               \/ CallEnd(g) \/ Update(g) \/ Send(g) \/ Eof(g)
    BY <1>1, <2>2 DEF SemClose, SemRelay, Call, CallWait, CallReturn, CallEnd, Update,
           Send, Eof, Move, Finish
  <2>3. CASE Leave(g) \/ EofSend(g) \/ ProcEnd(g)
    BY <2>3 DEF Leave, EofSend, ProcEnd
  <2> QED BY <2>1, <2>2, <2>3 DEF Step
<1> QED BY <1>2, <1>3, <1>4, <1>5

\* The command loop moves no goroutine that runs.
LEMMA OthersLoop ==
  ASSUME TypeOK, Proceed \/ Command, NEW h \in Gor, Alive(h)
  PROVE  gor'[h] = gor[h]
<1>1. CASE RunMain \/ StepBlock
  <2>1. PICK k \in FreeSlot(Root) : \E r : gor' = [gor EXCEPT ![k] = r]
    BY <1>1 DEF RunMain, StepBlock
  <2>2. k # h
    BY <2>1 DEF FreeSlot
  <2> QED BY <2>1, <2>2, TypeParts
<1>2. CASE UNCHANGED gor
  BY <1>2
<1> QED BY <1>1, <1>2 DEF Proceed, Command, GetPid, Closed, ClosedRelay, SuspendEver,
        SuspendSend, RunEver, RunSend, EnterEver, Suspend, Direction, Run, Enter

\* Who holds a token puts it back: the close token is never lost.
LEMMA CloseStep ==
  ASSUME TypeOK, Joins, CloseLasts, NEW g \in Gor, Step(g)
  PROVE  CloseLasts'
<1>1. gor \in [Gor -> GorType] /\ gor[g] \in GorType /\ runclose \in Nat
  BY TypeParts DEF Rest
<1>2. dbg' = dbg
  BY DEF Step, TakeRun, RelayRun, TakeClose, Leave, Poll, Acquire, Plain, SemPass,
         SemWait, SemTimeout, SemClose, SemRelay, Call, CallChild, CallWait, CallReturn,
         CallEnd, Update, Send, Eof, EofSend, ProcEnd, loop
<1>3. CASE TakeClose(g) \/ SemClose(g) \/ Eof(g)
  <2>1. gor'[g].at \in {"leave", "semrelay", "close"}
    BY <1>1, <1>3 DEF TakeClose, SemClose, Eof, Move, GorType
  <2> QED BY <2>1 DEF CloseLasts
<1>4. CASE Leave(g) \/ SemRelay(g) \/ EofSend(g)
  <2>1. runclose' = runclose + 1
    BY <1>4 DEF Leave, SemRelay, EofSend
  <2>2. runclose' > 0
    BY <1>1, <2>1
  <2> QED BY <2>2 DEF CloseLasts
<1>5. CASE /\ UNCHANGED <<runclose, ended>>
           /\ gor[g].at \notin {"leave", "semrelay", "close"}
  <2>1. ASSUME NEW h \in Gor, gor[h].at \in {"leave", "semrelay", "close"}
        PROVE  gor'[h].at = gor[h].at
    BY <1>5, <2>1, Others DEF Alive, At
  <2> QED BY <1>2, <1>5, <2>1 DEF CloseLasts
<1>6. \/ TakeClose(g) \/ SemClose(g) \/ Eof(g) \/ Leave(g) \/ SemRelay(g) \/ EofSend(g)
      \/ /\ UNCHANGED <<runclose, ended>>
         /\ gor[g].at \notin {"leave", "semrelay", "close"}
  BY DEF Step, TakeRun, RelayRun, Poll, Acquire, Plain, SemPass, SemWait, SemTimeout,
         Call, CallChild, CallWait, CallReturn, CallEnd, Update, Send, ProcEnd, On, At,
         chans
<1> QED BY <1>3, <1>4, <1>5, <1>6

\* Nor by the command loop, until it starts the next run.
LEMMA CloseLoop ==
  ASSUME TypeOK, Joins, CloseLasts, Proceed \/ Command
  PROVE  CloseLasts'
<1>1. runclose \in Nat
  BY TypeParts DEF Rest
<1>2. ASSUME NEW h \in Gor, gor[h].at \in {"leave", "semrelay", "close"}
      PROVE  gor'[h].at = gor[h].at
  BY <1>2, OthersLoop DEF Alive, At
<1>3. CASE Closed \/ Suspend
  BY <1>3 DEF CloseLasts, Closed, Suspend
<1>4. CASE ClosedRelay \/ SuspendSend
  <2>1. runclose' > 0
    BY <1>1, <1>4 DEF ClosedRelay, SuspendSend
  <2> QED BY <2>1 DEF CloseLasts
<1>5. CASE Run \/ Enter
  BY <1>5 DEF CloseLasts, Run, Enter
<1>6. CASE SuspendEver
  BY <1>6 DEF CloseLasts, SuspendEver
<1>7. CASE /\ UNCHANGED <<runclose, ended>>
           /\ dbg \notin {"closed", "suspend", "suspended"}
  BY <1>2, <1>7 DEF CloseLasts
<1> QED BY <1>3, <1>4, <1>5, <1>6, <1>7 DEF Proceed, Command, GetPid, RunEver, RunSend,
        RunMain, EnterEver, StepBlock, Direction, LoopAt, loop, chans

\* Once a run is closed, by main or by the user, the token that says so stays until
\* the next run: everybody will see it (runclose, pc.go:94 and 126).
THEOREM CloseIsKept == Spec => []CloseLasts
<1>1. Init => CloseLasts
  BY DEF Init, CloseLasts
<1>2. TypeOK /\ Joins /\ CloseLasts /\ [Next]_vars => CloseLasts'
  <2> SUFFICES ASSUME TypeOK, Joins, CloseLasts, [Next]_vars PROVE CloseLasts'
    OBVIOUS
  <2>1. CASE UNCHANGED vars
    BY <2>1 DEF CloseLasts, vars, loop, chans
  <2> QED BY <2>1, CloseStep, CloseLoop DEF Next
<1> QED BY <1>1, <1>2, TypeCorrect, PTL DEF Spec

\* Between a command and the start of the goroutines the loop is not running.
Commanded == dbg \in {"run", "ever", "enter", "step", "stepping"} => ~running

\* The token of the direction is put back too, and a command only starts one
\* while no run is going on.
LEMMA DirectionStep ==
  ASSUME TypeOK, Joins, Commanded, DirectionLasts, [Next]_vars
  PROVE  Commanded' /\ DirectionLasts'
<1>1. gor \in [Gor -> GorType] /\ runever \in Seq(BOOLEAN) /\ running \in BOOLEAN
  BY TypeParts DEF Rest
<1>2. ASSUME NEW g \in Gor, Step(g) PROVE Commanded' /\ DirectionLasts'
  <2>1. UNCHANGED <<dbg, running>> /\ (ended' = ended \/ ended' = TRUE)
    BY <1>2 DEF Step, TakeRun, RelayRun, TakeClose, Leave, Poll, Acquire, Plain, SemPass,
           SemWait, SemTimeout, SemClose, SemRelay, Call, CallChild, CallWait, CallReturn,
           CallEnd, Update, Send, Eof, EofSend, ProcEnd, loop
  <2>2. CASE TakeRun(g)
    BY <1>1, <2>1, <2>2 DEF Commanded, DirectionLasts, TakeRun, At, GorType
  <2>3. CASE RelayRun(g)
    BY <1>1, <2>1, <2>3 DEF Commanded, DirectionLasts, RelayRun
  <2>4. CASE runever' = runever /\ ~At(g, "relay")
    <3>1. ASSUME NEW h \in Gor, At(h, "relay") PROVE At(h, "relay")'
      BY <1>2, <2>4, <3>1, Others DEF Alive, At
    <3> QED BY <2>1, <2>4, <3>1 DEF Commanded, DirectionLasts
  <2>5. TakeRun(g) \/ RelayRun(g) \/ (runever' = runever /\ ~At(g, "relay"))
    BY <1>2 DEF Step, TakeClose, Leave, Poll, Acquire, Plain, SemPass, SemWait,
           SemTimeout, SemClose, SemRelay, Call, CallChild, CallWait, CallReturn, CallEnd,
           Update, Send, Eof, EofSend, ProcEnd, On, At, chans
  <2> QED BY <2>2, <2>3, <2>4, <2>5
<1>3. ASSUME Proceed \/ Command PROVE Commanded' /\ DirectionLasts'
  <2>1. ASSUME NEW h \in Gor, At(h, "relay") PROVE At(h, "relay")'
    BY <1>3, <2>1, OthersLoop DEF Alive, At
  <2>2. CASE RunSend
    BY <1>1, <2>2 DEF Commanded, DirectionLasts, RunSend
  <2>3. CASE RunEver \/ EnterEver
    BY <2>3 DEF Commanded, DirectionLasts, RunEver, EnterEver, LoopAt
  <2>4. CASE Closed \/ ClosedRelay \/ Suspend \/ SuspendEver \/ SuspendSend
    BY <2>1, <2>4 DEF Commanded, DirectionLasts, Closed, ClosedRelay, Suspend,
           SuspendEver, SuspendSend, LoopAt
  <2>5. CASE GetPid \/ Direction \/ Run \/ Enter \/ RunMain \/ StepBlock
    BY <2>1, <2>5 DEF Commanded, DirectionLasts, GetPid, Direction, Run, Enter, RunMain,
           StepBlock, LoopAt, loop, chans
  <2> QED BY <1>3, <2>2, <2>3, <2>4, <2>5 DEF Proceed, Command
<1>4. CASE UNCHANGED vars
  BY <1>4 DEF Commanded, DirectionLasts, At, vars, loop, chans
<1> QED BY <1>2, <1>3, <1>4 DEF Next

\* The direction of a run stays in runever until the run is closed: no goroutine
\* that starts late misses it (runever, pc.go:89).
THEOREM DirectionIsKept == Spec => []DirectionLasts
<1>1. Init => Commanded /\ DirectionLasts
  BY DEF Init, Commanded, DirectionLasts
<1> QED BY <1>1, DirectionStep, TypeCorrect, PTL DEF Spec

-----------------------------------------------------------------------------
(* Runs that the user lets finish *)

Among(c, K) == \E i \in DOMAIN K : K[i] = c

\* Goroutines are started along the call tree, one for each process.
InTree ==
  /\ OneGoroutine
  /\ \A g \in Gor : Alive(g) /\ gor[g].boss = NoGor => g[1] = Root
  /\ \A g \in Gor : Calling(g) =>
       /\ Instruction(g).kind = "call"
       /\ \A i, j \in DOMAIN gor[g].todo : gor[g].todo[i] = gor[g].todo[j] => i = j
       /\ \A i \in DOMAIN gor[g].todo : Among(gor[g].todo[i], Instruction(g).kids)
       /\ \A h \in Children(g) : Among(h[1], Instruction(g).kids) /\ ~Among(h[1], gor[g].todo)

\* A goroutine serves a call of the process that calls its own.
LEMMA BossIsCaller ==
  ASSUME TypeOK, Joins, InTree, ~broken, NEW h \in Gor, Alive(h), gor[h].boss # NoGor
  PROVE  /\ gor[h].boss \in Gor /\ Calling(gor[h].boss) /\ h \in Children(gor[h].boss)
         /\ gor[h].boss[1] \in CalledBy(h[1])
<1>1. PICK b \in Gor : b = gor[h].boss /\ Calling(b) /\ h \in Children(b)
  BY BossCalls
<1>2. b[1] \in Proc /\ gor[b].blk \in DOMAIN Body[b[1]]
  BY <1>1, GorFinite DEF Joins, JoinsOf, InBlock, Calling
<1>3. Instruction(b).kind = "call" /\ Among(h[1], Instruction(b).kids)
  BY <1>1 DEF InTree
<1> QED BY <1>1, <1>2, <1>3 DEF CalledBy, Instruction, Among

\* When main is in no call, nobody else runs.
LEMMA MainIsLast ==
  ASSUME TypeOK, Joins, InTree, ~broken, NEW g \in Gor, Alive(g), g[1] = Root, ~Calling(g),
         NEW h \in Gor, Alive(h)
  PROVE  h = g
<1> DEFINE S == {p \in Proc \ {Root} : ~Idle(p)}
<1>1. SUFFICES ASSUME h # g PROVE FALSE
  OBVIOUS
<1>2. h[1] # Root
  BY <1>1 DEF InTree, OneGoroutine
<1>3. h[1] \in S
  BY <1>2, GorFinite DEF Idle
<1>4. PICK c \in S : CalledBy(c) \cap S = {}
  <2>1. S \in SUBSET Proc /\ S # {}
    BY <1>3
  <2> QED BY <2>1, TreeAssumption
<1>5. PICK k \in Gor : k[1] = c /\ Alive(k)
  BY <1>4 DEF Idle
<1>6. gor[k].boss # NoGor
  BY <1>4, <1>5 DEF InTree
<1>7. PICK b \in Gor : b = gor[k].boss /\ Calling(b) /\ b[1] \in CalledBy(c)
  BY <1>5, <1>6, BossIsCaller
<1>8. Alive(b) /\ b[1] \in Proc
  BY <1>7, GorFinite DEF Calling, Alive, At
<1>9. b[1] = Root
  BY <1>4, <1>7, <1>8 DEF Idle
<1>10. b = g
  BY <1>8, <1>9 DEF InTree, OneGoroutine
<1> QED BY <1>7, <1>10

\* Where no goroutine starts and no call begins, the tree only shrinks.
LEMMA TreeKept ==
  ASSUME InTree,
         \A h \in Gor : Alive(h)' => Alive(h) /\ gor'[h].boss = gor[h].boss,
         \A h \in Gor : Calling(h)' =>
           Calling(h) /\ gor'[h].todo = gor[h].todo /\ gor'[h].blk = gor[h].blk
  PROVE  InTree'
<1>1. OneGoroutine'
  BY DEF InTree, OneGoroutine
<1>2. \A g \in Gor : Alive(g)' /\ gor'[g].boss = NoGor => g[1] = Root
  BY DEF InTree
<1>3. ASSUME NEW g \in Gor, Calling(g)'
      PROVE  /\ Instruction(g)' = Instruction(g) /\ gor'[g].todo = gor[g].todo /\ Calling(g)
             /\ Children(g)' \subseteq Children(g)
  BY <1>3 DEF Instruction, Children
<1>4. ASSUME NEW g \in Gor, Calling(g)'
      PROVE  /\ Instruction(g)'.kind = "call"
             /\ \A i, j \in DOMAIN gor'[g].todo : gor'[g].todo[i] = gor'[g].todo[j] => i = j
             /\ \A i \in DOMAIN gor'[g].todo : Among(gor'[g].todo[i], Instruction(g)'.kids)
             /\ \A h \in Children(g)' : /\ Among(h[1], Instruction(g)'.kids)
                                        /\ ~Among(h[1], gor'[g].todo)
  <2>1. Instruction(g)' = Instruction(g) /\ gor'[g].todo = gor[g].todo /\ Calling(g)
        /\ Children(g)' \subseteq Children(g)
    BY <1>3, <1>4
  <2> QED BY <2>1 DEF InTree
<1> QED BY <1>1, <1>2, <1>4 DEF InTree

\* A call begins.
LEMMA TreeCall ==
  ASSUME TypeOK, Joins, InTree, NEW g \in Gor, Call(g)
  PROVE  InTree'
<1>1. gor \in [Gor -> GorType] /\ g[1] \in Proc
  BY TypeParts, GorFinite
<1>2. ~broken /\ At(g, "block") /\ Instruction(g).kind = "call"
  BY DEF Call, On
<1>3. gor[g].blk \in DOMAIN Body[g[1]] /\ Children(g) = {}
  BY <1>2 DEF Joins, JoinsOf, InBlock, Calling, At
<1>4. PICK K : K = Instruction(g).kids
  OBVIOUS
<1>5. gor' = [gor EXCEPT ![g].at = "call", ![g].todo = K, ![g].wg = Len(K), ![g].susp = FALSE]
  BY <1>4 DEF Call
<1>6. /\ \A h \in Gor \ {g} : gor'[h] = gor[h]
      /\ gor'[g].at = "call" /\ gor'[g].todo = K
      /\ gor'[g].blk = gor[g].blk /\ gor'[g].boss = gor[g].boss
  BY <1>1, <1>5 DEF GorType
<1>7. \A h \in Gor : Alive(h)' = Alive(h) /\ gor'[h].boss = gor[h].boss /\ Children(h)' = Children(h)
  BY <1>2, <1>6 DEF Children, Alive, At
<1>8. Instruction(g)' = Instruction(g)
  BY <1>6 DEF Instruction
<1>9. \A i, j \in DOMAIN K : K[i] = K[j] => i = j
  BY <1>1, <1>3, <1>4, TreeAssumption DEF Instruction
<1>10. ASSUME NEW h \in Gor, Calling(h)'
       PROVE  /\ Instruction(h)'.kind = "call"
              /\ \A i, j \in DOMAIN gor'[h].todo : gor'[h].todo[i] = gor'[h].todo[j] => i = j
              /\ \A i \in DOMAIN gor'[h].todo : Among(gor'[h].todo[i], Instruction(h)'.kids)
              /\ \A k \in Children(h)' : /\ Among(k[1], Instruction(h)'.kids)
                                         /\ ~Among(k[1], gor'[h].todo)
  <2>1. CASE h = g
    BY <1>2, <1>3, <1>4, <1>6, <1>7, <1>8, <1>9, <2>1 DEF Among
  <2>2. CASE h # g
    <3>1. Instruction(h)' = Instruction(h) /\ gor'[h].todo = gor[h].todo /\ Calling(h)
      BY <1>6, <1>10, <2>2 DEF Instruction, Calling
    <3> QED BY <1>7, <3>1 DEF InTree
  <2> QED BY <2>1, <2>2
<1> QED BY <1>7, <1>10 DEF InTree, OneGoroutine

\* A child starts: nobody else runs its process, since only this call could have
\* started it, and it has not yet.
LEMMA TreeCallChild ==
  ASSUME TypeOK, Joins, InTree, NEW g \in Gor, CallChild(g)
  PROVE  InTree'
<1>1. gor \in [Gor -> GorType] /\ g[1] \in Proc /\ gor[g].todo \in Seq(Proc)
  BY TypeParts, GorFinite, GorTyped
<1>2. ~broken /\ At(g, "call") /\ Calling(g) /\ gor[g].todo # << >>
  BY DEF CallChild, On, Calling, At
<1>3. PICK c \in Proc : c = Head(gor[g].todo) /\ c = gor[g].todo[1] /\ 1 \in DOMAIN gor[g].todo
  BY <1>1, <1>2
<1>4. PICK k \in FreeSlot(c) : gor' = [gor EXCEPT ![k] = New(g), ![g].todo = Tail(@)]
  BY <1>3 DEF CallChild
<1>5. k \in Gor /\ ~Alive(k) /\ k # g /\ k[1] = c
  BY <1>2, <1>4 DEF FreeSlot, Gor, Alive, At
<1>6. New(g).at = "select" /\ New(g).boss = g
  BY NewFacts
<1>7. /\ \A h \in Gor \ {g, k} : gor'[h] = gor[h]
      /\ gor'[g].at = "call" /\ gor'[g].todo = Tail(gor[g].todo)
      /\ gor'[g].blk = gor[g].blk /\ gor'[g].boss = gor[g].boss
      /\ gor'[k].at = "select" /\ gor'[k].boss = g
  BY <1>1, <1>2, <1>4, <1>5, <1>6 DEF GorType, At
<1>8. /\ Children(g)' = Children(g) \cup {k}
      /\ \A h \in Gor \ {g} : Children(h)' = Children(h)
  BY <1>2, <1>5, <1>7 DEF Children, Alive, At
<1>9. gor[g].blk \in DOMAIN Body[g[1]]
  BY <1>2 DEF Joins, JoinsOf, InBlock, At
<1>10. /\ Instruction(g).kind = "call"
       /\ \A i, j \in DOMAIN gor[g].todo : gor[g].todo[i] = gor[g].todo[j] => i = j
       /\ \A i \in DOMAIN gor[g].todo : Among(gor[g].todo[i], Instruction(g).kids)
       /\ \A h \in Children(g) : Among(h[1], Instruction(g).kids) /\ ~Among(h[1], gor[g].todo)
  BY <1>2 DEF InTree
<1>11. g[1] \in CalledBy(c)
  BY <1>1, <1>3, <1>9, <1>10 DEF CalledBy, Instruction, Among
<1>12. c # Root
  BY <1>11, TreeAssumption
<1>13. Idle(c)
  <2>1. SUFFICES ASSUME NEW h \in Gor, h[1] = c, Alive(h) PROVE FALSE
    BY DEF Idle
  <2>2. gor[h].boss # NoGor
    BY <1>12, <2>1 DEF InTree
  <2>3. PICK b \in Gor : b = gor[h].boss /\ Calling(b) /\ h \in Children(b) /\ b[1] \in CalledBy(c)
    BY <1>2, <2>1, <2>2, BossIsCaller
  <2>4. b[1] = g[1]
    BY <1>11, <2>3, TreeAssumption
  <2>5. b = g
    BY <1>2, <2>3, <2>4 DEF InTree, OneGoroutine, Calling, Alive, At
  <2> QED BY <1>3, <1>10, <2>1, <2>3, <2>5 DEF Among
<1>14. \A h \in Gor : Alive(h)' <=> Alive(h) \/ h = k
  BY <1>2, <1>5, <1>7 DEF Alive, At
<1>15. OneGoroutine'
  BY <1>5, <1>13, <1>14 DEF InTree, OneGoroutine, Idle
<1>16. \A h \in Gor : Alive(h)' /\ gor'[h].boss = NoGor => h[1] = Root
  BY <1>5, <1>7, <1>14, NoGorAssumption DEF InTree
<1>17. PICK T \in Seq(Proc) : T = Tail(gor[g].todo)
  <2>1. PICK K \in Seq(Proc) : K = gor[g].todo /\ K # << >>
    BY <1>1, <1>2
  <2>2. Tail(K) \in Seq(Proc)
    BY <2>1
  <2> QED BY <2>1, <2>2
<1>18. DOMAIN T \subseteq Nat /\ \A i \in DOMAIN T : i + 1 \in DOMAIN gor[g].todo /\ i + 1 # 1
                                                     /\ T[i] = gor[g].todo[i + 1]
  BY <1>1, <1>2, <1>17
<1>19. /\ \A i, j \in DOMAIN T : T[i] = T[j] => i = j
       /\ \A i \in DOMAIN T : Among(T[i], Instruction(g).kids)
       /\ ~Among(c, T) /\ Among(c, Instruction(g).kids)
       /\ \A h \in Children(g) : ~Among(h[1], T)
  <2>1. ASSUME NEW i \in DOMAIN T, NEW j \in DOMAIN T, T[i] = T[j] PROVE i = j
    <3>1. i + 1 = j + 1
      BY <1>10, <1>18, <2>1
    <3> QED BY <1>18, <3>1
  <2>2. \A i \in DOMAIN T : Among(T[i], Instruction(g).kids)
    BY <1>10, <1>18
  <2>3. ~Among(c, T)
    BY <1>3, <1>10, <1>18 DEF Among
  <2>4. Among(c, Instruction(g).kids)
    BY <1>3, <1>10
  <2>5. \A h \in Children(g) : ~Among(h[1], T)
    BY <1>10, <1>18 DEF Among
  <2> QED BY <2>1, <2>2, <2>3, <2>4, <2>5
<1>20. ASSUME NEW h \in Gor, Calling(h)'
       PROVE  /\ Instruction(h)'.kind = "call"
              /\ \A i, j \in DOMAIN gor'[h].todo : gor'[h].todo[i] = gor'[h].todo[j] => i = j
              /\ \A i \in DOMAIN gor'[h].todo : Among(gor'[h].todo[i], Instruction(h)'.kids)
              /\ \A l \in Children(h)' : /\ Among(l[1], Instruction(h)'.kids)
                                         /\ ~Among(l[1], gor'[h].todo)
  <2>1. CASE h = g
    <3>1. Instruction(g)' = Instruction(g) /\ gor'[g].todo = T
      BY <1>7, <1>17 DEF Instruction
    <3> QED BY <1>5, <1>8, <1>10, <1>19, <2>1, <3>1
  <2>2. CASE h # g
    <3>1. h # k /\ Calling(h) /\ gor'[h] = gor[h]
      BY <1>7, <1>20, <2>2 DEF Calling
    <3>2. Instruction(h)' = Instruction(h) /\ gor'[h].todo = gor[h].todo
      BY <3>1 DEF Instruction
    <3> QED BY <1>8, <2>2, <3>1, <3>2 DEF InTree
  <2> QED BY <2>1, <2>2
<1> QED BY <1>15, <1>16, <1>20 DEF InTree

\* A goroutine that ends is gone, and nobody starts.
LEMMA EndsFacts ==
  ASSUME TypeOK, Joins, NEW g \in Gor, Ends(g)
  PROVE  ~Alive(g)' /\ \A h \in Gor \ {g} : Alive(h)' => Alive(h)
<1>1. gor \in [Gor -> GorType] /\ Dead.at = "none"
  BY TypeParts, NewFacts
<1>2. CASE gor[g].boss = NoGor
  BY <1>1, <1>2 DEF Ends, Exit, Alive, At
<1>3. CASE gor[g].boss # NoGor
  <2>1. PICK b \in Gor : b = gor[g].boss /\ b # g
    BY <1>3, BossCalls DEF Ends
  <2>2. PICK s \in BOOLEAN :
          gor' = [[gor EXCEPT ![g] = Dead] EXCEPT ![b].wg = @ - 1, ![b].susp = @ \/ s]
    BY <1>3, <2>1 DEF Ends, Exit
  <2> QED BY <1>1, <2>1, <2>2 DEF Alive, At, GorType
<1> QED BY <1>2, <1>3

\* The tree survives every step of a goroutine.
LEMMA TreeStep ==
  ASSUME TypeOK, Joins, InTree, NEW g \in Gor, Step(g)
  PROVE  InTree'
<1>1. CASE Moves(g)
  <2>1. \A h \in Gor : Alive(h)' => Alive(h) /\ gor'[h].boss = gor[h].boss
    BY <1>1 DEF Moves, Alive, At
  <2>2. \A h \in Gor : Calling(h)' =>
          Calling(h) /\ gor'[h].todo = gor[h].todo /\ gor'[h].blk = gor[h].blk
    BY <1>1 DEF Moves, Calling
  <2> QED BY <2>1, <2>2, TreeKept
<1>2. CASE Ends(g)
  <2>1. ~Alive(g)' /\ \A h \in Gor \ {g} : Alive(h)' => Alive(h)
    BY <1>2, EndsFacts
  <2>2. \A h \in Gor : Alive(h)' => Alive(h) /\ gor'[h].boss = gor[h].boss
    BY <2>1, Others
  <2>3. \A h \in Gor : Calling(h)' =>
          Calling(h) /\ gor'[h].todo = gor[h].todo /\ gor'[h].blk = gor[h].blk
    BY <2>1, Others DEF Calling, Alive, At
  <2> QED BY <2>2, <2>3, TreeKept
<1>3. CASE CallWait(g)
  <2>1. gor \in [Gor -> GorType] /\ At(g, "call") /\ gor' = [gor EXCEPT ![g].at = "wait"]
    BY <1>3, TypeParts DEF CallWait, On, Move
  <2>2. \A h \in Gor : Alive(h)' => Alive(h) /\ gor'[h].boss = gor[h].boss
    BY <2>1 DEF Alive, At, GorType
  <2>3. \A h \in Gor : Calling(h)' =>
          Calling(h) /\ gor'[h].todo = gor[h].todo /\ gor'[h].blk = gor[h].blk
    BY <2>1 DEF Calling, At, GorType
  <2> QED BY <2>2, <2>3, TreeKept
<1> QED BY <1>1, <1>2, <1>3, StepKinds, TreeCall, TreeCallChild

\* Whoever starts in a step of g is at its first select.
LEMMA Starters ==
  ASSUME TypeOK, Joins, NEW g \in Gor, Step(g), NEW h \in Gor \ {g}, ~Alive(h), Alive(h)'
  PROVE  At(h, "select")' /\ gor'[h].ret = "normal"
<1>1. gor \in [Gor -> GorType] /\ Alive(g)
  BY TypeParts, StepKinds DEF Moves, Ends, Call, CallChild, CallWait, On, At, Alive
<1>2. CASE Ends(g)
  BY <1>2, EndsFacts
<1>3. CASE Moves(g) \/ Call(g) \/ CallWait(g)
  BY <1>1, <1>3 DEF Moves, Call, CallWait, Move, Alive, At
<1>4. CASE CallChild(g)
  <2>1. PICK k \in FreeSlot(Head(gor[g].todo)) :
          gor' = [gor EXCEPT ![k] = New(g), ![g].todo = Tail(@)]
    BY <1>4 DEF CallChild
  <2>2. h = k
    BY <1>1, <2>1 DEF Alive, At
  <2>3. gor'[h] = New(g)
    BY <1>1, <2>1, <2>2
  <2> QED BY <2>3 DEF New, At
<1> QED BY <1>2, <1>3, <1>4, StepKinds

\* The phases of a run that the user lets finish: while goroutines run the loop
\* waits and no close token exists; main is the last to end; only then the token
\* is sent, and a new run starts after it has been taken out.
Phases ==
  /\ dbg \in {"select", "closed", "run", "ever", "main"}
  /\ (\E g \in Gor : Alive(g)) => running /\ dbg = "select" /\ ~ended
  /\ dbg \in {"run", "ever"} => ~running /\ ~ended
  /\ dbg = "main" => running /\ ~ended
  /\ dbg = "closed" => ended
  /\ dbg = "ever" => runever = << >>
  /\ FreshClose
  /\ OneDirection
  /\ \A g \in Gor :
       /\ gor[g].at \notin {"leave", "semrelay"}
       /\ Alive(g) /\ gor[g].ret = "eof" => g[1] = Root
       /\ gor[g].at \in {"eof", "close"} => g[1] = Root

\* exmut is held by the one goroutine inside executeBlock.
Inside(g) == gor[g].at \in {"block", "call"}

Locked ==
  /\ \A g, h \in Gor : Inside(g) /\ Inside(h) => g = h
  /\ \A g \in Gor : Inside(g) => exmut

\* exmut is locked on the way in and unlocked on the way out.
LEMMA LockedStep ==
  ASSUME TypeOK, Joins, Locked, NEW g \in Gor, Step(g), ~At(g, "semrelay")
  PROVE  Locked'
<1>1. gor \in [Gor -> GorType] /\ gor[g] \in GorType
  BY TypeParts
<1>2. \A h \in Gor \ {g} : Inside(h)' => Inside(h)
  <2>1. ASSUME NEW h \in Gor \ {g}, Inside(h)' PROVE Inside(h)
    <3>1. Alive(h)'
      BY <2>1 DEF Inside, Alive, At
    <3>2. Alive(h)
      BY <2>1, <3>1, Starters DEF Inside, At
    <3> QED BY <2>1, <3>2, Others DEF Inside
  <2> QED BY <2>1
<1>3. CASE Inside(g)
  <2>1. \A h \in Gor \ {g} : ~Inside(h)'
    BY <1>2, <1>3 DEF Locked
  <2>2. Inside(g)' => exmut'
    <3>1. exmut
      BY <1>3 DEF Locked
    <3>2. CASE Plain(g) \/ SemPass(g) \/ SemWait(g) \/ CallWait(g)
      BY <1>1, <3>2 DEF Plain, SemPass, SemWait, CallWait, Finish, Move, Inside, GorType
    <3>3. CASE Call(g) \/ CallChild(g)
      BY <3>1, <3>3 DEF Call, CallChild, chans
    <3> QED BY <1>3, <3>2, <3>3 DEF Step, TakeRun, RelayRun, TakeClose, Leave, Poll,
            Acquire, SemTimeout, SemClose, SemRelay, CallReturn, CallEnd, Update, Send,
            Eof, EofSend, ProcEnd, On, At, Inside
  <2> QED BY <2>1, <2>2 DEF Locked
<1>4. CASE ~Inside(g) /\ (Acquire(g) \/ SemTimeout(g))
  <2>1. ~exmut /\ exmut'
    BY <1>4 DEF Acquire, SemTimeout
  <2>2. \A h \in Gor \ {g} : ~Inside(h)'
    BY <1>2, <2>1 DEF Locked
  <2> QED BY <2>1, <2>2 DEF Locked
<1>5. CASE ~Inside(g) /\ ~Acquire(g) /\ ~SemTimeout(g)
  <2>1. exmut' = exmut /\ ~Inside(g)'
    <3>1. CASE Leave(g) \/ EofSend(g) \/ ProcEnd(g)
      <4>1. Ends(g)
        BY <3>1 DEF Ends, Leave, EofSend, ProcEnd, On, At, Alive, Calling
      <4>2. ~Inside(g)'
        BY <4>1, EndsFacts DEF Inside, Alive, At
      <4> QED BY <3>1, <4>2 DEF Leave, EofSend, ProcEnd
    <3>2. CASE TakeRun(g) \/ RelayRun(g) \/ TakeClose(g) \/ Poll(g) \/ SemClose(g)
               \/ CallReturn(g) \/ CallEnd(g) \/ Update(g) \/ Eof(g)
      BY <1>1, <3>2 DEF TakeRun, RelayRun, TakeClose, Poll, SemClose, CallReturn, CallEnd,
             Update, Eof, Move, Inside, GorType, chans
    <3>3. CASE Send(g)
      BY <1>1, <3>3 DEF Send, Move, Inside, GorType
    <3> QED BY <1>5, <3>1, <3>2, <3>3 DEF Step, Plain, SemPass, SemWait, SemRelay, Call,
            CallChild, CallWait, On, At, Inside
  <2> QED BY <1>2, <2>1 DEF Locked
<1> QED BY <1>3, <1>4, <1>5

\* A step of a goroutine stays in the phase, but for the end of main, which is the
\* end of everybody.
LEMMA PhaseStep ==
  ASSUME TypeOK, Joins, InTree, Phases, NEW g \in Gor, Step(g)
  PROVE  Phases'
<1>1. gor \in [Gor -> GorType] /\ gor[g] \in GorType /\ runever \in Seq(BOOLEAN) /\ runclose \in Nat
  BY TypeParts DEF Rest
<1>2. ~broken /\ Alive(g)
  BY DEF Step, TakeRun, RelayRun, TakeClose, Leave, Poll, Acquire, Plain, SemPass,
         SemWait, SemTimeout, SemClose, SemRelay, Call, CallChild, CallWait, CallReturn,
         CallEnd, Update, Send, Eof, EofSend, ProcEnd, On, At, Alive
<1>3. running /\ dbg = "select" /\ ~ended /\ runclose = 0
  BY <1>1, <1>2 DEF Phases, FreshClose
<1>4. UNCHANGED <<running, dbg, rev>>
  BY DEF Step, TakeRun, RelayRun, TakeClose, Leave, Poll, Acquire, Plain, SemPass,
         SemWait, SemTimeout, SemClose, SemRelay, Call, CallChild, CallWait, CallReturn,
         CallEnd, Update, Send, Eof, EofSend, ProcEnd, loop
<1>5. ~TakeClose(g) /\ ~SemClose(g) /\ ~Leave(g) /\ ~SemRelay(g)
  <2>1. ~(runclose > 0) /\ gor[g].at \notin {"leave", "semrelay"}
    BY <1>3 DEF Phases
  <2>2. ~TakeClose(g) /\ ~SemClose(g)
    BY <2>1 DEF TakeClose, SemClose
  <2>3. ~Leave(g) /\ ~SemRelay(g)
    BY <2>1 DEF Leave, SemRelay, On, At
  <2> QED BY <2>2, <2>3
<1>6. gor[g].dir = rev \/ At(g, "select")
  BY <1>2 DEF Phases, OneDirection
<1>7. \A i \in DOMAIN runever : runever[i] = rev
  BY <1>3 DEF Phases, OneDirection
<1>8. \A i \in DOMAIN runever' : runever'[i] = rev
  <2>1. CASE TakeRun(g)
    BY <1>1, <1>7, <2>1 DEF TakeRun
  <2>2. CASE RelayRun(g)
    <3>1. gor[g].dir = rev /\ runever' = Append(runever, gor[g].dir)
      BY <1>6, <2>2 DEF RelayRun, On, At
    <3> QED BY <1>1, <1>7, <3>1
  <2>3. CASE ~TakeRun(g) /\ ~RelayRun(g)
    BY <1>7, <2>3 DEF Step, TakeClose, Leave, Poll, Acquire, Plain, SemPass, SemWait,
           SemTimeout, SemClose, SemRelay, Call, CallChild, CallWait, CallReturn, CallEnd,
           Update, Send, Eof, EofSend, ProcEnd, chans
  <2> QED BY <2>1, <2>2, <2>3
<1>9. /\ Alive(g)' => gor'[g].dir = rev
      /\ Alive(g)' /\ gor'[g].ret = "eof" => g[1] = Root
      /\ gor'[g].at \in {"eof", "close"} => g[1] = Root
      /\ gor'[g].at \notin {"leave", "semrelay"}
  <2>1. Alive(g) /\ gor[g].ret = "eof" => g[1] = Root
    BY DEF Phases
  <2>2. CASE TakeRun(g)
    <3>1. Head(runever) = rev
      BY <1>1, <1>7, <2>2 DEF TakeRun
    <3> QED BY <1>1, <1>2, <2>1, <2>2, <3>1 DEF TakeRun, GorType
  <2>3. CASE Plain(g) \/ SemPass(g) \/ CallEnd(g)
    <3>1. Returns(g) = "eof" => g[1] = Root
      BY DEF Returns
    <3> QED BY <1>1, <1>6, <2>3, <3>1 DEF Plain, SemPass, CallEnd, Finish, GorType, On, At
  <2>4. CASE Ends(g)
    BY <2>4, EndsFacts DEF Alive, At
  <2>5. CASE RelayRun(g) \/ Poll(g) \/ Acquire(g) \/ SemWait(g) \/ SemTimeout(g) \/ Call(g)
             \/ CallWait(g) \/ CallReturn(g) \/ Update(g)
    BY <1>1, <1>2, <1>6, <2>1, <2>5 DEF RelayRun, Poll, Acquire, SemWait, SemTimeout,
           Call, CallWait, CallReturn, Update, Move, GorType, On, At
  <2>6. CASE CallChild(g)
    <3>1. PICK k \in FreeSlot(Head(gor[g].todo)) :
            gor' = [gor EXCEPT ![k] = New(g), ![g].todo = Tail(@)]
      BY <2>6 DEF CallChild
    <3>2. k # g
      BY <1>2, <3>1 DEF FreeSlot
    <3> QED BY <1>1, <1>2, <1>6, <2>1, <2>6, <3>1, <3>2 DEF CallChild, GorType, On, At
  <2>7. CASE Send(g)
    BY <1>1, <1>2, <1>6, <2>1, <2>7 DEF Send, Move, GorType, On, At
  <2>8. CASE Eof(g)
    <3>1. g[1] = Root
      BY <2>8 DEF Phases, Eof, On, At
    <3> QED BY <1>1, <1>2, <1>6, <2>1, <2>8, <3>1 DEF Eof, Move, GorType, On, At
  <2>9. EofSend(g) \/ ProcEnd(g) => Ends(g)
    BY DEF Ends, EofSend, ProcEnd, On, At, Alive, Calling
  <2> QED BY <1>5, <2>2, <2>3, <2>4, <2>5, <2>6, <2>7, <2>8, <2>9 DEF Step
<1>10. ASSUME NEW h \in Gor \ {g}
       PROVE  /\ Alive(h)' /\ ~At(h, "select")' => gor'[h].dir = rev
              /\ Alive(h)' /\ gor'[h].ret = "eof" => h[1] = Root
              /\ gor'[h].at \in {"eof", "close"} => h[1] = Root
              /\ gor'[h].at \notin {"leave", "semrelay"}
  <2>1. CASE Alive(h)
    <3>1. gor'[h].at = gor[h].at /\ gor'[h].dir = gor[h].dir /\ gor'[h].ret = gor[h].ret
      BY <2>1, Others
    <3> QED BY <2>1, <3>1 DEF Phases, OneDirection, At
  <2>2. CASE ~Alive(h) /\ Alive(h)'
    BY <2>2, Starters DEF At
  <2>3. CASE ~Alive(h)'
    BY <2>3 DEF Alive, At
  <2> QED BY <2>1, <2>2, <2>3
<1>11. OneDirection'
  BY <1>4, <1>8, <1>9, <1>10 DEF OneDirection
<1>12. CASE EofSend(g)
  <2>1. g[1] = Root /\ ~Calling(g) /\ Ends(g)
    BY <1>12 DEF Phases, EofSend, Ends, On, At, Alive, Calling
  <2>2. \A h \in Gor : Alive(h) => h = g
    BY <1>2, <2>1, MainIsLast
  <2>3. \A h \in Gor : ~Alive(h)'
    BY <2>1, <2>2, EndsFacts
  <2>4. ended' = TRUE
    BY <1>12 DEF EofSend
  <2> QED BY <1>3, <1>4, <1>9, <1>10, <1>11, <2>3, <2>4 DEF Phases, FreshClose
<1>13. CASE ~EofSend(g)
  <2>1. ended' = ended /\ runclose' = 0
    BY <1>3, <1>5, <1>13 DEF Step, TakeRun, RelayRun, Poll, Acquire, Plain, SemPass,
           SemWait, SemTimeout, Call, CallChild, CallWait, CallReturn, CallEnd, Update,
           Send, Eof, ProcEnd, chans
  <2> QED BY <1>3, <1>4, <1>9, <1>10, <1>11, <2>1 DEF Phases, FreshClose
<1> QED BY <1>12, <1>13

\* The loop stays in the phases, and starts main only when nobody runs.
LEMMA PhaseLoop ==
  ASSUME TypeOK, Joins, InTree, Phases, Locked, ~Suspends, ~Steps, Proceed \/ Command
  PROVE  InTree' /\ Phases' /\ Locked'
<1>1. gor \in [Gor -> GorType] /\ runever \in Seq(BOOLEAN) /\ runclose \in Nat /\ running \in BOOLEAN
      /\ rev \in BOOLEAN
  BY TypeParts DEF Rest
<1>2. CASE RunMain
  <2>1. PICK k \in FreeSlot(Root) : gor' = [gor EXCEPT ![k] = New(NoGor)]
    BY <1>2 DEF RunMain
  <2>2. k \in Gor /\ k[1] = Root
    BY <2>1, BodyAssumption DEF FreeSlot, Gor
  <2>3. dbg = "main" /\ dbg' = "select" /\ UNCHANGED <<running, rev, runever, runclose, exmut, ended>>
    BY <1>2 DEF RunMain, LoopAt
  <2>4. \A h \in Gor : ~Alive(h)
    BY <2>3 DEF Phases
  <2>5. \A h \in Gor \ {k} : gor'[h] = gor[h] /\ gor[h].at = "none"
    BY <1>1, <2>1, <2>4 DEF Alive, At
  <2>6. gor'[k].at = "select" /\ gor'[k].boss = NoGor /\ gor'[k].ret = "normal"
    <3>1. gor'[k] = New(NoGor)
      BY <1>1, <2>1, <2>2
    <3> QED BY <3>1 DEF New
  <2>7. InTree'
    BY <2>2, <2>5, <2>6 DEF InTree, OneGoroutine, Alive, At, Calling
  <2>8. Locked'
    BY <2>5, <2>6 DEF Locked, Inside
  <2>9. running /\ ~ended /\ OneDirection'
    BY <2>3, <2>5, <2>6 DEF Phases, OneDirection, Alive, At
  <2>10. Phases'
    BY <2>2, <2>3, <2>5, <2>6, <2>9 DEF Phases, FreshClose, Alive, At
  <2> QED BY <2>7, <2>8, <2>10
<1>3. CASE UNCHANGED <<gor, exmut>>
  <2>1. InTree'
    BY <1>3, TreeKept DEF Alive, At, Calling
  <2>2. Locked'
    BY <1>3 DEF Locked, Inside
  <2>3. (\A g \in Gor :
          /\ gor'[g].at \notin {"leave", "semrelay"}
          /\ Alive(g)' /\ gor'[g].ret = "eof" => g[1] = Root
          /\ gor'[g].at \in {"eof", "close"} => g[1] = Root)
        /\ \A g \in Gor : Alive(g)' = Alive(g)
    BY <1>3 DEF Phases, Alive, At
  <2>4. CASE GetPid
    <3>1. UNCHANGED <<dbg, running, rev, runs, runever, runclose, ended>>
      BY <2>4 DEF GetPid, loop
    <3> QED BY <1>3, <2>1, <2>2, <2>3, <3>1 DEF Phases, FreshClose, OneDirection, Alive, At
  <2>5. CASE Closed
    <3>1. dbg' = "closed" /\ UNCHANGED <<running, rev, runever, ended>> /\ runclose > 0
          /\ runclose' = runclose - 1
      BY <2>5 DEF Closed
    <3>2. ended /\ \A g \in Gor : ~Alive(g)
      BY <3>1 DEF Phases, FreshClose
    <3> QED BY <1>3, <2>1, <2>2, <2>3, <3>1, <3>2 DEF Phases, FreshClose, OneDirection, At
  <2>6. CASE ClosedRelay
    <3>1. dbg = "closed" /\ dbg' = "select" /\ running' = FALSE /\ UNCHANGED <<rev, runever, ended>>
      BY <2>6 DEF ClosedRelay, LoopAt
    <3>2. ended /\ \A g \in Gor : ~Alive(g)
      BY <3>1 DEF Phases
    <3> QED BY <1>3, <2>1, <2>2, <2>3, <3>1, <3>2 DEF Phases, FreshClose, OneDirection,
            Alive, At
  <2>7. CASE Run
    <3>1. dbg' = "run" /\ ~running /\ UNCHANGED <<running, rev, runever>> /\ runclose' = 0
          /\ ended' = FALSE
      BY <2>7 DEF Run
    <3>2. \A g \in Gor : ~Alive(g)
      BY <3>1 DEF Phases
    <3> QED BY <1>3, <2>1, <2>2, <2>3, <3>1, <3>2 DEF Phases, FreshClose, OneDirection,
            Alive, At
  <2>8. CASE RunEver
    <3>1. dbg = "run" /\ dbg' = "ever" /\ UNCHANGED <<running, rev, runclose, ended>>
          /\ runever' = << >>
      BY <2>8 DEF RunEver, LoopAt
    <3>2. ~running /\ ~ended /\ \A g \in Gor : ~Alive(g)
      BY <3>1 DEF Phases
    <3> QED BY <1>3, <2>1, <2>2, <2>3, <3>1, <3>2 DEF Phases, FreshClose, OneDirection,
            Alive, At
  <2>9. CASE RunSend
    <3>1. dbg = "ever" /\ dbg' = "main" /\ UNCHANGED <<rev, runclose, ended>> /\ running' = TRUE
          /\ runever' = Append(runever, rev)
      BY <2>9 DEF RunSend, LoopAt
    <3>2. runever = << >> /\ ~ended /\ \A g \in Gor : ~Alive(g)
      BY <3>1 DEF Phases
    <3>3. \A i \in DOMAIN runever' : runever'[i] = rev
      BY <1>1, <3>1, <3>2
    <3> QED BY <1>3, <2>1, <2>2, <2>3, <3>1, <3>2, <3>3 DEF Phases, FreshClose,
            OneDirection, Alive, At
  <2>10. CASE Direction
    <3>1. ~running /\ UNCHANGED <<dbg, running, runever, runclose, ended>>
      BY <2>10 DEF Direction, chans
    <3>2. \A g \in Gor : ~Alive(g)
      BY <3>1 DEF Phases
    <3> QED BY <1>3, <2>1, <2>2, <2>3, <3>1, <3>2 DEF Phases, FreshClose, OneDirection,
            Alive, At
  <2>11. ~SuspendEver /\ ~SuspendSend /\ ~EnterEver /\ ~StepBlock /\ ~Suspend /\ ~Enter /\ ~RunMain
    <3>1. ~Suspend /\ ~Enter
      BY DEF Suspend, Enter
    <3>2. ~SuspendEver /\ ~SuspendSend /\ ~EnterEver /\ ~StepBlock
      BY DEF Phases, SuspendEver, SuspendSend, EnterEver, StepBlock, LoopAt
    <3>3. ~RunMain
      <4>1. SUFFICES ASSUME RunMain PROVE FALSE
        OBVIOUS
      <4>2. PICK k \in FreeSlot(Root) : gor' = [gor EXCEPT ![k] = New(NoGor)]
        BY <4>1 DEF RunMain
      <4>3. k \in Gor /\ ~Alive(k)
        BY <4>2, BodyAssumption DEF FreeSlot, Gor
      <4>4. gor'[k].at = "select"
        BY <1>1, <4>2, <4>3, NewFacts
      <4> QED BY <1>3, <4>3, <4>4 DEF Alive, At
    <3> QED BY <3>1, <3>2, <3>3
  <2> QED BY <2>4, <2>5, <2>6, <2>7, <2>8, <2>9, <2>10, <2>11 DEF Proceed, Command
<1>4. RunMain \/ UNCHANGED <<gor, exmut>>
  <2>1. ~Suspend /\ ~Enter /\ ~StepBlock
    BY DEF Suspend, Enter, Phases, StepBlock, LoopAt
  <2> QED BY <2>1 DEF Proceed, Command, GetPid, Closed, ClosedRelay, SuspendEver,
          SuspendSend, RunEver, RunSend, EnterEver, Direction, Run
<1> QED BY <1>2, <1>3, <1>4

\* All of it together.
Finishing == InTree /\ Phases /\ Locked

\* It holds at the start,
LEMMA FinishingInit == Init => Finishing
<1> SUFFICES ASSUME Init PROVE Finishing
  OBVIOUS
<1>1. TypeOK /\ Joins /\ Root \in Proc
  BY InitJoins, BodyAssumption
<1>2. <<Root, 1>> \in Gor
  BY <1>1, BoundAssumption DEF Gor
<1>3. /\ \A g \in Gor : g # <<Root, 1>> => gor[g].at = "none"
      /\ gor[<<Root, 1>>].at = "select" /\ gor[<<Root, 1>>].ret = "normal"
  BY <1>2, NewFacts DEF Init, New, Dead
<1>4. InTree
  BY <1>2, <1>3 DEF InTree, OneGoroutine, Alive, At, Calling
<1>5. Locked
  BY <1>2, <1>3 DEF Locked, Inside
<1>6. running /\ dbg = "select" /\ ~ended /\ runclose = 0 /\ rev = FALSE /\ runever = <<FALSE>>
  BY DEF Init
<1>7. \A i \in DOMAIN runever : runever[i] = rev
  <2>1. DOMAIN <<FALSE>> = {1} /\ <<FALSE>>[1] = FALSE
    OBVIOUS
  <2>2. DOMAIN runever = {1} /\ runever[1] = FALSE
    BY <1>6, <2>1
  <2> QED BY <1>6, <2>2
<1>8. OneDirection
  BY <1>2, <1>3, <1>7 DEF OneDirection, Alive, At
<1>9. Phases
  BY <1>2, <1>3, <1>6, <1>8 DEF Phases, FreshClose, Alive, At
<1> QED BY <1>4, <1>5, <1>9 DEF Finishing

\* and after every step of a run that the user lets finish.
LEMMA FinishingStep ==
  ASSUME ~Suspends, ~Steps
  PROVE  TypeOK /\ Joins /\ Finishing /\ [Next]_vars => Finishing'
<1> SUFFICES ASSUME TypeOK, Joins, InTree, Phases, Locked, [Next]_vars
             PROVE  InTree' /\ Phases' /\ Locked'
  BY DEF Finishing
<1>1. ASSUME NEW g \in Gor, Step(g) PROVE InTree' /\ Phases' /\ Locked'
  <2>1. ~At(g, "semrelay")
    BY DEF Phases, At
  <2> QED BY <1>1, <2>1, TreeStep, PhaseStep, LockedStep
<1>2. ASSUME Proceed \/ Command PROVE InTree' /\ Phases' /\ Locked'
  BY <1>2, PhaseLoop
<1>3. CASE UNCHANGED vars
  <2>1. InTree'
    BY <1>3, TreeKept DEF Alive, At, Calling, vars
  <2>2. Locked'
    BY <1>3 DEF Locked, Inside, vars
  <2>3. Phases'
    BY <1>3 DEF Phases, FreshClose, OneDirection, Alive, At, vars, loop, chans
  <2> QED BY <2>1, <2>2, <2>3
<1> QED BY <1>1, <1>2, <1>3 DEF Next

\* In runs that the user lets finish, at most one goroutine is inside executeBlock
\* at a time, and it holds exmut, although calls and wait loops let go of it in the
\* middle (pc.go:99, 257; symtab.go:109, 117; runtime.go:649, 653).
THEOREM BlocksExclude == ~Suspends /\ ~Steps => (Spec => []Exclusive)
<1> SUFFICES ASSUME ~Suspends, ~Steps PROVE Spec => []Exclusive
  OBVIOUS
<1>1. TypeOK /\ Joins /\ Finishing /\ [Next]_vars => Finishing'
  BY FinishingStep
<1>2. Finishing => Exclusive
  <2> SUFFICES ASSUME Locked
               PROVE  LET I == {g \in Gor : gor[g].at \in {"block", "call"}}
                      IN  Cardinality(I) <= 1 /\ (I # {} => exmut)
    BY DEF Finishing, Exclusive
  <2> DEFINE I == {g \in Gor : gor[g].at \in {"block", "call"}}
  <2>1. I # {} => exmut
    BY DEF Locked, Inside
  <2>2. CASE I = {}
    BY <2>1, <2>2, FS_EmptySet
  <2>3. CASE I # {}
    <3>1. PICK g \in I : I = {g}
      BY <2>3 DEF Locked, Inside
    <3>2. Cardinality(I) = 1
      BY <3>1, FS_Singleton
    <3> QED BY <2>1, <3>2
  <2> QED BY <2>2, <2>3
<1> QED BY <1>1, <1>2, FinishingInit, TypeCorrect, PTL DEF Spec

\* And a process has one goroutine at a time, so its pc and head, which have no lock
\* of their own, are never shared (runPC, runPCCall, runtime.go:69-97).
THEOREM OneEach == ~Suspends /\ ~Steps => (Spec => []OneGoroutine)
<1> SUFFICES ASSUME ~Suspends, ~Steps PROVE Spec => []OneGoroutine
  OBVIOUS
<1>1. TypeOK /\ Joins /\ Finishing /\ [Next]_vars => Finishing'
  BY FinishingStep
<1>2. Finishing => OneGoroutine
  BY DEF Finishing, InTree
<1> QED BY <1>1, <1>2, FinishingInit, TypeCorrect, PTL DEF Spec

\* And everybody runs in the direction the user has chosen for this run
\* (runever and rev, runtime.go:302-303).
THEOREM SameDirection == ~Suspends /\ ~Steps => (Spec => []OneDirection)
<1> SUFFICES ASSUME ~Suspends, ~Steps PROVE Spec => []OneDirection
  OBVIOUS
<1>1. TypeOK /\ Joins /\ Finishing /\ [Next]_vars => Finishing'
  BY FinishingStep
<1>2. Finishing => OneDirection
  BY DEF Finishing, Phases
<1> QED BY <1>1, <1>2, FinishingInit, TypeCorrect, PTL DEF Spec

\* And no close token of an earlier run reaches the next one (runclose,
\* runtime.go:301).
THEOREM NoStaleClose == ~Suspends /\ ~Steps => (Spec => []FreshClose)
<1> SUFFICES ASSUME ~Suspends, ~Steps PROVE Spec => []FreshClose
  OBVIOUS
<1>1. TypeOK /\ Joins /\ Finishing /\ [Next]_vars => Finishing'
  BY FinishingStep
<1>2. Finishing => FreshClose
  BY DEF Finishing, Phases
<1> QED BY <1>1, <1>2, FinishingInit, TypeCorrect, PTL DEF Spec

-----------------------------------------------------------------------------
(* Heads and counters *)

\* Where a goroutine is inside a block.
InABlock(g) == gor[g].at \in {"block", "sem", "semrelay", "call", "wait", "return"}

\* Where a process is at the start of its part of a run, at its end, and before.
Fresh(p) == pc[p] = (IF rev THEN Len(Body[p]) ELSE 0)
Done(p) == pc[p] = (IF rev THEN 0 ELSE Len(Body[p]))
Ahead(p) == IF rev THEN pc[p] > 0 ELSE pc[p] < Len(Body[p])

\* A goroutine is where the counter of its process says.
OwnCount(g) ==
  /\ gor[g].susp = FALSE
  /\ At(g, "select") => Fresh(g[1])
  /\ gor[g].at \in {"relay", "poll", "lock"} => Ahead(g[1])
  /\ InABlock(g) => pc[g[1]] < Len(Body[g[1]]) /\ gor[g].blk = pc[g[1]] + 1
  /\ gor[g].at \in {"update", "send"} /\ gor[g].ret = "normal" => Ahead(g[1])
  /\ gor[g].at \in {"update", "send"} /\ gor[g].ret # "normal" => Done(g[1])
  /\ gor[g].at \in {"eof", "close", "procend"} => Done(g[1])

\* So is the head of its process; backward, the counter goes first.
OwnHead(g) ==
  head[g[1]] = Lines * (IF rev /\ InABlock(g) THEN pc[g[1]] + 1 ELSE pc[g[1]])

\* Block k of p calls c.
CallsAt(p, k, c) == Body[p][k].kind = "call" /\ Among(c, Body[p][k].kids)

\* A callee is at its end if the block that calls it is done, at its begin if not.
Settled(p, k, c) == pc[c] = (IF k <= pc[p] THEN Len(Body[c]) ELSE 0)

\* g, in a block that calls c, has still to start it.
Owes(g, c) == gor[g].at \in {"block", "sem", "semrelay"} \/ (At(g, "call") /\ Among(c, gor[g].todo))

\* In that block, c is where this run finds it, then on its way, then where this run
\* takes it.
Underway(g, c) ==
  /\ Owes(g, c) => Fresh(c)
  /\ ~Owes(g, c) /\ Idle(c) => Done(c)

Callees(g) ==
  \A c \in Proc : \A k \in DOMAIN Body[g[1]] : CallsAt(g[1], k, c) =>
    IF InABlock(g) /\ k = pc[g[1]] + 1 THEN Underway(g, c) ELSE Settled(g[1], k, c)

\* A process without a goroutine is between two blocks.
AtRest(p) ==
  /\ head[p] = Lines * pc[p]
  /\ \A c \in Proc : \A k \in DOMAIN Body[p] : CallsAt(p, k, c) => Settled(p, k, c)

\* The counters, the heads and the mutex agree with the goroutines; main stops at its
\* begin or at its end, and a run starts where the last one has stopped.
Counted ==
  /\ broken = FALSE
  /\ exmut => \E g \in Gor : Inside(g)
  /\ \A p \in Proc : pc[p] \in 0 .. Len(Body[p])
  /\ \A g \in Gor : Alive(g) => OwnCount(g) /\ OwnHead(g) /\ Callees(g)
  /\ \A p \in Proc : Idle(p) => AtRest(p)
  /\ (\A g \in Gor : ~Alive(g)) => pc[Root] \in {0, Len(Body[Root])}
  /\ dbg \in {"run", "ever", "main"} => Fresh(Root)

\* Heads are counted in threes.
LEMMA Thirds == \A n \in Int : (Lines * n) % Lines = 0 /\ (Lines * n) \div Lines = n
BY DEF Lines

\* A process is called in one place.
LEMMA OnePlace ==
  ASSUME NEW p \in Proc, NEW q \in Proc, NEW c \in Proc, NEW k \in DOMAIN Body[p],
         NEW l \in DOMAIN Body[q], CallsAt(p, k, c), CallsAt(q, l, c)
  PROVE  p = q /\ k = l /\ c # Root /\ c # p /\ p \in CalledBy(c)
<1>1. p \in CalledBy(c) /\ q \in CalledBy(c)
  BY DEF CallsAt, CalledBy, Among
<1>2. p = q /\ c # Root
  BY <1>1, TreeAssumption
<1>3. c # p
  <2>1. {c} \in SUBSET Proc /\ {c} # {}
    OBVIOUS
  <2>2. \E d \in {c} : CalledBy(d) \cap {c} = {}
    BY <2>1, TreeAssumption
  <2> QED BY <1>1, <2>2
<1>4. k = l
  <2>1. PICK i \in DOMAIN Body[p][k].kids : Body[p][k].kids[i] = c
    BY DEF CallsAt, Among
  <2>2. PICK j \in DOMAIN Body[p][l].kids : Body[p][l].kids[j] = c
    BY <1>2 DEF CallsAt, Among
  <2> QED BY <1>2, <2>1, <2>2, PlaceAssumption DEF CallsAt
<1> QED BY <1>1, <1>2, <1>3, <1>4

\* A process that runs is called by a goroutine in the block that calls it.
LEMMA RunsInCall ==
  ASSUME TypeOK, Joins, InTree, ~broken, NEW p \in Proc, NEW c \in Proc, NEW k \in DOMAIN Body[p],
         CallsAt(p, k, c), NEW h \in Gor, h[1] = c, Alive(h)
  PROVE  \E b \in Gor : /\ b = gor[h].boss /\ b[1] = p /\ Alive(b) /\ Calling(b)
                        /\ gor[b].blk = k /\ ~Among(c, gor[b].todo)
<1>1. c # Root
  BY OnePlace
<1>2. gor[h].boss # NoGor
  BY <1>1 DEF InTree
<1>3. PICK b \in Gor : b = gor[h].boss /\ Calling(b) /\ h \in Children(b)
  BY <1>2, BossCalls
<1>4. b[1] \in Proc /\ gor[b].blk \in DOMAIN Body[b[1]]
  BY <1>3, GorFinite DEF Joins, JoinsOf, InBlock, Calling
<1>5. /\ Instruction(b).kind = "call" /\ Among(c, Instruction(b).kids)
      /\ ~Among(c, gor[b].todo)
  BY <1>3 DEF InTree
<1>6. CallsAt(b[1], gor[b].blk, c)
  BY <1>5 DEF CallsAt, Instruction
<1>7. b[1] = p /\ gor[b].blk = k
  BY <1>4, <1>6, OnePlace
<1> QED BY <1>3, <1>5, <1>7 DEF Calling, Alive, At

\* Only a goroutine that is told to leave says so to the one whose call it serves.
LEMMA OthersGoOn ==
  ASSUME TypeOK, Joins, NEW g \in Gor, Step(g), ~At(g, "leave"), NEW h \in Gor \ {g}, Alive(h)
  PROVE  gor'[h].susp = gor[h].susp
<1>1. gor \in [Gor -> GorType] /\ gor[h] \in GorType /\ gor[h].susp \in BOOLEAN
  BY TypeParts DEF GorType
<1>2. CASE Exit(g, FALSE)
  <2>1. CASE gor[g].boss = NoGor
    BY <1>1, <1>2, <2>1 DEF Exit
  <2>2. CASE gor[g].boss # NoGor
    <3>1. PICK b \in Gor :
            gor' = [[gor EXCEPT ![g] = Dead] EXCEPT ![b].wg = @ - 1, ![b].susp = @ \/ FALSE]
      BY <1>1, <1>2, <2>2, GorTyped DEF Exit
    <3>2. gor'[h].susp = gor[h].susp \/ gor'[h].susp = (gor[h].susp \/ FALSE)
      BY <1>1, <3>1 DEF GorType
    <3> QED BY <1>1, <3>2
  <2> QED BY <2>1, <2>2
<1>3. CASE CallChild(g)
  <2>1. PICK k \in FreeSlot(Head(gor[g].todo)) : gor' = [gor EXCEPT ![k] = New(g), ![g].todo = Tail(@)]
    BY <1>3 DEF CallChild
  <2>2. k # h
    BY <2>1 DEF FreeSlot
  <2> QED BY <1>1, <2>1, <2>2
<1>4. CASE gor'[h] = gor[h]
  BY <1>4
<1>5. Exit(g, FALSE) \/ CallChild(g) \/ gor'[h] = gor[h]
  <2>1. CASE TakeRun(g) \/ RelayRun(g) \/ TakeClose(g) \/ Poll(g) \/ Acquire(g)
               \/ Plain(g) \/ SemPass(g) \/ SemWait(g) \/ SemTimeout(g)
    BY <1>1, <2>1 DEF TakeRun, RelayRun, TakeClose, Poll, Acquire, Plain, SemPass,
           SemWait, SemTimeout, Move, Finish
  <2>2. CASE SemClose(g) \/ SemRelay(g) \/ Call(g) \/ CallWait(g) \/ CallReturn(g)
               \/ CallEnd(g) \/ Update(g) \/ Send(g) \/ Eof(g)
    BY <1>1, <2>2 DEF SemClose, SemRelay, Call, CallWait, CallReturn, CallEnd, Update,
           Send, Eof, Move, Finish
  <2>3. CASE EofSend(g) \/ ProcEnd(g)
    BY <2>3 DEF EofSend, ProcEnd
  <2>4. ~Leave(g)
    BY DEF Leave, On
  <2> QED BY <2>1, <2>2, <2>3, <2>4 DEF Step
<1> QED BY <1>2, <1>3, <1>4, <1>5

\* Who starts in a step of g is a callee of g's process.
LEMMA StartedByCaller ==
  ASSUME TypeOK, Joins, InTree, NEW g \in Gor, Step(g), NEW h \in Gor \ {g}, ~Alive(h), Alive(h)'
  PROVE  /\ CallChild(g) /\ h[1] = Head(gor[g].todo) /\ h \in FreeSlot(h[1])
         /\ gor' = [gor EXCEPT ![h] = New(g), ![g].todo = Tail(@)]
<1>1. gor \in [Gor -> GorType]
  BY TypeParts
<1>2. CallChild(g)
  <2>1. ~Ends(g)
    BY EndsFacts
  <2>2. ~Moves(g) /\ ~Call(g) /\ ~CallWait(g)
    BY <1>1 DEF Moves, Call, CallWait, Move, Alive, At
  <2> QED BY <2>1, <2>2, StepKinds
<1>3. PICK k \in FreeSlot(Head(gor[g].todo)) :
        gor' = [gor EXCEPT ![k] = New(g), ![g].todo = Tail(@)]
  BY <1>2 DEF CallChild
<1>4. h = k
  BY <1>1, <1>3 DEF Alive, At
<1>5. k[1] = Head(gor[g].todo)
  BY <1>3 DEF FreeSlot
<1> QED BY <1>2, <1>3, <1>4, <1>5

\* What a step of g leaves as it is, for the other processes.
LEMMA OthersCounted ==
  ASSUME TypeOK, Joins, InTree, InTree', Phases, Counted, NEW g \in Gor, Step(g), Alive(g),
         broken' = FALSE, exmut' => \E h \in Gor : Inside(h)', UNCHANGED <<rev, dbg>>,
         \A q \in Proc \ {g[1]} : pc'[q] = pc[q] /\ head'[q] = head[q],
         pc'[g[1]] \in 0 .. Len(Body[g[1]]),
         Alive(g)' => OwnCount(g)' /\ OwnHead(g)' /\ Callees(g)',
         ~Alive(g)' => Done(g[1])' /\ AtRest(g[1])',
         \A h \in Gor \ {g} : Alive(h)' /\ ~Alive(h) =>
           g[1] \in CalledBy(h[1]) /\ Fresh(h[1]) /\ gor'[h].susp = FALSE
  PROVE  Counted'
<1> DEFINE p == g[1]
<1>1. p \in Proc /\ ~At(g, "leave") /\ dbg = "select"
  BY GorFinite DEF Phases, At
<1>2. ASSUME NEW h \in Gor \ {g}, Alive(h)
      PROVE  /\ Alive(h)' /\ h[1] \in Proc \ {p}
             /\ gor'[h].at = gor[h].at /\ gor'[h].blk = gor[h].blk /\ gor'[h].todo = gor[h].todo
             /\ gor'[h].ret = gor[h].ret /\ gor'[h].susp = gor[h].susp
  BY <1>1, <1>2, Others, OthersGoOn, GorFinite DEF InTree, OneGoroutine
<1>3. ASSUME NEW h \in Gor \ {g}, ~Alive(h), Alive(h)'
      PROVE  /\ At(h, "select")' /\ h[1] \in Proc \ {p} /\ p \in CalledBy(h[1]) /\ Idle(h[1])
             /\ Fresh(h[1]) /\ gor'[h].susp = FALSE
  <2>1. At(h, "select")' /\ p \in CalledBy(h[1]) /\ Fresh(h[1]) /\ gor'[h].susp = FALSE
    BY <1>3, Starters
  <2>2. h[1] \in Proc
    BY GorFinite
  <2>3. h[1] # p
    <3>1. {p} \in SUBSET Proc /\ {p} # {}
      BY <1>1
    <3>2. \E d \in {p} : CalledBy(d) \cap {p} = {}
      BY <3>1, TreeAssumption
    <3> QED BY <2>1, <3>2
  <2>4. Idle(h[1])
    <3>1. SUFFICES ASSUME NEW j \in Gor, j[1] = h[1], Alive(j) PROVE FALSE
      BY DEF Idle
    <3>2. Alive(j)' /\ j # h
      BY <1>2, <1>3, <2>3, <3>1
    <3> QED BY <1>3, <3>1, <3>2 DEF InTree, OneGoroutine
  <2> QED BY <2>1, <2>2, <2>3, <2>4
<1>4. ASSUME NEW q \in Proc \ {p}, NEW c \in Proc, NEW k \in DOMAIN Body[q], CallsAt(q, k, c), c # p
      PROVE  (Settled(q, k, c)' <=> Settled(q, k, c)) /\ (Fresh(c)' <=> Fresh(c))
             /\ (Done(c)' <=> Done(c)) /\ (Idle(c)' <=> Idle(c))
  <2>1. pc'[q] = pc[q] /\ pc'[c] = pc[c]
    BY <1>4
  <2>2. ASSUME NEW h \in Gor, h[1] = c PROVE Alive(h)' <=> Alive(h)
    <3>1. h # g
      BY <1>4, <2>2
    <3>2. p \notin CalledBy(c)
      <4>1. q \in CalledBy(c)
        BY <1>4, OnePlace
      <4> QED BY <1>1, <1>4, <4>1, TreeAssumption
    <3> QED BY <1>2, <1>3, <2>2, <3>1, <3>2
  <2>3. Idle(c)' <=> Idle(c)
    BY <2>2 DEF Idle
  <2> QED BY <2>1, <2>3 DEF Settled, Fresh, Done
<1>5. ASSUME NEW q \in Proc \ {p}, NEW k \in DOMAIN Body[q], CallsAt(q, k, p)
      PROVE  \E b \in Gor \ {g} : /\ b[1] = q /\ Alive(b) /\ Calling(b) /\ InABlock(b)
                                  /\ gor[b].blk = k /\ k = pc[q] + 1 /\ ~Owes(b, p)
  <2>1. PICK b \in Gor : /\ b[1] = q /\ Alive(b) /\ Calling(b) /\ gor[b].blk = k
                         /\ ~Among(p, gor[b].todo)
    BY <1>1, <1>5, RunsInCall DEF Counted
  <2>2. InABlock(b)
    BY <2>1 DEF Calling, InABlock
  <2>3. gor[b].blk = pc[q] + 1
    BY <2>1, <2>2 DEF Counted, OwnCount
  <2>4. ~Owes(b, p)
    BY <2>1 DEF Owes, Calling, At
  <2> QED BY <2>1, <2>2, <2>3, <2>4
<1>6. ASSUME NEW h \in Gor \ {g}, Alive(h)
      PROVE  OwnCount(h)' /\ OwnHead(h)' /\ Callees(h)'
  <2>1. OwnCount(h) /\ OwnHead(h) /\ Callees(h)
    BY <1>6 DEF Counted
  <2>2. PICK q \in Proc \ {p} : q = h[1]
    BY <1>2, <1>6
  <2>3. pc'[q] = pc[q] /\ head'[q] = head[q] /\ (InABlock(h)' <=> InABlock(h))
    BY <1>2, <1>6 DEF InABlock
  <2>4. OwnCount(h)'
    BY <1>2, <1>6, <2>1, <2>2, <2>3 DEF OwnCount, At, Fresh, Done, Ahead, InABlock
  <2>5. OwnHead(h)'
    BY <2>1, <2>2, <2>3 DEF OwnHead
  <2>6. ASSUME NEW c \in Proc, NEW k \in DOMAIN Body[q], CallsAt(q, k, c)
        PROVE  IF InABlock(h)' /\ k = pc'[q] + 1 THEN Underway(h, c)' ELSE Settled(q, k, c)'
    <3>1. IF InABlock(h) /\ k = pc[q] + 1 THEN Underway(h, c) ELSE Settled(q, k, c)
      BY <2>1, <2>2, <2>6 DEF Callees
    <3>2. Owes(h, c)' <=> Owes(h, c)
      BY <1>2, <1>6 DEF Owes, At
    <3>3. CASE c # p
      BY <1>4, <2>3, <2>6, <3>1, <3>2, <3>3 DEF Underway
    <3>4. CASE c = p
      <4>1. PICK b \in Gor \ {g} : /\ b[1] = q /\ Alive(b) /\ InABlock(b) /\ k = pc[q] + 1
                                   /\ ~Owes(b, p)
        BY <1>5, <2>6, <3>4
      <4>2. b = h
        BY <1>6, <2>2, <4>1 DEF InTree, OneGoroutine
      <4>3. Idle(p)' => Done(p)'
        BY DEF Idle
      <4> QED BY <2>3, <3>2, <3>4, <4>1, <4>2, <4>3 DEF Underway
    <3> QED BY <3>3, <3>4
  <2> QED BY <2>2, <2>4, <2>5, <2>6 DEF Callees
<1>7. ASSUME NEW q \in Proc \ {p}, Idle(q) PROVE AtRest(q)'
  <2>1. AtRest(q)
    BY <1>7 DEF Counted
  <2>2. ASSUME NEW c \in Proc, NEW k \in DOMAIN Body[q], CallsAt(q, k, c) PROVE Settled(q, k, c)'
    <3>1. c # p
      BY <1>5, <1>7, <2>2 DEF Idle
    <3> QED BY <1>4, <2>1, <2>2, <3>1 DEF AtRest
  <2> QED BY <2>1, <2>2 DEF AtRest
<1>8. ASSUME NEW h \in Gor \ {g}, ~Alive(h), Alive(h)'
      PROVE  OwnCount(h)' /\ OwnHead(h)' /\ Callees(h)'
  <2>1. PICK q \in Proc \ {p} : q = h[1]
    BY <1>3, <1>8
  <2>2. At(h, "select")' /\ ~InABlock(h)' /\ Fresh(q) /\ gor'[h].susp = FALSE /\ Idle(q)
    BY <1>3, <1>8, <2>1 DEF InABlock, At
  <2>3. AtRest(q)'
    BY <1>7, <2>2
  <2>4. OwnCount(h)'
    BY <2>1, <2>2 DEF OwnCount, At, Fresh, InABlock
  <2> QED BY <2>1, <2>2, <2>3, <2>4 DEF OwnHead, Callees, AtRest
<1>9. \A h \in Gor : Alive(h)' => OwnCount(h)' /\ OwnHead(h)' /\ Callees(h)'
  BY <1>6, <1>8
<1>10. ASSUME NEW q \in Proc, Idle(q)' PROVE AtRest(q)'
  <2>1. CASE q = p
    BY <1>10, <2>1 DEF Idle
  <2>2. CASE q # p
    <3>1. Idle(q)
      BY <1>2, <1>10, <2>2 DEF Idle
    <3> QED BY <1>7, <2>2, <3>1
  <2> QED BY <2>1, <2>2
<1>11. ASSUME \A h \in Gor : ~Alive(h)' PROVE pc'[Root] \in {0, Len(Body[Root])}
  <2>1. p = Root
    <3>1. SUFFICES ASSUME gor[g].boss # NoGor PROVE FALSE
      BY DEF InTree
    <3>2. PICK b \in Gor : b = gor[g].boss /\ Calling(b) /\ g \in Children(b)
      BY <3>1, BossCalls
    <3>3. ~Calling(g)
      <4>1. gor \in [Gor -> GorType]
        BY TypeParts
      <4>2. ~Call(g) /\ ~CallWait(g)
        BY <1>11, <4>1 DEF Call, CallWait, Move, Alive, At, GorType
      <4>3. ~CallChild(g)
        <5>1. SUFFICES ASSUME CallChild(g) PROVE FALSE
          OBVIOUS
        <5>2. PICK h \in FreeSlot(Head(gor[g].todo)) :
                gor' = [gor EXCEPT ![h] = New(g), ![g].todo = Tail(@)]
          BY <5>1 DEF CallChild
        <5>3. h # g
          BY <5>2 DEF FreeSlot
        <5>4. gor'[g].at = "call"
          BY <4>1, <5>1, <5>2, <5>3 DEF CallChild, On, At, GorType
        <5> QED BY <1>11, <5>4 DEF Alive, At
      <4> QED BY <1>11, <4>2, <4>3, StepKinds DEF Moves, Ends
    <3> QED BY <1>2, <1>11, <3>2, <3>3 DEF Calling, Alive, At
  <2> QED BY <1>11, <2>1 DEF Done
<1>12. \A q \in Proc : pc'[q] \in 0 .. Len(Body[q])
  BY DEF Counted
<1> QED BY <1>1, <1>9, <1>10, <1>11, <1>12 DEF Counted

\* What is known of the goroutine that takes a step, in runs that the user lets finish.
LEMMA Stepping ==
  ASSUME TypeOK, Joins, InTree, Phases, Counted, NEW g \in Gor, Step(g)
  PROVE  /\ Alive(g) /\ broken = FALSE /\ dbg = "select" /\ runclose = 0 /\ UNCHANGED <<rev, dbg>>
         /\ gor \in [Gor -> GorType] /\ gor[g] \in GorType /\ g[1] \in Proc
         /\ ~TakeClose(g) /\ ~Leave(g) /\ ~SemClose(g) /\ ~SemRelay(g)
         /\ gor[g].dir = rev \/ At(g, "select")
         /\ OwnCount(g) /\ OwnHead(g) /\ Callees(g)
<1>1. Alive(g) /\ gor \in [Gor -> GorType] /\ gor[g] \in GorType /\ g[1] \in Proc
  <2>1. Alive(g)
    BY StepKinds DEF Moves, Ends, Call, CallChild, CallWait, On, At, Alive
  <2> QED BY <2>1, TypeParts, GorFinite
<1>2. dbg = "select" /\ runclose = 0 /\ runclose \in Nat
  BY <1>1, TypeParts DEF Phases, FreshClose, Rest
<1>3. UNCHANGED <<rev, dbg>>
  BY DEF Step, TakeRun, RelayRun, TakeClose, Leave, Poll, Acquire, Plain, SemPass,
         SemWait, SemTimeout, SemClose, SemRelay, Call, CallChild, CallWait, CallReturn,
         CallEnd, Update, Send, Eof, EofSend, ProcEnd, loop
<1>4. ~TakeClose(g) /\ ~Leave(g) /\ ~SemClose(g) /\ ~SemRelay(g)
  <2>1. gor[g].at \notin {"leave", "semrelay"} /\ ~(runclose > 0)
    BY <1>2 DEF Phases
  <2>2. ~TakeClose(g) /\ ~SemClose(g)
    BY <2>1 DEF TakeClose, SemClose
  <2>3. ~Leave(g) /\ ~SemRelay(g)
    BY <2>1 DEF Leave, SemRelay, On, At
  <2> QED BY <2>2, <2>3
<1>5. gor[g].dir = rev \/ At(g, "select")
  BY <1>1 DEF Phases, OneDirection
<1> QED BY <1>1, <1>2, <1>3, <1>4, <1>5 DEF Counted

\* The process that a call is about to start.
LEMMA Starting ==
  ASSUME TypeOK, Joins, InTree, Phases, Counted, NEW g \in Gor, CallChild(g),
         NEW c, c = Head(gor[g].todo)
  PROVE  /\ c \in Proc /\ gor[g].blk \in DOMAIN Body[g[1]] /\ CallsAt(g[1], gor[g].blk, c)
         /\ gor[g].blk = pc[g[1]] + 1 /\ Among(c, gor[g].todo) /\ c # g[1] /\ g[1] \in CalledBy(c)
         /\ Idle(c) /\ Fresh(c) /\ head[c] = Start(c, gor[g].dir)
<1>1. Step(g)
  BY DEF Step
<1>2. gor[g].todo \in Seq(Proc) /\ gor[g].todo # << >> /\ At(g, "call") /\ g[1] \in Proc
      /\ broken = FALSE
  BY GorTyped, GorFinite DEF CallChild, On, Counted
<1>3. c \in Proc /\ Among(c, gor[g].todo)
  <2>1. PICK K \in Seq(Proc) : K = gor[g].todo /\ K # << >>
    BY <1>2
  <2>2. 1 \in DOMAIN K /\ K[1] = Head(K) /\ K[1] \in Proc
    BY <2>1
  <2> QED BY <2>1, <2>2 DEF Among
<1>4. gor[g].blk \in DOMAIN Body[g[1]]
  BY <1>2 DEF Joins, JoinsOf, InBlock, At
<1>5. CallsAt(g[1], gor[g].blk, c)
  <2>1. Calling(g)
    BY <1>2 DEF Calling, At
  <2>2. /\ Instruction(g).kind = "call"
        /\ \A i \in DOMAIN gor[g].todo : Among(gor[g].todo[i], Instruction(g).kids)
    BY <2>1 DEF InTree
  <2>3. Among(c, Instruction(g).kids)
    BY <1>3, <2>2 DEF Among
  <2> QED BY <2>2, <2>3 DEF CallsAt, Instruction
<1>6. Alive(g) /\ OwnCount(g) /\ Callees(g) /\ InABlock(g) /\ gor[g].dir = rev
  BY <1>1, <1>2, Stepping DEF InABlock, At
<1>7. gor[g].blk = pc[g[1]] + 1
  BY <1>6 DEF OwnCount
<1>8. Underway(g, c) /\ Owes(g, c)
  BY <1>2, <1>3, <1>4, <1>5, <1>6, <1>7 DEF Callees, Owes
<1>9. Idle(c)
  <2>1. SUFFICES ASSUME NEW h \in Gor, h[1] = c, Alive(h) PROVE FALSE
    BY DEF Idle
  <2>2. PICK b \in Gor : b[1] = g[1] /\ Alive(b) /\ ~Among(c, gor[b].todo)
    BY <1>2, <1>3, <1>4, <1>5, <2>1, RunsInCall
  <2>3. b = g
    BY <1>6, <2>2 DEF InTree, OneGoroutine
  <2> QED BY <1>3, <2>2, <2>3
<1>10. Fresh(c) /\ head[c] = Lines * pc[c]
  BY <1>3, <1>8, <1>9 DEF Underway, Counted, AtRest
<1>11. head[c] = Start(c, gor[g].dir)
  BY <1>3, <1>6, <1>10, BlockFacts DEF Fresh, Start, Lines
<1>12. c # g[1] /\ g[1] \in CalledBy(c)
  BY <1>2, <1>3, <1>4, <1>5, OnePlace
<1> QED BY <1>3, <1>4, <1>5, <1>7, <1>8, <1>9, <1>10, <1>11, <1>12

\* A goroutine moves the head and the counter of its own process only: a process that
\* is called starts where its head is.
LEMMA OwnHeadOnly ==
  ASSUME TypeOK, Joins, InTree, Phases, Counted, NEW g \in Gor, Step(g)
  PROVE  \A q \in Proc \ {g[1]} : pc'[q] = pc[q] /\ head'[q] = head[q]
<1>1. pc \in [Proc -> Int] /\ head \in [Proc -> Int] /\ g[1] \in Proc
  BY GorFinite DEF TypeOK
<1>2. CASE CallChild(g)
  <2>1. PICK c \in Proc : c = Head(gor[g].todo) /\ head[c] = Start(c, gor[g].dir)
    BY <1>2, Starting
  <2>2. head' = [head EXCEPT ![c] = Start(c, gor[g].dir)] /\ pc' = pc
    BY <1>2, <2>1 DEF CallChild
  <2> QED BY <1>1, <2>1, <2>2
<1>3. CASE Acquire(g)
  BY <1>1, <1>3 DEF Acquire
<1>4. CASE Plain(g) \/ SemPass(g)
  BY <1>1, <1>4 DEF Plain, SemPass, Finish
<1>5. CASE CallEnd(g)
  BY <1>1, <1>5 DEF CallEnd
<1>6. CASE UNCHANGED <<head, pc>>
  BY <1>6
<1> QED BY <1>2, <1>3, <1>4, <1>5, <1>6 DEF Step, TakeRun, RelayRun, TakeClose, Leave, Poll,
        SemWait, SemTimeout, SemClose, SemRelay, Call, CallWait, CallReturn, Update, Send,
        Eof, EofSend, ProcEnd, procs

\* Somebody inside executeBlock holds exmut, or it is free.
LEMMA MutexStep ==
  ASSUME TypeOK, Joins, InTree, Phases, Locked, Counted, NEW g \in Gor, Step(g)
  PROVE  exmut' => \E h \in Gor : Inside(h)'
<1>1. /\ gor \in [Gor -> GorType] /\ gor[g] \in GorType /\ Alive(g)
      /\ ~TakeClose(g) /\ ~Leave(g) /\ ~SemClose(g) /\ ~SemRelay(g)
  BY Stepping
<1>2. CASE Acquire(g) \/ SemTimeout(g) \/ Call(g)
  <2>1. Inside(g)'
    BY <1>1, <1>2 DEF Acquire, SemTimeout, Call, Move, Inside, GorType
  <2> QED BY <2>1
<1>3. CASE CallChild(g)
  <2>1. PICK h \in FreeSlot(Head(gor[g].todo)) :
          gor' = [gor EXCEPT ![h] = New(g), ![g].todo = Tail(@)]
    BY <1>3 DEF CallChild
  <2>2. h # g
    BY <1>1, <2>1 DEF FreeSlot
  <2>3. gor'[g].at = "call"
    BY <1>1, <1>3, <2>1, <2>2 DEF CallChild, On, At, GorType
  <2> QED BY <2>3 DEF Inside
<1>4. CASE Plain(g) \/ SemPass(g) \/ SemWait(g) \/ CallWait(g)
  BY <1>4 DEF Plain, SemPass, SemWait, CallWait, Finish, Unlock
<1>5. CASE exmut' = exmut /\ ~Inside(g)
  <2>1. SUFFICES ASSUME exmut PROVE \E h \in Gor : Inside(h)'
    BY <1>5
  <2>2. PICK h \in Gor : Inside(h)
    BY <2>1 DEF Counted
  <2>3. h # g /\ Alive(h)
    BY <1>5, <2>2 DEF Inside, Alive, At
  <2>4. gor'[h].at = gor[h].at
    BY <2>3, Others
  <2> QED BY <2>2, <2>4 DEF Inside
<1> QED BY <1>1, <1>2, <1>3, <1>4, <1>5 DEF Step, TakeRun, RelayRun, Poll, CallReturn, CallEnd,
        Update, Send, Eof, EofSend, ProcEnd, On, At, Inside, chans

\* A step outside blocks.
LEMMA OutsideStep ==
  ASSUME TypeOK, Joins, InTree, Phases, Counted, NEW g \in Gor,
         TakeRun(g) \/ RelayRun(g) \/ Poll(g) \/ Update(g) \/ Send(g) \/ Eof(g)
  PROVE  /\ OwnCount(g)' /\ OwnHead(g)' /\ Callees(g)' /\ Alive(g)'
         /\ broken' = FALSE /\ UNCHANGED <<pc, head>> /\ \A h \in Gor \ {g} : gor'[h] = gor[h]
<1>1. Step(g)
  BY DEF Step
<1>2. /\ gor \in [Gor -> GorType] /\ gor[g] \in GorType /\ g[1] \in Proc /\ Alive(g)
      /\ broken = FALSE /\ UNCHANGED rev
      /\ OwnCount(g) /\ OwnHead(g) /\ Callees(g)
  BY <1>1, Stepping
<1>3. UNCHANGED <<pc, head, broken>>
  BY DEF TakeRun, RelayRun, Poll, Update, Send, Eof, procs
<1>4. /\ \A h \in Gor \ {g} : gor'[h] = gor[h]
      /\ gor'[g].susp = gor[g].susp /\ gor'[g].ret = gor[g].ret
  BY <1>2 DEF TakeRun, RelayRun, Poll, Update, Send, Eof, Move, GorType
<1>5. ~InABlock(g) /\ ~InABlock(g)' /\ Alive(g)'
  BY <1>2 DEF TakeRun, RelayRun, Poll, Update, Send, Eof, Move, GorType, InABlock, On, At, Alive
<1>6. OwnCount(g)'
  <2>1. CASE TakeRun(g)
    <3>1. Fresh(g[1]) /\ gor'[g].at = "relay"
      BY <1>2, <2>1 DEF TakeRun, OwnCount, On, GorType
    <3>2. Ahead(g[1])'
      BY <1>2, <1>3, <3>1, BlockFacts DEF Fresh, Ahead
    <3> QED BY <1>2, <1>4, <1>5, <3>1, <3>2 DEF OwnCount, At
  <2>2. CASE RelayRun(g) \/ Poll(g)
    <3>1. Ahead(g[1]) /\ gor'[g].at \in {"poll", "lock"}
      BY <1>2, <2>2 DEF RelayRun, Poll, Move, OwnCount, On, At, GorType
    <3>2. Ahead(g[1])'
      BY <1>2, <1>3, <3>1 DEF Ahead
    <3> QED BY <1>2, <1>4, <1>5, <3>1, <3>2 DEF OwnCount, At
  <2>3. CASE Update(g)
    <3>1. gor[g].at = "update" /\ gor'[g].at = "send"
      BY <1>2, <2>3 DEF Update, Move, On, At, GorType
    <3>2. (Ahead(g[1])' <=> Ahead(g[1])) /\ (Done(g[1])' <=> Done(g[1]))
      BY <1>2, <1>3 DEF Ahead, Done
    <3> QED BY <1>2, <1>4, <1>5, <3>1, <3>2 DEF OwnCount, At
  <2>4. CASE Send(g)
    <3>1. gor[g].at = "send" /\ gor'[g].at = IF gor[g].ret = "normal" THEN "poll" ELSE gor[g].ret
      BY <1>2, <2>4 DEF Send, Move, On, At, GorType
    <3>2. (Ahead(g[1])' <=> Ahead(g[1])) /\ (Done(g[1])' <=> Done(g[1]))
      BY <1>2, <1>3 DEF Ahead, Done
    <3>3. gor[g].ret \in {"normal", "eof", "procend"}
      BY <1>2 DEF GorType
    <3> QED BY <1>2, <1>4, <1>5, <3>1, <3>2, <3>3 DEF OwnCount, At
  <2>5. CASE Eof(g)
    <3>1. gor[g].at = "eof" /\ gor'[g].at = "close"
      BY <1>2, <2>5 DEF Eof, Move, On, At, GorType
    <3>2. Done(g[1])' <=> Done(g[1])
      BY <1>2, <1>3 DEF Done
    <3> QED BY <1>2, <1>4, <1>5, <3>1, <3>2 DEF OwnCount, At
  <2> QED BY <2>1, <2>2, <2>3, <2>4, <2>5
<1>7. OwnHead(g)'
  BY <1>2, <1>3, <1>5 DEF OwnHead
<1>8. Callees(g)'
  BY <1>2, <1>3, <1>5 DEF Callees, Settled
<1> QED BY <1>2, <1>3, <1>4, <1>5, <1>6, <1>7, <1>8

\* A block begins.
LEMMA AcquireStep ==
  ASSUME TypeOK, Joins, InTree, Phases, Counted, NEW g \in Gor, Acquire(g)
  PROVE  /\ OwnCount(g)' /\ OwnHead(g)' /\ Callees(g)' /\ Alive(g)'
         /\ broken' = FALSE /\ pc'[g[1]] \in 0 .. Len(Body[g[1]])
         /\ \A h \in Gor \ {g} : gor'[h] = gor[h]
<1>1. Step(g)
  BY DEF Step
<1>2. /\ gor \in [Gor -> GorType] /\ gor[g] \in GorType /\ Alive(g)
      /\ broken = FALSE /\ rev' = rev /\ At(g, "lock") /\ gor[g].dir = rev
      /\ OwnCount(g) /\ OwnHead(g) /\ Callees(g)
  BY <1>1, Stepping DEF Acquire, On, At
<1>3. PICK p \in Proc : p = g[1]
  BY GorFinite
<1>4. PICK n \in Nat, l \in Nat \ {0} : n = pc[p] /\ l = Len(Body[p]) /\ DOMAIN Body[p] = 1 .. l /\ n <= l
  BY <1>3, BlockFacts DEF Counted
<1>5. pc \in [Proc -> Int] /\ rev \in BOOLEAN
  BY DEF TypeOK
<1>6. Ahead(p) /\ head[p] = Lines * n /\ gor[g].susp = FALSE
  BY <1>2, <1>3, <1>4 DEF OwnCount, OwnHead, InABlock, At
<1>7. PICK m \in Nat : m = pc'[p] /\ m < l /\ (rev => n = m + 1) /\ (~rev => n = m)
  BY <1>2, <1>3, <1>4, <1>5, <1>6 DEF Acquire, Ahead
<1>8. BlockNo(p, rev) = m + 1 /\ head[p] % Lines = 0
  <2>1. head[p] \div Lines = n /\ head[p] % Lines = 0
    BY <1>4, <1>6, Thirds
  <2> QED BY <1>7, <2>1 DEF BlockNo
<1>9. /\ broken' = FALSE /\ head' = head
      /\ gor' = [gor EXCEPT ![g].at = "block", ![g].blk = m + 1]
  <2>1. BlockNo(p, rev) \in DOMAIN Body[p]
    BY <1>4, <1>7, <1>8
  <2> QED BY <1>2, <1>3, <1>8, <2>1 DEF Acquire
<1>10. gor'[g].at = "block" /\ gor'[g].blk = m + 1 /\ gor'[g].susp = FALSE
  BY <1>2, <1>6, <1>9 DEF GorType
<1>11. OwnCount(g)'
  BY <1>3, <1>4, <1>7, <1>10 DEF OwnCount, InABlock, At
<1>12. OwnHead(g)'
  BY <1>2, <1>3, <1>6, <1>7, <1>9, <1>10 DEF OwnHead, InABlock
<1>13. ASSUME NEW c \in Proc, NEW k \in DOMAIN Body[p], CallsAt(p, k, c)
       PROVE  IF k = m + 1 THEN Underway(g, c)' ELSE Settled(p, k, c)'
  <2>1. Settled(p, k, c)
    BY <1>2, <1>3, <1>13 DEF Callees, InABlock, At
  <2>2. pc'[c] = pc[c]
    BY <1>1, <1>3, <1>13, OnePlace, OwnHeadOnly
  <2>3. k \in Nat
    BY <1>4
  <2>4. CASE k = m + 1
    <3>1. Owes(g, c)'
      BY <1>10 DEF Owes
    <3>2. Fresh(c)'
      BY <1>2, <1>4, <1>5, <1>7, <2>1, <2>2, <2>4 DEF Fresh, Settled
    <3> QED BY <2>4, <3>1, <3>2 DEF Underway
  <2>5. CASE k # m + 1
    <3>1. k <= m <=> k <= n
      BY <1>5, <1>7, <2>3, <2>5
    <3> QED BY <1>4, <1>7, <2>1, <2>2, <2>5, <3>1 DEF Settled
  <2> QED BY <2>4, <2>5
<1>14. Callees(g)'
  BY <1>3, <1>7, <1>10, <1>13 DEF Callees, InABlock
<1> QED BY <1>2, <1>3, <1>4, <1>7, <1>9, <1>10, <1>11, <1>12, <1>14 DEF Alive, At

\* A step in the middle of a block, which starts no callee.
LEMMA InnerStep ==
  ASSUME TypeOK, Joins, InTree, Phases, Locked, Counted, NEW g \in Gor,
         SemWait(g) \/ SemTimeout(g) \/ Call(g) \/ CallWait(g) \/ CallReturn(g)
  PROVE  /\ OwnCount(g)' /\ OwnHead(g)' /\ Callees(g)' /\ Alive(g)'
         /\ broken' = FALSE /\ UNCHANGED <<pc, head>> /\ \A h \in Gor \ {g} : gor'[h] = gor[h]
<1>1. Step(g)
  BY DEF Step
<1>2. /\ gor \in [Gor -> GorType] /\ gor[g] \in GorType /\ Alive(g)
      /\ broken = FALSE /\ rev' = rev
      /\ OwnCount(g) /\ OwnHead(g) /\ Callees(g)
  BY <1>1, Stepping
<1>3. PICK p \in Proc : p = g[1]
  BY GorFinite
<1>4. UNCHANGED <<pc, head>>
  BY DEF SemWait, SemTimeout, Call, CallWait, CallReturn, procs
<1>5. broken' = FALSE
  <2>1. CASE SemWait(g) \/ CallWait(g)
    <3>1. exmut
      BY <2>1 DEF SemWait, CallWait, On, At, Locked, Inside
    <3>2. broken' = (broken \/ ~exmut)
      BY <2>1 DEF SemWait, CallWait, Unlock
    <3> QED BY <1>2, <3>1, <3>2
  <2>2. CASE SemTimeout(g) \/ Call(g) \/ CallReturn(g)
    BY <1>2, <2>2 DEF SemTimeout, Call, CallReturn
  <2> QED BY <2>1, <2>2
<1>6. /\ \A h \in Gor \ {g} : gor'[h] = gor[h]
      /\ gor'[g].susp = FALSE /\ gor'[g].blk = gor[g].blk
      /\ InABlock(g) /\ InABlock(g)' /\ Alive(g)'
  <2>1. gor[g].susp = FALSE
    BY <1>2 DEF OwnCount
  <2>2. CASE SemWait(g) \/ SemTimeout(g) \/ CallWait(g) \/ CallReturn(g)
    BY <1>2, <2>1, <2>2 DEF SemWait, SemTimeout, CallWait, CallReturn, Move, GorType, InABlock,
           On, At, Alive
  <2>3. CASE Call(g)
    BY <1>2, <2>3 DEF Call, GorType, InABlock, On, At, Alive
  <2> QED BY <2>2, <2>3
<1>7. OwnCount(g)'
  BY <1>2, <1>4, <1>6 DEF OwnCount, InABlock, At
<1>8. OwnHead(g)'
  BY <1>2, <1>4, <1>6 DEF OwnHead
<1>9. ASSUME NEW c \in Proc, NEW k \in DOMAIN Body[p], CallsAt(p, k, c), k = pc[p] + 1
      PROVE  Owes(g, c)' <=> Owes(g, c)
  <2>1. gor[g].blk = k
    BY <1>2, <1>3, <1>6, <1>9 DEF OwnCount
  <2>2. CASE SemWait(g) \/ SemTimeout(g)
    BY <1>2, <2>2 DEF SemWait, SemTimeout, Move, On, At, Owes, GorType
  <2>3. CASE Call(g)
    <3>1. gor'[g].at = "call" /\ gor'[g].todo = Instruction(g).kids /\ gor[g].at = "block"
      BY <1>2, <2>3 DEF Call, On, At, GorType
    <3>2. Among(c, Instruction(g).kids)
      BY <1>3, <1>9, <2>1 DEF CallsAt, Instruction
    <3> QED BY <3>1, <3>2 DEF Owes, At
  <2>4. CASE CallWait(g)
    <3>1. gor[g].at = "call" /\ gor[g].todo = << >> /\ gor'[g].at = "wait"
      BY <1>2, <2>4 DEF CallWait, Move, On, At, GorType
    <3>2. ~Among(c, gor[g].todo)
      BY <3>1 DEF Among
    <3> QED BY <3>1, <3>2 DEF Owes, At
  <2>5. CASE CallReturn(g)
    BY <1>2, <2>5 DEF CallReturn, Move, On, At, Owes, GorType
  <2> QED BY <2>2, <2>3, <2>4, <2>5
<1>10. ASSUME NEW c \in Proc, NEW k \in DOMAIN Body[p], CallsAt(p, k, c)
       PROVE  IF k = pc[p] + 1 THEN Underway(g, c)' ELSE Settled(p, k, c)'
  <2>1. IF k = pc[p] + 1 THEN Underway(g, c) ELSE Settled(p, k, c)
    BY <1>2, <1>3, <1>6, <1>10 DEF Callees
  <2>2. Idle(c)' <=> Idle(c)
    BY <1>6, <1>2 DEF Idle, Alive, At
  <2>3. (Settled(p, k, c)' <=> Settled(p, k, c)) /\ (Fresh(c)' <=> Fresh(c)) /\ (Done(c)' <=> Done(c))
    BY <1>2, <1>4 DEF Settled, Fresh, Done
  <2> QED BY <1>9, <1>10, <2>1, <2>2, <2>3 DEF Underway
<1>11. Callees(g)'
  BY <1>3, <1>4, <1>6, <1>10 DEF Callees
<1> QED BY <1>2, <1>4, <1>5, <1>6, <1>7, <1>8, <1>11

\* A block ends.
LEMMA FinishStep ==
  ASSUME TypeOK, Joins, InTree, Phases, Locked, Counted, NEW g \in Gor,
         Plain(g) \/ SemPass(g) \/ CallEnd(g)
  PROVE  /\ OwnCount(g)' /\ OwnHead(g)' /\ Callees(g)' /\ Alive(g)'
         /\ broken' = FALSE /\ pc'[g[1]] \in 0 .. Len(Body[g[1]])
         /\ \A h \in Gor \ {g} : gor'[h] = gor[h]
<1>1. Step(g)
  BY DEF Step
<1>2. /\ gor \in [Gor -> GorType] /\ gor[g] \in GorType /\ Alive(g)
      /\ broken = FALSE /\ rev' = rev /\ gor[g].dir = rev
      /\ OwnCount(g) /\ OwnHead(g) /\ Callees(g) /\ InABlock(g)
  BY <1>1, Stepping DEF Plain, SemPass, CallEnd, On, At, InABlock
<1>3. PICK p \in Proc : p = g[1]
  BY GorFinite
<1>4. PICK n \in Nat, l \in Nat \ {0} :
        n = pc[p] /\ l = Len(Body[p]) /\ DOMAIN Body[p] = 1 .. l /\ n < l
  BY <1>2, <1>3, BlockFacts DEF Counted, OwnCount
<1>5. pc \in [Proc -> Int] /\ head \in [Proc -> Int] /\ rev \in BOOLEAN
  BY DEF TypeOK
<1>6. gor[g].susp = FALSE /\ gor[g].blk = n + 1 /\ head[p] = Lines * (IF rev THEN n + 1 ELSE n)
  BY <1>2, <1>3, <1>4 DEF OwnCount, OwnHead
<1>7. /\ pc' = IF rev THEN pc ELSE [pc EXCEPT ![p] = @ + 1]
      /\ head' = [head EXCEPT ![p] = Lines * (IF rev THEN n ELSE n + 1)]
      /\ gor' = [gor EXCEPT ![g].at = "update", ![g].ret = Returns(g)]
      /\ broken' = FALSE
  <2>0. HeadAfter(g, Lines) = Lines * (IF rev THEN n ELSE n + 1)
    BY <1>2, <1>3, <1>5, <1>6 DEF HeadAfter, Lines
  <2>1. CASE CallEnd(g)
    BY <1>2, <1>3, <1>6, <2>0, <2>1 DEF CallEnd
  <2>2. CASE Plain(g) \/ SemPass(g)
    <3>1. exmut
      BY <2>2 DEF Plain, SemPass, On, At, Locked, Inside
    <3>2. Finish(g, Lines)
      BY <2>2 DEF Plain, SemPass
    <3> QED BY <1>2, <1>3, <2>0, <3>1, <3>2 DEF Finish, Unlock
  <2> QED BY <2>1, <2>2
<1>8. PICK m \in Nat : m = pc'[p] /\ m <= l /\ m = (IF rev THEN n ELSE n + 1)
  BY <1>4, <1>5, <1>7
<1>9. head'[p] = Lines * m
  BY <1>5, <1>6, <1>7, <1>8 DEF Lines
<1>10. /\ gor'[g].at = "update" /\ gor'[g].ret = Returns(g) /\ gor'[g].susp = FALSE
       /\ \A h \in Gor \ {g} : gor'[h] = gor[h]
  BY <1>2, <1>6, <1>7 DEF GorType
<1>11. Returns(g) = "normal" <=> n + 1 # (IF rev THEN 1 ELSE l)
  BY <1>2, <1>3, <1>4, <1>6 DEF Returns
<1>12. OwnCount(g)'
  <2>1. Returns(g) = "normal" => Ahead(p)'
    BY <1>2, <1>4, <1>5, <1>8, <1>11 DEF Ahead
  <2>2. Returns(g) # "normal" => Done(p)'
    BY <1>2, <1>4, <1>5, <1>8, <1>11 DEF Done
  <2> QED BY <1>3, <1>10, <2>1, <2>2 DEF OwnCount, At, InABlock
<1>13. OwnHead(g)'
  BY <1>3, <1>8, <1>9, <1>10 DEF OwnHead, InABlock
<1>14. ASSUME NEW c \in Proc, NEW k \in DOMAIN Body[p], CallsAt(p, k, c)
       PROVE  Settled(p, k, c)'
  <2>1. IF k = n + 1 THEN Underway(g, c) ELSE Settled(p, k, c)
    BY <1>2, <1>3, <1>4, <1>14 DEF Callees
  <2>2. pc'[c] = pc[c]
    BY <1>1, <1>3, <1>14, OnePlace, OwnHeadOnly
  <2>3. k \in Nat
    BY <1>4
  <2>4. CASE k # n + 1
    <3>1. k <= m <=> k <= n
      BY <1>4, <1>5, <1>8, <2>3, <2>4
    <3> QED BY <1>4, <1>8, <2>1, <2>2, <2>4, <3>1 DEF Settled
  <2>5. CASE k = n + 1
    <3>1. At(g, "return")
      <4>1. Instruction(g).kind = "call"
        BY <1>3, <1>6, <1>14, <2>5 DEF CallsAt, Instruction
      <4> QED BY <4>1 DEF Plain, SemPass, CallEnd, On
    <3>2. ~Owes(g, c)
      BY <3>1 DEF Owes, At
    <3>3. Idle(c)
      <4>1. SUFFICES ASSUME NEW h \in Gor, h[1] = c, Alive(h) PROVE FALSE
        BY DEF Idle
      <4>2. PICK b \in Gor : b[1] = p /\ Alive(b) /\ Calling(b)
        BY <1>2, <1>14, <4>1, RunsInCall
      <4>3. b = g
        BY <1>2, <1>3, <4>2 DEF InTree, OneGoroutine
      <4> QED BY <3>1, <4>2, <4>3 DEF Calling, At
    <3>4. Done(c)
      BY <2>1, <2>5, <3>2, <3>3 DEF Underway
    <3>5. k <= m <=> ~rev
      BY <1>4, <1>5, <1>8, <2>5
    <3> QED BY <1>8, <2>2, <3>4, <3>5 DEF Settled, Done
  <2> QED BY <2>4, <2>5
<1>15. Callees(g)'
  BY <1>3, <1>10, <1>14 DEF Callees, InABlock
<1>16. broken' = FALSE /\ Alive(g)'
  BY <1>7, <1>10 DEF Alive, At
<1>17. pc'[g[1]] \in 0 .. Len(Body[g[1]])
  BY <1>3, <1>4, <1>8
<1> QED BY <1>10, <1>12, <1>13, <1>15, <1>16, <1>17

\* A callee starts.
LEMMA ChildStep ==
  ASSUME TypeOK, Joins, InTree, Phases, Locked, Counted, NEW g \in Gor, CallChild(g)
  PROVE  /\ OwnCount(g)' /\ OwnHead(g)' /\ Callees(g)' /\ Alive(g)'
         /\ broken' = FALSE /\ pc' = pc /\ head'[g[1]] = head[g[1]]
         /\ \A h \in Gor \ {g} : Alive(h)' /\ ~Alive(h) =>
              g[1] \in CalledBy(h[1]) /\ Fresh(h[1]) /\ gor'[h].susp = FALSE
<1>1. Step(g)
  BY DEF Step
<1>2. /\ gor \in [Gor -> GorType] /\ gor[g] \in GorType /\ Alive(g) /\ At(g, "call")
      /\ broken = FALSE /\ rev' = rev /\ gor[g].dir = rev
      /\ OwnCount(g) /\ OwnHead(g) /\ Callees(g) /\ InABlock(g)
  BY <1>1, Stepping DEF CallChild, On, At, InABlock
<1>3. PICK p \in Proc : p = g[1]
  BY GorFinite
<1>4. PICK c \in Proc :
        /\ c = Head(gor[g].todo) /\ CallsAt(p, pc[p] + 1, c) /\ gor[g].blk = pc[p] + 1
        /\ c # p /\ p \in CalledBy(c) /\ Idle(c) /\ Fresh(c) /\ head[c] = Start(c, rev)
  BY <1>2, <1>3, Starting
<1>5. PICK T \in Seq(Proc) : T = gor[g].todo /\ T # << >>
  BY <1>2 DEF CallChild, GorType
<1>6. PICK j \in FreeSlot(c) : gor' = [gor EXCEPT ![j] = New(g), ![g].todo = Tail(T)]
  BY <1>4, <1>5 DEF CallChild
<1>7. j \in Gor /\ j # g /\ j[1] = c /\ ~Alive(j)
  BY <1>2, <1>6 DEF FreeSlot, Gor
<1>8. /\ gor'[g].at = "call" /\ gor'[g].todo = Tail(T) /\ gor'[g].susp = gor[g].susp
      /\ gor'[g].blk = gor[g].blk
      /\ gor'[j].at = "select" /\ gor'[j].susp = FALSE
      /\ \A h \in Gor \ {g, j} : gor'[h] = gor[h]
  <2>1. New(g).at = "select" /\ New(g).susp = FALSE
    BY DEF New
  <2> QED BY <1>2, <1>6, <1>7, <2>1 DEF At, GorType
<1>9. pc' = pc /\ broken' = FALSE /\ head'[p] = head[p]
  <2>1. head' = [head EXCEPT ![c] = Start(c, gor[g].dir)] /\ UNCHANGED <<pc, broken>>
    BY <1>4 DEF CallChild
  <2> QED BY <1>2, <1>4, <2>1 DEF TypeOK
<1>10. InABlock(g)' /\ Alive(g)'
  BY <1>8 DEF InABlock, Alive, At
<1>11. OwnCount(g)'
  BY <1>2, <1>8, <1>9, <1>10 DEF OwnCount, InABlock, At
<1>12. OwnHead(g)'
  BY <1>2, <1>3, <1>9, <1>10 DEF OwnHead
<1>13. ASSUME NEW d \in Proc, NEW k \in DOMAIN Body[p], CallsAt(p, k, d)
       PROVE  IF k = pc[p] + 1 THEN Underway(g, d)' ELSE Settled(p, k, d)'
  <2>1. IF k = pc[p] + 1 THEN Underway(g, d) ELSE Settled(p, k, d)
    BY <1>2, <1>3, <1>13 DEF Callees
  <2>2. (Settled(p, k, d)' <=> Settled(p, k, d)) /\ (Fresh(d)' <=> Fresh(d)) /\ (Done(d)' <=> Done(d))
    BY <1>2, <1>9 DEF Settled, Fresh, Done
  <2>3. CASE d = c
    <3>1. Fresh(d)' /\ ~Idle(d)'
      BY <1>4, <1>7, <1>8, <2>2, <2>3 DEF Idle, Alive, At
    <3> QED BY <2>1, <2>2, <3>1 DEF Underway
  <2>4. CASE d # c
    <3>1. Idle(d)' <=> Idle(d)
      BY <1>2, <1>7, <1>8, <1>10, <2>4 DEF Idle, Alive, At
    <3>2. Among(d, Tail(T)) <=> Among(d, T)
      <4>1. T[1] = c
        BY <1>4, <1>5
      <4>2. ASSUME NEW i \in DOMAIN T, T[i] = d PROVE Among(d, Tail(T))
        <5>1. i - 1 \in DOMAIN Tail(T) /\ Tail(T)[i - 1] = d
          <6>1. i \in Nat /\ i # 1 /\ i # 0 /\ i <= Len(T) /\ Len(T) \in Nat
            BY <1>5, <2>4, <4>1, <4>2
          <6>2. PICK m \in Nat : i = m + 1 /\ m \in 1 .. Len(T) - 1
            BY <6>1
          <6>3. DOMAIN Tail(T) = 1 .. Len(T) - 1 /\ \A n \in 1 .. Len(T) - 1 : Tail(T)[n] = T[n + 1]
            BY <1>5
          <6> QED BY <4>2, <6>2, <6>3
        <5> QED BY <5>1 DEF Among
      <4>3. ASSUME NEW i \in DOMAIN Tail(T), Tail(T)[i] = d PROVE Among(d, T)
        <5>1. i + 1 \in DOMAIN T /\ T[i + 1] = d
          BY <1>5, <4>3
        <5> QED BY <5>1 DEF Among
      <4> QED BY <4>2, <4>3 DEF Among
    <3>3. Owes(g, d)' <=> Owes(g, d)
      BY <1>2, <1>5, <1>8, <3>2 DEF Owes, At
    <3> QED BY <2>1, <2>2, <3>1, <3>3 DEF Underway
  <2> QED BY <2>3, <2>4
<1>14. Callees(g)'
  BY <1>3, <1>9, <1>10, <1>13 DEF Callees
<1>15. ASSUME NEW h \in Gor \ {g}, Alive(h)', ~Alive(h)
       PROVE  g[1] \in CalledBy(h[1]) /\ Fresh(h[1]) /\ gor'[h].susp = FALSE
  <2>1. h = j
    BY <1>8, <1>15 DEF Alive, At
  <2> QED BY <1>3, <1>4, <1>7, <1>8, <2>1
<1> QED BY <1>3, <1>9, <1>10, <1>11, <1>12, <1>14, <1>15

\* A process ends.
LEMMA EndStep ==
  ASSUME TypeOK, Joins, InTree, Phases, Counted, NEW g \in Gor, EofSend(g) \/ ProcEnd(g)
  PROVE  ~Alive(g)' /\ Done(g[1])' /\ AtRest(g[1])' /\ broken' = FALSE /\ UNCHANGED <<pc, head>>
<1>1. Step(g)
  BY DEF Step
<1>2. /\ broken = FALSE /\ rev' = rev /\ OwnCount(g) /\ OwnHead(g) /\ Callees(g)
      /\ gor[g].at \in {"close", "procend"}
  BY <1>1, Stepping DEF EofSend, ProcEnd, On, At
<1>3. UNCHANGED <<pc, head, broken>>
  BY DEF EofSend, ProcEnd, procs
<1>4. ~Alive(g)'
  <2>1. Ends(g)
    BY DEF Ends, EofSend, ProcEnd, On, At, Alive, Calling
  <2> QED BY <2>1, EndsFacts
<1>5. Done(g[1]) /\ ~InABlock(g)
  BY <1>2 DEF OwnCount, InABlock
<1>6. AtRest(g[1])
  BY <1>2, <1>5 DEF OwnHead, Callees, AtRest
<1>7. Done(g[1])'
  BY <1>2, <1>3, <1>5 DEF Done
<1>8. AtRest(g[1])'
  BY <1>3, <1>6 DEF AtRest, Settled
<1> QED BY <1>2, <1>3, <1>4, <1>7, <1>8

\* Every step of a goroutine keeps the counters right.
LEMMA CountedStep ==
  ASSUME TypeOK, Joins, InTree, InTree', Phases, Locked, Counted, NEW g \in Gor, Step(g)
  PROVE  Counted'
<1>1. /\ Alive(g) /\ UNCHANGED <<rev, dbg>> /\ g[1] \in Proc
      /\ ~TakeClose(g) /\ ~Leave(g) /\ ~SemClose(g) /\ ~SemRelay(g)
  BY Stepping
<1>2. exmut' => \E h \in Gor : Inside(h)'
  BY MutexStep
<1>3. \A q \in Proc \ {g[1]} : pc'[q] = pc[q] /\ head'[q] = head[q]
  BY OwnHeadOnly
<1>4. pc[g[1]] \in 0 .. Len(Body[g[1]])
  BY <1>1 DEF Counted
<1>5. CASE /\ OwnCount(g)' /\ OwnHead(g)' /\ Callees(g)' /\ Alive(g)'
           /\ broken' = FALSE /\ pc'[g[1]] \in 0 .. Len(Body[g[1]])
           /\ \A h \in Gor \ {g} : Alive(h)' /\ ~Alive(h) =>
                g[1] \in CalledBy(h[1]) /\ Fresh(h[1]) /\ gor'[h].susp = FALSE
  BY <1>1, <1>2, <1>3, <1>5, OthersCounted
<1>6. CASE TakeRun(g) \/ RelayRun(g) \/ Poll(g) \/ Update(g) \/ Send(g) \/ Eof(g)
  <2>1. /\ OwnCount(g)' /\ OwnHead(g)' /\ Callees(g)' /\ Alive(g)' /\ broken' = FALSE
        /\ pc' = pc /\ \A h \in Gor \ {g} : gor'[h] = gor[h]
    BY <1>6, OutsideStep
  <2>2. \A h \in Gor \ {g} : ~(Alive(h)' /\ ~Alive(h))
    BY <2>1 DEF Alive, At
  <2> QED BY <1>4, <1>5, <2>1, <2>2
<1>7. CASE Acquire(g)
  <2>1. \A h \in Gor \ {g} : ~(Alive(h)' /\ ~Alive(h))
    BY <1>7, AcquireStep DEF Alive, At
  <2> QED BY <1>5, <1>7, <2>1, AcquireStep
<1>8. CASE SemWait(g) \/ SemTimeout(g) \/ Call(g) \/ CallWait(g) \/ CallReturn(g)
  <2>1. /\ OwnCount(g)' /\ OwnHead(g)' /\ Callees(g)' /\ Alive(g)' /\ broken' = FALSE
        /\ pc' = pc /\ \A h \in Gor \ {g} : gor'[h] = gor[h]
    BY <1>8, InnerStep
  <2>2. \A h \in Gor \ {g} : ~(Alive(h)' /\ ~Alive(h))
    BY <2>1 DEF Alive, At
  <2> QED BY <1>4, <1>5, <2>1, <2>2
<1>9. CASE Plain(g) \/ SemPass(g) \/ CallEnd(g)
  <2>1. /\ OwnCount(g)' /\ OwnHead(g)' /\ Callees(g)' /\ Alive(g)' /\ broken' = FALSE
        /\ pc'[g[1]] \in 0 .. Len(Body[g[1]]) /\ \A h \in Gor \ {g} : gor'[h] = gor[h]
    BY <1>9, FinishStep
  <2>2. \A h \in Gor \ {g} : ~(Alive(h)' /\ ~Alive(h))
    BY <2>1 DEF Alive, At
  <2> QED BY <1>5, <2>1, <2>2
<1>10. CASE CallChild(g)
  BY <1>4, <1>5, <1>10, ChildStep
<1>11. CASE EofSend(g) \/ ProcEnd(g)
  <2>1. ~Alive(g)' /\ Done(g[1])' /\ AtRest(g[1])' /\ broken' = FALSE /\ pc' = pc
    BY <1>11, EndStep
  <2>2. \A h \in Gor \ {g} : ~(Alive(h)' /\ ~Alive(h))
    BY <1>11, StartedByCaller DEF CallChild, EofSend, ProcEnd, On, At
  <2> QED BY <1>1, <1>2, <1>3, <1>4, <2>1, <2>2, OthersCounted
<1> QED BY <1>1, <1>6, <1>7, <1>8, <1>9, <1>10, <1>11 DEF Step

\* So does every step of the command loop: a run starts where the last one stopped.
LEMMA CountedLoop ==
  ASSUME TypeOK, Joins, InTree, Phases, Locked, Counted, ~Suspends, ~Steps, Proceed \/ Command
  PROVE  Counted'
<1>1. /\ gor \in [Gor -> GorType] /\ head \in [Proc -> Int] /\ pc \in [Proc -> Int]
      /\ rev \in BOOLEAN /\ Root \in Proc
  BY TypeParts, BodyAssumption DEF Rest
<1>2. ~Suspend /\ ~Enter /\ ~StepBlock /\ ~EnterEver /\ ~SuspendEver /\ ~SuspendSend
  <2>1. ~Suspend /\ ~Enter
    BY DEF Suspend, Enter
  <2>2. ~StepBlock /\ ~EnterEver /\ ~SuspendEver /\ ~SuspendSend
    BY DEF Phases, StepBlock, EnterEver, SuspendEver, SuspendSend, LoopAt
  <2> QED BY <2>1, <2>2
<1>3. pc[Root] \in Int /\ Len(Body[Root]) \in Nat \ {0} /\ pc[Root] \in 0 .. Len(Body[Root])
  BY <1>1, BlockFacts DEF Counted
<1>4. CASE RunMain
  <2>1. PICK j \in FreeSlot(Root) : gor' = [gor EXCEPT ![j] = New(NoGor)]
    BY <1>4 DEF RunMain
  <2>2. j \in Gor /\ j[1] = Root
    BY <1>1, <2>1 DEF FreeSlot, Gor
  <2>3. dbg = "main" /\ dbg' = "select" /\ UNCHANGED <<rev, exmut, pc, broken>>
        /\ head' = [head EXCEPT ![Root] = Start(Root, rev)]
    BY <1>4 DEF RunMain, LoopAt
  <2>4. \A h \in Gor : ~Alive(h)
    BY <2>3 DEF Phases
  <2>5. /\ \A h \in Gor \ {j} : ~Alive(h)'
        /\ gor'[j].at = "select" /\ gor'[j].susp = FALSE
    <3>1. gor'[j] = New(NoGor)
      BY <1>1, <2>1, <2>2
    <3> QED BY <1>1, <2>1, <2>4, <3>1 DEF Alive, At, New
  <2>6. \A q \in Proc : AtRest(q)
    BY <2>4 DEF Counted, Idle
  <2>7. Fresh(Root)
    BY <2>3 DEF Counted
  <2>8. head' = head
    <3>1. Start(Root, rev) = Lines * pc[Root]
      BY <1>3, <2>7 DEF Fresh, Start, Lines
    <3>2. head[Root] = Lines * pc[Root]
      BY <1>1, <2>6 DEF AtRest
    <3> QED BY <1>1, <2>3, <3>1, <3>2
  <2>9. \A q \in Proc : AtRest(q)'
    BY <2>3, <2>6, <2>8 DEF AtRest, Settled
  <2>10. OwnCount(j)' /\ OwnHead(j)' /\ Callees(j)'
    <3>1. ~InABlock(j)' /\ Fresh(Root)'
      BY <2>3, <2>5, <2>7 DEF InABlock, Fresh
    <3>2. OwnCount(j)'
      BY <2>2, <2>5, <3>1 DEF OwnCount, At
    <3>3. AtRest(Root)'
      BY <1>1, <2>9
    <3> QED BY <2>2, <3>1, <3>2, <3>3 DEF OwnHead, Callees, AtRest
  <2>11. ~exmut'
    <3>1. ~exmut
      BY <2>4 DEF Counted, Inside, Alive, At
    <3> QED BY <2>3, <3>1
  <2> QED BY <2>2, <2>3, <2>5, <2>9, <2>10, <2>11 DEF Counted, Alive, At
<1>5. CASE ~RunMain
  <2>1. UNCHANGED <<gor, exmut, head, pc, broken>>
    BY <1>2, <1>5 DEF Proceed, Command, GetPid, Closed, ClosedRelay, RunEver, RunSend, Direction,
           Run, procs
  <2>2. \A q \in Proc : Idle(q)' = Idle(q) /\ AtRest(q)' = AtRest(q)
    BY <2>1 DEF Idle, Alive, At, AtRest, Settled
  <2>3. ASSUME NEW h \in Gor, Alive(h) PROVE OwnCount(h)' /\ OwnHead(h)' /\ Callees(h)'
    <3>1. OwnCount(h) /\ OwnHead(h) /\ Callees(h) /\ running
      BY <2>3 DEF Counted, Phases
    <3>2. rev' = rev
      BY <1>2, <1>5, <3>1 DEF Proceed, Command, GetPid, Closed, ClosedRelay, RunEver, RunSend,
             Direction, Run, loop
    <3>3. OwnCount(h)'
      BY <2>1, <3>1, <3>2 DEF OwnCount, InABlock, At, Fresh, Done, Ahead
    <3>4. OwnHead(h)'
      BY <2>1, <3>1, <3>2 DEF OwnHead, InABlock
    <3>5. \A c : Underway(h, c)' <=> Underway(h, c)
      BY <2>1, <3>2 DEF Underway, Owes, Fresh, Done, Idle, Alive, At
    <3>6. Callees(h)'
      BY <2>1, <3>1, <3>5 DEF Callees, InABlock, Settled
    <3> QED BY <3>3, <3>4, <3>6
  <2>4. ASSUME dbg' \in {"run", "ever", "main"} PROVE Fresh(Root)'
    <3>1. CASE Run
      <4>1. ~running /\ UNCHANGED <<rev, pc>> /\ (IF rev THEN pc[Root] > 0 ELSE pc[Root] < Len(Body[Root]))
        BY <2>1, <3>1 DEF Run
      <4>2. pc[Root] \in {0, Len(Body[Root])}
        BY <4>1 DEF Phases, Counted
      <4> QED BY <1>3, <4>1, <4>2 DEF Fresh
    <3>2. CASE RunEver \/ RunSend
      <4>1. dbg \in {"run", "ever"} /\ UNCHANGED <<rev, pc>>
        BY <2>1, <3>2 DEF RunEver, RunSend, LoopAt
      <4> QED BY <4>1 DEF Counted, Fresh
    <3>3. CASE GetPid \/ Closed \/ ClosedRelay \/ Direction
      BY <2>4, <3>3 DEF GetPid, Closed, ClosedRelay, Direction, LoopAt, loop
    <3> QED BY <1>2, <1>5, <3>1, <3>2, <3>3 DEF Proceed, Command
  <2>5. /\ broken' = FALSE /\ (exmut' => \E h \in Gor : Inside(h)')
        /\ \A p \in Proc : pc'[p] \in 0 .. Len(Body[p])
        /\ (\A h \in Gor : ~Alive(h)') => pc'[Root] \in {0, Len(Body[Root])}
    BY <2>1 DEF Counted, Inside, Alive, At
  <2>6. \A h \in Gor : Alive(h)' => OwnCount(h)' /\ OwnHead(h)' /\ Callees(h)'
    BY <2>1, <2>3 DEF Alive, At
  <2>7. \A q \in Proc : Idle(q)' => AtRest(q)'
    BY <2>2 DEF Counted
  <2> QED BY <2>4, <2>5, <2>6, <2>7 DEF Counted
<1> QED BY <1>4, <1>5

LEMMA CountedInit == Init => Counted
<1> SUFFICES ASSUME Init PROVE Counted
  OBVIOUS
<1>1. Root \in Proc /\ <<Root, 1>> \in Gor
  BY BodyAssumption, BoundAssumption DEF Gor
<1>2. /\ \A g \in Gor : g # <<Root, 1>> => gor[g].at = "none"
      /\ gor[<<Root, 1>>].at = "select" /\ gor[<<Root, 1>>].susp = FALSE
  BY <1>1, NewFacts DEF Init, New, Dead
<1>3. /\ \A p \in Proc : head[p] = 0 /\ pc[p] = 0 /\ Len(Body[p]) \in Nat \ {0}
      /\ \A p \in Proc : \A k \in DOMAIN Body[p] : ~(k <= 0)
      /\ rev = FALSE /\ broken = FALSE /\ exmut = FALSE /\ dbg = "select"
  BY BlockFacts DEF Init
<1>4. \A p \in Proc : AtRest(p)
  BY <1>3 DEF AtRest, Settled, Lines
<1>5. ASSUME NEW g \in Gor, Alive(g) PROVE OwnCount(g) /\ OwnHead(g) /\ Callees(g)
  <2>1. g = <<Root, 1>> /\ g[1] = Root
    BY <1>2, <1>5 DEF Alive, At
  <2>2. AtRest(Root) /\ ~InABlock(g) /\ Fresh(Root)
    BY <1>1, <1>2, <1>3, <1>4, <2>1 DEF InABlock, Fresh
  <2>3. OwnCount(g)
    BY <1>2, <2>1, <2>2 DEF OwnCount, At
  <2> QED BY <2>1, <2>2, <2>3 DEF OwnHead, Callees, AtRest
<1> QED BY <1>1, <1>3, <1>4, <1>5 DEF Counted

LEMMA CountedSound == ~Suspends /\ ~Steps => (Spec => [](TypeOK /\ Joins /\ Finishing /\ Counted))
<1> SUFFICES ASSUME ~Suspends, ~Steps PROVE Spec => [](TypeOK /\ Joins /\ Finishing /\ Counted)
  OBVIOUS
<1>1. TypeOK /\ Joins /\ Finishing /\ [Next]_vars => Finishing'
  BY FinishingStep
<1>2. TypeOK /\ Joins /\ Finishing /\ Finishing' /\ Counted /\ [Next]_vars => Counted'
  <2> SUFFICES ASSUME TypeOK, Joins, Finishing, Finishing', Counted, [Next]_vars PROVE Counted'
    OBVIOUS
  <2>1. InTree /\ Phases /\ Locked /\ InTree'
    BY DEF Finishing
  <2>2. ASSUME NEW g \in Gor, Step(g) PROVE Counted'
    BY <2>1, <2>2, CountedStep
  <2>3. CASE Proceed \/ Command
    BY <2>1, <2>3, CountedLoop
  <2>4. CASE UNCHANGED vars
    BY <2>4 DEF Counted, Inside, Alive, At, OwnCount, OwnHead, Callees, AtRest, Settled, Underway,
           Owes, Fresh, Done, Ahead, Idle, InABlock, vars, loop, procs
  <2> QED BY <2>2, <2>3, <2>4 DEF Next
<1> QED BY <1>1, <1>2, FinishingInit, CountedInit, TypeCorrect, PTL DEF Spec

\* In runs that the user lets finish, the head of a process that is in no block is
\* where its counter says, although the head is set anew for each run and each call
\* and goes by lines, and the counter by blocks (pc.go:61, 134; runtime.go:81, 91).
THEOREM HeadsAgree == ~Suspends /\ ~Steps => (Spec => []InStep)
<1> SUFFICES ASSUME ~Suspends, ~Steps PROVE Spec => []InStep
  OBVIOUS
<1>1. Counted => InStep
  <2> SUFFICES ASSUME Counted, NEW p \in Proc,
                      \A g \in Gor : g[1] = p => ~InABlock(g)
               PROVE  head[p] = Lines * pc[p]
    BY DEF InStep, InABlock
  <2>1. CASE Idle(p)
    BY <2>1 DEF Counted, AtRest
  <2>2. CASE ~Idle(p)
    <3>1. PICK g \in Gor : g[1] = p /\ Alive(g)
      BY <2>2 DEF Idle
    <3> QED BY <3>1 DEF Counted, OwnHead
  <2> QED BY <2>1, <2>2
<1> QED BY <1>1, CountedSound, PTL

\* The prompt comes back with nobody running, exmut free, and every process at its
\* end, or every process at its begin: the run has been whole, and the next one, in
\* either direction, starts where it has stopped.
THEOREM PromptIsQuiet == ~Suspends /\ ~Steps => (Spec => []QuietPrompt)
<1> SUFFICES ASSUME ~Suspends, ~Steps PROVE Spec => []QuietPrompt
  OBVIOUS
<1>1. Finishing /\ Counted => QuietPrompt
  <2> SUFFICES ASSUME Finishing, Counted, dbg = "select", ~running
               PROVE  /\ \A p \in Proc : Idle(p)
                      /\ ~exmut
                      /\ \/ \A p \in Proc : pc[p] = Len(Body[p])
                         \/ \A p \in Proc : pc[p] = 0
    BY DEF QuietPrompt
  <2>1. \A g \in Gor : ~Alive(g)
    BY DEF Finishing, Phases
  <2>2. (\A p \in Proc : Idle(p)) /\ ~exmut
    BY <2>1 DEF Idle, Counted, Inside, Alive, At
  <2>3. \A p \in Proc : AtRest(p)
    BY <2>2 DEF Counted
  <2>4. ASSUME NEW w \in {TRUE, FALSE}, pc[Root] = IF w THEN Len(Body[Root]) ELSE 0
        PROVE  \A p \in Proc : pc[p] = IF w THEN Len(Body[p]) ELSE 0
    <3> DEFINE S == {p \in Proc : pc[p] # IF w THEN Len(Body[p]) ELSE 0}
    <3>1. SUFFICES ASSUME S # {} PROVE FALSE
      OBVIOUS
    <3>2. PICK c \in S : CalledBy(c) \cap S = {}
      <4>1. S \in SUBSET Proc
        OBVIOUS
      <4> QED BY <3>1, <4>1, TreeAssumption
    <3>3. PICK p \in CalledBy(c) : p \in Proc
      <4>1. c \in Proc \ {Root}
        BY <2>4
      <4> QED BY <4>1, PlaceAssumption DEF CalledBy
    <3>4. PICK k \in DOMAIN Body[p] : CallsAt(p, k, c)
      BY <3>3 DEF CalledBy, CallsAt, Among
    <3>5. pc[p] = IF w THEN Len(Body[p]) ELSE 0
      BY <3>2, <3>3
    <3>6. k \in 1 .. Len(Body[p]) /\ Len(Body[p]) \in Nat
      BY <3>3, <3>4, BlockFacts
    <3>7. k <= pc[p] <=> w
      BY <3>5, <3>6
    <3>8. Settled(p, k, c)
      BY <2>3, <3>3, <3>4 DEF AtRest
    <3> QED BY <3>2, <3>7, <3>8 DEF Settled
  <2>5. pc[Root] = Len(Body[Root]) \/ pc[Root] = 0
    BY <2>1 DEF Counted
  <2> QED BY <2>2, <2>4, <2>5
<1> QED BY <1>1, CountedSound, PTL

\* A process that is called or run again finds its head where it left it: setting the
\* head in runPC and runPCCall overwrites nothing (runtime.go:646).
THEOREM HeadsKept == ~Suspends /\ ~Steps => (Spec => HeadKept)
<1> SUFFICES ASSUME ~Suspends, ~Steps PROVE Spec => HeadKept
  OBVIOUS
<1>1. TypeOK /\ Joins /\ Finishing /\ Counted /\ [Next]_vars =>
        [\A p \in Proc \ {Root} : Idle(p) => head'[p] = head[p]]_vars
  <2> SUFFICES ASSUME TypeOK, Joins, Finishing, Counted, Next, NEW p \in Proc \ {Root}, Idle(p)
               PROVE  head'[p] = head[p]
    OBVIOUS
  <2>1. InTree /\ Phases
    BY DEF Finishing
  <2>2. ASSUME NEW g \in Gor, Step(g) PROVE head'[p] = head[p]
    <3>1. g[1] # p
      BY <2>1, <2>2, Stepping DEF Idle
    <3> QED BY <2>1, <2>2, <3>1, OwnHeadOnly
  <2>3. CASE Proceed \/ Command
    <3>1. head' = head \/ head' = [head EXCEPT ![Root] = Start(Root, rev)]
      BY <2>3 DEF Proceed, Command, GetPid, Closed, ClosedRelay, SuspendEver, SuspendSend,
             RunEver, RunSend, RunMain, EnterEver, StepBlock, Suspend, Direction, Run, Enter, procs
    <3> QED BY <3>1 DEF TypeOK
  <2> QED BY <2>2, <2>3 DEF Next
<1> QED BY <1>1, CountedSound, PTL DEF Spec, HeadKept

\* exmut is never unlocked while it is free, and nobody executes lines of two blocks
\* or beyond a procedure: nothing of this can panic in a run that the user lets finish.
THEOREM NeverBroken == ~Suspends /\ ~Steps => (Spec => []~broken)
<1> SUFFICES ASSUME ~Suspends, ~Steps PROVE Spec => []~broken
  OBVIOUS
<1>1. Counted => ~broken
  BY DEF Counted
<1> QED BY <1>1, CountedSound, PTL

=============================================================================
