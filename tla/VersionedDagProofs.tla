------------------------- MODULE VersionedDagProofs -------------------------
(***************************************************************************)
(* The annotation DAG does what a version log would: VersionedDag          *)
(* implements VersionStore, for every program in which a cell has one      *)
(* name.                                                                   *)
(***************************************************************************)
EXTENDS VersionedDag, CallTreeProofs

-----------------------------------------------------------------------------
(* The log does not change what the interpreter does *)

\* A step with the log is a step without it.
LEMMA StepsAreSteps == [LNext]_lvars => [Next]_vars
BY DEF LNext, LStep, Next, Step, lvars

\* So what holds of the interpreter holds with the log written beside it.
LEMMA SameBehaviours == LSpec => Spec
<1>1. LInit => Init
  BY DEF LInit
<1> QED BY <1>1, StepsAreSteps, PTL DEF LSpec, Spec

-----------------------------------------------------------------------------
(* Images *)

\* What a block of the program reads has a name of its own.
LEMMA Named ==
  ASSUME TypeOK, NEW n \in Node, IsNode(n), NEW a \in Reads(BlockOf(n))
  PROVE  a \in Addr /\ a.sym \in Sym /\ a.cell \in Cell /\ NameOf[a.cell] = a.sym
<1>1. prog \in Programs /\ prog \in [Proc -> Seq(Block)]
  BY ProgramAssumption DEF TypeOK
<1>2. n[1] \in Proc /\ n[2] + 1 \in DOMAIN prog[n[1]]
  BY <1>1, ProcAssumption DEF IsNode, Node
<1>3. BlockOf(n) \in Block
  BY <1>1, <1>2 DEF BlockOf
<1>4. NameOf[a.cell] = a.sym
  BY <1>1, <1>2, NameAssumption DEF BlockOf
<1>5. a \in Addr
  BY <1>3 DEF Reads, Block
<1> QED BY <1>4, <1>5 DEF Addr

\* The image of a version in the log is the one of its entry.
LEMMA ImageOfEntry ==
  ASSUME LogInv, NEW l \in log, l.ver # BOT, NEW s
  PROVE  ImageOf(s, l.ver) = l.img
<1>1. \A k \in log : k.ver = l.ver => k = l
  BY DEF LogInv
<1>2. (CHOOSE k \in log : k.ver = l.ver) = l
  BY <1>1
<1> QED BY <1>2 DEF ImageOf

\* Log entries are about nodes of the program that write.
LEMMA EntryFacts ==
  ASSUME TypeOK, DagInv, LogInv, NEW l \in log
  PROVE  /\ Edge(l.over, l.ver, l.sym, TRUE) \in edges
         /\ l.ver \in Node /\ l.ver # BOT /\ l.sym \in Sym /\ l.over \in Node \cup {BOT}
         /\ IsNode(l.ver) /\ WriterOf(l.ver, l.sym)
<1>1. PICK e \in edges : e = Edge(l.over, l.ver, l.sym, TRUE)
  BY DEF LogInv
<1>2. e.src = l.over /\ e.dst = l.ver /\ e.sym = l.sym /\ e.wt
  BY <1>1 DEF Edge
<1>3. e.src \in Node \cup {BOT} /\ e.dst \in Node /\ e.sym \in Sym
  BY DEF TypeOK, EdgeType
<1>4. WriterOf(e.dst, e.sym)
  BY <1>2 DEF DagInv, EdgeShape
<1> QED BY <1>1, <1>2, <1>3, <1>4, BotAssumption DEF WriterOf

\* A version that was recorded is in the log.
LEMMA RecordedIsLogged ==
  ASSUME LogInv, NEW n, NEW s, WriterOf(n, s), Recorded(n)
  PROVE  \E l \in log : l.ver = n /\ l.sym = s
<1>1. PICK e \in edges : e.dst = n /\ e.sym = s /\ e.wt
  BY DEF WriterOf, Recorded, InEdges
<1> QED BY <1>1 DEF LogInv

\* What is read or overwritten, and what is current, is in the log.
LEMMA SourcesLogged ==
  ASSUME TypeOK, DagInv, LogInv
  PROVE  /\ \A e \in edges : e.src = BOT \/ \E l \in log : l.ver = e.src /\ l.sym = e.sym
         /\ \A s \in Sym : last[s] = BOT \/ \E l \in log : l.ver = last[s] /\ l.sym = s
<1>1. ASSUME NEW n \in Node \cup {BOT}, NEW s, n # BOT, WriterOf(n, s), Active(pc, n)
      PROVE  \E l \in log : l.ver = n /\ l.sym = s
  <2>1. Recorded(n)
    BY <1>1 DEF DagInv, Mode, WriterOf
  <2> QED BY <1>1, <2>1, RecordedIsLogged
<1>2. ASSUME NEW e \in edges, e.src # BOT
      PROVE  \E l \in log : l.ver = e.src /\ l.sym = e.sym
  <2>1. e.src \in Node /\ e.dst \in Node /\ WriterOf(e.src, e.sym)
    BY <1>2 DEF TypeOK, EdgeType, DagInv, EdgeShape
  <2>2. CASE Active(pc, e.dst)
    BY <1>1, <1>2, <2>1, <2>2 DEF DagInv, ActiveClosed
  <2>3. CASE ~Active(pc, e.dst)
    <3>1. Recorded(e.src)
      BY <2>1, <2>3 DEF DagInv, Mode, WriterOf
    <3> QED BY <2>1, <3>1, RecordedIsLogged
  <2> QED BY <2>2, <2>3
<1>3. ASSUME NEW s \in Sym, last[s] # BOT
      PROVE  \E l \in log : l.ver = last[s] /\ l.sym = s
  <2>1. last[s] \in Node /\ WriterOf(last[s], s) /\ Active(pc, last[s])
    BY <1>3 DEF TypeOK, DagInv, LastIsTip, IsTip
  <2> QED BY <1>1, <1>3, <2>1
<1> QED BY <1>2, <1>3

\* Memory shows the current versions.
LEMMA CurrentImage ==
  ASSUME LogInv, NEW s \in Sym, NEW c \in Cell, NameOf[c] = s
  PROVE  ImageOf(s, last[s])[c] = mem[c]
<1>1. Store!Image(s, mem) = ImageOf(s, last[s])
  BY DEF LogInv
<1>2. Store!Image(s, mem)[c] = mem[c]
  BY DEF Store!Image, Store!CellsOf
<1> QED BY <1>1, <1>2

\* Images hold values.
LEMMA ImageType ==
  ASSUME LogInv, NEW s \in Sym, NEW m,
         m = BOT \/ \E l \in log : l.ver = m /\ l.sym = s
  PROVE  ImageOf(s, m) \in [Store!CellsOf(s) -> Val]
<1>1. CASE m = BOT
  <2>1. Store!Image(s, InitMem) \in [Store!CellsOf(s) -> Val]
    BY ValAssumption DEF Store!Image, Store!CellsOf
  <2> QED BY <1>1, <2>1 DEF ImageOf
<1>2. CASE m # BOT
  <2>1. PICK l \in log : l.ver = m /\ l.sym = s
    BY <1>2
  <2>2. ImageOf(s, m) = l.img
    BY <1>2, <2>1, ImageOfEntry
  <2> QED BY <2>1, <2>2 DEF LogInv
<1> QED BY <1>1, <1>2

-----------------------------------------------------------------------------
(* A write forward *)

\* What FwdWrite does, as far as the log is concerned.
LEMMA WriteFacts ==
  ASSUME TypeOK, DagInv, NEW p \in Proc, FwdWrite(p)
  PROVE  LET b == NextBlock(p)
             n == NextNode(p)
             s == b.dst.sym
         IN  /\ n \in Node /\ n # BOT /\ IsNode(n) /\ BlockOf(n) = b /\ ~Active(pc, n) /\ Writes(b)
             /\ s \in Sym /\ b.dst.cell \in Cell /\ NameOf[b.dst.cell] = s
             /\ \A t \in Sym : last[t] # n
             /\ prog' = prog /\ last' = [last EXCEPT ![s] = n]
             /\ mem' = [mem EXCEPT ![b.dst.cell] = NewVal(b)]
             /\ edges \subseteq edges'
             /\ Edge(last[s], n, s, TRUE) \in edges'
             /\ \A e \in edges' \ edges : e.dst = n /\ (e.wt => e.sym = s)
             /\ \A e \in edges' : e.dst = n => e.src = last[e.sym]
             /\ edges' = edges \/ \A e \in edges : Active(pc, e.dst)
<1> DEFINE b == NextBlock(p)
           n == NextNode(p)
<1>1. /\ pc[p] < Len(prog[p]) /\ edges' = BlockEdges(p)
      /\ RunnableFwd(edges, pc, n) \/ b.kind = "call"
      /\ prog' = prog /\ Writes(b)
      /\ last' = [last EXCEPT ![b.dst.sym] = n]
  BY ForwardSteps DEF FwdWrite
<1>2. /\ n \in Node /\ IsNode(n) /\ BlockOf(n) = b /\ ~Active(pc, n)
      /\ \A t \in Sym : last[t] # n
  BY <1>1, NextInactive DEF DagInv
<1>3. b.dst \in Reads(BlockOf(n))
  BY <1>1, <1>2 DEF Reads
<1>4. b.dst.sym \in Sym /\ b.dst.cell \in Cell /\ NameOf[b.dst.cell] = b.dst.sym
  BY <1>2, <1>3, Named
<1>5. /\ edges \subseteq edges'
      /\ \A e \in edges' \ edges : e.dst = n /\ e.src = last[e.sym] /\ (e.wt => e.sym = b.dst.sym)
      /\ Edge(last[b.dst.sym], n, b.dst.sym, TRUE) \in edges'
  BY <1>1, <1>2, BlockEdgesShape
<1>6. \A e \in edges : e.dst = n => e.src = last[e.sym]
  BY <1>1, ReplaySources DEF DagInv
<1>7. edges' = edges \/ \A e \in edges : Active(pc, e.dst)
  BY <1>1, ReplayOrFirst
<1>8. mem' = [mem EXCEPT ![b.dst.cell] = NewVal(b)]
  BY DEF FwdWrite
<1> QED BY <1>1, <1>2, <1>4, <1>5, <1>6, <1>7, <1>8, BotAssumption

\* A block that writes for the first time overwrites a version that nobody has
\* overwritten.
LEMMA FirstWrite ==
  ASSUME TypeOK, DagInv, LogInv, NEW p \in Proc, FwdWrite(p),
         \A l \in log : l.ver # NextNode(p)
  PROVE  \A l \in log : l.sym = NextBlock(p).dst.sym => l.over # last[l.sym]
<1>1. PICK n \in Node : n = NextNode(p) /\ IsNode(n) /\ BlockOf(n) = NextBlock(p)
                        /\ Writes(NextBlock(p))
  BY WriteFacts
<1>2. ~Recorded(n)
  BY <1>1, RecordedIsLogged DEF WriterOf
<1>3. \A e \in edges : Active(pc, e.dst)
  BY <1>1, <1>2 DEF DagInv, Mode
<1> SUFFICES ASSUME NEW l \in log, l.over = last[l.sym] PROVE FALSE
  OBVIOUS
<1>4. PICK e \in edges : e = Edge(l.over, l.ver, l.sym, TRUE)
  BY EntryFacts
<1>5. e.wt /\ e.sym = l.sym /\ e.src = last[l.sym] /\ l.sym \in Sym
  BY <1>4, EntryFacts DEF Edge
<1> QED BY <1>3, <1>5 DEF DagInv, LastIsTip, IsTip

\* Values read now are the images of the versions read then.
LEMMA ArgOf ==
  ASSUME TypeOK, LogInv, NEW n \in Node, IsNode(n), NEW vals \in [BlockOf(n).src -> Val],
         \A a \in BlockOf(n).src : vals[a] = ImageOf(a.sym, last[a.sym])[a.cell]
  PROVE  Arg(BlockOf(n)) = Eval(BlockOf(n).fn, vals)
<1> DEFINE b == BlockOf(n)
<1>1. \A a \in b.src : vals[a] = mem[a.cell]
  BY Named, CurrentImage DEF Reads
<1>2. vals = [a \in b.src |-> mem[a.cell]]
  BY <1>1
<1> QED BY <1>2 DEF Arg

\* What a write leaves in the variable, with an image it is computed from.
LEMMA NewImage ==
  ASSUME TypeOK, TypeOK', DagInv, LogInv, NEW p \in Proc, FwdWrite(p)
  PROVE  LET b == NextBlock(p)
             s == b.dst.sym
         IN  /\ Store!Image(s, mem') \in [Store!CellsOf(s) -> Val]
             /\ \A c \in Store!CellsOf(s) \ {b.dst.cell} :
                  Store!Image(s, mem')[c] = ImageOf(s, last[s])[c]
             /\ b.dst.cell \in Store!CellsOf(s)
             /\ Store!Image(s, mem')[b.dst.cell] = NewVal(b)
             /\ ImageOf(s, last[s])[b.dst.cell] = mem[b.dst.cell]
             /\ \A t \in Sym \ {s} : Store!Image(t, mem') = Store!Image(t, mem)
             /\ mem' = [c \in Cell |-> IF NameOf[c] = s THEN Store!Image(s, mem')[c] ELSE mem[c]]
<1> DEFINE b == NextBlock(p)
           s == b.dst.sym
<1>1. /\ s \in Sym /\ b.dst.cell \in Cell /\ NameOf[b.dst.cell] = s
      /\ mem' = [mem EXCEPT ![b.dst.cell] = NewVal(b)]
  BY WriteFacts
<1>2. mem \in [Cell -> Val] /\ mem' \in [Cell -> Val]
  BY DEF TypeOK
<1>3. \A c \in Cell : NameOf[c] = s => ImageOf(s, last[s])[c] = mem[c]
  BY <1>1, CurrentImage
<1> HIDE DEF b
<1>4. Store!Image(s, mem') \in [Store!CellsOf(s) -> Val]
  BY <1>2 DEF Store!Image, Store!CellsOf
<1>5. \A c \in Store!CellsOf(s) : Store!Image(s, mem')[c] = mem'[c]
  BY DEF Store!Image
<1>6. \A c \in Store!CellsOf(s) : c \in Cell /\ NameOf[c] = s
  BY DEF Store!CellsOf
<1>7. b.dst.cell \in Store!CellsOf(s)
  BY <1>1 DEF Store!CellsOf
<1>8. \A c \in Cell \ {b.dst.cell} : mem'[c] = mem[c]
  BY <1>1, <1>2
<1>9. mem'[b.dst.cell] = NewVal(b)
  BY <1>1, <1>2
<1>10. \A t \in Sym \ {s} : Store!Image(t, mem') = Store!Image(t, mem)
  BY <1>1, <1>8 DEF Store!Image, Store!CellsOf
<1>11. mem' = [c \in Cell |-> IF NameOf[c] = s THEN Store!Image(s, mem')[c] ELSE mem[c]]
  <2>1. \A c \in Cell : NameOf[c] = s => c \in Store!CellsOf(s)
    BY DEF Store!CellsOf
  <2>2. \A c \in Cell : mem'[c] = IF NameOf[c] = s THEN Store!Image(s, mem')[c] ELSE mem[c]
    BY <1>1, <1>5, <1>8, <2>1
  <2> QED BY <1>2, <2>2
<1> QED BY <1>3, <1>4, <1>5, <1>6, <1>7, <1>8, <1>9, <1>10, <1>11 DEF b

\* A block that writes again writes what the log says.
LEMMA Rewrite ==
  ASSUME TypeOK, TypeOK', DagInv, LogInv, NEW p \in Proc, FwdWrite(p),
         NEW l \in log, l.ver = NextNode(p)
  PROVE  /\ l.sym = NextBlock(p).dst.sym /\ l.over = last[l.sym]
         /\ edges' = edges
         /\ Store!Image(l.sym, mem') = l.img
<1>1. PICK b : b = NextBlock(p)
  OBVIOUS
<1>2. PICK n \in Node : n = NextNode(p)
  BY WriteFacts
<1>3. PICK s \in Sym : s = b.dst.sym
  BY <1>1, WriteFacts
<1>4. IsNode(n) /\ BlockOf(n) = b /\ ~Active(pc, n) /\ Writes(b) /\ l.ver = n
  BY <1>1, <1>2, WriteFacts
<1>5. PICK e \in edges : e = Edge(l.over, n, l.sym, TRUE)
  BY <1>4, EntryFacts
<1>6. e.src = l.over /\ e.dst = n /\ e.sym = l.sym
  BY <1>5 DEF Edge
<1>7. l.sym = s
  BY <1>3, <1>4, EntryFacts DEF WriterOf
<1>8. /\ edges \subseteq edges' /\ \A f \in edges' : f.dst = n => f.src = last[f.sym]
      /\ edges' = edges \/ \A f \in edges : Active(pc, f.dst)
  BY <1>2, WriteFacts
<1>9. edges' = edges
  BY <1>4, <1>6, <1>8
<1>10. l.over = last[s]
  BY <1>6, <1>7, <1>8
<1>11. /\ l.img \in [Store!CellsOf(s) -> Val]
       /\ Computed(l)
  BY <1>7 DEF LogInv
<1> DEFINE img == Store!Image(s, mem')
<1>12. /\ img \in [Store!CellsOf(s) -> Val]
       /\ \A c \in Store!CellsOf(s) \ {b.dst.cell} : img[c] = ImageOf(s, last[s])[c]
       /\ b.dst.cell \in Store!CellsOf(s)
       /\ img[b.dst.cell] = NewVal(b)
       /\ ImageOf(s, last[s])[b.dst.cell] = mem[b.dst.cell]
  BY <1>1, <1>3, NewImage
<1>13. l.img[b.dst.cell] = NewVal(b)
  <2>1. CASE b.kind = "upd"
    <3>1. PICK vals \in [b.src -> Val] :
            /\ \A a \in b.src : \A f \in InEdges(edges, n) :
                 ~f.wt /\ f.sym = a.sym => vals[a] = ImageOf(a.sym, f.src)[a.cell]
            /\ l.img[b.dst.cell] = Upd(b.op, ImageOf(s, last[s])[b.dst.cell], Eval(b.fn, vals))
      BY <1>4, <1>7, <1>10, <1>11, <2>1 DEF Computed
    <3>2. Recorded(n)
      <4>1. ~\A f \in edges : Active(pc, f.dst)
        BY <1>4, <1>6
      <4> QED BY <1>4, <4>1 DEF DagInv, Mode
    <3>3. ASSUME NEW a \in b.src PROVE vals[a] = ImageOf(a.sym, last[a.sym])[a.cell]
      <4>1. PICK f \in InEdges(edges, n) : f.sym = a.sym /\ ~f.wt
        BY <1>4, <3>2 DEF Recorded, Reads
      <4>2. f.src = last[a.sym]
        BY <1>8, <4>1 DEF InEdges
      <4> QED BY <3>1, <4>1, <4>2
    <3>4. Arg(b) = Eval(b.fn, vals)
      BY <1>4, <3>3, ArgOf
    <3> QED BY <1>12, <2>1, <3>1, <3>4 DEF NewVal
  <2>2. CASE b.kind # "upd"
    BY <1>4, <1>11, <2>2 DEF Computed, NewVal
  <2> QED BY <2>1, <2>2
<1>14. \A c \in Store!CellsOf(s) \ {b.dst.cell} : l.img[c] = ImageOf(s, last[s])[c]
  BY <1>4, <1>7, <1>10, <1>11 DEF Computed
<1> HIDE DEF img
<1>15. img = l.img
  BY <1>11, <1>12, <1>13, <1>14
<1> QED BY <1>1, <1>3, <1>7, <1>9, <1>10, <1>15 DEF img

\* The images of logged versions do not change as the log grows.
LEMMA ImageStays ==
  ASSUME LogInv, log \subseteq log', \A l, k \in log' : l.ver = k.ver => l = k,
         NEW s, NEW m, m = BOT \/ \E l \in log : l.ver = m
  PROVE  ImageOf(s, m)' = ImageOf(s, m)
<1>1. CASE m = BOT
  BY <1>1 DEF ImageOf, Store!Image, Store!CellsOf
<1>2. CASE m # BOT
  <2>1. PICK l \in log : l.ver = m
    BY <1>2
  <2>2. l \in log' /\ \A k \in log' : k.ver = m => k = l
    BY <2>1
  <2>3. (CHOOSE k \in log' : k.ver = m) = l
    BY <2>1, <2>2
  <2>4. (CHOOSE k \in log : k.ver = m) = l
    BY <2>1, <2>2
  <2> QED BY <1>2, <2>3, <2>4 DEF ImageOf
<1> QED BY <1>1, <1>2

\* So an entry stays what its block makes of the versions it read.
LEMMA ComputedStays ==
  ASSUME TypeOK, DagInv, LogInv, NEW l \in log, prog' = prog,
         log \subseteq log', \A i, k \in log' : i.ver = k.ver => i = k,
         edges \subseteq edges', \A e \in edges' \ edges : e.dst # l.ver
  PROVE  Computed(l)'
<1>1. Computed(l) /\ BlockOf(l.ver)' = BlockOf(l.ver)
  BY DEF LogInv, BlockOf
<1>2. ASSUME NEW e \in edges PROVE \A t : ImageOf(t, e.src)' = ImageOf(t, e.src)
  <2>1. e.src = BOT \/ \E k \in log : k.ver = e.src
    BY SourcesLogged
  <2> QED BY <2>1, ImageStays
<1>3. ImageOf(l.sym, l.over)' = ImageOf(l.sym, l.over)
  <2>1. PICK e \in edges : e = Edge(l.over, l.ver, l.sym, TRUE)
    BY EntryFacts
  <2>2. e.src = l.over
    BY <2>1 DEF Edge
  <2> QED BY <1>2, <2>2
<1>4. InEdges(edges', l.ver) = InEdges(edges, l.ver)
  BY DEF InEdges
<1>5. \A e \in InEdges(edges, l.ver) : \A t : ImageOf(t, e.src)' = ImageOf(t, e.src)
  BY <1>2 DEF InEdges
<1> DEFINE b == BlockOf(l.ver)
<1>6. Store!CellsOf(l.sym)' = Store!CellsOf(l.sym)
  BY DEF Store!CellsOf
<1>7. CASE b.kind = "upd"
  <2>1. PICK vals \in [b.src -> Val] :
          /\ \A a \in b.src : \A e \in InEdges(edges, l.ver) :
               ~e.wt /\ e.sym = a.sym => vals[a] = ImageOf(a.sym, e.src)[a.cell]
          /\ l.img[b.dst.cell] = Upd(b.op, ImageOf(l.sym, l.over)[b.dst.cell], Eval(b.fn, vals))
    BY <1>1, <1>7 DEF Computed
  <2>2. \A a \in b.src : \A e \in InEdges(edges', l.ver) :
          ~e.wt /\ e.sym = a.sym => vals[a] = ImageOf(a.sym, e.src)'[a.cell]
    BY <1>4, <1>5, <2>1
  <2>3. \A c \in Store!CellsOf(l.sym) \ {b.dst.cell} : l.img[c] = ImageOf(l.sym, l.over)[c]
    BY <1>1 DEF Computed
  <2> HIDE DEF b
  <2>4. /\ \A c \in Store!CellsOf(l.sym) \ {b.dst.cell} : l.img[c] = ImageOf(l.sym, l.over)'[c]
        /\ \E vs \in [b.src -> Val] :
             /\ \A a \in b.src : \A e \in InEdges(edges', l.ver) :
                  ~e.wt /\ e.sym = a.sym => vs[a] = ImageOf(a.sym, e.src)'[a.cell]
             /\ l.img[b.dst.cell] = Upd(b.op, ImageOf(l.sym, l.over)'[b.dst.cell], Eval(b.fn, vs))
    BY <1>3, <2>1, <2>2, <2>3
  <2>5. BlockOf(l.ver)' = b
    BY <1>1 DEF b
  <2> HIDE DEF ImageOf, BlockOf
  <2> QED BY <1>6, <1>7, <2>4, <2>5 DEF Computed
<1>8. CASE b.kind # "upd"
  BY <1>1, <1>3, <1>6, <1>8 DEF Computed
<1> QED BY <1>7, <1>8

\* A write forward keeps the log true.
LEMMA LogWrite ==
  ASSUME TypeOK, TypeOK', DagInv, LogInv, NEW p \in Proc, FwdWrite(p), Note(p)
  PROVE  LogInv'
<1>1. PICK b : b = NextBlock(p)
  OBVIOUS
<1>2. PICK n \in Node : n = NextNode(p)
  BY WriteFacts
<1>3. PICK s \in Sym : s = b.dst.sym
  BY <1>1, WriteFacts
<1>4. /\ n # BOT /\ IsNode(n) /\ BlockOf(n) = b /\ Writes(b)
      /\ prog' = prog /\ last' = [last EXCEPT ![s] = n] /\ \A t \in Sym : last[t] # n
      /\ edges \subseteq edges'
      /\ Edge(last[s], n, s, TRUE) \in edges'
      /\ \A e \in edges' \ edges : e.dst = n /\ (e.wt => e.sym = s)
      /\ \A e \in edges' : e.dst = n => e.src = last[e.sym]
  BY <1>1, <1>2, <1>3, WriteFacts
<1>5. last' \in [Sym -> Node \cup {BOT}] /\ last'[s] = n /\ \A t \in Sym \ {s} : last'[t] = last[t]
  BY <1>4 DEF TypeOK
<1>6. \A t \in Sym \ {s} : Store!Image(t, mem') = Store!Image(t, mem)
  BY <1>1, <1>3, NewImage
<1>7. ASSUME log \subseteq log', \A i, k \in log' : i.ver = k.ver => i = k,
             NEW l \in log', l.ver = n, l.img = Store!Image(s, mem')
      PROVE  \A t \in Sym : Store!Image(t, mem)' = ImageOf(t, last[t])'
  <2>1. ASSUME NEW t \in Sym \ {s} PROVE Store!Image(t, mem)' = ImageOf(t, last[t])'
    <3>1. last[t] = BOT \/ \E k \in log : k.ver = last[t]
      BY SourcesLogged
    <3>2. ASSUME NEW m, m = last[t] PROVE ImageOf(t, m)' = ImageOf(t, m)
      BY <1>7, <3>1, <3>2, ImageStays
    <3>3. Store!Image(t, mem) = ImageOf(t, last[t])
      BY DEF LogInv
    <3>4. Store!Image(t, mem)' = Store!Image(t, mem)
      BY <1>6 DEF Store!Image, Store!CellsOf
    <3> QED BY <1>5, <3>2, <3>3, <3>4 DEF ImageOf
  <2>2. Store!Image(s, mem)' = ImageOf(s, last[s])'
    <3>1. (CHOOSE k \in log' : k.ver = n) = l
      BY <1>7
    <3>2. Store!Image(s, mem)' = l.img
      BY <1>7 DEF Store!Image, Store!CellsOf
    <3> QED BY <1>4, <1>5, <3>1, <3>2 DEF ImageOf
  <2> QED BY <2>1, <2>2
<1>8. CASE \E l \in log : l.ver = n
  <2>1. PICK l \in log : l.ver = n
    BY <1>8
  <2>2. log' = log
    BY <1>2, <2>1 DEF Note
  <2>3. l.sym = s /\ edges' = edges /\ Store!Image(s, mem') = l.img
    BY <1>1, <1>2, <1>3, <2>1, Rewrite
  <2>4. \A i, k \in log' : i.ver = k.ver => i = k
    BY <2>2 DEF LogInv
  <2>5. \A t \in Sym : Store!Image(t, mem)' = ImageOf(t, last[t])'
    BY <1>7, <2>1, <2>2, <2>3, <2>4
  <2>6. \A k \in log' : Computed(k)'
    <3>1. ASSUME NEW k \in log PROVE Computed(k)'
      BY <1>4, <2>2, <2>3, <2>4, ComputedStays
    <3> QED BY <2>2, <3>1
  <2>7. /\ \A k \in log' : Edge(k.over, k.ver, k.sym, TRUE) \in edges'
        /\ \A k \in log' : k.img \in [Store!CellsOf(k.sym)' -> Val]
        /\ \A e \in edges' : e.wt => \E k \in log' : k.ver = e.dst /\ k.sym = e.sym
    BY <2>2, <2>3 DEF LogInv, Store!CellsOf
  <2> HIDE DEF Computed, ImageOf
  <2> QED BY <2>4, <2>5, <2>6, <2>7 DEF LogInv
<1>9. CASE ~\E l \in log : l.ver = n
  <2>11. PICK l : l = Store!Entry(n, s, last[s], Store!Image(s, mem'))
    OBVIOUS
  <2>1. l.ver = n /\ l.sym = s /\ l.over = last[s] /\ l.img = Store!Image(s, mem')
    BY <2>11 DEF Store!Entry
  <2>2. log' = log \cup {l}
    BY <1>1, <1>2, <1>3, <1>9, <2>11 DEF Note
  <2>3. \A i, k \in log' : i.ver = k.ver => i = k
    BY <1>9, <2>1, <2>2 DEF LogInv
  <2>4. \A t \in Sym : Store!Image(t, mem)' = ImageOf(t, last[t])'
    BY <1>7, <2>1, <2>2, <2>3
  <2>5. \A k \in log' : Edge(k.over, k.ver, k.sym, TRUE) \in edges'
    BY <1>4, <2>1, <2>2 DEF LogInv
  <2>6. \A k \in log' : k.img \in [Store!CellsOf(k.sym)' -> Val]
    <3>1. Store!Image(s, mem') \in [Store!CellsOf(s) -> Val]
      BY <1>1, <1>3, NewImage
    <3> QED BY <2>1, <2>2, <3>1 DEF LogInv, Store!CellsOf
  <2>7. \A e \in edges' : e.wt => \E k \in log' : k.ver = e.dst /\ k.sym = e.sym
    BY <1>4, <2>1, <2>2 DEF LogInv
  <2>8. ASSUME NEW k \in log PROVE Computed(k)'
    BY <1>4, <1>9, <2>2, <2>3, ComputedStays
  <2>9. Computed(l)'
    <3>1. ASSUME NEW t \in Sym, NEW m, m = last[t]
          PROVE  /\ ImageOf(t, m)' = ImageOf(t, m)
                 /\ \A c \in Cell : NameOf[c] = t => ImageOf(t, m)'[c] = mem[c]
      <4>1. m = BOT \/ \E k \in log : k.ver = m
        BY <3>1, SourcesLogged
      <4>2. ImageOf(t, m)' = ImageOf(t, m)
        BY <2>2, <2>3, <4>1, ImageStays
      <4> QED BY <3>1, <4>2, CurrentImage
    <3>2. /\ \A c \in Store!CellsOf(s) \ {b.dst.cell} : l.img[c] = ImageOf(s, last[s])[c]
          /\ b.dst.cell \in Store!CellsOf(s)
          /\ l.img[b.dst.cell] = NewVal(b)
          /\ ImageOf(s, last[s])[b.dst.cell] = mem[b.dst.cell]
      BY <1>1, <1>3, <2>1, NewImage
    <3>3. PICK m : m = last[s]
      OBVIOUS
    <3>4. BlockOf(l.ver)' = b /\ l.over = m /\ l.sym = s
      BY <1>4, <2>1, <3>3 DEF BlockOf
    <3>5. ImageOf(s, m)' = ImageOf(s, last[s])
      BY <3>1, <3>3
    <3>6. /\ \A c \in Store!CellsOf(s)' \ {b.dst.cell} : l.img[c] = ImageOf(s, m)'[c]
          /\ ImageOf(s, m)'[b.dst.cell] = mem[b.dst.cell]
      BY <3>2, <3>5 DEF Store!CellsOf
    <3>7. CASE b.kind = "upd"
      <4> DEFINE vals == [a \in b.src |-> mem[a.cell]]
      <4>1. \A a \in b.src : a.sym \in Sym /\ a.cell \in Cell /\ NameOf[a.cell] = a.sym
        BY <1>4, Named DEF Reads
      <4>2. vals \in [b.src -> Val]
        BY <4>1 DEF TypeOK
      <4>3. ASSUME NEW a \in b.src, NEW e \in edges', e.dst = n, e.sym = a.sym
            PROVE  vals[a] = ImageOf(a.sym, e.src)'[a.cell]
        <5>1. e.src = last[a.sym]
          BY <1>4, <4>3
        <5> QED BY <3>1, <4>1, <5>1
      <4>4. l.img[b.dst.cell] = Upd(b.op, ImageOf(s, m)'[b.dst.cell], Eval(b.fn, vals))
        BY <3>2, <3>6, <3>7 DEF NewVal, Arg
      <4> HIDE DEF vals
      <4>5. \E vs \in [b.src -> Val] :
              /\ \A a \in b.src : \A e \in InEdges(edges', n) :
                   ~e.wt /\ e.sym = a.sym => vs[a] = ImageOf(a.sym, e.src)'[a.cell]
              /\ l.img[b.dst.cell] = Upd(b.op, ImageOf(s, m)'[b.dst.cell], Eval(b.fn, vs))
        BY <4>2, <4>3, <4>4 DEF InEdges
      <4> HIDE DEF ImageOf, BlockOf
      <4> QED BY <2>1, <3>4, <3>6, <3>7, <4>5 DEF Computed
    <3>8. CASE b.kind # "upd"
      <4>1. mem[b.dst.cell] = Awaits(b.kind) /\ NewVal(b) = 1 - Awaits(b.kind)
        BY <1>1, <3>8 DEF FwdWrite, FwdClear, NewVal
      <4> HIDE DEF ImageOf, BlockOf
      <4> QED BY <3>2, <3>4, <3>6, <3>8, <4>1 DEF Computed
    <3> QED BY <3>7, <3>8
  <2>10. \A k \in log' : Computed(k)'
    BY <2>2, <2>8, <2>9
  <2> HIDE DEF Computed, ImageOf
  <2> QED BY <2>3, <2>4, <2>5, <2>6, <2>7, <2>10 DEF LogInv
<1> QED BY <1>8, <1>9

-----------------------------------------------------------------------------
(* A write undone *)

\* What a block has read is still current when isRunnable lets it be undone.
LEMMA UndoFindsSources ==
  ASSUME TypeOK, DagInv, NEW n \in Node, Active(pc, n), RunnableBwd(edges, pc, n),
         NEW e \in edges, e.dst = n, ~e.wt, ~WriterOf(n, e.sym)
  PROVE  e.src = last[e.sym]
<1>1. e.src \in Node \cup {BOT} /\ e.sym \in Sym
  BY DEF TypeOK, EdgeType
<1>2. e.src = BOT \/ (WriterOf(e.src, e.sym) /\ Active(pc, e.src))
  BY DEF DagInv, EdgeShape, ActiveClosed
<1> SUFFICES ASSUME e.src # last[e.sym] PROVE FALSE
  OBVIOUS
<1>3. PICK f \in edges : f.wt /\ f.sym = e.sym /\ f.src = e.src /\ Active(pc, f.dst)
  BY <1>1, <1>2 DEF DagInv, LastIsTip, IsTip
<1>4. f.dst # n
  BY <1>3 DEF DagInv, EdgeShape
<1>5. e \in InEdges(edges, n) /\ f \in OutEdges(edges, e.src)
  BY <1>3 DEF InEdges, OutEdges
<1> QED BY <1>3, <1>4, <1>5 DEF RunnableBwd

\* The inverse update puts back what the log says was there.
LEMMA Unwrite ==
  ASSUME TypeOK, TypeOK', DagInv, LogInv, NEW p \in Proc, BwdWrite(p)
  PROVE  \E l \in log :
           /\ l.ver = last[l.sym]
           /\ last' = [last EXCEPT ![l.sym] = l.over]
           /\ Store!Image(l.sym, mem') = ImageOf(l.sym, l.over)
           /\ \A t \in Sym \ {l.sym} : Store!Image(t, mem') = Store!Image(t, mem)
           /\ mem' = [c \in Cell |-> IF NameOf[c] = l.sym THEN ImageOf(l.sym, l.over)[c] ELSE mem[c]]
<1>1. PICK n \in Node : n = PrevNodeOf(p)
  BY BlockTypes DEF BwdWrite, BwdReady
<1>2. PICK b \in Block : b = PrevBlock(p)
  BY BlockTypes DEF BwdWrite, BwdReady
<1>3. PICK s \in Sym : s = b.dst.sym
  BY DEF Block, Addr
<1>4. pc[p] \in Nat /\ pc[p] <= Len(prog[p]) /\ Len(prog[p]) \in Nat /\ pc[p] > 0
  BY ProgramAssumption DEF TypeOK, BwdWrite, BwdReady
<1>5. IsNode(n) /\ BlockOf(n) = b /\ Active(pc, n) /\ n # BOT
  BY <1>1, <1>2, <1>4, BotAssumption DEF IsNode, BlockOf, PrevNodeOf, PrevBlock, Active
<1>6. /\ Writes(b) /\ RunnableBwd(edges, pc, n)
      /\ mem' = [mem EXCEPT ![b.dst.cell] = OldVal(b)]
      /\ last' = [last EXCEPT ![s] = PrevNode(edges, n, s)]
  BY <1>1, <1>2, <1>3 DEF BwdWrite, BwdReady
<1>7. WriterOf(n, s) /\ last[s] = n /\ Recorded(n)
  BY <1>1, <1>2, <1>3, <1>4, <1>5, <1>6, UndoFindsTip DEF WriterOf, DagInv, Mode
<1>8. PICK l \in log : l.ver = n /\ l.sym = s
  BY <1>7, RecordedIsLogged
<1>9. l.over = PrevNode(edges, n, s)
  <2>1. PICK e \in edges : e = Edge(l.over, n, s, TRUE)
    BY <1>8, EntryFacts
  <2>2. e.src = l.over /\ e.dst = n /\ e.sym = s /\ e.wt
    BY <2>1 DEF Edge
  <2>3. edges \subseteq EdgeType
    BY DEF TypeOK
  <2>4. PICK f \in edges : f.dst = n /\ f.wt /\ f.sym = s /\ f.src = PrevNode(edges, n, s)
    BY <2>2, <2>3, PrevNodeType
  <2>5. e = f
    BY <2>2, <2>4 DEF DagInv, OneOverwrite
  <2> QED BY <2>2, <2>4, <2>5
<1>10. b.dst \in Reads(BlockOf(n))
  BY <1>5, <1>6 DEF Reads
<1>11. b.dst.cell \in Cell /\ NameOf[b.dst.cell] = s
  BY <1>3, <1>5, <1>10, Named
<1> DEFINE old == ImageOf(s, l.over)
<1>12. old \in [Store!CellsOf(s) -> Val]
  <2>1. PICK e \in edges : e = Edge(l.over, n, s, TRUE)
    BY <1>8, EntryFacts
  <2>2. e.src = l.over /\ e.sym = s
    BY <2>1 DEF Edge
  <2>3. l.over = BOT \/ \E k \in log : k.ver = l.over /\ k.sym = s
    BY <2>2, SourcesLogged
  <2> QED BY <2>3, ImageType
<1>13. \A c \in Cell : NameOf[c] = s => l.img[c] = mem[c]
  BY <1>5, <1>7, <1>8, ImageOfEntry, CurrentImage
<1>14. Computed(l)
  BY DEF LogInv
<1> HIDE DEF old
<1>15. ASSUME NEW c \in Cell, NameOf[c] = s, c # b.dst.cell PROVE mem[c] = old[c]
  <2>1. c \in Store!CellsOf(s) \ {b.dst.cell}
    BY <1>15 DEF Store!CellsOf
  <2> QED BY <1>5, <1>8, <1>13, <1>14, <1>15, <2>1 DEF Computed, old
<1>16. b.dst.cell \in Store!CellsOf(s)
  BY <1>11 DEF Store!CellsOf
<1>17. OldVal(b) = old[b.dst.cell]
  <2>1. CASE b.kind = "upd"
    <3>1. PICK vals \in [b.src -> Val] :
            /\ \A a \in b.src : \A e \in InEdges(edges, n) :
                 ~e.wt /\ e.sym = a.sym => vals[a] = ImageOf(a.sym, e.src)[a.cell]
            /\ l.img[b.dst.cell] = Upd(b.op, old[b.dst.cell], Eval(b.fn, vals))
      BY <1>5, <1>8, <1>14, <2>1 DEF Computed, old
    <3>2. n[1] \in Proc /\ n[2] + 1 \in DOMAIN prog[n[1]] /\ prog \in Programs
      BY SMTT(20), <1>5, ProcAssumption, ProgramAssumption DEF IsNode, Node, TypeOK
    <3>3. \A a \in b.src : a.sym # s
      BY <1>3, <1>5, <1>6, <3>2, NoSelfRead DEF BlockOf
    <3>4. ASSUME NEW a \in b.src PROVE vals[a] = ImageOf(a.sym, last[a.sym])[a.cell]
      <4>1. PICK e \in InEdges(edges, n) : e.sym = a.sym /\ ~e.wt
        BY <1>5, <1>6, <1>7 DEF Recorded, Reads
      <4>2. ~WriterOf(n, e.sym)
        BY <1>3, <1>5, <3>3, <4>1 DEF WriterOf
      <4>3. e.src = last[a.sym]
        BY <1>5, <1>6, <4>1, <4>2, UndoFindsSources DEF InEdges
      <4> QED BY <3>1, <4>1, <4>3
    <3>5. Arg(b) = Eval(b.fn, vals)
      BY <1>5, <3>4, ArgOf
    <3>6. Eval(b.fn, vals) \in Val
      BY <1>5, <3>2, ValueAssumption DEF BlockOf
    <3>7. b.op \in Op /\ old[b.dst.cell] \in Val
      BY <1>12, <1>16 DEF Block
    <3>8. mem[b.dst.cell] = Upd(b.op, old[b.dst.cell], Arg(b))
      BY <1>11, <1>13, <3>1, <3>5
    <3> QED BY <2>1, <3>5, <3>6, <3>7, <3>8, ValueAssumption DEF OldVal
  <2>2. CASE b.kind # "upd"
    BY <1>5, <1>8, <1>14, <2>2 DEF Computed, OldVal, old
  <2> QED BY <2>1, <2>2
<1>18. mem \in [Cell -> Val] /\ mem' \in [Cell -> Val]
  BY DEF TypeOK
<1>19. \A c \in Cell : mem'[c] = IF NameOf[c] = s THEN old[c] ELSE mem[c]
  BY <1>6, <1>11, <1>15, <1>17, <1>18
<1>20. mem' = [c \in Cell |-> IF NameOf[c] = s THEN old[c] ELSE mem[c]]
  BY <1>18, <1>19
<1>21. Store!Image(s, mem') = old
  <2>1. \A c \in Store!CellsOf(s) : mem'[c] = old[c]
    BY <1>19 DEF Store!CellsOf
  <2> QED BY <1>12, <2>1 DEF Store!Image
<1>22. \A t \in Sym \ {s} : Store!Image(t, mem') = Store!Image(t, mem)
  BY <1>19 DEF Store!Image, Store!CellsOf
<1> QED BY <1>6, <1>7, <1>8, <1>9, <1>20, <1>21, <1>22 DEF old

-----------------------------------------------------------------------------
(* The log in every step *)

\* A step that logs nothing, if memory shows the current versions after it.
LEMMA LogKept ==
  ASSUME TypeOK, DagInv, LogInv, log' = log, prog' = prog, edges \subseteq edges',
         \A e \in edges' \ edges : ~e.wt /\ ~Writes(BlockOf(e.dst)),
         \A t \in Sym : Store!Image(t, mem)' = ImageOf(t, last[t])'
  PROVE  LogInv'
<1>1. \A i, k \in log' : i.ver = k.ver => i = k
  BY DEF LogInv
<1>2. \A k \in log' : Computed(k)'
  <2>1. ASSUME NEW k \in log PROVE Computed(k)'
    <3>1. WriterOf(k.ver, k.sym)
      BY EntryFacts
    <3>2. \A e \in edges' \ edges : e.dst # k.ver
      BY <3>1 DEF WriterOf
    <3> QED BY <1>1, <3>2, ComputedStays
  <2> QED BY <2>1
<1>3. /\ \A k \in log' : Edge(k.over, k.ver, k.sym, TRUE) \in edges'
      /\ \A k \in log' : k.img \in [Store!CellsOf(k.sym)' -> Val]
      /\ \A e \in edges' : e.wt => \E k \in log' : k.ver = e.dst /\ k.sym = e.sym
  BY DEF LogInv, Store!CellsOf
<1> HIDE DEF Computed, ImageOf
<1> QED BY <1>1, <1>2, <1>3 DEF LogInv

\* In particular one that changes neither memory nor versions.
LEMMA LogIdle ==
  ASSUME TypeOK, DagInv, LogInv, log' = log, prog' = prog, edges \subseteq edges',
         \A e \in edges' \ edges : ~e.wt /\ ~Writes(BlockOf(e.dst)),
         UNCHANGED <<mem, last>>
  PROVE  LogInv'
<1>1. \A t \in Sym : Store!Image(t, mem)' = ImageOf(t, last[t])'
  BY DEF LogInv, ImageOf, Store!Image, Store!CellsOf
<1> QED BY <1>1, LogKept

\* An undo keeps the log true.
LEMMA LogUndo ==
  ASSUME TypeOK, TypeOK', DagInv, LogInv, NEW p \in Proc, BwdWrite(p), log' = log
  PROVE  LogInv'
<1>1. PICK l \in log :
        /\ l.ver = last[l.sym]
        /\ last' = [last EXCEPT ![l.sym] = l.over]
        /\ Store!Image(l.sym, mem') = ImageOf(l.sym, l.over)
        /\ \A t \in Sym \ {l.sym} : Store!Image(t, mem') = Store!Image(t, mem)
  BY Unwrite
<1>2. l.sym \in Sym /\ last \in [Sym -> Node \cup {BOT}]
  BY EntryFacts DEF TypeOK
<1>3. ASSUME NEW t \in Sym PROVE Store!Image(t, mem)' = ImageOf(t, last[t])'
  <2>1. Store!Image(t, mem)' = Store!Image(t, mem')
    BY DEF Store!Image, Store!CellsOf
  <2>2. CASE t = l.sym
    <3>1. last'[t] = l.over
      BY <1>1, <1>2, <2>2
    <3>2. Store!Image(t, mem') = ImageOf(t, l.over)
      BY <1>1, <2>2
    <3>3. ImageOf(t, last[t])' = ImageOf(t, l.over)
      BY <3>1 DEF ImageOf, Store!Image, Store!CellsOf
    <3> QED BY <2>1, <3>2, <3>3
  <2>3. CASE t # l.sym
    <3>1. last'[t] = last[t]
      BY <1>1, <1>2, <2>3
    <3>2. Store!Image(t, mem') = ImageOf(t, last[t])
      BY <1>1, <2>3 DEF LogInv
    <3> QED BY <2>1, <3>1, <3>2 DEF ImageOf, Store!Image, Store!CellsOf
  <2> QED BY <2>2, <2>3
<1>4. prog' = prog /\ edges' = edges
  BY DEF BwdWrite
<1> QED BY <1>3, <1>4, LogKept

\* The steps that neither write nor undo a write.
LEMMA QuietSteps ==
  ASSUME TypeOK, DagInv, NEW p \in Proc,
         \/ FwdLock(p) \/ FwdUnlock(p) \/ FwdRead(p) \/ FwdFork(p) \/ FwdJoin(p)
         \/ BwdLock(p) \/ BwdUnlock(p) \/ BwdRead(p) \/ BwdFork(p) \/ BwdJoin(p)
  PROVE  /\ prog' = prog /\ UNCHANGED <<mem, last>> /\ edges \subseteq edges'
         /\ \A e \in edges' \ edges : ~e.wt /\ ~Writes(BlockOf(e.dst))
<1>1. ASSUME FwdLock(p) \/ FwdUnlock(p) \/ FwdRead(p) \/ FwdJoin(p)
      PROVE  /\ edges \subseteq edges'
             /\ \A e \in edges' \ edges : ~e.wt /\ ~Writes(BlockOf(e.dst))
  <2>1. ~Writes(NextBlock(p))
    BY <1>1 DEF FwdLock, FwdUnlock, FwdRead, FwdJoin, Writes
  <2>2. pc[p] < Len(prog[p]) /\ edges' = BlockEdges(p)
    BY <1>1, ForwardSteps
  <2>3. BlockOf(NextNode(p)) = NextBlock(p) /\ \A t \in Sym : last[t] # NextNode(p)
    BY <2>2, NextInactive DEF DagInv
  <2>4. /\ edges \subseteq edges'
        /\ \A e \in edges' \ edges : e.dst = NextNode(p) /\ (e.wt => Writes(NextBlock(p)))
    BY <2>2, <2>3, BlockEdgesShape
  <2> QED BY <2>1, <2>3, <2>4
<1>2. UNCHANGED <<prog, mem, last>>
  BY DEF FwdLock, FwdUnlock, FwdRead, FwdFork, FwdJoin, BwdLock, BwdUnlock, BwdRead, BwdFork, BwdJoin
<1>3. FwdLock(p) \/ FwdUnlock(p) \/ FwdRead(p) \/ FwdJoin(p) \/ edges' = edges
  BY DEF FwdFork, BwdLock, BwdUnlock, BwdRead, BwdFork, BwdJoin
<1> QED BY <1>1, <1>2, <1>3

\* Back at the start no version is left.
LEMMA StartIsInitial ==
  ASSUME TypeOK, WholeRuns, DagInv, AtStart
  PROVE  \A s \in Sym : last[s] = BOT
<1>1. \A n \in Node : ~Active(pc, n)
  BY BotAssumption, ProcAssumption DEF WholeRuns, Active, Node
<1> QED BY <1>1 DEF TypeOK, DagInv, LastIsTip, IsTip, WriterOf

\* Before the first run memory is the initial one and nothing is logged.
LEMMA LogInit == LInit => LogInv
<1> SUFFICES ASSUME LInit PROVE LogInv
  OBVIOUS
<1>1. log = {} /\ edges = {} /\ mem = InitMem /\ \A s \in Sym : last[s] = BOT
  BY DEF LInit, Init
<1> QED BY <1>1 DEF LogInv, ImageOf

\* The log and the DAG stay in step.
LEMMA LogStep ==
  TypeOK /\ TypeOK' /\ WholeRuns /\ DagInv /\ LogInv /\ [LNext]_lvars => LogInv'
<1> SUFFICES ASSUME TypeOK, TypeOK', WholeRuns, DagInv, LogInv, [LNext]_lvars PROVE LogInv'
  OBVIOUS
<1>1. ASSUME NEW p \in Proc, FwdWrite(p), Note(p) PROVE LogInv'
  BY <1>1, LogWrite
<1>2. ASSUME NEW p \in Proc, BwdWrite(p), log' = log PROVE LogInv'
  BY <1>2, LogUndo
<1>3. ASSUME NEW p \in Proc, log' = log,
             \/ FwdLock(p) \/ FwdUnlock(p) \/ FwdRead(p) \/ FwdFork(p) \/ FwdJoin(p)
             \/ BwdLock(p) \/ BwdUnlock(p) \/ BwdRead(p) \/ BwdFork(p) \/ BwdJoin(p)
      PROVE  LogInv'
  BY <1>3, QuietSteps, LogIdle
<1>4. ASSUME UNCHANGED <<prog, edges, last, mem, log>> PROVE LogInv'
  BY <1>4, LogIdle
<1>5. ASSUME DelDag, log' = {} PROVE LogInv'
  <2>1. \A s \in Sym : last[s] = BOT /\ last'[s] = BOT
    BY <1>5, StartIsInitial DEF DelDag
  <2>2. \A s \in Sym : Store!Image(s, mem)' = ImageOf(s, last[s])'
    <3> SUFFICES ASSUME NEW s \in Sym PROVE Store!Image(s, mem)' = ImageOf(s, last[s])'
      OBVIOUS
    <3>1. Store!Image(s, mem)' = Store!Image(s, mem)
      BY <1>5 DEF DelDag, Store!Image, Store!CellsOf
    <3>2. Store!Image(s, mem) = Store!Image(s, InitMem)
      BY <2>1 DEF LogInv, ImageOf
    <3>3. ImageOf(s, last[s])' = Store!Image(s, InitMem)
      BY <2>1 DEF ImageOf, Store!Image, Store!CellsOf
    <3> QED BY <3>1, <3>2, <3>3
  <2> QED BY <1>5, <2>2 DEF LogInv, DelDag
<1> QED BY <1>1, <1>2, <1>3, <1>4, <1>5 DEF LNext, LStep, Turn, lvars, vars

\* In every reachable state the log is what the DAG, the program and memory say:
\* an entry for each write edge, the current versions in memory, and each version
\* what its block makes of the versions it read.
THEOREM LogSound == LSpec => []LogInv
<1>1. LInit => LogInv
  BY LogInit
<1>2. TypeOK /\ TypeOK' /\ WholeRuns /\ DagInv /\ LogInv /\ [LNext]_lvars => LogInv'
  BY LogStep
<1> QED BY <1>1, <1>2, SameBehaviours, TypeCorrect, RunsAreWhole, DagSound, PTL DEF LSpec

\* The DAG implements the version log: a first write makes a version nobody has
\* branched off, a replayed write leaves exactly the logged values, an undone
\* write exactly those of the version it had overwritten, and nothing else
\* changes memory or a current version.  This too is of programs in which a cell has
\* one name (NameAssumption).
THEOREM ImplementsStore == LSpec => KeepsVersions
<1>1. LInit => Store!Init
  BY DEF LInit, Init, Store!Init
<1>2. TypeOK /\ TypeOK' /\ WholeRuns /\ DagInv /\ LogInv /\ [LNext]_lvars
        => [Store!Next]_Store!vars
  <2> SUFFICES ASSUME TypeOK, TypeOK', WholeRuns, DagInv, LogInv, [LNext]_lvars
               PROVE  Store!Next \/ UNCHANGED Store!vars
    OBVIOUS
  <2>1. ASSUME NEW p \in Proc, FwdWrite(p), Note(p) PROVE Store!Next
    <3>1. PICK n \in Node : n = NextNode(p)
      BY <2>1, WriteFacts
    <3>2. PICK s \in Sym : s = NextBlock(p).dst.sym
      BY <2>1, WriteFacts
    <3>3. PICK img : img = Store!Image(s, mem')
      OBVIOUS
    <3>4. /\ img \in [Store!CellsOf(s) -> Val]
          /\ mem' = [c \in Cell |-> IF NameOf[c] = s THEN img[c] ELSE mem[c]]
      BY <2>1, <3>2, <3>3, NewImage
    <3>5. last' = [last EXCEPT ![s] = n]
      BY <2>1, <3>1, <3>2, WriteFacts
    <3>6. CASE \E l \in log : l.ver = n
      <4>1. PICK l \in log : l.ver = n
        BY <3>6
      <4>2. l.sym = s /\ l.over = last[s] /\ img = l.img
        BY <2>1, <3>1, <3>2, <3>3, <4>1, Rewrite
      <4>3. log' = log
        BY <2>1, <3>1, <4>1 DEF Note
      <4>4. Store!Redo(l)
        BY <3>4, <3>5, <4>1, <4>2, <4>3 DEF Store!Redo, Store!Show
      <4> QED BY <4>4 DEF Store!Next
    <3>7. CASE ~\E l \in log : l.ver = n
      <4>1. \A l \in log : l.ver # n /\ ~(l.sym = s /\ l.over = last[s])
        BY <2>1, <3>1, <3>2, <3>7, FirstWrite
      <4>2. log' = log \cup {Store!Entry(n, s, last[s], img)}
        BY <2>1, <3>1, <3>2, <3>3, <3>7 DEF Note
      <4>3. Store!Write(n, s)
        BY <3>4, <3>5, <4>1, <4>2 DEF Store!Write, Store!Show
      <4> QED BY <4>3 DEF Store!Next
    <3> QED BY <3>6, <3>7
  <2>2. ASSUME NEW p \in Proc, BwdWrite(p), log' = log PROVE Store!Next
    <3>1. PICK l \in log :
            /\ l.ver = last[l.sym]
            /\ last' = [last EXCEPT ![l.sym] = l.over]
            /\ mem' = [c \in Cell |-> IF NameOf[c] = l.sym THEN ImageOf(l.sym, l.over)[c]
                                                           ELSE mem[c]]
      BY <2>2, Unwrite
    <3>2. PICK img : img = ImageOf(l.sym, l.over)
      OBVIOUS
    <3>3. l.over = BOT \/ \E k \in log : k.ver = l.over /\ k.sym = l.sym
      <4>1. PICK e \in edges : e = Edge(l.over, l.ver, l.sym, TRUE)
        BY EntryFacts
      <4>2. e.src = l.over /\ e.sym = l.sym
        BY <4>1 DEF Edge
      <4> QED BY <4>2, SourcesLogged
    <3>4. img \in [Store!CellsOf(l.sym) -> Val]
      BY <3>2, <3>3, EntryFacts, ImageType
    <3>5. Store!Holds(l.sym, l.over, img)
      <4>1. CASE l.over = BOT
        BY <3>2, <4>1 DEF ImageOf, Store!Holds
      <4>2. CASE l.over # BOT
        <5>1. PICK k \in log : k.ver = l.over /\ k.sym = l.sym
          BY <3>3, <4>2
        <5>2. img = k.img
          BY <3>2, <4>2, <5>1, ImageOfEntry
        <5> QED BY <5>1, <5>2 DEF Store!Holds
      <4> QED BY <4>1, <4>2
    <3>6. Store!Undo(l)
      BY <2>2, <3>1, <3>2, <3>4, <3>5 DEF Store!Undo, Store!Show
    <3> QED BY <3>6 DEF Store!Next
  <2>3. ASSUME NEW p \in Proc, log' = log,
               \/ FwdLock(p) \/ FwdUnlock(p) \/ FwdRead(p) \/ FwdFork(p) \/ FwdJoin(p)
               \/ BwdLock(p) \/ BwdUnlock(p) \/ BwdRead(p) \/ BwdFork(p) \/ BwdJoin(p)
        PROVE  UNCHANGED Store!vars
    BY <2>3, QuietSteps DEF Store!vars
  <2>4. ASSUME UNCHANGED <<last, mem, log>> PROVE UNCHANGED Store!vars
    BY <2>4 DEF Store!vars
  <2>5. ASSUME DelDag, log' = {} PROVE Store!Next
    <3>1. \A s \in Sym : last[s] = BOT
      BY <2>5, StartIsInitial DEF DelDag
    <3>2. last' = last /\ mem' = mem
      BY <2>5, <3>1 DEF DelDag, TypeOK
    <3> QED BY <2>5, <3>1, <3>2 DEF Store!Forget, Store!Next
  <2> QED BY <2>1, <2>2, <2>3, <2>4, <2>5 DEF LNext, LStep, Turn, lvars, vars
<1> QED BY <1>1, <1>2, LogSound, SameBehaviours, TypeCorrect, RunsAreWhole, DagSound, PTL
        DEF LSpec, KeepsVersions, Store!Spec

\* A backward run that reaches the start has restored the memory and the versions,
\* whatever the schedule and the number of runs, of every program that keeps to
\* NameAssumption: a cell has one name.  The compiler does not see to that; with two
\* names, by passing a cell to two procedures, the memory need not come back (run
\* aliases of README.md).
THEOREM RestoresMemory == LSpec => []Restored
<1>1. TypeOK /\ WholeRuns /\ DagInv /\ LogInv => Restored
  <2> SUFFICES ASSUME TypeOK, WholeRuns, DagInv, LogInv, AtStart
               PROVE  mem = InitMem /\ \A s \in Sym : last[s] = BOT
    BY DEF Restored
  <2>1. \A s \in Sym : last[s] = BOT
    BY StartIsInitial
  <2>2. ASSUME NEW c \in Cell PROVE mem[c] = InitMem[c]
    <3>1. PICK s \in Sym : s = NameOf[c]
      BY NameAssumption
    <3>2. ImageOf(s, last[s])[c] = mem[c]
      BY <3>1, CurrentImage
    <3>3. ImageOf(s, last[s])[c] = InitMem[c]
      BY <2>1, <3>1 DEF ImageOf, Store!Image, Store!CellsOf
    <3> QED BY <3>2, <3>3
  <2>3. mem = InitMem
    BY <2>2, ValAssumption DEF TypeOK
  <2> QED BY <2>1, <2>3
<1> QED BY <1>1, LogSound, SameBehaviours, TypeCorrect, RunsAreWhole, DagSound, PTL

-----------------------------------------------------------------------------
(* One outcome *)

\* Version m of s has never been overwritten.
Final(s, m) ==
  /\ m \in Node \cup {BOT} /\ (m = BOT \/ WriterOf(m, s))
  /\ \A e \in edges : e.wt /\ e.sym = s => e.src # m

\* After a complete run the DAG is complete, and each outcome shows the final
\* versions.
Repeats ==
  /\ outcomes # {} => \A n \in Node : IsNode(n) => Recorded(n)
  /\ \A o \in outcomes : \A s \in Sym :
       \E m : Final(s, m) /\ Store!Image(s, o) = ImageOf(s, m)
  /\ \A o, q \in outcomes : o = q

\* At the end of a run the current versions are the final ones, and only they.
LEMMA EndIsFinal ==
  ASSUME TypeOK, WholeRuns, DagInv, AtEnd, NEW s \in Sym
  PROVE  /\ Final(s, last[s])
         /\ \A m : Final(s, m) => m = last[s]
<1>1. \A n \in Node : IsNode(n) => Active(pc, n)
  BY DEF WholeRuns, IsNode, Active, Node
<1>2. \A e \in edges : Active(pc, e.dst)
  BY <1>1 DEF DagInv, EdgeShape, IsNode
<1>3. Final(s, last[s])
  BY <1>2 DEF TypeOK, DagInv, LastIsTip, IsTip, Final
<1>4. ASSUME NEW m, Final(s, m), m # last[s] PROVE FALSE
  <2>1. m = BOT \/ (WriterOf(m, s) /\ Active(pc, m))
    BY <1>1, <1>4 DEF Final, WriterOf
  <2>2. PICK e \in edges : e.wt /\ e.sym = s /\ e.src = m
    BY <1>4, <2>1 DEF DagInv, LastIsTip, IsTip, Final
  <2> QED BY <1>4, <2>2 DEF Final
<1> QED BY <1>3, <1>4

\* A step that logs nothing and records no write.
LEMMA RepeatsKept ==
  ASSUME TypeOK, Repeats, UNCHANGED <<prog, log, outcomes>>, edges \subseteq edges',
         \A e \in edges' \ edges : ~e.wt
  PROVE  Repeats'
<1>1. ASSUME NEW n, Recorded(n) PROVE Recorded(n)'
  BY <1>1 DEF Recorded, BlockOf, InEdges
<1>2. ASSUME NEW s, NEW m, Final(s, m) PROVE Final(s, m)'
  BY <1>2 DEF Final, WriterOf, IsNode, BlockOf
<1>3. \A s, m : ImageOf(s, m)' = ImageOf(s, m)
  BY DEF ImageOf, Store!Image, Store!CellsOf
<1>4. \A s, o : Store!Image(s, o)' = Store!Image(s, o)
  BY DEF Store!Image, Store!CellsOf
<1>5. outcomes' # {} => \A n \in Node : IsNode(n)' => Recorded(n)'
  BY <1>1 DEF Repeats, IsNode
<1>6. ASSUME NEW o \in outcomes', NEW s \in Sym
      PROVE  \E m : Final(s, m)' /\ Store!Image(s, o)' = ImageOf(s, m)'
  <2>1. PICK m : Final(s, m) /\ Store!Image(s, o) = ImageOf(s, m)
    BY <1>6 DEF Repeats
  <2> QED BY <1>2, <1>3, <1>4, <2>1
<1>7. \A o, q \in outcomes' : o = q
  BY DEF Repeats
<1> HIDE DEF Final, ImageOf
<1> QED BY <1>5, <1>6, <1>7 DEF Repeats

\* A run that ends adds the outcome the runs before it had.
LEMMA RepeatsStep ==
  TypeOK /\ WholeRuns /\ DagInv /\ LogInv /\ Repeats /\ [LNext]_lvars => Repeats'
<1> SUFFICES ASSUME TypeOK, WholeRuns, DagInv, LogInv, Repeats, [LNext]_lvars PROVE Repeats'
  OBVIOUS
<1>1. ASSUME outcomes' = {} PROVE Repeats'
  BY <1>1 DEF Repeats
<1>2. ASSUME NEW p \in Proc, FwdWrite(p), Note(p), outcomes # {} PROVE Repeats'
  <2>1. PICK n \in Node : n = NextNode(p)
    BY <1>2, WriteFacts
  <2>2. /\ IsNode(n) /\ ~Active(pc, n) /\ Writes(BlockOf(n))
        /\ edges' = edges \/ \A e \in edges : Active(pc, e.dst)
    BY <1>2, <2>1, WriteFacts
  <2>3. Recorded(n)
    BY <1>2, <2>2 DEF Repeats
  <2>4. edges' = edges
    BY <2>2, <2>3 DEF Recorded, InEdges
  <2>5. log' = log
    <3>1. \E l \in log : l.ver = n
      BY <2>2, <2>3, RecordedIsLogged DEF WriterOf
    <3> QED BY <1>2, <2>1, <3>1 DEF Note
  <2>6. UNCHANGED <<prog, outcomes>>
    BY <1>2 DEF FwdWrite
  <2> QED BY <2>4, <2>5, <2>6, RepeatsKept
<1>3. ASSUME NEW p \in Proc, FwdWrite(p) PROVE outcomes' = outcomes
  BY <1>3 DEF FwdWrite
<1>4. ASSUME NEW p \in Proc, BwdWrite(p), log' = log PROVE Repeats'
  <2>1. UNCHANGED <<prog, edges, outcomes>>
    BY <1>4 DEF BwdWrite
  <2> QED BY <1>4, <2>1, RepeatsKept
<1>5. ASSUME NEW p \in Proc, log' = log,
             \/ FwdLock(p) \/ FwdUnlock(p) \/ FwdRead(p) \/ FwdFork(p) \/ FwdJoin(p)
             \/ BwdLock(p) \/ BwdUnlock(p) \/ BwdRead(p) \/ BwdFork(p) \/ BwdJoin(p)
      PROVE  Repeats'
  <2>1. outcomes' = outcomes
    BY <1>5 DEF FwdLock, FwdUnlock, FwdRead, FwdFork, FwdJoin,
                BwdLock, BwdUnlock, BwdRead, BwdFork, BwdJoin
  <2> QED BY <1>5, <2>1, QuietSteps, RepeatsKept
<1>6. ASSUME UNCHANGED <<prog, edges, log, outcomes>> PROVE Repeats'
  BY <1>6, RepeatsKept
<1>7. ASSUME Turn, ~rev, log' = log PROVE Repeats'
  <2>1. AtEnd /\ UNCHANGED <<prog, edges, mem, last>> /\ outcomes' = outcomes \cup {mem}
    BY <1>7 DEF Turn, AtEnd
  <2>2. \A n \in Node : IsNode(n) => Recorded(n)
    BY <2>1 DEF WholeRuns, DagInv, Mode, IsNode, Active, Node
  <2>3. ASSUME NEW o \in outcomes PROVE o = mem
    <3>1. o \in [Cell -> Val] /\ mem \in [Cell -> Val]
      BY DEF TypeOK
    <3>2. ASSUME NEW c \in Cell PROVE o[c] = mem[c]
      <4>1. PICK s \in Sym : s = NameOf[c]
        BY NameAssumption
      <4>2. PICK m : Final(s, m) /\ Store!Image(s, o) = ImageOf(s, m)
        BY DEF Repeats
      <4>3. m = last[s]
        BY <2>1, <4>2, EndIsFinal
      <4>4. Store!Image(s, o)[c] = mem[c]
        BY <4>1, <4>2, <4>3, CurrentImage
      <4> QED BY <4>1, <4>4 DEF Store!Image, Store!CellsOf
    <3> QED BY <3>1, <3>2
  <2>4. ASSUME NEW s \in Sym PROVE \E m : Final(s, m) /\ Store!Image(s, mem) = ImageOf(s, m)
    <3>1. Final(s, last[s]) /\ Store!Image(s, mem) = ImageOf(s, last[s])
      BY <2>1, EndIsFinal DEF LogInv
    <3> QED BY <3>1
  <2>5. outcomes' = {mem}
    BY <2>1, <2>3
  <2>6. \A s \in Sym : \E m : Final(s, m)' /\ Store!Image(s, mem)' = ImageOf(s, m)'
    <3> SUFFICES ASSUME NEW s \in Sym
                 PROVE  \E m : Final(s, m)' /\ Store!Image(s, mem)' = ImageOf(s, m)'
      OBVIOUS
    <3>1. PICK m : Final(s, m) /\ Store!Image(s, mem) = ImageOf(s, m)
      BY <2>4
    <3>2. Final(s, m)'
      BY <2>1, <3>1 DEF Final, WriterOf, IsNode, BlockOf
    <3>3. Store!Image(s, mem)' = Store!Image(s, mem)
      BY <2>1 DEF Store!Image, Store!CellsOf
    <3>4. ImageOf(s, m)' = ImageOf(s, m)
      BY <1>7 DEF ImageOf, Store!Image, Store!CellsOf
    <3> QED BY <3>1, <3>2, <3>3, <3>4
  <2>7. \A n \in Node : IsNode(n)' => Recorded(n)'
    BY <2>1, <2>2 DEF IsNode, Recorded, BlockOf
  <2> HIDE DEF Final, ImageOf
  <2>8. mem' = mem
    BY <2>1
  <2> QED BY <2>5, <2>6, <2>7, <2>8 DEF Repeats
<1>8. ASSUME Turn, rev PROVE UNCHANGED <<prog, edges, outcomes>>
  BY <1>8 DEF Turn
<1> QED BY <1>1, <1>2, <1>3, <1>4, <1>5, <1>6, <1>7, <1>8 DEF LNext, LStep, DelDag, lvars, vars

\* Every forward run until deldag ends in the memory the first one ended in,
\* whatever the schedules, of every program in which a cell has one name.
THEOREM OutcomesAgree == LSpec => []OneOutcome
<1>1. LInit => Repeats
  BY DEF LInit, Init, Repeats
<1>2. TypeOK /\ WholeRuns /\ DagInv /\ LogInv /\ Repeats /\ [LNext]_lvars => Repeats'
  BY RepeatsStep
<1>3. Repeats => OneOutcome
  <2> SUFFICES ASSUME Repeats PROVE Cardinality(outcomes) <= 1
    BY DEF OneOutcome
  <2>1. CASE outcomes = {}
    BY <2>1, FS_EmptySet
  <2>2. CASE outcomes # {}
    <3>1. PICK o : outcomes = {o}
      BY <2>2 DEF Repeats
    <3> QED BY <3>1, FS_Singleton
  <2> QED BY <2>1, <2>2
<1> QED BY <1>1, <1>2, <1>3, LogSound, SameBehaviours, TypeCorrect, RunsAreWhole, DagSound, PTL
        DEF LSpec
=============================================================================
