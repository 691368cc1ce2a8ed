------------------------------ MODULE Debugger ------------------------------
(***************************************************************************)
(* The goroutines of the CRIL interpreter, its global mutex exmut, and the *)
(* channels over which the command loop of the debugger starts and stops   *)
(* them (src/runtime: runtime.go, pc.go, and the wait loops of symtab.go). *)
(*                                                                         *)
(* One step is one channel or mutex operation, or the code between two of  *)
(* them.  The tokens in runever and runclose are broadcast: whoever takes  *)
(* one puts it back.  What a block does to memory is left out, but for the *)
(* semaphores; isRunnable, the subject of AnnotationDag, answers TRUE.     *)
(* Of step-by-step mode (running = 2) there is the step of the focused     *)
(* process: with isRunnable TRUE the loop never asks another one.          *)
(***************************************************************************)
EXTENDS Integers, Sequences, FiniteSets

CONSTANTS
  Proc, Root,   \* processes, and the one of main
  Sem,          \* semaphores
  Body,         \* Body[p]: the blocks of the procedure p runs
  Cap,          \* capacity of the channels, 8 in newRuntime
  MaxGor,       \* bound on the goroutines of one process alive at a time
  MaxRuns,      \* bound on the number of runs
  Suspends,     \* whether the user ever presses Enter during a run
  Steps,        \* whether the user ever presses Enter at the prompt
  NoGor         \* no goroutine

Gor == Proc \X (1 .. MaxGor)

Instr == [kind : {"step", "V", "P", "call"}, sem : Sem, kids : Seq(Proc)]

ASSUME BodyAssumption ==
  Root \in Proc /\ Body \in [Proc -> Seq(Instr)] /\ \A p \in Proc : Len(Body[p]) > 0
ASSUME BoundAssumption ==
  Cap \in Nat \ {0} /\ MaxGor \in Nat \ {0} /\ MaxRuns \in Nat \ {0}
  /\ Suspends \in BOOLEAN /\ Steps \in BOOLEAN
ASSUME NoGorAssumption == NoGor \notin Gor

\* The processes that call c.
CalledBy(c) ==
  {p \in Proc : \E k \in DOMAIN Body[p] :
     Body[p][k].kind = "call" /\ \E i \in DOMAIN Body[p][k].kids : Body[p][k].kids[i] = c}

\* Processes are named by their place in the call tree (getChildPC): one caller
\* each, the children of a call different, nobody above main, no circle.
ASSUME TreeAssumption ==
  /\ IsFiniteSet(Proc)
  /\ CalledBy(Root) = {}
  /\ \A c \in Proc : \A p, q \in CalledBy(c) : p = q
  /\ \A p \in Proc : \A k \in DOMAIN Body[p] : \A i, j \in DOMAIN Body[p][k].kids :
       Body[p][k].kids[i] = Body[p][k].kids[j] => i = j
  /\ \A S \in SUBSET Proc : S # {} => \E c \in S : CalledBy(c) \cap S = {}

\* Everybody but main is called, and in one place: Body[p] is all that p runs.  (A
\* process called again goes on counting in its counter: see AnnotationDag.)
ASSUME PlaceAssumption ==
  /\ \A c \in Proc \ {Root} : CalledBy(c) # {}
  /\ \A p \in Proc : \A k, l \in DOMAIN Body[p] :
       Body[p][k].kind = "call" /\ Body[p][l].kind = "call" /\ k # l =>
         \A i \in DOMAIN Body[p][k].kids : \A j \in DOMAIN Body[p][l].kids :
           Body[p][k].kids[i] # Body[p][l].kids[j]

VARIABLES
  running,    \* the command loop: a run is going on
  dbg,        \* where the goroutine of the command loop is
  rev,        \* runtime.rev: TRUE is backward
  runever,    \* channel: directions to run in
  runclose,   \* channel: number of tokens
  dagupdate,  \* channel: number of tokens
  newproc,    \* channel: number of pids
  termproc,   \* channel: number of pids
  exmut,      \* the global mutex is locked
  gor,        \* goroutines
  head,       \* head[p]: number of lines of Body[p] before the next one
  pc,         \* pc[p]: blocks p has executed and not undone
  sem,        \* values of the semaphores
  broken,     \* exmut was unlocked while free (fatal in Go), or a process reads lines of two
              \* blocks or beyond its procedure; the model stops there
  runs,       \* number of runs so far
  ended       \* history: this run has been ended, by main or by the user

chans == <<runever, runclose, dagupdate, newproc, termproc>>
loop == <<running, dbg, rev, runs>>
procs == <<head, pc, sem>>
vars == <<loop, chans, exmut, gor, procs, broken, ended>>

-----------------------------------------------------------------------------
(* Helpers *)

Lines == 3  \* entry, instruction, exit

At(g, where) == gor[g].at = where

\* A goroutine, and the command loop, at a place it can go on from.
On(g, where) == ~broken /\ At(g, where)
LoopAt(where) == ~broken /\ dbg = where
Alive(g) == ~At(g, "none")
Idle(p) == \A g \in Gor : g[1] = p => ~Alive(g)

\* The first free name for a goroutine of p, if any.
FreeSlot(p) == {g \in {p} \X (1 .. MaxGor) :
                  ~Alive(g) /\ \A i \in 1 .. g[2] - 1 : Alive(<<p, i>>)}

\* A goroutine of a process: where execute is, the direction it took from
\* runever, the block it is in, what its last block returned, the goroutine whose call it serves,
\* the children of its own call still to start and to wait for, and whether one
\* of these was suspended.
New(boss) == [at |-> "select", dir |-> FALSE, ret |-> "normal", boss |-> boss,
              blk |-> 0, todo |-> << >>, wg |-> 0, susp |-> FALSE]
Dead == [New(NoGor) EXCEPT !.at = "none"]

Move(g, where) == gor' = [gor EXCEPT ![g].at = where]

\* Mutant of Start: GetEnd for GetEnd + 1.
StartAtEnd(p, d) == IF d THEN Lines * Len(Body[p]) - 1 ELSE 0

\* Where the head of p stands at the start of a run in direction d: GetBegin, or
\* GetEnd + 1.
Start(p, d) == IF d THEN Lines * Len(Body[p]) ELSE 0

\* The number of the block before head[p] in direction d, and the block g runs.
BlockNo(p, d) == IF d THEN head[p] \div Lines ELSE head[p] \div Lines + 1
Instruction(g) == Body[g[1]][gor[g].blk]

\* What the block of g returns: begin and end return EOF in main, end of process
\* elsewhere.
Returns(g) ==
  IF gor[g].blk = (IF gor[g].dir THEN 1 ELSE Len(Body[g[1]]))
  THEN IF g[1] = Root THEN "eof" ELSE "procend"
  ELSE "normal"

\* exmut.Unlock
Unlock ==
  /\ exmut' = FALSE
  /\ broken' = (broken \/ ~exmut)

\* Where a block of g leaves the head.  It ends in a jump, which names the line
\* to go on at, that of the next block here; or in end or begin, and then the n
\* lines that returned 0, 1 or 2 have moved the head.
HeadAfter(g, n) ==
  LET d == gor[g].dir IN
  IF Returns(g) = "normal" THEN Lines * (IF d THEN gor[g].blk - 1 ELSE gor[g].blk)
  ELSE IF d THEN head[g[1]] - n ELSE head[g[1]] + n

\* The end of executeBlock, n of its lines having moved the head: the counter goes
\* up (it went down at the start, backward), exmut is released.
Finish(g, n) ==
  LET p == g[1]
      d == gor[g].dir
  IN  /\ head' = [head EXCEPT ![p] = HeadAfter(g, n)]
      /\ pc' = IF d THEN pc ELSE [pc EXCEPT ![p] = @ + 1]
      /\ gor' = [gor EXCEPT ![g].at = "update", ![g].ret = Returns(g)]
      /\ Unlock

\* The goroutine ends; a goroutine started by a call tells the caller, and says
\* so if it was suspended (execute returned 0).
Exit(g, suspended) ==
  LET boss == gor[g].boss
      gone == [gor EXCEPT ![g] = Dead]
  IN  gor' = IF boss = NoGor THEN gone
             ELSE [gone EXCEPT ![boss].wg = @ - 1, ![boss].susp = @ \/ suspended]

-----------------------------------------------------------------------------
(* execute: the two selects *)

TakeRun(g) ==
  /\ On(g, "select") /\ runever # << >>
  /\ runever' = Tail(runever)
  /\ gor' = [gor EXCEPT ![g].at = "relay", ![g].dir = Head(runever)]
  /\ UNCHANGED <<loop, runclose, dagupdate, newproc, termproc, exmut, procs, broken, ended>>

\* Mutant of RelayRun: the direction is not put back.
RelayRunKept(g) ==
  /\ On(g, "relay")
  /\ Move(g, "poll")
  /\ UNCHANGED <<loop, chans, exmut, procs, broken, ended>>

RelayRun(g) ==
  /\ On(g, "relay") /\ Len(runever) < Cap
  /\ runever' = Append(runever, gor[g].dir)
  /\ Move(g, "poll")
  /\ UNCHANGED <<loop, runclose, dagupdate, newproc, termproc, exmut, procs, broken, ended>>

TakeClose(g) ==
  /\ On(g, "select") \/ On(g, "poll")
  /\ runclose > 0
  /\ runclose' = runclose - 1
  /\ Move(g, "leave")
  /\ UNCHANGED <<loop, runever, dagupdate, newproc, termproc, exmut, procs, broken, ended>>

Leave(g) ==
  /\ On(g, "leave") /\ runclose < Cap
  /\ runclose' = runclose + 1
  /\ Exit(g, TRUE)
  /\ UNCHANGED <<loop, runever, dagupdate, newproc, termproc, exmut, procs, broken, ended>>

\* The default of the inner select.
Poll(g) ==
  /\ On(g, "poll") /\ runclose = 0
  /\ Move(g, "lock")
  /\ UNCHANGED <<loop, chans, exmut, procs, broken, ended>>

\* Mutant of Acquire: it does not wait for exmut.
AcquireAnyway(g) ==
  LET p == g[1] IN
  /\ On(g, "lock")
  /\ exmut' = TRUE
  /\ pc' = IF gor[g].dir THEN [pc EXCEPT ![p] = @ - 1] ELSE pc
  /\ broken' = (broken \/ head[p] % Lines # 0 \/ BlockNo(p, gor[g].dir) \notin DOMAIN Body[p])
  /\ gor' = [gor EXCEPT ![g].at = "block", ![g].blk = BlockNo(p, gor[g].dir)]
  /\ UNCHANGED <<loop, chans, head, sem, ended>>

\* exmut.Lock, and the start of executeBlock: the counter goes down, backward.
Acquire(g) ==
  LET p == g[1] IN
  /\ On(g, "lock") /\ ~exmut
  /\ exmut' = TRUE
  /\ pc' = IF gor[g].dir THEN [pc EXCEPT ![p] = @ - 1] ELSE pc
  /\ broken' = (broken \/ head[p] % Lines # 0 \/ BlockNo(p, gor[g].dir) \notin DOMAIN Body[p])
  /\ gor' = [gor EXCEPT ![g].at = "block", ![g].blk = BlockNo(p, gor[g].dir)]
  /\ UNCHANGED <<loop, chans, head, sem, ended>>

-----------------------------------------------------------------------------
(* executeBlock *)

Plain(g) ==
  /\ On(g, "block") /\ Instruction(g).kind = "step"
  /\ Finish(g, Lines)
  /\ UNCHANGED <<loop, chans, sem, ended>>

\* V forward and P backward: WaitV, then 1.  P forward and V backward: WaitP,
\* then 0.
IsV(g) == (Instruction(g).kind = "V") # gor[g].dir
SemReady(g) == sem[Instruction(g).sem] = IF IsV(g) THEN 0 ELSE 1

SemPass(g) ==
  /\ On(g, "block") /\ Instruction(g).kind \in {"V", "P"}
  /\ SemReady(g)
  /\ sem' = [sem EXCEPT ![Instruction(g).sem] = IF IsV(g) THEN 1 ELSE 0]
  /\ Finish(g, Lines)
  /\ UNCHANGED <<loop, chans, ended>>

SemWait(g) ==
  /\ On(g, "block") /\ Instruction(g).kind \in {"V", "P"}
  /\ ~SemReady(g)
  /\ Unlock
  /\ Move(g, "sem")
  /\ UNCHANGED <<loop, chans, procs, ended>>

\* The three steps of the select of WaitV and WaitP: the timer, and exmut again;
SemTimeout(g) ==
  /\ On(g, "sem") /\ ~exmut
  /\ exmut' = TRUE
  /\ Move(g, "block")
  /\ UNCHANGED <<loop, chans, procs, broken, ended>>

\* Mutant of SemClose: the token is not put back.
SemCloseKept(g) ==
  /\ On(g, "sem") /\ runclose > 0
  /\ runclose' = runclose - 1
  /\ Move(g, "block")
  /\ UNCHANGED <<loop, runever, dagupdate, newproc, termproc, exmut, procs, broken, ended>>

\* or a token of runclose, put back, and the loop goes on without exmut.
SemClose(g) ==
  /\ On(g, "sem") /\ runclose > 0
  /\ runclose' = runclose - 1
  /\ Move(g, "semrelay")
  /\ UNCHANGED <<loop, runever, dagupdate, newproc, termproc, exmut, procs, broken, ended>>

SemRelay(g) ==
  /\ On(g, "semrelay") /\ runclose < Cap
  /\ runclose' = runclose + 1
  /\ Move(g, "block")
  /\ UNCHANGED <<loop, runever, dagupdate, newproc, termproc, exmut, procs, broken, ended>>

\* Mutant of Call: wg.Add is missing.
CallNoAdd(g) ==
  /\ On(g, "block") /\ Instruction(g).kind = "call"
  /\ gor' = [gor EXCEPT ![g].at = "call", ![g].todo = Instruction(g).kids,
                        ![g].wg = 0, ![g].susp = FALSE]
  /\ UNCHANGED <<loop, chans, exmut, procs, broken, ended>>

\* call: start the children one after the other, holding exmut,
Call(g) ==
  /\ On(g, "block") /\ Instruction(g).kind = "call"
  /\ gor' = [gor EXCEPT ![g].at = "call", ![g].todo = Instruction(g).kids,
                        ![g].wg = Len(Instruction(g).kids), ![g].susp = FALSE]
  /\ UNCHANGED <<loop, chans, exmut, procs, broken, ended>>

\* Mutant of CallChild: the callee starts at its begin in both directions.
CallChildAtBegin(g) ==
  /\ On(g, "call") /\ gor[g].todo # << >>
  /\ newproc < Cap
  /\ LET c == Head(gor[g].todo) IN
     /\ head' = [head EXCEPT ![c] = Start(c, FALSE)]
     /\ \E h \in FreeSlot(c) : gor' = [gor EXCEPT ![h] = New(g), ![g].todo = Tail(@)]
  /\ newproc' = newproc + 1
  /\ UNCHANGED <<loop, runever, runclose, dagupdate, termproc, exmut, pc, sem, broken, ended>>

\* runPCCall: its head, its pid in newproc, its goroutine;
CallChild(g) ==
  /\ On(g, "call") /\ gor[g].todo # << >>
  /\ newproc < Cap
  /\ LET c == Head(gor[g].todo) IN
     /\ head' = [head EXCEPT ![c] = Start(c, gor[g].dir)]
     /\ \E h \in FreeSlot(c) : gor' = [gor EXCEPT ![h] = New(g), ![g].todo = Tail(@)]
  /\ newproc' = newproc + 1
  /\ UNCHANGED <<loop, runever, runclose, dagupdate, termproc, exmut, pc, sem, broken, ended>>

CallWait(g) ==
  /\ On(g, "call") /\ gor[g].todo = << >>
  /\ Unlock
  /\ Move(g, "wait")
  /\ UNCHANGED <<loop, chans, procs, ended>>

\* Mutant of CallReturn: wg.Wait is missing.
CallReturnAtOnce(g) ==
  /\ On(g, "wait")
  /\ Move(g, "return")
  /\ UNCHANGED <<loop, chans, exmut, procs, broken, ended>>

\* wg.Wait and exmut.Lock.
CallReturn(g) ==
  /\ On(g, "wait") /\ gor[g].wg = 0
  /\ Move(g, "return")
  /\ UNCHANGED <<loop, chans, exmut, procs, broken, ended>>

\* If a child was suspended the instruction returns 3, and its line does not move
\* the head; those of the entry and the exit do what they do.
CallEnd(g) ==
  /\ On(g, "return") /\ ~exmut
  /\ LET p == g[1]
         d == gor[g].dir
         n == IF gor[g].susp THEN Lines - 1 ELSE Lines
     IN  /\ head' = [head EXCEPT ![p] = HeadAfter(g, n)]
         /\ pc' = IF d THEN pc ELSE [pc EXCEPT ![p] = @ + 1]
         /\ gor' = [gor EXCEPT ![g].at = "update", ![g].ret = Returns(g)]
  /\ UNCHANGED <<loop, chans, exmut, sem, broken, ended>>

-----------------------------------------------------------------------------
(* execute, after a block *)

\* Unclog(dagupdate), and the token.
Update(g) ==
  /\ On(g, "update")
  /\ dagupdate' = 0
  /\ Move(g, "send")
  /\ UNCHANGED <<loop, runever, runclose, newproc, termproc, exmut, procs, broken, ended>>

Send(g) ==
  /\ On(g, "send") /\ dagupdate < Cap
  /\ dagupdate' = dagupdate + 1
  /\ Move(g, IF gor[g].ret = "normal" THEN "poll" ELSE gor[g].ret)
  /\ UNCHANGED <<loop, runever, runclose, newproc, termproc, exmut, procs, broken, ended>>

\* The end of main: Unclog(runclose), and a token.
Eof(g) ==
  /\ On(g, "eof")
  /\ runclose' = 0
  /\ Move(g, "close")
  /\ UNCHANGED <<loop, runever, dagupdate, newproc, termproc, exmut, procs, broken, ended>>

EofSend(g) ==
  /\ On(g, "close") /\ runclose < Cap
  /\ runclose' = runclose + 1
  /\ Exit(g, FALSE)
  /\ ended' = TRUE
  /\ UNCHANGED <<loop, runever, dagupdate, newproc, termproc, exmut, procs, broken>>

\* The end of another process.
ProcEnd(g) ==
  /\ On(g, "procend") /\ termproc < Cap
  /\ termproc' = termproc + 1
  /\ Exit(g, FALSE)
  /\ UNCHANGED <<loop, runever, runclose, dagupdate, newproc, exmut, procs, broken, ended>>

-----------------------------------------------------------------------------
(* The command loop *)

\* Pids only move the focus of step-by-step mode.
GetPid ==
  /\ LoopAt("select")
  /\ \/ newproc > 0 /\ newproc' = newproc - 1 /\ UNCHANGED termproc
     \/ termproc > 0 /\ termproc' = termproc - 1 /\ UNCHANGED newproc
  /\ UNCHANGED <<loop, runever, runclose, dagupdate, exmut, gor, procs, broken, ended>>

\* A token of runclose during a run: it is put back, and the run is over.
Closed ==
  /\ LoopAt("select") /\ running /\ runclose > 0
  /\ runclose' = runclose - 1
  /\ dbg' = "closed"
  /\ UNCHANGED <<running, rev, runs, runever, dagupdate, newproc, termproc, exmut, gor, procs,
                 broken, ended>>

ClosedRelay ==
  /\ LoopAt("closed") /\ runclose < Cap
  /\ runclose' = runclose + 1
  /\ running' = FALSE
  /\ dbg' = "select"
  /\ UNCHANGED <<rev, runs, runever, dagupdate, newproc, termproc, exmut, gor, procs, broken,
                 ended>>

\* Enter during a run.
Suspend ==
  /\ Suspends
  /\ LoopAt("select") /\ running
  /\ dbg' = "suspend"
  /\ runclose' = 0
  /\ UNCHANGED <<running, rev, runs, runever, dagupdate, newproc, termproc, exmut, gor, procs,
                 broken, ended>>

SuspendEver ==
  /\ LoopAt("suspend")
  /\ runever' = << >>
  /\ dbg' = "suspended"
  /\ UNCHANGED <<running, rev, runs, runclose, dagupdate, newproc, termproc, exmut, gor, procs,
                 broken, ended>>

SuspendSend ==
  /\ LoopAt("suspended") /\ runclose < Cap
  /\ runclose' = runclose + 1
  /\ running' = FALSE
  /\ dbg' = "select"
  /\ ended' = TRUE
  /\ UNCHANGED <<rev, runs, runever, dagupdate, newproc, termproc, exmut, gor, procs, broken>>

\* fwd and bwd.
Direction ==
  /\ LoopAt("select") /\ ~running
  /\ rev' = ~rev
  /\ UNCHANGED <<running, dbg, runs, chans, exmut, gor, procs, broken, ended>>

\* Mutant of Run: no Unclog(runclose).
RunClogged ==
  /\ LoopAt("select") /\ ~running
  /\ runs < MaxRuns
  /\ newproc = 0 /\ termproc = 0
  /\ IF rev THEN pc[Root] > 0 ELSE pc[Root] < Len(Body[Root])
  /\ runs' = runs + 1
  /\ ended' = FALSE
  /\ dbg' = "run"
  /\ UNCHANGED <<running, rev, chans, exmut, gor, procs, broken>>

\* run.  The README rules out a run backward from the initial state and a run
\* forward from the final state.  The user types slower than the loop takes pids:
\* with newproc full, the loop would block on it in runPC.
Run ==
  /\ LoopAt("select") /\ ~running
  /\ runs < MaxRuns
  /\ newproc = 0 /\ termproc = 0
  /\ IF rev THEN pc[Root] > 0 ELSE pc[Root] < Len(Body[Root])
  /\ runs' = runs + 1
  /\ runclose' = 0
  /\ ended' = FALSE
  /\ dbg' = "run"
  /\ UNCHANGED <<running, rev, runever, dagupdate, newproc, termproc, exmut, gor, procs, broken>>

\* Mutant of RunEver: no Unclog(runever).
RunEverClogged ==
  /\ LoopAt("run")
  /\ dbg' = "ever"
  /\ UNCHANGED <<running, rev, runs, chans, exmut, gor, procs, broken, ended>>

RunEver ==
  /\ LoopAt("run")
  /\ runever' = << >>
  /\ dbg' = "ever"
  /\ UNCHANGED <<running, rev, runs, runclose, dagupdate, newproc, termproc, exmut, gor, procs,
                 broken, ended>>

RunSend ==
  /\ LoopAt("ever") /\ Len(runever) < Cap
  /\ runever' = Append(runever, rev)
  /\ running' = TRUE
  /\ dbg' = "main"
  /\ UNCHANGED <<rev, runs, runclose, dagupdate, newproc, termproc, exmut, gor, procs, broken,
                 ended>>

\* runPC
RunMain ==
  /\ LoopAt("main") /\ newproc < Cap
  /\ newproc' = newproc + 1
  /\ head' = [head EXCEPT ![Root] = Start(Root, rev)]
  /\ \E h \in FreeSlot(Root) : gor' = [gor EXCEPT ![h] = New(NoGor)]
  /\ dbg' = "select"
  /\ UNCHANGED <<running, rev, runs, runever, runclose, dagupdate, termproc, exmut, pc, sem,
                 broken, ended>>

\* Enter at the prompt: one step of the focused process, which is main unless the
\* user says otherwise.  The user waits until every goroutine has left.
Enter ==
  /\ Steps
  /\ LoopAt("select") /\ ~running
  /\ \A p \in Proc : Idle(p)
  /\ IF rev THEN pc[Root] > 0 ELSE pc[Root] < Len(Body[Root])
  /\ runclose' = 0
  /\ ended' = FALSE
  /\ dbg' = "enter"
  /\ UNCHANGED <<running, rev, runs, runever, dagupdate, newproc, termproc, exmut, gor, procs, broken>>

\* Unclog(runever); then the loop sends itself a token of rundone and takes it.
EnterEver ==
  /\ LoopAt("enter")
  /\ runever' = << >>
  /\ dbg' = "step"
  /\ UNCHANGED <<running, rev, runs, runclose, dagupdate, newproc, termproc, exmut, gor, procs,
                 broken, ended>>

\* A goroutine for one executeBlock, which nobody locks exmut for; it gets no
\* further than the first Unlock.  The loop waits for its result.
StepBlock ==
  /\ LoopAt("step")
  /\ pc' = IF rev THEN [pc EXCEPT ![Root] = @ - 1] ELSE pc
  /\ \E h \in FreeSlot(Root) :
       gor' = [gor EXCEPT ![h] = [New(NoGor) EXCEPT !.at = "block", !.dir = rev,
                                                    !.blk = BlockNo(Root, rev)]]
  /\ broken' = (broken \/ head[Root] % Lines # 0 \/ BlockNo(Root, rev) \notin DOMAIN Body[Root])
  /\ dbg' = "stepping"
  /\ UNCHANGED <<running, rev, runs, chans, exmut, head, sem, ended>>

-----------------------------------------------------------------------------
(* Specification *)

\* The first run, forward, starts by itself.
Init ==
  /\ running = TRUE /\ dbg = "select" /\ rev = FALSE /\ runs = 1
  /\ runever = <<FALSE>> /\ runclose = 0 /\ dagupdate = 0 /\ newproc = 1 /\ termproc = 0
  /\ exmut = FALSE
  /\ gor = [g \in Gor |-> IF g = <<Root, 1>> THEN New(NoGor) ELSE Dead]
  /\ head = [p \in Proc |-> 0]
  /\ pc = [p \in Proc |-> 0]
  /\ sem = [s \in Sem |-> 0]
  /\ broken = FALSE
  /\ ended = FALSE

Step(g) ==
  \/ TakeRun(g) \/ RelayRun(g) \/ TakeClose(g) \/ Leave(g) \/ Poll(g) \/ Acquire(g)
  \/ Plain(g) \/ SemPass(g) \/ SemWait(g) \/ SemTimeout(g) \/ SemClose(g) \/ SemRelay(g)
  \/ Call(g) \/ CallChild(g) \/ CallWait(g) \/ CallReturn(g) \/ CallEnd(g)
  \/ Update(g) \/ Send(g) \/ Eof(g) \/ EofSend(g) \/ ProcEnd(g)

\* What the command loop does by itself, and on the user's commands.
Proceed ==
  \/ GetPid \/ Closed \/ ClosedRelay \/ SuspendEver \/ SuspendSend
  \/ RunEver \/ RunSend \/ RunMain \/ EnterEver \/ StepBlock

Command == Suspend \/ Direction \/ Run \/ Enter

Next == (\E g \in Gor : Step(g)) \/ Proceed \/ Command

Spec == Init /\ [][Next]_vars

\* Go's mutex hands itself over to a goroutine that has waited long, channels
\* serve the blocked in turn and a select with two ready cases picks at random:
\* who can go on again and again does so, and a token offered again and again to
\* a select is taken.  The user need not do anything.
Fairness ==
  /\ WF_vars(Proceed) /\ WF_vars(Closed)
  /\ \A g \in Gor : SF_vars(Step(g)) /\ SF_vars(SemClose(g))

FairSpec == Spec /\ Fairness

-----------------------------------------------------------------------------
(* Properties *)

Places == {"none", "select", "relay", "leave", "poll", "lock", "block", "sem", "semrelay",
           "call", "wait", "return", "update", "send", "eof", "close", "procend"}

\* Types; the channels never hold more than their capacity.
TypeOK ==
  /\ running \in BOOLEAN /\ rev \in BOOLEAN /\ runs \in 1 .. MaxRuns
  /\ dbg \in {"select", "closed", "suspend", "suspended", "run", "ever", "main",
             "enter", "step", "stepping"}
  /\ runever \in Seq(BOOLEAN) /\ Len(runever) <= Cap
  /\ runclose \in 0 .. Cap /\ dagupdate \in 0 .. Cap
  /\ newproc \in 0 .. Cap /\ termproc \in 0 .. Cap
  /\ exmut \in BOOLEAN /\ broken \in BOOLEAN /\ ended \in BOOLEAN
  /\ gor \in [Gor -> [at : Places, dir : BOOLEAN, ret : {"normal", "eof", "procend"},
                      boss : Gor \cup {NoGor}, blk : Int, todo : Seq(Proc), wg : Nat, susp : BOOLEAN]]
  /\ head \in [Proc -> Int] /\ pc \in [Proc -> Int] /\ sem \in [Sem -> {0, 1}]

\* exmut excludes: one goroutine at a time is in executeBlock, but for those that
\* wait for a semaphore or for children, and exmut is locked then.
Exclusive ==
  LET Inside == {g \in Gor : gor[g].at \in {"block", "call"}}
  IN  Cardinality(Inside) <= 1 /\ (Inside # {} => exmut)

\* One goroutine executes a process at a time: pc and head have no lock of their
\* own.
OneGoroutine ==
  \A g, h \in Gor : g[1] = h[1] /\ Alive(g) /\ Alive(h) => g = h

\* Everybody runs in the direction the user chose last (runever carries it to
\* each goroutine, r.rev to the wait loops and the DAG).
OneDirection ==
  /\ running => \A i \in DOMAIN runever : runever[i] = rev
  /\ \A g \in Gor : Alive(g) /\ ~At(g, "select") => gor[g].dir = rev

\* At the prompt, nobody runs, and each process has run to its end or back to
\* its begin.
QuietPrompt ==
  dbg = "select" /\ ~running =>
    /\ \A p \in Proc : Idle(p)
    /\ ~exmut
    /\ \/ \A p \in Proc : pc[p] = Len(Body[p])
       \/ \A p \in Proc : pc[p] = 0

\* Between two blocks, the head of a process is where its counter says: the
\* blocks that are undone are those that were done (what -e checks).
InStep ==
  \A p \in Proc :
    (\A g \in Gor : g[1] = p =>
       gor[g].at \notin {"block", "sem", "semrelay", "call", "wait", "return"})
      => head[p] = Lines * pc[p]

\* A process that exists keeps its head when it is called again ("head will not
\* be overwritten if the proc does exist", runtime.go:646).
HeadKept == [][\A p \in Proc \ {Root} : Idle(p) => head'[p] = head[p]]_vars

\* The call of a suspended process is to run again ("giving value 3 so that
\* executeOnce will not modify head", runtime.go:657): the caller stays before it,
\* and does not go on at the next block as if the call had been executed.
CallStays ==
  [][\A g \in Gor : At(g, "return") /\ gor[g].susp => head'[g[1]] = head[g[1]]]_vars

\* A run is closed by the end of main or by the user, never by a token of an
\* earlier run ("needs unclog before runever, otherwise procs will immidiately
\* shut off", runtime.go:132).
FreshClose == runclose > 0 => ended

\* The token that closes a run is broadcast: until the next run it is in runclose,
\* or with somebody about to put it (back) there.
CloseLasts ==
  ended =>
    \/ runclose > 0
    \/ \E g \in Gor : gor[g].at \in {"leave", "semrelay", "close"}
    \/ dbg \in {"closed", "suspend", "suspended"}

\* So is the direction of a run, until the run is closed.
DirectionLasts ==
  running /\ ~ended /\ dbg \notin {"suspend", "suspended"} =>
    runever # << >> \/ \E g \in Gor : At(g, "relay")

\* Enter at the prompt executes a block and comes back to the prompt ("run one
\* step of focused proc", runtime.go:279).
StepReturns == dbg = "step" ~> dbg = "select"

\* Every run ends, forward and backward.
RunEnds == running ~> ~running

\* After the end of a run every goroutine ends, and leaves what it was in order
\* (runclose "will terminate all procs. however, it does not delete proc's info",
\* runtime.go:131), unless the user starts the next run before.
AllEnd == ~running ~> (running \/ (~broken /\ \A p \in Proc : Idle(p)))
=============================================================================
