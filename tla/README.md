# Verification of the Concurrent Janus interpreter

Concurrent Janus is a reversible imperative language with parallel calls. `compiler/` translates it
to CRIL, a reversible intermediate language of three-line basic blocks; `runtime/` interprets CRIL
forward and backward, one goroutine per process, and uses an *annotation DAG* to replay and to undo
concurrent accesses to shared variables in the order in which they happened. This directory
models the DAG and the execution of blocks under it (`AnnotationDag`), shows that it does what a log of
versions would (`VersionStore`), that its lock words count who holds what (`Locks`), and that the waits in the middle of blocks may be ignored (`Waits`); the
goroutines, mutex and channels that start and stop runs (`Debugger`); and the way of a program from its
source to its result: the compiler, the loader, the symbol table and the instructions (`Compiler`, `Cril`,
`Machine`), checked against what the program means (`Janus`).

All paths below are relative to `src/`.

## 1. Inventory

| Component | State it keeps | Operations | Hard behaviour |
|---|---|---|---|
| Annotation DAG (`runtime/dag.go`) | in- and out-edges and a lock word per node (process, counter) | `addEdge`, `isRunnable`, `PrevNode`, `LockDagNode`, `UnlockDagNode`, `WLockDagNode`, `WUnlockDagNode` | decides the order of replays and of backward runs; a wrong answer is a wrong result or a circle of waiting processes |
| Versions, locks, semaphores (`runtime/symtab.go` 51-61, 106-249) | `dag.last` (writer of the current version per variable), memory | `ReadAddr`, `WriteAddr`, `LockAddr`, `UnlockAddr`, `WLockAddr`, `WUnlockAddr`, `WaitV`, `WaitP` | wait loops release the global mutex `exmut` in the middle of a block |
| Scheduler (`runtime/pc.go`, `runPC`, `runPCCall` of `runtime.go`) | `pc`, `head` per process; goroutines | `execute`, `executeBlock`, `call` | fork and join, in both directions; suspension in the middle |
| Command loop (`debug` of `runtime.go`) | `running`, direction `rev`, eight channels | `run`, `fwd`, `bwd`, Enter, `deldag`, step-by-step mode, focus | one-token broadcasts over buffered channels, stale tokens, full channels |
| Instruction table (`initInstset`, `runtime.go` 369-891) | none | forward and backward form of 19 instructions | the backward form must undo the forward form |
| Symbol table (`symtab.go` 195-215, 251-513) | `alloctable`, `localtable`, `varmem`, `heapmem` | `GetAddr`, `SetAddr`, `UnsetAddr`, allocation, `set`, `unset`, `push`, `pop` | nesting of bindings, undone in reverse; array indices |
| Loader (`debugger.go` 110-182, `label.go`) | lines of the program, labels | completes blocks to entry, instruction, exit | jumps to lines that were not in the file |
| Expression evaluator (`expr.go`) | list of addresses read | one expression | an index is read when the instruction is set up, the rest when it is executed |
| Compiler (`compiler/main.go`, `parser.go`) | symbol tables, recorded forward and backward code | one generator per statement | every statement needs its exact inverse; locks and temporaries in order |
| Flags, input, signals, profiling (`debugger.go`), `util` | - | input and output | - |

`parser.go` and `expr.go` are generated from `parser.y` and `expr.y` and are the code that is built; the models
follow them. `expr.go` differs from its grammar: `LockAddr` and `UnlockAddr` around a read are commented out
(`expr.go` 1070-1072, 1087-1089) where `expr.y` has them (341-345, 354-358), so to generate it again would
change the locking.

How they interact. `debug` starts the goroutine of main (`runPC`) and offers a direction on
`runever`; every goroutine takes it, puts it back, and executes block after block: it locks
`exmut`, asks `isRunnable`, executes the three lines (`executeBlock`), unlocks. The lines read and
write memory through the symbol table, which adds edges to the DAG (forward) or follows them
(backward). `call` starts children with `exmut` held and waits for them without it. The end of main,
or Enter, offers a token on `runclose`; every goroutine takes it, puts it back and leaves.

What makes the parts correct: the DAG has one chain of versions per variable, whose active end is the
current one; a backward run restores the initial memory and a replay ends in the recorded one; what
is locked is not written; calls join whole subtrees; a run ends; an end or an interruption reaches
everybody and nobody of another run. `PROJECT.json` lists, under `hazards`, where in the code each of
these can go wrong and which property is about it.

## 2. Modules

### `Dag.tla`: what dag.go computes

Pure operators. A node is a pair of a process and a counter, `BOT` is the node `-1,-1`. `addEdge`
always appends to both adjacency lists and never twice, so the DAG is a set of edges and
`InEdges`, `OutEdges` are the lists. `RunnableFwd` and `RunnableBwd` are the two halves of `isRunnable`.
`RLockable` to `WUnlock` are the lock word of a node.

### `AnnotationDag.tla`: execution under the DAG

One step is one basic block. This is the grain of the code: `exmut` is held from before `isRunnable`
to the end of `executeBlock`, and released only in wait loops and while a call waits for its
children. The wait loops poll and change nothing, so they are guards (`FwdClear`, `BwdClear`,
`Lockable`), and a call is two steps (`FwdFork`, `FwdJoin`, and backward). What a block reads before its
wait loop, an index or the condition of its entry line, it reads at the end of its wait here; that this loses
nothing is what `Waits` shows. That a block may have been admitted by `isRunnable` long before its wait ends
is the subject of `RunnableStable`.

| State | Code |
|---|---|
| `prog` | the blocks each process executes, in order. Labels and conditions are not kept: their reads are "read" blocks |
| `pc`, `live`, `inCall` | `pc.pc`; goroutines that run `execute`; goroutines in `wg.Wait` |
| `edges`, `lock`, `last` | `dag.edges`, `dagedges.lock`, `dag.last` |
| `mem`, `rev`, `panicked` | memory, `runtime.rev`, a goroutine has panicked |
| `outcomes` | history: memories at the end of forward runs since the DAG was last deleted |

Processes are named by `treepid`, their place in the call tree, as `getChildPC` does: a process called
again goes on with its counter, and its list holds the blocks of all its calls, `first` and `last`
marking the begin and the end of each. A variable is a pair of the name `toSymName` gives (the DAG's
key) and a cell; an array has one name and several cells.

The user turns the direction at each end (`Turn`) or, in the initial state, deletes the DAG
(`DelDag`). The README of the repository excludes the rest: a run in the same direction again breaks
("Program will break upon backward execution from initial state / forward execution from final
state"), and `deldag` elsewhere gives up the way back.

The assumptions of the module are about programs: `NoSelfRead` (Janus forbids `x += x`; the
interpreter would wait for itself), `SemaphoreAssumption` (the compiler's type `sync` keeps semaphores
out of expressions), `ValueAssumption` (the backward form of an operator undoes it; `MCAnnotationDag`
gives `+=`, `-=`, `^=` on two-bit words and TLC checks it). `MaxLen` bounds the blocks of one process.

### `CallTree.tla`: the invariant of fork and join

What the list of blocks of a process must look like, given its caller, and `TreeInv`: who waits in a
call runs, who runs has been called, and every counter is within the current call.

### `VersionStore.tla`, `VersionedDag.tla`: what the DAG promises

`VersionStore` is the abstract specification: memory with an undo and redo log. A write makes a version
and logs what the variable holds in it and which version it replaced; `Undo` and `Redo` copy logged values;
versions never branch. The interpreter keeps no values at all: it computes them again, or computes the
inverse. `VersionedDag` is `AnnotationDag` with the log as a history variable: a block that writes for
the first time notes its version (`Note`), nothing ever reads it, and `KeepsVersions` is the specification of
`VersionStore` with `last` for the current versions. A backward write must be the `Undo` of its own
version, a replayed one the `Redo`: the value computed has to be the value logged. `LogInv` relates the log
to the DAG, each version to the versions its block has read. `NameAssumption` is that a cell has one name;
run `aliases` shows what happens otherwise.

### `Locks.tla`: who holds which version

A lock word is a number at a node; no word says who has it, and `lock` and `unlock` both go to the version that
is current at the time. `Holding` is who has locked what and not yet unlocked, read from the programs and
counters, and `LockCount` that every word is the number of holders of its version. Two assumptions are about
programs. `PairAssumption`: a process locks and unlocks an address in turn, as the compiler does, which writes both
around a statement and an address once. `WrittenAssumption`: what is locked has been written, by main before it
calls anybody; run `uninitialised` shows what happens otherwise.

### `Waits.tla`: blocks that wait in the middle

`AnnotationDag` with the wait as two steps: `Prepare` is the first half of a block, which is admitted, reads
ahead (the set `Early`: indices, entry conditions), records those edges and waits without `exmut`; `Resume` is the
rest, when the wait is over. `early` is who waits and what each has read, and the DAG of the code is in two
parts: `edges` is what blocks that are done have recorded, `ahead` what waiting blocks have, and `isRunnable`
(`Admitted`) asks about both. `WaitsAreAtomic` is that with `early` and `ahead` left out this implements
`AnnotationDag` with its log: the step of a block is its `Resume`. `EarlyAssumption` is about programs: an address that is
read ahead is locked by its own process, in an earlier block, and not unlocked before. The compiler writes the locks of a
statement before its first block and the unlocks after its last (`lockrecord`, `parser.go` 816;
`unlockrecord`, 984), with the variables of indices and conditions among them.

### `Debugger.tla`: goroutines, exmut and channels

One step is one operation on a channel or on `exmut`, or the code between two of them. What blocks do is
left out, except semaphores (their wait loops read `runclose`) and calls. A goroutine of a process
may exist more than once (`MaxGor`), which the code means to exclude (`OneGoroutine`).

| State | Code |
|---|---|
| `runever`, `runclose`, `dagupdate`, `newproc`, `termproc` | the channels, of capacity `Cap` (8 in `newRuntime`) |
| `exmut`, `gor` | the mutex; where each goroutine is in `execute`, `executeBlock`, `WaitV`/`WaitP` or `call` |
| `head`, `pc` | of each process; a procedure of n blocks has lines 0 to 3n. A block ends in a jump to the next one, which sets `head` to its line, or in `end` (`begin`, backward), which moves it (`HeadAfter`) |
| `running`, `dbg`, `rev` | the state of `debug` and where it is |
| `broken` | a goroutine has unlocked a free `exmut` (fatal in Go) or reads lines that are not a block; the model stops |
| `runs`, `ended` | bound on `run` commands; history: this run has been ended |

`TreeAssumption` is about the call tree: processes are named by their place in it (`getChildPC`), so each has
one caller and there is no circle. `PlaceAssumption`: everybody but main is called, in one place. A process that
is called twice would go on in another procedure with the counter it has; that is in `AnnotationDag`
(`first` and `last`), while here `Body[p]` is all that `p` runs.

Bounds: `Cap`, `MaxGor`, `MaxRuns`, and the constants `Suspends`, whether the user presses Enter
during a run, and `Steps`, whether at the prompt. `Run` waits for `newproc` and `termproc` to be empty: a human types slower than the loop
takes pids (otherwise `runPC` may block the loop on its own channel; listed as a hazard).
`isRunnable` answers TRUE here. Of step-by-step mode there is the side of the loop (`Enter`, `EnterEver`,
`StepBlock`), which is as far as it gets: the block it executes unlocks an `exmut` that is free (finding 7).

### `Cril.tla`, `Machine.tla`: the loader, the symbol table and the instructions

`Cril` has the lines of CRIL as records, with the two columns of the instruction table (`Backward`), the
operators of expressions (`Apply`) and the loader (`Load`), which cuts a text into blocks of three lines
and records the labels. `InBlocks` says of a text what the compiler sees to: between a jump target or `begin` and
the next jump or `end` there is at least one instruction, no line stands outside, and what is called is there. A
procedure whose body makes no code is what breaks it (finding 6). `Machine` executes a loaded text. One step is one block, with its entry and
exit conditions and jumps, and one action per instruction; `Finish` is what every block ends with.

| State | Code |
|---|---|
| `code`, `file` | the source; `runtime.file` and `runtime.labels` |
| `head`, `running`, `waiting` | `pc.head`; goroutines in `execute`; goroutines in `wg.Wait` |
| `mem` | `alloctable`, `localtable` and `nest` of each process, `heapmem`, `varmem` |
| `lock`, `exmap`, `rev`, `panicked` | lock word of the current version of each name; what `-e` compares; direction; panic |

Names of variables follow the code: `AddrOfName` takes the innermost binding, `IsAllocatedLocal` asks for the
present depth, `$x` allocates where nothing is bound and gives up where something is, and `SymName` is the
name locks go by. Panics of the code are the `legal` argument of `Finish` and `BlockPanics`; the
comparison of `-e`, that a block undone is the block done, is one of them. Two depend on values alone (`ValueFaults`):
Go panics on a division by zero, and `heapmemory`, which grows for a cell beyond its end, on one below zero. Conditions
and addresses are looked at where the code does it: the first line of a block after the instruction has been set up and
before it acts (`Prepared`), the last after it has acted, the second name of `<=>` after the first has been written.
`Proc`, the places in the call tree, bounds the depth of calls (guards of `Fork`, `SetSym`, `UnsetSym`); the runs stay within it.
`Machine` does not keep the DAG: its programs run in parallel only what is independent.

### `Frames.tla`: what a text keeps to

What can be said of a text before it is run, and all that the proofs about `Machine` need of the compiler. A *frame* is a symbol
table without addresses: for each name in scope the depths it is bound at, whether its cell is its own and whether it
may be indexed, with the depth, the globals, the names given to children by `set`, and the variables locked. A text is
`Framed` when each border of two blocks can be given a frame such that every instruction leads from the frame before
it to the one after it (`Moves`), all jumps to a label agree (`Enters`, `Leaves`), and a procedure starts and ends with what
its callers give it (`Calls`). Pairs of inverse instructions are one definition, read in either direction, which is what
makes the condition serve backward runs too. A procedure has one frame, so its callers must agree on which
arguments are arrays. `MCCompiled` finds frames by following the jumps and calls from the begin of main (`FramesOf`), and TLC
evaluates `Framed` of them (`CompiledFramed`). Frames know no values. `PlainLine` is a line where no value matters to
whether it panics: no divisor and no index is a variable, and no divisor is zero. More than half of the texts of run
`compiled` have such lines only (`MostPlain`); the others index arrays by variables, and one divides by a variable.

### `Janus.tla`, `Compiler.tla`, `Compiled.tla`: the compiler and what it promises

`Janus` is the abstract specification of the compiler and the interpreter together: the syntax of
the grammar and `Meaning`, the final values of the global variables computed on the tree. `Compiler` follows
`parser.y` and `main.go`: a `Record` is what is written between `beginRecord` and `endRecord` (code,
inverse, variables to lock, result), each statement is the sequence of lines it writes, and `Accepted` is
the check of scopes and types. `Compiled` states that the interpreter ends with what the program
means (`Implements`).

### Model checking: the `MC` modules

Programs and values for TLC. The bodies are the shapes the compiler emits: an assignment is lock,
update, unlock (`parser.y` and `lockrecord`), `acquire` and `wait` are V and P around updates.

## 3. Runs

| Run | Instance | Shows |
|---|---|---|
| `replays` | main and 3 parallel processes, 84 programs from 7 bodies that cannot block each other; main and 2 processes, 81 programs from 9 bodies, those that lock x and y crosswise included; 3 programs with nested calls, processes called two and three times and an array; forward, backward, replay without end. Deadlock is not checked, since such programs do stop; `OnlyCircles` says which | that it implements the version log (`KeepsVersions`), the invariants of the DAG, of the log and of calls, `NoPanic`, `Restored`, `OneOutcome`, `AdmittedRuns`, lock words that count their holders (`LockCount`), locks that hold and are given back, and, under fairness, that every replay and every backward run ends; `ReplayMoves`, without fairness, that in these runs somebody can always go on |
| `waits` | main and 3 processes, 84 programs from 7 bodies in which one reads an index under a lock and others write it; first runs, replays, backward runs | `WaitsAreAtomic`, `EarlyStays` |
| `uninitialised` | a locked variable nobody has written | violation of `LockedReadOnly` |
| `aliases` | one cell under two parameter names | violation of `Restored` |
| `complete` | main and two processes that exclude each other by a semaphore; three runs that the user lets finish, direction changed at will | nine properties of broadcasts, mutual exclusion, positions and termination |
| `tokens` | semaphores, Enter at any moment, during a run and at the prompt, two runs; the model stops at a fatal error, so deadlock is not checked | no broadcast is ever lost |
| `suspend_waiting` | semaphores, Enter at any moment | violation of `AllEnd` |
| `suspend_call` | Enter during a call, in the first of the two blocks of main | violation of `CallStays`: `head` goes on from line 0 to line 3, the next block |
| `stale_close` | Enter, then `run` | violation of `FreshClose` |
| `step` | Enter at the prompt | violation of `StepReturns` |
| `compiled` | 94 Janus programs: ifs, loops, local blocks, array elements and calls (recursive, parallel, with arrays and locals by reference) in each other; compiled, loaded, executed forward, backward and again | the seven invariants of `Machine` and `Compiled`: no panic, blocks aligned, locals zero when given up, no dangling name, nothing left behind, and the result the program means |
| `empty_procedure` | a procedure whose body is `skip` | violation of `Aligned` |

Bounds. Three processes are needed for a version with two readers and a writer, which is what
the sibling test of `isRunnable` is about; two for every race between a permission and a wait. Three or
four blocks per process hold a lock region, a critical section, or two versions of one variable by one
process. Runs are unbounded in number in `AnnotationDag` (the state space is finite: a replay
adds nothing). Two-bit words distinguish addition, subtraction and exclusive or.
In `complete` every channel has room for one token per process that can be between `Unclog` and
send at the same time, as the code has for up to eight processes. Three runs are forward, backward and forward again.

In `compiled` the programs combine every statement with every place it can stand in, small values
(integers are unbounded in the model and never near the ends of a word), five processes and a recursion of
depth three; `Bad` has programs the compiler has to reject, and a text by hand covers the exchange and skip, which the
compiler never writes. Programs whose assertions fail, or that divide by zero, have no meaning and are left out. The state space is finite
and without deadlock, and every block adds to `exmap` or takes from it, so every run ends.

Every property of a passing run has a mutant in `PROJECT.json`: a plausible bug in one mapped definition
(a dropped wait, a token not put back, a test with one case less) under which TLC finds the property
violated. The mutants stand next to the definitions they alter.

### Fairness

`AnnotationDag`: weak fairness for the steps of each process. A process whose block stays possible
keeps polling `isRunnable` or its wait loop every microsecond, and Go hands a mutex to whoever has waited
for more than a millisecond. `Turn` and `DelDag` are the user's and not fair. `Debugger`: strong
fairness for each goroutine, because `exmut` and the channel tokens come and go: Go's mutex has that
starvation mode, channels serve blocked senders and receivers in turn, and a `select` picks at random
among ready cases, so a token offered again and again to the select of `WaitV` is taken in the end.
The commands of the user are not fair.

## 4. Findings

1. `lock` of a variable that nobody has written locks nothing (node `-1,-1` has no lock word), against
   the comment of `LockAddr`. `progs/m.cj` can meet it; the later `unlock` may panic.
2. A cell passed to two processes under two parameter names has two names in the DAG: a backward run
   need not restore the initial state.
3. `WaitV` and `WaitP` go on without `exmut` after a close token: an interruption while a process waits
   for a semaphore ends in a fatal error or in a process that runs on.
4. A suspended call is skipped. The value 3 of `call` keeps one line of three from moving `head`, but the
   exit of the block (the entry, backward) is a jump and sets `head` to the next block, and the block is counted:
   the next run goes on behind the call, its callees are left where they were interrupted. In the last block, which ends
   in `end` and not in a jump (in the first, backward), the other two lines move `head` by two, and the caller
   reports that it has come to its end.
5. `run` soon after an interruption may be closed at once by a token that a goroutine of the earlier
   run puts back.
6. `GetEnd` is a line too early for a procedure without code, because the loader notes the label before
   it completes the block: a backward call executes the wrong block.
7. Enter at the prompt has the command loop execute a block without `exmut`, and `executeBlock` ends with
   `exmut.Unlock`: Go ends the program. The command works with `-seq` only.

Met while reading, without a run of their own:

- `dagupdate` has no receiver; nine processes between `Unclog` and send may block one for ever.
- The compiler's patterns for `||` and `|` (`main.go` 358, 366) match the empty string, so neither is ever a
  token; a negative literal is read as a minus and a number. `|` and `&` have no action in either grammar and
  give their left side.
- The value of a unary minus is a function that looks at `exprDollar`, a variable of the parser, when it is called
  (`expr.go` 1054): by then it holds what a later reduction has left in it.
- CRIL written by hand may wait with an index or an entry condition read and not locked. The edge of that
  read is recorded before others write, the block's own write after: the DAG then has a circle, and neither a
  replay nor a backward run comes past it. The compiler locks around both, which is what `MCWaits` assumes.
- With `-seq`, a call and the first block of its callee count as one block, so `-e` panics in a
  backward call; and a step from the prompt over a call waits for `stepexret` while the nested `execute`
  waits in its select.
- The compiler checks neither the target of an assignment nor a semaphore nor for missing arguments, and
  accepts `local int x = x`.
- A global passed by reference is locked under the name of the parameter, so two processes that use different
  cells under the same names share a lock.
- `alclimit` only grows: every temporary of every run takes a new cell.
- The loader's pattern for a jump does not match a condition with spaces, as in the comment
  "a == b -> L1;L2"; the compiler never writes one.

## 5. Proofs

Eight modules of proofs, for every value of the constants that satisfies the named assumptions: any number of
processes, variables, values, operators and runs, any call tree, any programs of the shapes assumed, channels of
any capacity.

The DAG (`AnnotationDagProofs`, `CallTreeProofs`):

- `TypeCorrect`: `Spec => []TypeOK`.
- `TreeInOrder`: `Spec => []TreeInv`, and from it `RunsAreWhole` (`[]WholeRuns`). `WholeRuns` speaks of
  the two ends only and is not inductive; `TreeInv` says where each counter is in the current call. The
  step from `TreeInv` to `WholeRuns` is lemma `TreeIsWhole`: the processes that are not done
  would be a set closed under `Caller`, which `TreeAssumption` excludes.
- `DagSound`: `Spec => []DagInv`. `DagInv` is the strengthening behind `VersionsOverwrittenOnce`,
  `UndoesTheTip`, `ReplayKeepsTheDag` and `PermissionStays`: edges have the shape of the accesses
  of their block (`EdgeShape`), a block reads one version (`OneRead`), what an executed block depends
  on is executed (`ActiveClosed`), `last` is the active end of the chain of writes (`LastIsTip`), readers
  come before the overwriter (`ReadersFirst`), and either this is the first run or the DAG is
  complete (`Mode`). `Mode` needs `TreeInv`: only because main returns after everybody else does a
  backward run start with every executed block recorded. TLC checks the same `DagInv` and `TreeInv` in
  `replays`.

The induction is by actions: `DagStep` and `TreeStep` have one case per action of `Next`; `Turn` and
`DelDag` use lemma `NobodyRuns`, that nobody but main is live when main is not.

The log (`VersionedDagProofs`), which rests on all of the above and on `NameAssumption`, that a cell has one name. The compiler
does not guarantee that (finding 2), and run `aliases` violates `Restored` where a cell has two:

- `LogSound`: `LSpec => []LogInv`. A write for the first time logs what memory holds then; after that the
  edges of its block do not change (`ReplayKeepsTheDag`), so what the block has read stays named by versions.
- `ImplementsStore`: `LSpec => Store!Spec`, with a lemma for each kind of step. The first execution of a block
  is `Write`: nobody has replaced the current version, since `DagInv` has one chain of versions. A replay is `Redo`:
  `isRunnable` has it wait until the versions it read the first time are current
  (`ReplaySources`), so it computes the same value. A backward write is `Undo`: its version is the tip
  (`UndoFindsTip`) and its sources are current (`UndoFindsSources`), so the inverse operator, by
  `ValueAssumption`, gives the value of the version before. `deldag` in the initial state is `Forget`.
- `RestoresMemory`, `OutcomesAgree`: `[]Restored` and `[]OneOutcome`, for which the log is made. With nothing executed
  every variable is at its first version; with everything executed, at the last of its chain. They
  are stated of `LSpec`: the history variable changes nothing (`SameBehaviours` is the direction
  that is needed for the lemmas), but to take it away again is a quantification over behaviours, which the
  prover has no rule for.

Locks (`LocksProofs`), stated of `Spec`, under `PairAssumption`, which the compiler keeps to, and `WrittenAssumption`, which it
does not guarantee (finding 1, run `uninitialised`):

- `LocksCounted`, `NeverPanics`, `LocksGivenBack`, `LocksHold`: `[]LockCount`, `[]NoPanic`, `[]LocksReturned` and
  `LockedReadOnly`. The inductive invariant, `LocksSound`, has three parts. `LockWords`: each word is the number of
  holders. Alone it is not inductive: a lock of a variable without a version would count nowhere, and an `unlock`
  would go to another version than the `lock` did. `NoCircle`, that the written versions of a variable do not
  overwrite each other in a circle, closes the first gap: some executed write is then the tip of the chain, so
  `last` names it (`WrittenIsCurrent`), and by `WrittenAssumption` and `TreeInv` that write comes before every
  lock (`HeldIsWritten`). The second closes itself: a write waits for an unlocked version (`WLockAddr`), which by
  `LockWords` nobody holds (`UnlockedIsFree`), so the version a process has locked is current until it unlocks.
  `~panicked` is the third part. Backward the roles of lock and unlock are exchanged (`HoldingBackward`).
  At both ends of a run all counters are at an end (`WholeRuns`) and nobody holds anything.

Replays and backward runs (`ReplaysProofs`), under `NameAssumption`, `WrittenAssumption` and `PairAssumption`:

- `LockedIsCurrent`: `Spec => [](HeldTip /\ OneVersion)`. The version a block has read is current as long as
  its process holds the variable from then on (`HeldTip`), and the blocks between a lock and its unlock have read one
  version (`OneVersion`). The first is about the present, the second about edges, which outlive the run: that is
  what a replay goes by.
- `AdmittedNeverWait`: `LSpec => []AdmittedRuns`. A semaphore operation has read the version it replaces, so
  by `LogInv` memory holds what it held when the block ran first. A lock word that is not zero is
  the work of somebody who holds that version now: its `lock` and `unlock` have both read it (`OneVersion`), so
  the DAG orders the write against both, and `isRunnable` would not have let it through.
- `RunsAreOrdered`: `Spec => [](Complete /\ Ordered)`. Begin and end of each block are moments; `Before` is what
  asks for an order of them: an edge, the next block of a process, a call and its callee, reader and overwriter. `Ordered`
  is that the moments that have been reached can be closed off step by step: every set of them that is not empty has one
  that nothing else of the set comes before. The invariant is over the set of moments that are past, and a step adds
  the last of it. `Complete` is that after the first run every block has its edges.
- `ReplaysMove`: `LSpec => []ReplayMoves`. Of the moments that are not yet past in this run, one is first by
  `Ordered` (last, backward). Its block is admitted, because all that `isRunnable` asks about comes before it; it need
  not wait, by `AdmittedNeverWait`; if it is the end of a call, the callees have returned. So no replay and no
  backward run of a program that keeps to the three assumptions deadlocks, whatever its call tree and the schedule of its
  first run. What is missing for `ReplayFinishes` is fairness.

Lemma `LeastNat`, from the library's theorem that `<` is well founded, is how these proofs go by induction over
counters: by the least counterexample.

Waits (`WaitsProofs`), under all these and `EarlyAssumption`:

- `WaitsImplementSteps`: `WSpec => WaitsAreAtomic`. `WaitInv`: who waits runs forward, has no edge in `edges`, and what
  it has read is what memory and `last` still say. This needs that what it has read is locked by it
  (`EarlyAssumption`), that a lock lasts until `Resume` (`HeldIsKept`), and that nobody writes what somebody
  holds (`LocksSound`). Then `Resume` computes what `FwdWrite` would, and is still admitted: a block that is
  executed for the first time has no edges of its own but those ahead, to versions that are current.
- `ReadAheadStays`: `WSpec => []EarlyStays`, from the same invariant.
- `WaitsKeepAll` has the safety properties of `AnnotationDag`, `VersionedDag` and `Locks` for `WSpec`.

`Waits` extends `Locks` instead of instantiating `AnnotationDag` under a mapping, because the prover cannot use theorems of an
instantiated module that rest on its assumptions; with `ahead` as a variable of its own the mapping is the identity.

Goroutines (`DebuggerProofs`):

- However the user interrupts and steps: `TypeCorrect`, `CloseIsKept`, `DirectionIsKept`. Types need `Joins`:
  the count of `wg` is the number of children to start and running, and a child that ends was
  counted. The tokens are where the channel or a goroutine has them.
- In runs that the user lets finish (`~Suspends /\ ~Steps`): `BlocksExclude`, `OneEach`, `SameDirection`,
  `NoStaleClose`. The invariant is `InTree` (goroutines are started down the call tree, once per
  call: a process has one caller, so nobody else can have started it), `Phases` (while a goroutine runs there is
  no close token and one direction; the token comes only from main, and main is the last, lemma `MainIsLast`:
  otherwise the goroutines outside main would be a set closed under callers) and `Locked` (who is inside a block
  has `exmut`). `Phases` does not hold without `InTree`, nor `InTree` without `Joins`. The violations of runs
  `suspend_waiting` and `stale_close` show that the restriction is needed.
- In the same runs: `HeadsAgree`, `PromptIsQuiet`, `HeadsKept` (an action property) and `NeverBroken`. The invariant is
  `Counted`: a goroutine is where the counter of its process says (`OwnCount`), so is its head, which moves
  after the counter forward and before it backward (`OwnHead`), and the callees of a block are at their begins if
  it is not done, at their ends if it is, and, while it is being executed, on their way from one to the other
  (`Callees`, `AtRest`). `InStep` alone is not inductive: a process that is called finds its head only because its last
  run has gone to the end, which its caller has waited for. `PromptIsQuiet` goes down the tree: main is at an
  end, so its callees are, so is everybody, since a set of processes that are not would have no caller outside.
  Run `suspend_call` shows that this does not outlast an interruption.

The loader and the interpreter (`MachineProofs`), for any texts, operators, places and memories:

- `LoaderCorrect`: a text in blocks is loaded to a file of three-line blocks, and each label and name leads to the
  line that bears it. The loader notes a label before it completes the block before the line, so this is
  not plain: where a line gets padding it has no label of its own (`CutBetween`), where it has one it gets no padding
  (`CutFits`). `Load` is recursive over the text; `Cut` says of the first lines of the text what they have been loaded
  to, and the induction is by the shortest beginning that is a counterexample (`LeastNat` again).
- `HeadsAligned`, `BlocksAreWhole`, `CallsAreStructured`, all under `TextsInBlocks`, that each text of
  `Code` is in blocks: heads stay on borders of blocks and within the file, so `executeBlock` neither takes lines of two
  blocks for one nor comes to the edge of the file, where it returns with `exmut` locked; and who executes has
  nobody running below it in the call tree. The invariant is `MachInv`. Heads alone are not inductive: a backward run
  begins at `end` + 1 of main while nobody else runs, which is `NobodyUnder`, by the shortest place below that still
  runs; and that needs every process to be a child of the call its parent waits in, which a step of the parent would
  lose. That a block which jumps finds its label is a case of `Finish`: else it panics and the head stays.
  `TextsInBlocks` cannot be proved of what `Compiler` writes, which is recursive over programs; TLC evaluates it on the
  95 texts of run `compiled` (`CompiledInBlocks`). The run `empty_procedure` shows that it is needed.
- `MachineTypes`, `NamesHaveCells`, `NoPanicForward`, `TwoPanicsLeft`, `RunsTidyUp`, under `TextsFramed`: each
  text is in blocks and `Framed`. `NoPanicForward`, that no run forward panics, assumes `TextsPlain` as well, that all
  lines are plain: a framed text may still divide by a variable that is zero. `TwoPanicsLeft` does not assume it, and says
  which panics a framed text can meet: that of `-e`, backward; and, in a block that is not plain, a division by zero or an
  address below zero. A text that is only in blocks may `pop` at depth zero, or give a cell up while a
  parameter is bound to it. None of the properties is inductive. The invariant, `FrameInv`, says that there are frames of the
  text, a frame `g[p]` of each process, and an owner of each cell, such that
  - the symbol table of `p` is its frame with addresses, and cells in use and names that own them correspond one to one;
    a parameter is bound to a cell whose owner is further up the call tree (`NamesFit`, `CellsFit`, `MemFits`);
  - the lock word of each name counts the processes whose frames have it locked (`LocksFit`);
  - who runs has the frame of the border it is at (`Linked`), and who does not run has what its caller has given it,
    at depth zero (`Idle`).

  A cell is then given up only by the process that owns it, which has given it to nobody (`Updates`: `$x` with no
  name given and `x` not locked), so nobody below it has a name for it. The induction has a lemma for each instruction, which
  serves both directions, since `Backward` of an instruction leads from the frame after to the frame before
  (`MovesBack`); `Fork` and `Join` use `CallsAreStructured`: nobody below a caller runs when children start or have
  returned, so their frames are as they were. At the ends of a run all frames are empty but for the globals (`FramesEmpty`).
  `TextsFramed` cannot be proved of the compiler, for the same reason as `TextsInBlocks`; TLC
  evaluates it on the texts of run `compiled` (`CompiledFramed`).
  What the two theorems add to this is in lemmas `NoInstrFaults`, that a plain instruction between fitting frames does not
  fault, and `PanicsLeft`: the names a line uses are bound where the line is looked at, before the instruction, between its
  set-up and its action, and after it (`ParsedTo`, `SeenHere`), so that only values are left to go wrong. The file loaded
  from a plain text is plain (`PlainLoaded`), since what the loader adds is.

The inductions are by actions, one case for each; steps of `Debugger` that do alike are taken together (`StepKinds`).

Only model-checked:

- `OnlyCircles`, which is stated with `ENABLED`. Its half about replays and backward runs is `ReplayMoves`,
  stated by guards and proved. The other half is about what the programs of a first run may wait for.
- Liveness: `ReplayFinishes`, `BwdFinishes`, `RunEnds`. The prover has no rules for fairness.
- Of run `compiled`: `Implements`, which compares with what `Janus` and `Compiler` compute by recursion over
  programs; `DropsZero`; and the parts of `NoPanic` and `Tidy` that speak of values, which are that a backward run takes the
  jumps back that the forward run took (the comparison of `-e`), that no divisor is zero and no address below zero, and that
  globals are zero again at the start. These hold of programs that have a meaning (no assertion fails, nothing is divided
  by zero) and whose parallel processes share nothing, not of every framed text.
  What is proved instead of `NoPanic` is `ForwardSafe` and `PanicsOnTraceOrValue`, instead of `Tidy`, `Tidied`.

## 6. Not modelled

Sequential mode (`-seq`, no concurrency) and `NODAG`; of `-e`, only what it compares (`exmap` in `Machine`). The
goroutines' side of step-by-step mode (`runonce`, `rundone`, `rundoner`) and another focus than main: the
program does not survive the first step. `print`, `var`, `proc`, `dag`; lexing and the regular expressions of
lines; flags, profiling, signals. The growth of memory, which ends the program for an index that is large enough, and
words that overflow. An index beyond an array falls on a neighbour, as in the code; that no program does so is not checked.
In a block with a call, `Machine` looks at the condition of the entry line when the call returns, not before it
starts.

## 7. Plan

What could follow, the most useful first:

1. `Machine` with the DAG instead of the lock words: parallel programs that share what they write.
2. For framed texts whose parallel processes share nothing they write: a backward run goes back through the memories of the
   forward run, and with it the rest of `NoPanic` and `Tidy`.
3. Sequential mode, with the goroutines' side of step-by-step mode, which works there.
