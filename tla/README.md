# A verification development for the operating systems lab assignments

The repository holds ten solved lab assignments (LA1 to LA9 and Lab B) in C and
C++. Each is a small program of its own; what makes them worth verifying is how
their threads, processes and signal handlers meet. This directory models nine of
them in TLA+, checks them with TLC on small instances, and proves every safety
invariant of these runs with TLAPS for all sizes. Liveness stays with TLC.

Contents: [system](#1-the-system), [modules](#2-modules-and-the-code),
[runs](#3-runs), [fairness](#4-fairness), [proofs](#5-proofs),
[limits](#6-limits-of-the-models), [plan](#7-plan).
All source paths below are relative to `src/Lab_Assignments`.

## 1. The system

| Part | State | Operations | Interaction | Status |
|---|---|---|---|---|
| LA8 `resource.c` | `AVAILABLE`, `ALLOCATION`, `NEED`, queue of pending requests, `request_data`, `active_threads` | handlers for quit, release and additional requests; pass over the queue; safety check | N user threads and a master: `rmtx`, barriers `REQB` and `ACKB[i]`, condition variables `cv[i]` | modelled |
| LA7 `boating.c` | semaphores `boat` and `rider`, table `BA`/`BC`/`BT`, counters of the session | P, V, boat and visitor threads, end of session | M boats, N visitors, main: mutexes, two-party barriers `BB[i]`, `EOS` | modelled |
| LA5 `leader.cpp`, `follower.cpp` | a shared array `M[]`, a hash table of sums | initialise, join, write one's number, pass the turn, sum, dismiss | processes over System V shared memory, all waiting is busy waiting | modelled |
| LA9 `demandpaging.c` | page tables, frame pool, ready and swapped-out queue, counters | searches that load pages, swapping out and in | sequential | modelled |
| LA2 `parent.c`, `child.c`, `dummy.c` | who plays (twice: parent and children), `flag`, pending signals | toss, catch, miss, print the line, end of a round, dismissal | processes over signals, a dummy process whose death ends a round | modelled |
| LA6 `cook.c`, `waiter.c`, `customer.c` | clock, tables, one order queue per waiter, the cooks' queue, food-ready cells, all in one array `M` | arrive, order, cook, serve, eat, closing time | processes over System V shared memory and semaphores | modelled in part |
| LA4 `coordinator.c`, `block.c` | blocks of a board, what is in each pipe | new board, solution, placement checked with the neighbours, quit | processes over pipes: one per block, for commands, boards, requests and answers alike | modelled |
| LA3 `schedule.c` | event heap, ready queue, process table | event handler, FCFS and round robin | sequential | modelled in part |
| LA1 `rebuild.c` | file of done flags, each process's copy of it | rebuild of a foodule and its dependencies | recursion through `fork`/`exec`/`wait` | modelled |
| Lab B `finall.c` | cache of logins, counter | walk of the file system | sequential input and output | not modelled |

The generators of inputs (`geninput.c`, `gensearch.c` and others) appear as the
sets of inputs they can write. The slides contain no code.

What is hard in this code:

- **LA8.** A request is passed through one shared array and acknowledged before
  its sender starts to wait, and condition waits have neither a predicate nor a
  loop. The queue is a linked list, unlinked while it is being walked. The safety check writes
  a tentative grant into the live matrices. Correct means: requests arrive
  unharmed, the books balance, every state under deadlock avoidance is safe, no
  grantable request is left lying, everybody finishes.
- **LA7.** The semaphore decides by its value alone; boats and visitors passed
  by their semaphores must still find each other in a table; boats copy what a
  visitor wrote in another critical section. Correct means: exact semaphores,
  pairs that agree, an end after the last ride and not before it.
- **LA5.** No lock at all: turns are words in shared memory, joining is an
  increment that is not atomic. Correct means: one at a turn, sums of one round,
  everybody dismissed before the segment is removed.
- **LA9.** A process can fail in the middle of a search, even while it is being
  swapped in within another one's turn. Correct means: frames and processes are
  never lost or duplicated, searches are resumed where they stopped.
- **LA2.** Signals are not queued; a round must have ended in all children
  before the next begins. Correct means: one ball, agreement on who plays, one
  winner, an end.

- **LA6.** The cooks' queue lies over its own two indices, one cell per waiter
  says whose food is ready, and a waiter's tokens do not say whether they are
  for an order or for food. Correct means: tables neither lost nor made, no
  waiter asleep on work, tokens that agree with orders, orders that reach the
  kitchen.
- **LA4.** A block that waits for answers takes whatever comes first, and answers
  nobody reads any more stay in its pipe. Correct means: the rule of the game
  when placements do not overlap, and an end of every placement and of the
  program when they do.
- **LA3.** A heap in an array; handlers that move the clock on for themselves; an
  event that is posted for another process than the one it is about. Correct
  means: events handled in the order of their times, a CPU that works while
  somebody is ready, an exit for every process. The last of these fails.
- **LA1.** Each process reads the file of done flags once at its start and again
  after each wait, while its descendants write it. Correct means: each foodule
  once, after all it depends on, and all that the target needs.

`PROJECT.json` lists each hazard at its line with the properties that cover it.

## 2. Modules and the code

| Module | Role |
|---|---|
| `Banker` | vectors, matrices, grant, and the safety check of `resource.c` as a function; the definition of a safe state it is compared with |
| `BankerLoop` | `is_safe_state` as the loop it is, one thread looked at per step, over all small matrices |
| `ResourceManager` | the whole of `resource.c`: master, users, locks, rendezvous, queue |
| `MCResourceManager` | files `system.txt` and `threadNN.txt` for TLC |
| `CountingSemaphore` | the abstract pool of permits |
| `Semaphore` | P and V of `boating.c` as operators on a record |
| `PthreadSemaphore` | threads that call P and V at will; implements `CountingSemaphore` |
| `Boating` | boats, visitors and main; built on `Semaphore` |
| `MCBoating` | one run for `Boating` and `PthreadSemaphore`; the first state chooses which |
| `LeaderFollower`, `MCLeaderFollower` | leader and followers, each access to the shared array a step |
| `FifoQueue` | the ring with its `-1` marks as operators on a record |
| `DemandPaging` | `run_simulation`, one probe of a search per step; built on `FifoQueue` |
| `CpuScheduler` | the event loop of `schedule.c`, one event per step; the loops of the heap turn by turn |
| `Gendep` | the graphs `gendep.c` can write |
| `Rebuild` | the chain of `rebuild` processes and the file `done.txt` |
| `RequestList` | the queue of `resource.c` as the linked list it is, beside the sequence `ResourceManager` has for it |
| `MCSequential` | one run for `DemandPaging`, `CpuScheduler`, `Rebuild` (over `Gendep`'s graphs) and `RequestList`; the first state chooses the program |
| `BallGame` | parent, children, dummy, and the signals pending at each |
| `Foodoku`, `MCFoodoku` | coordinator and blocks, each read and write of a pipe a step |
| `Restaurant`, `MCRestaurant` | cooks, waiters and customers over `M` as memory, a section under `sem_mutex` a step |
| `ResourceManagerProofs`, `BankerLoopProofs` | theorems about LA8 |
| `BoatingProofs` | about LA7, the semaphore included |
| `LeaderFollowerProofs`, `BallGameProofs`, `FoodokuProofs`, `RestaurantProofs` | about LA5, LA2, LA4 and LA6 |
| `SequentialProofs` | about LA9, LA3, LA1 and the list of LA8, as `MCSequential` joins them |

Conventions. A step ends where another thread or process could notice: a
critical section under a mutex without other synchronisation is one step,
everything between two barriers that touches only local state is joined to its
neighbour, and in LA5 every access to the shared array is a step. Program
counters (`upc`, `mpc`, `bpc`, `vpc`, `lpc`, `fpc`, `ppc`, `cpc`, `wpc`, `phase`) take the
place of the position in the code; all other variables have the names of the
source. `PROJECT.json` maps each definition to its lines. Operators called
"Variant with a fault" are the faulty forms each property is tested against, and
are not part of any specification.

Some variables are history only. `held` (LA8) is what a script has asked for
and not given back. `written` (LA5) says which slots were written in this round.
`undisturbed` (LA5) becomes false when a follower reads `M[1]` while another is
between its load and its store, or joins before the leader has set up the array.
`on_time` (LA2) says whether every child was ready when the game began. The
models contain the disturbed and the late starts as well, because the code does
nothing against them but sleep; the properties are then promised only for the
others, as they do fail otherwise. `overlapped` (LA4) says whether a command was
given while the one before was still under way. `passed` (LA6) says whose orders
reached the kitchen. `handled` and `exits` (LA3) keep the time of the last event
and the processes that exits were printed for, `rebuilt` (LA1) what was printed
as rebuilt, in order. `order` and `at` of `RequestList` are the queue and the
position in it that `ResourceManager` goes by; the list itself never reads the
position, and the queue only to know which nodes are in use.
`held` bounds what a script asks for next; of the others no action depends on more.

## 3. Runs

Every passing run explores its instance completely. All models can stop when the
program is over, so deadlock checking is off where that happens; that nothing
stops too early is then a liveness property.

| Run | Instance | Shows |
|---|---|---|
| `bankers_loop` | 2 threads, 2 types, all matrices with amounts up to 1 | the loop ends, restores the matrices, and its verdict is both the atomic function used by `ResourceManager` and the existence of a safe order |
| `rm_avoid` | 3 threads with unequal claims, one type, 2 units, 2 requests each, no releases, `-D_DLAVOID` | every state is safe, a pass leaves nothing grantable, every script is served to its end and the program returns |
| `rm_greedy` | 2 threads, 2 types, 3 requests each with both signs, no safety check | the matrices agree with the scripts, queued threads are blocked and blocked threads are queued |
| `rm_hostile` | 2 threads, signals that may be lost, waits that may return unsignalled | requests are still handed over unharmed, nothing is created or lost, every request is acknowledged |
| `rm_need_not_restored` | 2 threads with releases under `-D_DLAVOID` | **violation**: releases leave `NEED` lowered, and a later grant reaches an unsafe state |
| `boating`: semaphore | 5 threads, 1 permit, at most 3 | the value counts the sleepers; the pool of permits is implemented, with its progress |
| `boating`: session | 3 boats, 3 visitors, waits that may return unsignalled | pairs, ride times, barriers, end of session; every visitor gets a ride |
| `leader_follower` | a leader for 2, 3 followers come, sums that repeat soon | one turn at a time, sums of one round, orderly end |
| `ball_game` | 4 children, any order of starting up | one ball, rounds that end everywhere, an end with one winner |
| `foodoku` | 2 bands of 3 blocks of 2 cells, 68 scripts of 2 commands | the rule of the game when commands do not overlap; placements end and `q` ends the program in any case |
| `restaurant` | 2 cooks, 2 waiters, 2 tables, 4 customers | tables, tokens and orders are conserved; orders reach the kitchen before closing |
| `sequential`: LA9 | 4 processes, 2 searches each, 5 frames, arrays of 1, 3 or 4 items | frames partitioned, each process in one place, swaps lose no search; the simulation ends or waits for nobody |
| `sequential`: LA3 | 4 processes of 1, 3 or 5 bursts, arrivals 0, 1 or 4 apart, quantum 2 or none | events are handled in order, the CPU works while somebody is ready, events, entries of the ready queue and exits together keep their number, and no exit is of the empty entry behind the table |
| `sequential`: LA1 | the graphs of 4 foodules, every target, every leftover `done.txt` | each foodule once and after its dependencies; all that the target needs |
| `sequential`: list of LA8 | up to 4 nodes | head, tail and links are the queue, wherever a pass takes nodes out |
| `schedule_reports` | 3 processes as `genproc.c` writes them, arrivals 1, 30 or 100 apart, quantum 5, 10 or none | **violation**: the simulation ends, and some processes were never reported |

Why the bounds are enough. Three threads and a queue of up to three nodes let a
pass unlink the head, the middle and the tail; two units and unequal claims are
the least where an order is safe and another is not, and the least where a
grant must be refused. Two resource types are needed for a request of mixed
signs. Five threads on a semaphore let two sleep while a third passes between
their wakeups. Three boats and three visitors make two pairs and a bystander of
each kind. With two followers the turn goes round through a follower that is
neither first nor last to be dismissed, and the third follower is the one too
many. Five frames are the essential pages of four processes and one more, so
that loading fails in the first, in a later and in a resumed search. Four
children are the least with two that play on and one, between them, that is out.
In LA4 a band of three blocks gives a block two neighbours to ask in its row and
one in its column, so that a conflict can come with the first or the last answer
and leave one unread; two cells per block are a clue and an empty one, or two
empty ones. The scripts pair placements that are right, in conflict with each
kind of neighbour, on a clue, and that race, with a new board and with `q`. In
LA6 the second order finds the cooks' indices overwritten by the first, two
waiters make round robin visible, and the arrival times lie at opening, near
closing and after it; `M` is scaled down (`Globals`, `Stride`, `Cells`) but keeps
its order, and a store behind its last page is still possible. In LA3 the array
of bursts has its true size. Four nodes give the list of LA8 two in the middle,
so that one can be taken out behind another that was. In LA1 four foodules are the least with a diamond
of dependencies, and enough for a shared dependency with a foodule beside it;
every graph over them is there.

The two violations are the findings of `PROJECT.json`, disagreements between the
code and its READMEs.

- *LA8.* `handle_release_request` (`resource.c:545`) never raises `NEED`, so the
  safety check judges by needs that are too small, and the promise that the
  system stays in a safe state holds only for scripts without releases.
- *LA3.* `README.md:12` says of the simulator "For every process it reports
  turnaround and wait times". The end of an I/O burst is posted by the id of its
  process where an index is wanted (`schedule.c:281`), so it is handled for the
  next process in the table, whose place in its bursts then moves on twice and
  can pass over the equality that ends it (`schedule.c:241`). In the
  counterexample the exit of the first of three processes is printed three
  times and that of the others never.

Other places where a program does less than its text says are in section 6.

## 4. Fairness

- *LA8.* Weak fairness of the program as a whole: some thread runs as long as
  one can. Scripts are finite and no thread polls, so nothing more is needed;
  every scheduler gives it.
- *LA7.* Weak fairness of each thread. Which sleeper a signal wakes stays open:
  a condition variable is not fair, and no property needs it to be. For the
  semaphore alone only the return from P of a thread that has been woken is
  fair; nobody has to call P or V.
- *LA5.* Weak fairness of each process. Busy waiting makes no step of the model
  unless what is waited for has come.
- *LA9, LA3, LA1.* Weak fairness of the program as a whole: in each, one process
  runs at a time (in LA1 all others are in `wait`).
- *LA4.* Weak fairness of coordinator and blocks together: some process runs as
  long as one can. The player need not type anything, and scripts are finite;
  nobody polls, so no process can keep the others from running for ever.
- *LA6.* The same: every wait is for a semaphore, and there are finitely many
  customers.
- *LA2.* Weak fairness of each process, and strong fairness of a miss for each
  child: `rand` lets one throw in five be missed, so a child that gets the ball
  for ever misses it some time with probability one.

## 5. Proofs

| Theorem | For every | Says |
|---|---|---|
| `TypeCorrect` (LA8) | number of threads and types, input, mode | all variables keep their types |
| `HandOverCorrect` (LA8) | the same, with lost and spurious wakeups | from taking `rmtx` to giving it back the shared request is the sender's, and the master's copy equals it |
| `QueueCorrect` (LA8) | the same, without spurious wakeups | who is in the queue is blocked, and is there once |
| `LedgerCorrect` (LA8) | the same | `ALLOCATION` agrees with the scripts, nobody holds a negative amount or more than declared |
| `PassCorrect` (LA8) | the same | a pass over the queue leaves nothing that could be granted |
| `NoLostWakeup` (LA8) | the same with spurious wakeups, if the sleep is long enough | every waiting thread has a request with the master or in the queue |
| `ConservationCorrect` (LA8) | the same, with nothing assumed | what is free and what is held add up to the total |
| `AvoidanceCorrect` (LA8) | number of threads; one resource type, scripts without releases, no spurious wakeups | under `-D_DLAVOID` every state is safe |
| `LoopCorrect` (LA8) | sizes, amounts | the safety check restores what it marks and stops only when nobody left could run |
| `VerdictCorrect` (LA8) | the same | its verdict is that a safe order exists, and that of the atomic function |
| `CountCorrect` (LA7) | finite set of threads, initial value | the value of the semaphore counts its sleepers |
| `PoolImplemented` (LA7) | the same | the semaphore implements the pool of permits (its safety part) |
| `PairsCorrect` (LA7) | numbers of boats and visitors, ride times, spurious wakeups | boats and visitors agree on who rides with whom |
| `RideCorrect` (LA7) | the same | a ride has the number and the time of its visitor |
| `BarrierCorrect` (LA7) | the same | nobody waits at a barrier not yet made or made anew |
| `EndCorrect` (LA7) | the same | main passes `EOS` only after the last ride |
| `TurnCorrect` (LA5) | number of followers, numbers drawn | unless joins disturbed each other, one process works on `M` at a time, the leader between rounds |
| `SumCorrect` (LA5) | the same | unless joins disturbed each other, what is summed was all written in this round |
| `LeaveCorrect` (LA5) | the same | unless joins disturbed each other, nobody leaves undismissed, the segment goes last |
| `BarrierCorrect` (LA2) | number of children | the parent goes on when no signal of the round is left, and all agree on who plays |
| `BallCorrect` (LA2) | the same | one ball, with a child that plays or as one answer |
| `TokensCorrect` (LA6) | numbers of cooks, waiters and customers, layout of `M` | the cooks' tokens are the length of their queue |
| `TablesCorrect` (LA6) | the same | tables are neither lost nor made |
| `WorkCorrect` (LA6) | the same | no waiter sleeps on an order or on food |
| `RuleCorrect` (LA4) | board, games, commands | the rule of the game, when commands are given one at a time |
| `PlacesCorrect` (LA9) | numbers of processes, searches, pages, frames | every process is in one place |
| `PartitionCorrect` (LA9) | the same | every frame is in the pool once or in one page |
| `ListCorrect` (LA8) | number of nodes | the linked list is the queue, and a pass stands at the node of its position |
| `TimeCorrect` (LA3) | processes, bursts, arrivals, quantum | events are handled in the order of their times |
| `CpuCorrect` (LA3) | the same | one event stops whoever runs, the CPU idles only when nobody is ready, events, ready entries and exits together keep their number |
| `OrderCorrect` (LA1) | number of foodules, dependencies of any shape, leftover file | each foodule is rebuilt once, after all it depends on |

Every safety invariant that a passing run checks is among them. Assumptions are
those named in the modules (`SizeAssumption`, `InputAssumption`,
`MemoryAssumption`, `BoardAssumption` and so on): sizes are natural numbers,
claims are at most the totals, dependencies are foodules, a solution keeps the
rule. TLC evaluates them in every run. Where a theorem has hypotheses of its own,
they are the conditions under which the code keeps the property: section 6 names
what happens without them.

The argument in each case is an inductive invariant, which TLC had checked on the
instance of the run. In LA8:

- *Hand-over.* Inductive as it is, with the types: only the sender and the
  master opposite it move while a request is in transit.
- *Queue* (`QueueInv`). Queued threads are blocked, and while the master handles
  a request its sender has no other node in the queue. The second part is what
  enqueueing needs; it follows from the hand-over invariant.
- *Ledger* (`LedgerInv`). What a script asked for equals what the thread holds
  plus what is in transit, being handled or queued. Nodes of the queue are never
  negative (their negative part was given back when they were enqueued), and
  what is being handled stays within the claim. Needs both invariants above.
- *Lost wakeups.* A blocked thread has a node, or its request is at the master;
  the wakeup is sent when the node goes. This is where `TimelyWait` enters: the
  code has only `sleep(1)` (`resource.c:495`) to make sure of it.
- *Safe states* (`Stuck`, `NoneStuck`). A set of threads is stuck if nobody
  outside it can run once all in it have given everything back. A state is safe
  exactly when only the set of all threads is stuck; the step from the sweeps of the code to this is an induction over the number of
  threads left, made by choosing a least counterexample.
- *Safety check* (`IInv` and `VerdictInv` of `BankerLoopProofs`). The marked
  matrices differ from the saved ones by the tentative grant; the unfinished
  threads already passed in a sweep that found nobody could not run; `work` is
  what is free once the finished threads have given back, and they are in every
  stuck set (`Swept`).
- *Pass* (`Judged`). A node that a pass has skipped was too large for what is free
  or left a set of threads stuck. A later grant of the same pass only lowers what
  is free and leaves stuck sets stuck, so the node stays ungrantable.
- *Conservation* (`TotalKept`). The sum over all threads, written as the work
  after all have finished, loses a thread's share and gains it elsewhere.
- *Avoidance* (`SafeInv`). No set is stuck by what threads may still claim. A
  grant has been judged by `NEED`, which equals the remaining claim in the mode
  of the theorem; a thread that ends gives back all it has.

In LA7:

- *Semaphore.* Negative values count the sleepers that no signal has reached
  yet; each step of P or V is a step or a stutter of the pool.
- *Pairs* (`PairInv`). The entry of a boat in the table, the place of its
  visitor in the code and the boat's own copies agree phase by phase. It speaks
  of no semaphore, which is why spurious wakeups do not break it.
- *Barriers and end* (`BarrierInv`, `EndInv`). A boat's barrier is up from its
  first step to its last. The rides completed and the boats that have somebody
  aboard add up to the visitors that have met their boat; only the boat of the
  last ride goes to meet main.

In LA5, LA2, LA6 and LA4:

- *Turns* (`IInv` of `LeaderFollowerProofs`). Unless joins have disturbed each
  other: admitted followers have the numbers up to `M[1]`, each once (`Numbers`); whoever acts has
  the number that `M[2]` shows (`Turns`); the slots written are the leader's and
  those before the turn (`Round`); followers leave in the order of their numbers
  (`Leaving`).
- *Line of signals* (`IInv` of `BallGameProofs`). Before the game nothing
  has happened. Then the ball, or its one answer, is out (`BallOut`), or the call
  to print stands at child k or behind the last one (`LineAt`): no other child has
  a signal, the child that was tossed to learns its state when the call has passed
  it, and the dummy is killed at the end of the line.
- *Cells* (`IInv` of `RestaurantProofs`). Cooks may read orders from anywhere,
  and therefore store food into cells that are no waiter's. The invariant
  says where each index stands and that each order in a waiter's queue is of
  another customer of its own (`Queue`), so that lemmas on the layout of `M` say
  which cells a store can reach: never the tables, nor a waiter's indices, queue
  or count of orders. The tokens of a waiter are at least its orders and its
  food (`Tokens`, `Work`); those of the cooks equal the length of their queue.
- *One at a time* (`IInv` of `FoodokuProofs`). As long as commands have not
  overlapped, what is under way is one board or one placement. Of a board, each
  block has in its pipe what was written and it has not read, behind old answers
  (`Unread`, `Halfway`, `Loaded`). Of a placement (`Told`, `Asking`, `Done`): the
  answers in the pipe and the blocks that still have to answer are those asked
  and not yet read, counted; an asked block whose line has the digit has still to
  answer, or its 1 is in the pipe. So the last 0 means that all lines are free,
  and old requests and answers are read before a command is. That the blocks
  asked are just those that share a row or a column of the board is arithmetic:
  the two formulas for neighbours are turns of a ring (`NeighborsAre`).

In the sequential programs:

- *Places* (`Placed`). The ring of `queue.c` is a sequence. The ready queue holds
  just those processes that have searches to make, are in memory and have not got
  the turn, each once; so there is always room for one more.
- *Frames* (`Framed`, `Shared`). Each frame is in one place of the pool or in one
  page of one process; a process that is not in memory has none; the bounds of a
  search stay within its array, and so within its pages.
- *Heap* (`Simulated`). Each loop works on a heap in which one place may be out of
  order with those above it (`Rising`) or below it (`Sinking`). A reordering is a
  bijection of places, so it keeps how many events of a kind there are: one that
  stops whoever runs, none if nobody does, and as many as there are processes,
  with the ready queue and the exits. Whoever runs or is ready has passed over a
  burst (`Joined`); the entry behind the last process has none, so it never comes
  to its end, where `schedule.c:250` would divide by its running time of 0.
- *List* (`Linked`). The nodes of the queue are different ones, and what pointers
  say of them is `ListIsQueue`; taking out the one at the position leaves the
  others in place and moves the links of one (`NodeTakenOut`, `LinkedUnlink`).
- *Rebuild* (`IInv` of `SequentialProofs`). The file holds exactly what was rebuilt
  (`FileIsRebuilt`); of a process's dependencies each is in the file or still to
  come (`PassedOver`); the process that runs has read the file since it was last
  written (`Fresh`), which is why none is rebuilt twice; and one that waits does
  so for the dependency at which it stands (`WaitsForNext`), which is why that one
  is in the file when it moves on. The order then holds for graphs with cycles
  too: only the end does not.

Only model-checked: all liveness, since the prover has no rules for fairness or
`ENABLED` (`ReturnsRestored`, `EverybodyQuits`, `EveryRequestAcknowledged`,
`SessionRides`, `SessionEnds`, `GameEnds`, `PlacementEnds`, `QuitEnds`,
`OrdersPassedOn`, `PagingCompletes`, `RebuildEnds`, and the progress that is part
of `IsCountingSemaphore`). The library's induction theorems cannot be used, as
they take an operator as a parameter; where a proof needs induction over numbers
it chooses a least counterexample in a set.

## 6. Limits of the models

- Failures of `fork`, `malloc`, `fopen` and `shmget` (other than the refusals a
  follower expects) are left out; so is everything printed.
- Parsing with `strtok` by several threads at once (LA8, `resource.c:301` and
  636) is a data race on the library's static pointer. The model
  gives each thread its own lines.
- `read_thread_max_needs` fills all columns of `NEED` with the first number of
  the line (`resource.c:637`). The model does the same. `SafeStateKept` holds
  with one resource type, where this does not show, and fails with two.
- Spurious wakeups: `QueuedThreadsBlocked`, `LedgerAgrees` and `WaitersHaveRequests`
  fail with them, as waits are not in loops.
- Lost wakeups: with `TimelyWait = FALSE` a granted thread can wait for ever
  (`WaitersHaveRequests` and `EverybodyQuits` fail).
- Amounts are mathematical integers: inputs of the generator are far from
  overflow. `num_free_frames` and queue indices are bounded by the arrays.
- LA5 with no followers spins for ever (`leader.cpp:31` has no lower bound); the
  model assumes one at least. Its child processes may disturb each other's joins
  (`follower.cpp:96`); see `undisturbed`.
- LA2 is modelled as built by its Makefile, without optimisation: `flag` is not
  volatile. See `on_time` for early starts.
- LA9 assumes that the essential pages of all processes fit into the frames and
  that one process alone can always finish.
- LA6 is started in the order its README gives, and the waiters have set their
  indices before the first customer comes (`waiter.c:45` does so without
  `sem_mutex`). The queues are assumed to have room, and `M` to have cells behind
  the first places of the cooks' queue (`RestaurantAssumption`), as the 2000 of
  the code have. The removal of the
  semaphores, which `customer.c:109` reaches only when no customer is left, is
  not modelled.
- LA4 begins when the blocks have drawn the first board. A block that is told to
  quit sleeps for two seconds before it exits; the model takes this to be longer
  than the loop that tells the others. Of the generator of boards only the
  result appears: a solution keeps the rule of the game, and a puzzle is part of
  its solution (`BoardAssumption`; `boardgen.c:12-31` permutes such a pair).
- LA3 stops where a burst behind the end of a process's array would be read
  (`schedule.c:241`). Statistics are left out.
- LA1: failures of `fork` and `execlp` and the length of the text
  `rebuilt_from` are left out.
- Lab B is not modelled: one recursive walk of the file system with its output,
  next to no state of its own.
- The time of `sleep`, of rides, of meals and of searches is abstracted to any
  interleaving.

What the code does not do, though its text or a reader might expect it, and the
properties therefore do not promise:

- *LA7.* After the last ride most boats are blocked in `P(&boat)`; main joins
  them (`boating.c:279`) and does not exit, although `README.md:17` says that the
  end-of-session barrier lets main exit when the final ride completes.
- *LA9.* A process that completes in the search it makes when it is swapped in
  is not counted and makes room for nobody (`demandpaging.c:250-263`); with the
  ready queue empty the `continue` of line 239 is taken for ever. This needs
  arrays of different sizes, as the model has; the sample input in the directory
  does not reach it. `PagingCompletes` allows this end (`WaitsForNobody`).
- *LA6.* The first order is written over the cooks' indices
  (`waiter.c:77-79`, `cook.c:29`), so cooks then read orders from the head of
  `M`, and not every customer is served. A second dish that is ready overwrites
  the first (`cook.c:92`). Tokens and orders always agree (`KitchenTokens`), so
  no cook ever wakes to an empty queue and the way out of `cook.c:67` is never
  taken. After closing a waiter leaves although its customers wait for food.
- *LA4.* With overlapping placements two blocks can place the same digit in one
  row: both ask before either writes (`block.c:148`). A block that waits for an
  answer and finds a request goes on as if it had been told 0, or whatever its
  variable held.
- *LA3.* The handler of an arrival passes over the first burst
  (`schedule.c:234`). The end of an I/O burst is posted for the process with the
  next index, or for an entry behind the last one (`schedule.c:281`), and at the
  time at which it begins. Steps of one process are thus taken for another, which
  may pass over the test for its end (`schedule.c:241`): exits are printed twice
  or more for one process and never for another, or for fewer than there are
  processes before a burst behind the array is read. `WorkConserved` therefore
  counts events, ready entries and exits, and does not say whose they are; that
  every process is reported is what run `schedule_reports` refutes.

## 7. Plan

Done: every program but Lab B, the semaphore with its refinement, and the proofs
of section 5. What is left:

1. Action properties and refinements as theorems: the atomic safety check as an
   abstraction of the loop, the order queue of LA6 and the ready queue of LA9 as
   sequences in specifications of their own.
2. Composition: the semaphores of LA6 over `CountingSemaphore`, as those of LA7
   are.
3. The `strtok` race of LA8 as a module of its own.
