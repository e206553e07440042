# TLA+ models of the 234123 Operating Systems exercises

This directory holds TLA+ modules of the repository's programs, the TLC
configurations that check them, and PROJECT.json, which maps every definition to
the source lines it models and lists the runs, mutants, findings and hazards.

## The system

The repository holds four independent programs. They do not call each other.

| Part | Source | What it is |
|---|---|---|
| Heap allocators | `src/hw4/wet_4/.../malloc_4.cpp`; `malloc_2.cpp` and `malloc_1.cpp` are its simpler predecessors | `smalloc`, `scalloc`, `sfree`, `srealloc` over an sbrk arena and mmap regions |
| Web server | `src/hw3/wet/.../server.c` | A main thread accepts connections and queues them. A pool of worker threads serves them. A mutex and two condition variables guard a bounded cyclic queue. |
| Shell (smash) | `src/hw1/hw1_wet/...` | Built-in commands, a jobs list, a timeout list, and handlers for SIGTSTP, SIGINT and SIGALRM |
| Kernel syscalls | `src/hw2/hw2_wet/.../kernel/hw2.c` | Per-task weights and recursive sums over the process tree |

### Allocator state and operations (malloc_4.cpp)

- **State.**
  - Headers `head_metadata_t {size, is_free, next, prev}` and footers `tail_metadata_t {cookie, size}` sit in memory.
  - `sbrk_head` and `sbrk_free_head`.
  - The lazily drawn `global_rand_cookie`.
  - The static `program_break` of `_sbrk`.
  - Four counters: free and allocated, blocks and bytes.
- **Operations.**
  - `smalloc` routes each request by size:
    - below `SBRK_LIMIT`, to the arena: best fit over a list ordered by size then address, a split when the leftover is at least `REDUNDANT_SIZE`, growth of a free wilderness block, or a new block at the break;
    - otherwise, to `mmap`, with huge pages at `HUGE_PAGE_LIMIT`.
  - `scalloc` forces a huge-page mapping above `SCALLOC_HUGE_PAGE_LIMIT`, and zeroes the payload.
  - `sfree` checks the footer cookie, and returns if the block is free. Otherwise it either merges the block with its free neighbours and puts it on the free list, or unmaps it.
  - `srealloc` runs the in-place chain of `_sbrk_realloc`, and otherwise allocates, copies and frees.
- **Hard behaviours.**
  - Metadata of absorbed blocks stays in memory and can be read again.
  - The arena/mapping decision is taken from the size alone.
  - Counters are updated at several points that a failure can separate.
  - Every traversal checks cookies and exits on a mismatch.

### The first-fit allocator (malloc_2.cpp)

- **State.** Headers `{size, is_free}` in memory, `global_head`, the static `program_break` of `_sbrk` (no alignment here), and the four counters. Every block counts as allocated, free or not.
- **Operations.** `smalloc` walks the arena from `global_head` by header sizes (`_find_free_block`) and reuses the first free block that fits, or grows a new block at the break. `sfree` marks a block free. `srealloc` keeps a block that is already big enough; otherwise it allocates, copies and frees. Nothing is split, merged or unmapped.
- **Hard behaviours.** The walk's stop condition at the break, and the first call's `global_head` assignment before `sbrk` succeeds.

### Server state and operations (server.c)

- **State.**
  - `jobs_manager_t`:
    - the policy;
    - `max_accepted_count`;
    - `waiting_count` and `running_count`;
    - the mutex;
    - the condition variables `produce` and `consume`;
    - the cyclic queue `{size, head, tail, elements_array}`, which is empty when `head = tail = -1`.
- **Operations.**
  - `add_request`, run by the main thread after every `Accept`:
    - under the `block` policy it waits on `produce` while `waiting + running = max`;
    - otherwise, when the manager is full, it closes the new fd (`dt`, or when nothing is waiting), drops the oldest session (`dh`), or drops ceil(n/2) sessions, each from a random end (`random`);
    - it then queues the session and signals `consume`.
  - `get_request`, run by the workers, waits on `consume` while nothing is waiting. It then takes the head and moves the session from waiting to running.
  - The worker handles and closes the connection, then `notify_request_finished` decrements `running_count` and signals `produce`.
- **Hard behaviours.**
  - Interleavings of the main thread and the workers.
  - Signals that wake a different thread than the one that needs the work.
  - Spurious wakeups.
  - The full queue.
  - The drop policies at the boundary where nothing is waiting.

### Shell state and operations (hw1: Commands.cpp, signals.cpp, smash.cpp)

- **State.**
  - `SmallShell`: `jobs_list` (a `std::map` from job id to `JobEntry {job_id, pid, stopped}`), `timeout_list` (a `std::map` from completion time to `JobEntry`), `foreground_job`, `wait_job_pid`, `foreground_job_killed` and `exit_shell`.
  - The static `min_completion_time` of `TimeoutCommand::execute`, and the one pending `alarm()`.
- **Operations.**
  - The main loop reads a line, runs `CreateCommand(...)->execute()`, then `waitForJob` blocks in `waitpid(WUNTRACED)` on `wait_job_pid`, if it is set.
  - External commands fork. A foreground one sets `wait_job_pid`; one ending in `&` is added to the jobs list under the largest id plus one.
  - `jobs`, `fg`, `bg`, `kill` and `quit` start with `removeFinishedJobs`, which reaps every listed child that has finished and drops its job.
  - `timeout N cmd` runs `cmd`, arms `alarm(N)` when the list is empty or its completion time is below `min_completion_time`, and inserts the entry under its completion time.
- **Signal handlers.**
  - Ctrl-Z stops the waited-for child; `waitForJob` then lists it as stopped.
  - Ctrl-C kills the waited-for child.
  - SIGALRM walks the timeout list in time order. It re-arms the alarm for the first entry still in the future. Every entry that is due is killed, has its job removed by the `job_id` it recorded, and is erased.
- **Hard behaviours.**
  - Handlers that run while main is blocked.
  - Children that stop, continue and exit on their own, at any point.
  - Keys that collide in the timeout map.
  - Job ids reused after a removal.
  - A minimum completion time that is never raised.

### Kernel syscalls (hw2.c)

- **State.** Each `task_struct` has a new `weight` field. The calls read the process tree through `children`/`sibling` lists and `real_parent`.
- **Operations.**
  - `set_weight(w)` rejects a negative `w` with `-EINVAL`; otherwise it sets current's weight. `get_weight` returns it.
  - `get_leaf_children_sum` returns `-ECHILD` when current has no children. Otherwise `get_child_leaf_sum` recurses into every child and adds the weight of each task with an empty children list.
  - `get_heaviest_ancestor` follows `real_parent` from current until pid 1 and keeps the first task whose weight is strictly greater than the best so far. It returns that task's pid, or 1 when called by init.
  - `sys_hello` only prints.
- **Hard behaviours.**
  - The tree changes between calls. Exits reparent children to init, and zombies stay on the children lists until reaped.
  - Ties in weight.
  - Neither walk takes a lock.

## Modules

| Module | Models | State ↔ code |
|---|---|---|
| `Malloc4` | malloc_4.cpp, the whole of it | see below |
| `AllocatorSpec` | What the four calls promise the client, with no arena or metadata | see "Refinement: AllocatorSpec" below |
| `MC_Malloc4` | A scaled instance for TLC | `ArenaBound`, `WithinBound`, calloc arguments |
| `Malloc2` | malloc_2.cpp, the whole of it | see below |
| `MC_Malloc2` | A scaled instance for TLC | `ArenaBound`, `WithinBound`, calloc arguments |
| `Server` | server.c's jobs manager and its threads | see below |
| `MC_Server` | An instance with three worker model values | `MC_Workers`, `MC_SchedAlgs` |
| `JobsManagerSpec` | What server.c's jobs manager promises, without threads or the array | see "Refinement" below |
| `Smash` | The shell's job control: external commands, `timeout`, `jobs`, `fg`, `bg`, `kill`, `quit`, pipes, `waitForJob` and the three handlers | see below |
| `MC_Smash` | The command sets of the shell runs | `MC_AllCommands`, `MC_NoPipe`, `MC_Timeouts` |
| `TaskWeights` | hw2.c's four weight system calls over a changing process tree | see below |
| `MC_TaskWeights` | The weights passed to `set_weight` | `MC_Weights` |

### Malloc4

- **Memory.**
  - `hdr[a]` is the header last written at address `a`, and `tl[t]` the footer last written at `t`.
  - A write that overlaps a record turns it into `Garbage`.
  - Records of absorbed blocks stay. This is what lets the model reproduce reads of stale metadata.
  - Mappings live at the addresses in `MapSlots`, above the arena.
- **Globals.**
  - `pb` is `program_break`, and `os` is the OS break.
  - `head`, `fhead` and `cookie` are `sbrk_head`, `sbrk_free_head` and `global_rand_cookie`.
  - `fbn`, `fby`, `abn` and `aby` are the four counters.
- **`status`.** It records how the process ended:
  - `exited`: `exit(0xdeadbeef)`;
  - `undefined`: a read of metadata that is not there;
  - `segfault`: a touch of an unmapped region;
  - `hang`: a free-list walk longer than any acyclic list.

  Once the process is dead, nothing changes any more.
- **Client.** `owned` maps each pointer the client holds to the size it asked for. `freed` holds the pointers it freed, and is kept only when double frees are explored (`ClientDoubleFrees`).
- **Actions.** Each public call is one action: `Malloc`, `Calloc`, `Free`, `Realloc`, and `Write` (the client filling its payload). The allocator is single-threaded (spec.md §6), so a call is atomic.
- **Double frees.** `DoubleFree` is a client misuse. It is left out of `Next` and is taken only by `SpecDoubleFree`, the specification of the `double_free` run.
- **Operators.** Each C function is an operator that threads a state record and returns `[st, ret]`. They are named after the function: `SbrkMalloc`, `FindSbrkFreeBlock`, `MergeSbrkBlocks`, `SbrkRealloc`, and so on. Each models the whole function, including its cookie checks, in the code's order. When a function uses an intermediate result more than once (the state after a merge, the break read by `_sbrk(0)`), it hands that result as an argument to a named continuation operator instead of naming it in a `LET`. Examples are `ReallocFrom`, `ReallocLeft`, `ReallocRight` and `ReallocBoth` for the successive attempts of `_sbrk_realloc`, and `MergeRightWith`, `MergeAbsorbLeft` and `MergeAbsorbRight` for `_merge_sbrk_blocks`. Each continuation covers the lines of the function from that point on. This keeps TLC's per-expression coverage, which unfolds every operator at each use, small enough to run.
- **Scale.** Sizes are scaled: `ALIGN` 2 stands for 8 bytes, `HDR` 4 and `TL` 2 for the 32+16 bytes of metadata, and `SIZE_T_BITS` 7. The thresholds keep the code's order: `REDUNDANT_SIZE < SBRK_LIMIT < SCALLOC limit + META < HUGE_PAGE_LIMIT`.

### Refinement: AllocatorSpec

`AllocatorSpec` has two variables:

- `held`: each pointer the client holds, mapped to the number of bytes it asked for;
- `handles`: the number of pointers handed out and not given back.

Its actions are:

- `Allocate`: smalloc or scalloc hands out a new pointer whose bytes overlap none held;
- `Release`: sfree gives one pointer back;
- `Move`: srealloc gives `p` back and hands out `q`, possibly the same address, overlapping none of the rest.

A NULL result and the client's writes are stutters. `Malloc4` and `Malloc2` each keep a count `handed` of the client's live pointers. It goes up when a call returns a pointer and down on `sfree`. Both instantiate the spec with `held <- owned, handles <- handed` and check `ClientContract == Client!ASpec`: `Malloc4` in the `arena` run, `Malloc2` in the `malloc2` run.

Without `handles`, a pointer the client already holds, handed out again with the same size, would leave `held` unchanged. The abstract spec would take that step as a stutter, so the count is what makes such a hand-out visible. In correct behaviour `handed` equals the number of pointers in `owned`, so it adds no states. The abstract spec knows nothing of blocks, so the check relates the addresses the code returns to the client's whole history of calls. A best fit that hands out a block it leaves on the free list (the mutant `SbrkMallocFoundKeepFree`) is caught by it. In `Malloc2`, a reuse that leaves the block marked free (the mutant `ReuseKeepsFree`) hands the same block out twice and is caught. The `realloc_wild_fail` finding breaks it too: the `NULL + 32` pointer is handed out over bytes the client still holds.

### Malloc2

- Built like `Malloc4`, with only headers: `hdr`, `pb`, `os`, `head` (`global_head`), the counters, `status` and the client's `owned`.
- `FindFrom` is the loop of `_find_free_block`. It returns the block that ends at the break without testing it, as the code does.
- `Reuse`, `MallocNew` and `MallocFound` are the two exits of `smalloc` after the search. `SMalloc` sets `head` to the break before `InitAllocBlock` calls `sbrk`.
- `META` 2 stands for the 16-byte header. The sizes use the same unit, since malloc_2 does not align.

### Server

- **State.**
  - `waiting_jobs` is the cyclic queue record `[head, tail, a]`. The array starts at `NoConn`, for memory that was never written.
  - `waiting_count`, `running_count` and `schedalg` mirror the manager's fields.
  - `mpc` and `msess` are the main thread's place (`accept`, `blocked` on `produce`, or `woken`) and the session it holds while blocked.
  - `wpc` and `wsess` are each worker's place (`get`, `waiting` on `consume`, `woken`, `busy`, `notify`) and the session it holds.
  - `closes` counts the `Close` calls on each fd. `accepted` numbers the connections.
- **Steps.**
  - Each critical section, from lock to unlock or `pthread_cond_wait`, is one step. All shared state is touched only under the mutex, so merging these steps loses no interleaving that matters.
  - Actions: `Accept` (accept plus `add_request`), `MainWakes`, `GetRequest`, `HandleRequest` (`requestHandle` plus `Close`, outside the mutex), `NotifyRequestFinished`, and `SpuriousWakeup`.
  - `AcceptBlocks` is the main thread sitting in `Accept` once the behaviour's connections are used up.
- **Queue.** `AddQueueElement` and `RemoveQueueElement` translate the queue functions. `RemoveEach` is the loop of `random_drop_connections`; `rand() % 2` becomes a choice of end for each removal.

### Refinement: JobsManagerSpec

- **The abstract state.**
  - `pending` is a sequence of sessions; `serving` is the set of sessions in service.
  - `finishing` counts the sessions served and closed whose slot is not yet free.
  - `outside` is a connection waiting for room under `block`.
  - `closed` is the set of closed connections; `arrived` counts the arrivals.
  - A manager is full when `Len(pending) + |serving| + finishing = Capacity`.
- **The abstract actions.**
  - `Arrive` appends to `pending`, or applies the policy when the manager is full.
  - Under `random`, the policy keeps any contiguous middle of `pending` and closes the ceil(n/2) sessions around it.
  - `Enter`, `Start` (always the head of `pending`), `Finish` and `Release`.
  - `ASpec` has weak fairness on each of them.
- **The refinement mapping** (`Server`'s `Manager == INSTANCE JobsManagerSpec WITH ...`):
  - `pending` is `QueueContents(waiting_jobs)`, the array read from head to tail.
  - `serving` is the fds of the busy workers.
  - `finishing` is the number of workers about to call `notify_request_finished`.
  - `outside` is `msess` while main is off its `accept` step.
  - `closed` is the fds closed at least once.
  - Worker waits, wakeups and main's re-blocking are stuttering steps.
- **The check.** The `server` run checks `ManagerRefined == Manager!ASpec` as a PROPERTY, under `Server`'s own fairness. This shows the cyclic array is a FIFO across wrap-around and removals from both ends. With `QueueSize` 2 a random drop removes one session, so the two ends mix across calls and never within one. It also shows the drop policies close exactly the sessions the contract allows, and the condition-variable protocol serves pending work eventually. `QueueConsistent` does not see a worker that takes the newest session instead of the oldest; the refinement does.

### Smash

- **State.**
  - `jobs` is `jobs_list`: a function from job id to `[pid, stopped]`.
  - `tlist` is `timeout_list`: a function from completion time to `[id, pid]`, where `id` is the `job_id` the entry recorded, or `NoJob` (-1).
  - `fgJob`, `waitPid`, `fgKilled` and `exitShell` are `foreground_job`, `wait_job_pid`, `foreground_job_killed` and `exit_shell`.
  - `minct` is `min_completion_time`; `alarmAt` is the pending alarm's expiry time.
  - `now` is `time(NULL)`, in whole seconds.
  - `proc[p]` is child `p`'s state: `none` (not forked), then `run` or `stop`, then `zombie`, then `reaped`. Pids are handed out in order and never reused.
  - `deadline` is a ghost variable. It records the completion time each `timeout` with a positive duration promised, and only the property reads it.
- **Command actions.**
  - Each command is one atomic action, guarded by `AtPrompt`, from `CreateCommand` to the end of `execute`: `RunForeground`, `RunBackground`, `Timeout`, `JobsCmd`, `Fg`, `Bg`, `KillCmd`, `Quit` and `Pipe`.
  - Their guards and branches follow the early returns of each `execute`; the error messages are left out.
  - Helpers translate the `JobsList` methods: `AddJob`, `NewJobId`, `RemoveJob`, `RemoveFinished` with `ReapListed`, `LastStopped` and `KillAll`.
  - The `std::map` semantics are kept. `insert` keeps an existing key (`tlist @@ (c :> e)`), while `operator[]` overwrites (`(id :> e) @@ jb`).
- **Handler and environment actions.**
  - `WaitReturns` is the return of the `waitpid` in `waitForJob`.
  - `CtrlZ`, `CtrlC` and `AlarmFires` are the handlers; `Expire` is the RECURSIVE loop of `alarmHandler`.
  - `ChildExits` is a child finishing, and `Tick` is a second passing.
- **Nondeterminism for what the code leaves open.**
  - When `waitForJob` waits on a child that is already reaped, `waitpid` fails and `status` is never written. `WIFSTOPPED` then reads an uninitialised int, so either branch may run.
  - The `waitpid(WNOHANG)` right after `kill -9` may come before the child has died, so it may or may not reap it.
- **Scheduling.**
  - `Tick` waits while an alarm is due, so SIGALRM arrives in the second it is due.
  - `AlarmFires` waits while a `waitpid` has its answer ready. This is the order in which the kernel completes them.

### TaskWeights

- **State.**
  - `state[p]` is `unused`, `alive`, `zombie` or `reaped`. A task is on its parent's children list (`Children`) while it is alive or a zombie.
  - `parent[p]` is `real_parent`, and `weight[p]` is the task's weight.
  - `last` is the last system call with its return value. Kernel steps reset it to `NoCall`, so a property reads a result against the tree it was computed on.
- **System calls.**
  - `SetWeight`, `GetWeight`, `GetLeafChildrenSum` and `GetHeaviestAncestor` are atomic actions of an alive task, which plays current.
  - `GetChildLeafSum` and `ForEachChild` are the recursion and its `list_for_each` loop, with the `long *sum` accumulator threaded through.
  - `HeaviestAncestorWeight` is the `while` loop, written as tail recursion.
- **Kernel steps.** These are not in this repository, so they are environment actions:
  - `Fork`: the child copies the parent's `task_struct`, weight included;
  - `Exit`: the task becomes a zombie, and its children go to init;
  - `Wait`: the parent reaps a zombie child.
- **References.** The properties restate each call without a walk. They use `Graphs`' `Descendants` and `Ancestors` (a transitive closure) over the tree as a graph.

## Runs

| Run | Expect | Checks | Shows |
|---|---|---|---|
| `arena` | pass | `TypeOK`, `ProcessAlive`, `ArenaTiled`, `FreeListExact`, `CountersExact`, `OwnershipExact`, `ClientContract` | Normal use (malloc, calloc, free, realloc, in-bounds writes, failing mmap) keeps the heap well formed: the arena tiles exactly up to the break with matching footers; the free list holds exactly the free blocks, sorted, with consistent prev links; the counters match the heap; no block leaks. `Malloc4` refines `AllocatorSpec`: no pointer handed out overlaps bytes the client holds. |
| `double_free` | violation | `DoubleFreeNoop` | A second `sfree` of a pointer whose block a merge absorbed changes the heap. |
| `realloc_fallback` | violation | `FreeListExact` | `srealloc`'s fallback frees a stale header inside a merged block. |
| `size_class` | violation | `SizeClassExact` | In-place realloc grows an arena block to `SBRK_LIMIT`, and `sfree` then unmaps it. |
| `realloc_wild_fail` | violation | `OwnershipExact` | A failed wilderness growth returns `NULL + 32` to the client. That this address lies inside the model's arena is an effect of the scaled addresses. In the program it is a wild pointer near address 0, and writing through it is just as wrong. |
| `malloc2` | pass | `TypeOK`, `ProcessAlive`, `ArenaTiled`, `CountersExact`, `OwnershipExact`, `ClientContract` | When every request asks for one size, malloc_2 keeps the following true through reuse, realloc, calloc, client writes, and sbrk failing once the first block exists: its arena stays tiled from `global_head` to the break, its counters match it, and every block it hands out is big enough for the client's writes. `Malloc2` refines `AllocatorSpec`. |
| `malloc2_undersize` | violation | `OwnershipExact` | `malloc(1)`, `free`, `malloc(2)` returns the 1-byte block that ends the arena. |
| `server` | pass | `TypeOK`, `QueueConsistent`, `ConnectionsAccounted`, `EveryConnectionClosed`, `ManagerRefined` | The queue matches the counters and stays in arrival order. No accepted connection is lost, duplicated or closed twice, under all four policies. Every accepted connection is eventually closed. `Server` refines `JobsManagerSpec` (`ManagerRefined`). |
| `smash` | pass | `TypeOK`, `JobsConsistent` | The guarantees below hold under every interleaving of the commands, Ctrl-Z, Ctrl-C, the alarm handler and the children's exits. No child is listed twice. The child main waits for is not listed. A live job's stopped flag matches its child. |
| `smash_timeout` | violation | `TimedOutKilled` | `timeout 0` calls `alarm(0)`, which cancels the pending alarm instead of arming one. TLC reaches this in either order, and the shortest trace it reports may be either. Before a `timeout 2`, the 0 leaves its entry with no alarm, so the later timeout arms nothing. After a `timeout 2`, the 0 is the new minimum, and its `alarm(0)` cancels the alarm the 2 armed. Either way the `timeout 2` child outlives its deadline. |
| `weights` | pass | `TypeOK`, `LeafSumIsReference`, `HeaviestIsReference` | Every tree four pids can form by forks, exits and waits is checked. On each, `get_leaf_children_sum` returns the sum of the weights of current's childless descendants, or `-ECHILD` when there are none. `get_heaviest_ancestor` returns the heaviest of current and its ancestors below init, the nearest on a tie. `set_weight` never stores a negative weight. |
| `smash_jobs` | violation | `JobsExact` | `timeout 1 cmd&` becomes job 1; `kill -9 1` frees the id; `cmd2&` takes it; the alarm then removes job 1, and `cmd2`'s child runs on, listed nowhere. |

The violations are findings. For malloc_4.cpp, each is a disagreement between
what the code does and what spec.md says of it. For malloc_2.cpp, it is one
between the code and its own comment ("returns the first fit free block"). For the
shell, it is one between the code and the comment of `TimeoutCommand::execute`
(the command is kept "to send kill signal to it when time comes"). PROJECT.json gives the lines and the
explanation of each.

Every property of a passing run has a mutant in PROJECT.json: a plausible bug in
the mapped code, written as an operator beside the definition it replaces, that
TLC finds under the run's own cfg. Examples are a missing `_set_tail`, a free-list
order without the address tie-break, and a missing `pthread_cond_signal(&produce)`.

## Bounds

### Allocator

- **Arena.**
  - The cfgs explore arenas up to `ArenaBound` units (`CONSTRAINT WithinBound`).
  - In the `arena` run, `MaxBrk` is at least `ArenaBound` plus the largest block, so sbrk never fails there. `CountersExact` therefore does not see the failed-sbrk bug (a hazard in PROJECT.json). Only `realloc_wild_fail`, which is about a failed growth, sets `MaxBrk = ArenaBound`.
  - The `arena` run has `ArenaBound` 30: room for several blocks of each size class, so splits, both merges, wilderness growth and realloc's every in-place branch all happen. I confirmed this separately with one-off action properties that TLC reports violated.
- **Call inputs.**
  - `Sizes` `{1, 8, 44}` give a small block, a block that leaves a redundant remainder, and a mapping.
  - `ReallocSizes` grow and shrink.
  - One map slot and a failing mmap cover both mmap outcomes.

### malloc_2

- `META` 2. The `malloc2` run uses a single size 3, with realloc to 2 or 3 and `scalloc(1, 3)`. It explores up to `ArenaBound` 26 with `MaxBrk` 30: five blocks, client writes, and a failing sbrk once the arena is near the top.
- With several sizes, a free block can be too small for the next request. That case is the `malloc2_undersize` finding, and sizes `{1, 2}` reach it. The passing run therefore keeps one size: with more, `OwnershipExact` fails for that reason.
- The two sbrk-failure bugs (hazards at malloc_4.cpp:314 and malloc_2.cpp:114) are reached by starting the break 4 below `MaxBrk`. No run uses such a start now. The passing runs check `CountersExact` and `ProcessAlive` only where the first sbrk succeeds.

### Server

- Three workers, a queue of 2 and 6 connections. This reaches:
  - a full manager with every worker busy, and with sessions waiting;
  - every branch of every drop policy, with 1 and 2 sessions waiting;
  - wrap-around of the cyclic indices;
  - spurious wakeups of every waiter.
- The run checks a liveness property, so it uses no worker symmetry. A queue of 3 with 7 connections takes more than five minutes without symmetry.

### Shell

- `MaxProcs` 3 pids. A pipe (two children) plus one more job fit, and so do three jobs whose ids can be freed and reused.
- The `smash` run uses `MaxTime` 2 and a 1-second timeout, so an alarm is armed, re-armed and delivered, and fires on a stopped, a running and an already finished child. Every action and every branch of `Next` fires. A larger clock or a second duration takes more than five minutes.
- The violation runs need only two children. `smash_timeout` needs durations `{0, 2}` and three seconds. `smash_jobs` needs one duration and every command except the pipe: a pipe's first child is never waited for or listed, and would violate `JobsExact` at once (a hazard of its own).
- Every shell run declares `CHECK_DEADLOCK FALSE`, because `quit` ends the shell: after `exit_shell` is set, the main loop stops and nothing more happens.

### Kernel syscalls

- The `weights` run uses four pids, so the tree can take these shapes:
  - a chain of three below init, which is the longest ancestor walk with a tie;
  - a task with two children, one of them not a leaf;
  - an exit in the middle of a chain, which reparents a subtree to init;
  - zombies at any position.
- `MC_Weights` `{-1, 0, 2}` gives a rejected weight, two distinct valid weights, and ties between equal ones.

## Fairness

- **Allocator.** It is sequential, and its properties are safety properties, so it needs no fairness.
- **Server.**
  - Each worker's steps and the main thread's re-entry after a wakeup are weakly fair. The OS keeps scheduling runnable threads.
  - Taking the mutex is folded into each step, so a thread that wants the mutex eventually gets it. That is weaker than strong fairness of a real mutex, and is what Linux's scheduling gives in practice.
  - Spurious wakeups and new connections are not fair: nothing forces them.

- **Kernel syscalls.** No fairness: the properties are safety properties about each call's result.
- **Shell.** No fairness. The shell's properties are safety properties. The one scheduling assumption, that a due alarm is delivered before the clock moves on, is the `Tick` guard: it is a fact about the kernel, not a fairness condition.

## Not modelled, and why

- **Allocator.**
  - Payload contents and reads (for example the over-read of `memmove(newp, oldp, size)`): no allocator state depends on them.
  - Client overruns that reach the cookie: an `Overrun` action is planned. `srealloc` skips the cookie check of the old block, so a run of it would report a divergence.
  - `srand`/`time`: the cookie is the constant `COOKIE`.
- **Server.**
  - `requestHandle`, the sockets and `getargs`: these are I/O. The policy is chosen in `Init` instead.
- **malloc_1.cpp.** `smalloc` is a size check and one `_sbrk(size)`. That is the same `_sbrk` that `Malloc2` models as `Sbrk`, with no free and no metadata, so there is nothing further to check.
- **Shell.**
  - `chprompt`, `showpid`, `pwd`, `cd`, `fare` and `setcore`, and I/O redirection, touch no job or timeout state.
  - Command-line parsing and the error messages: a command is its kind and its numeric arguments.
  - Fork failure: `fork()` is stored in a `size_t`, so -1 passes as a pid. This is recorded as a hazard.
  - A handler that interrupts a `std::map` operation halfway: a command is one atomic step.
- **Kernel syscalls.**
  - Each call is one atomic step. That is exact on a uniprocessor kernel without preemption. On an SMP or preemptive kernel, a task on the walked path can exit mid-walk, because neither walk takes `tasklist_lock` or `rcu_read_lock`. This is recorded as a hazard.
  - The kernel's own fork, exit and wait are modelled only by what they do to the tree.
  - `sys_hello` is a `printk`.
- **Retired violation runs.** Three findings are still defined as properties of the modules, but no run checks them any more. Their runs were retired in favour of runs of the shell and the kernel syscalls. Each is a hazard in PROJECT.json whose note gives the constants that reproduce it:
  - `CountersExact` after a failed sbrk in malloc_4;
  - `ProcessAlive` after a failed first sbrk in malloc_2;
  - `Coalesced` after a realloc shrink split.

## Plan for the next sittings

1. An `Overrun` client action, and a run of spec.md's rule that a corrupted cookie ends the next free or realloc. `srealloc` never checks the old block's cookie (a hazard in PROJECT.json), so that run would be a violation. It needs a run slot that a weaker run gives up.
2. An abstract specification of the shell's job table (what `jobs` promises), with `Smash` shown to refine it when timeouts are left out.
