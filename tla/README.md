# Verification of the CS 1550 projects

The repository holds the five projects of an operating systems course, which
share nothing but the subject: a framebuffer library (project1), a message queue
in the kernel and its client (project2), four web servers (project3), semaphores
in the kernel and a traffic simulation that uses them (project4), and a page
replacement simulator (project5). This directory holds TLA+ models of them, the
TLC configurations that check the models, and TLAPS proofs about them.

Project 4 comes first: it is where processes interleave, block, wake each other
and fail, and where a test finds least. Its `sys.c` is the kernel's own file
with three system calls added at the front; the calls behind them that keep state
and run beside each other are modelled too, in five families.

## Inventory

| part | state | operations | made correct by |
|---|---|---|---|
| `project4/sys.c` 151-232, kernel semaphores | `value`, the mutex `lock`, the wait list `queue_head .. queue_tail`; the scheduler state of each caller | `cs1550_seminit`, `cs1550_down`, `cs1550_up` | well-formed list, no lost wakeup, FIFO hand-over, permits conserved |
| `project4/trafficsim.c`, traffic simulator | shared memory: two ring buffers with `in`/`out`/`count`, `total_cars`, `direction`, `honked`; six semaphores | `producerN`, `producerS`, `flagperson`, `main` | exclusion, semaphores agree with counters, no deadlock under hold-and-wait, order of arrival, nobody starves |
| `project2/sys.c` 150-260, message queue | the global list `head` | `cs1550_send_msg`, `cs1550_get_msg` | no message lost or delivered twice, result code agrees with the list; no lock is held |
| `project2/osmsg.c`, client | its buffers and the last result | `send_message`, `receive_messages` | prints each message once, prints all it found |
| `project3/server.c`, one request at a time | `connfd`, `buffer`, the descriptors | accept loop | each client gets the answer to its request, every connection is closed |
| `project3/server_thread.c` | `connfd` on the stack of `main`, the log file, `mutex` | accept loop, `handle_request_thread` | the same; every connection served once by its own thread |
| `project3/server_cached.c` | `cache`, `cache_count`, `mutex`, as above | hit, miss with eviction, `decrement_ref_count` | the page sent is the page asked for; references balance; the oldest page leaves |
| `project3/server_proc.c` | the shared POSIX semaphore, the children, a descriptor table for each | accept loop, fork, child | log lines exclude each other, children end, no client ends the server |
| `project5/Simulate.java` | page table, frames, counters of faults and writes, `futureMap`, the clock's hand | `opt`, `clock`, `nru` | resident set = valid entries, OPT optimal, CLOCK and NRU spare the pages used recently, NRU the modified ones among the others, modified pages are written back |
| `project4/sys.c` 1138-1332, 2398-2417, 2581-2586, process groups, sessions, subreapers | the process tree, `pgrp` and `session` of each process, `is_child_subreaper`, `has_child_subreaper` | `setpgid`, `setsid` and their getters, `PR_SET_CHILD_SUBREAPER`; fork, exec, exit and wait around them | groups stay within sessions, sessions keep their leader, orphans find their subreaper |
| `project4/sys.c` 562-1030, credentials | the ids of `struct cred`, the capabilities, the account, `PF_NPROC_EXCEEDED` | `set*uid`, `set*gid`, `set_user`; exec around them | what was given up does not come back, no call adds authority, the verdict on the limit of processes reaches exec |
| `project4/sys.c` 239-423, priorities | the nice values, the locals of each call | `setpriority`, `getpriority` | one result is true of all the tasks of a call |
| `project4/sys.c` 1527-1814, resource limits | `signal->rlim`, the CPU timer, the call each caller is in | `do_prlimit` and its callers for three word sizes | limits in order, the timer enforces the CPU limit |
| `project4/sys.c` 1972-2379, memory map | the addresses, `saved_auxv` and `exe_file` of `mm_struct`, `arg_lock` and the mmap lock | `PR_SET_MM` by field, by map, by vector, by file; `brk`, `mmap`, `munmap` around them | segments ordered and within the limit, vector terminated, no update of another thread undone |
| `project1/library.c`, `driver.c` | terminal mode, framebuffer mapping, locals of the drawing calls | `init_graphics`, `exit_graphics`, `getkey`, `sleep_ms`, drawing | mode restored, pixels stay on the intended shape, `sleep_ms` sleeps |

How they interact: in project 4 the processes of `trafficsim.c` share memory and
reach the semaphores by system calls 441-443 through wrappers that drop the
results; the kernel code serialises its callers with a mutex per semaphore and
hands sleeping and waking to the scheduler. In project 2 the client loops on
system call 442 as long as it returns 1. In project 3 the threads share the
cache, the log and one table of descriptors; the child processes share the log
and its semaphore, and start with a copy of the parent's descriptors. In project
5 each simulation is a loop over the trace, in project 1 a driver calls the
library; both are sequential, against an outside that may end the input or
interrupt. The kernel's own calls run in the processes that make them, beside each
other: each family has locks of its own, and what it needs of another family (the
user of a task, a limit) it only reads.

The hard behaviours, each listed at its line under `hazards` in `PROJECT.json`:
the window between releasing the mutex and `schedule()`; a failed `kmalloc` in
the middle of `down()`; a signal that ends a sleep; the flagperson waiting for a
semaphore with the mutex held; counters and semaphores that disagree for a
moment; the message list without a lock; the pointer to `connfd` handed to a
thread; the cache index used after the unlock; clients that leave in the middle;
descriptors and processes that run out; flags set before a walk, limits judged in
one call and enforced in another, timers armed after the lock is gone; types that stay set from one line of the
trace to the next; arithmetic at the edges of a shape and of a `long`.

## Modules

| module | models |
|---|---|
| `Semaphore` | what the system calls promise: permits, and a FIFO queue to which `up()` hands them |
| `KernelSem` | the system calls, one step for each stretch between two points where another process can run |
| `SemOps` | a semaphore as a value (`Down`, `Up`), the steps of `Semaphore` for programs that use several |
| `ConstructionZone` | what the simulator promises: two queues of cars, one car in the zone |
| `TrafficSim` | `trafficsim.c` over six `SemOps` semaphores |
| `Mailbox` | what the message system calls promise: a pile of messages |
| `MsgQueue` | the message system calls, one step for each access to the list |
| `Osmsg` | `osmsg.c` over the system calls of `MsgQueue` |
| `Http` | what the four servers have in common: clients, descriptor tables, and the steps that answer a request |
| `IterServer`, `ThreadServer`, `ProcServer` | `server.c`, `server_thread.c`, `server_proc.c` |
| `PageCache` | what the cache promises: a queue of pages |
| `CachedServer` | `server_cached.c`: `ThreadServer` with the cache |
| `Servers` | the four servers side by side, and their properties |
| `PageTable` | what the three simulations have in common: page table, frames, the four blocks of a line |
| `Opt`, `Clock`, `Nru` | `Simulate.opt`, `Simulate.clock`, `Simulate.nru` |
| `SecondChance` | what the clock promises: a queue in which a used page goes round once more |
| `PageSim` | `vmsim`: one of the three over a trace, and their properties |
| `Graphics` | `library.c` under `driver.c` |
| `Processes` | process groups, sessions and subreapers over a tree of processes |
| `Authority` | what the set\*id calls promise: without a capability a process only loses identities |
| `Credentials` | the set\*uid and set\*gid calls of one process |
| `Priorities` | `setpriority` task by task, and `getpriority` |
| `ResourceLimits` | `do_prlimit` and the calls that end in it |
| `MemoryMap` | `prctl(PR_SET_MM)` |
| `KernelCalls` | the five families, one at a time |
| `MCKernelSem`, `MCMsgQueue`, `MCOsmsg`, `MCServers`, `MCPageSim`, `MCGraphics`, `MCKernelCalls` | the values of constants and the symmetry sets for TLC |
| `KernelSemProofs` | theorems about `KernelSem`, and about a semaphore used as a lock |
| `TrafficSimProofs` | theorems about `TrafficSim` |
| `TaskProofs` | theorems about `Processes` and `Credentials` |
| `KernelCallsProofs` | theorems about `Priorities`, `ResourceLimits`, `MemoryMap`, and that they hold of `KernelCalls` |
| `PageSimProofs` | theorems about `PageSim` |
| `OsmsgProofs` | theorems about `MsgQueue` and `Osmsg` |
| `ServersProofs` | theorems about `Servers` |
| `GraphicsProofs` | theorems about `Graphics` |

What implements what: `KernelSem` implements `Semaphore`; `TrafficSim` takes the
semaphore as `Semaphore` describes it, and implements `ConstructionZone`.
`MsgQueue`, whose calls follow one another, implements `Mailbox`; `Osmsg` extends
`MsgQueue` and runs the client's loop over its actions. The cache of
`CachedServer` implements `PageCache`, `Clock` implements `SecondChance`, and
`Credentials` implements `Authority`.

Definitions whose comment begins with "Mutant:" are faults put into the code; no
specification uses them. `PROJECT.json` says for each property of a run which of
them it detects.

### KernelSem

`value`, `head`, `tail`, `task`, `next` and `lock` are the fields of
`struct cs1550_sem` and of the `queue_node` objects; `allocated` is the set of
nodes between `kmalloc` and `kfree`; `sched` is the scheduler state that
`set_current_state` and `wake_up_process` write; `pc` is where each process is.
Two history variables record what the properties talk about: `waitq`, the nodes
enqueued and not dequeued, and `holders`, the processes that came back from
`down()` as if they had a permit.

| code (sys.c) | action |
|---|---|
| 165-175 `cs1550_seminit` | `SemInit` (the lock is NULL when `kmalloc` fails) |
| 179-181 lock, `value--`, test | `DownLock` |
| 184-189 `kmalloc` fails | `DownNoMemory` (value stays lowered) |
| 184-201 enqueue, `TASK_INTERRUPTIBLE` | `DownEnqueue` with `LinkAtTail` |
| 202 unlock, 203 `schedule()` | `DownWaitUnlock`, `Schedule` |
| 207 unlock | `DownUnlock` |
| 214-217 lock, `value++`, test | `UpLock` |
| 217-229 dequeue, wake, free | `UpWake` with `WakeHead` |
| 230 unlock | `UpUnlock` |
| (kernel) a signal wakes a sleeper | `Signal` |
| (kernel) `mutex_lock(NULL)` | `Oops` |

What happens between `mutex_lock` and `mutex_unlock` touches data that is only
reached with the mutex held, so the stretches above are single steps; unlocking
and sleeping are apart because an `up()` fits between them. `schedule()` returns
when the scheduler state is running again, which is at once if the wakeup came
first. The callers are those of `trafficsim.c`: `Lockers` alternate `down()` and
`up()`, `Waiters` only call `down()`, `Signallers` only `up()`.

The permit of a process is granted when its `down()` lowers a positive value or
when an `up()` takes its node off the list; that is the refinement mapping
(`Permits`, `WaitingProcs`, `Granted`).

### TrafficSim

A call of `down()` or `up()` is one step, and a process whose `down()` found no
permit is blocked (`Blocked`) until an `up()` hands it one. The statements under
the mutex form one step for each side: `Arrive` (lines 45-64), `Check`
(123-128), `Choose` (135-150), `Take` (153-155). `DownFull` stays apart: the
flagperson calls it with the mutex held. `n_out` and `s_out` are kept modulo
`buffer_size`, the only way the program uses them, and cars are numbered modulo
`CarRange`. Both producers are one definition with the direction as parameter;
lines 77-112 differ from 38-75 in the letter only. A `fork` of `main` that fails
is not noticed: `Init` starts any nonempty set of producers beside the
flagperson.

### MsgQueue

`head`, `to`, `msg` and `next` are the global list and the fields of its objects
(`from` travels with `msg`), `curr` and `prev` the locals of `cs1550_get_msg`,
`out` the caller's buffers, `result` and `status` what the last call of each kind
returned. Four history variables serve the properties: `queue`, the objects
published and not unlinked; `sent`, the messages whose call returned success;
`received`, the messages copied to a caller; `dropped`, those whose copy failed.

| code (project2/sys.c) | action |
|---|---|
| 164-176 allocate and fill in | `SendFill`, or `SendRejected` when it fails or an argument is NULL |
| 177 `next = head` | `SendLink` |
| 178-179 `head = new_message`, return 0 | `SendPublish` |
| 195-201 locals | `GetStart` |
| 203-205, 244-249 one turn of the loop | `GetFound`, `GetSkip`, `GetNothing` at its end |
| 208-219 `copy_to_user` | `GetCopy` (after a failure the call goes on, with neither buffer written or only the text) |
| 221-226 unlink | `GetUnlink` |
| 228-234 free, go on behind it | `GetFree` |
| 236-240 look for another one | `GetMoreSkip` |
| 241-259 return 1 or 0 | `GetAnswer` |

`SwitchPoints` is the set of labels inside a call at which another process may
run. The empty set is the kernel of the exercise: one processor (the virtual
machine is started without `-smp`), no preemption in the kernel, and buffers
that are in memory. `get_copy` alone lets `copy_to_user` sleep, as it may on any
configuration. All labels is a kernel with several processors. The object is
unlinked in the history `queue` in the same step as in the list; a message leaves
the abstract mailbox when it is copied or could not be, and from then on the answer
of the call is a function of what is left (`Remaining`, `Answer`); the refinement
mapping is `Box` and `Answers`. The mailbox has two actions for a message that
leaves it: `Take`, which is the promise, and `Lose`, which is not: the comment over the
call says that "any other negative number indicates an error" (lines 192-193), and
the code answers 1 or 0 when a copy has failed.

### Osmsg

A process is a terminal in which `osmsg` is run any number of times. `RunSend`
and `RunReceive` start a run, with the first step of the system call;
`PrintAndCall` is the body of the loop (lines 28-31), `PrintLast` the print after
it (32-36), `NoMessages` lines 23-26. `Owner` is the value of `USER` in each
terminal. `due` remembers what the list held for the user when the run began.

### The web servers

Connections are numbered in the order they are accepted, and the handler of
connection `h` is `h`, be it a thread, a child or one turn of the loop. `desc` is
the descriptor table of each process, in which every descriptor knows the
connection or the open file behind it; `slot` is `connfd` in the loop and `sock`
what a handler has of it. A client sends one request, or none (`"silent"`), and
may leave at any moment, without a word (`ClientLeaves`). A request may arrive in
parts (`unread`). A client may stop reading when a page is sent to it
(`ClientStops`), and read on or not (`ClientReads`); the `send` waits for it
(`Blocked`). Headers and a 404 are short and fit the buffers of the connection. `reply` is what it has
received: status and headers as one item, a page as the file its bytes come from,
whether they are all of it, and the file whose size `Content-Length` gives.

| code (server.c; the others alike) | action |
|---|---|
| 15-46 `socket`, `bind`, `listen` | `Setup` |
| 49-58 `accept` | `Accept` in `IterAccept`, `ThreadAccept`, `ProcAccept`; `AcceptFails` |
| 64-82 `recv`, `sscanf` | `Receive` |
| 84-94 reading the rest of a long request | `Discard` |
| 96-99 `fopen` | `Open` |
| 99-104 404 | `Absent` |
| 105-136 status and headers | `Head200` |
| 138-163 the file, piece by piece | `Body` |
| 165-168 `close`, next turn | `IterClose`, `ThreadClose` |
| server_thread.c 195-199 `pthread_create` fails | `CreateFails` |
| server_thread.c 31 the thread reads `connfd` | `ThreadStart` |
| server_thread.c 17-25, 131-139 a line of the log | `Log` |
| server_proc.c 92-97, 228-229 `fork`, the parent's `close` | `ProcFork`, `ForkFails`, `ParentClose` |
| server_proc.c 97-109 the child's `close` | `ChildStart` |
| server_proc.c 118-122 a bad request in a child | `ChildContinue` |
| server_proc.c 144, 218-226 and 82-86, `exit` of a child | `ChildExit` |
| server_cached.c 61-68 `find_cached_page` | `FindCachedPage`, an entry a step |
| 143-155 the copy under the mutex | `Hit` |
| 157-170 the copy is sent | `SendCached` |
| 46-57 `decrement_ref_count` | `DecrementRefCount` |
| 200-231 insertion | `AddPage`, or `StartEviction`, `ShiftPage`, `OverwriteLast` |
| 236-251 the line of the log | `CachedLog` with `LoggedSize` |

The steps that repeat from program to program are in `Http`, with the label to go
on at as parameter; each program's module says which it takes. What the code does
with them that a reader may not expect:

- A send to a client that has left raises SIGPIPE, which nobody handles
  (`BrokenPipe`): the process ends, with every thread in it. In `server_proc.c`
  that is one child.
- `recv` is called once, and whatever it returns is taken for the request: in the
  first part of one `sscanf` may find the whole name, a shorter one (`Cut`) or none,
  or one with the rest of an earlier request behind it. What follows is not read.
- Any error of `accept` ends the program, and it has others than a missing socket and
  a full table: a connection that was reset, memory (`AcceptFails`).
- `memset` has its last two arguments swapped in `server.c` 68 and
  `server_proc.c` 108, so it clears nothing. A `recv` that returns nothing is
  parsed as what an earlier request, or whatever was on the stack, left there:
  the second parameter of `Receive` is the set of names this may give.
- A request is read on until a `recv` returns less than 1024 bytes. If its length
  is a multiple of 1024, the handler waits for its client (`Discard`).
- `pthread_create` gets the address of the loop's `connfd`. `LateStart` says
  whether a thread may read it after the next `accept` has returned.
- On a hit the headers go out a second time, only what the last `fread` left of a
  long file is in the cache, and the file opened at line 109 is not closed.
- `find_cached_page` holds no lock, so it may compare a name that is being
  overwritten (`Matches` then goes both ways), and the index it returns is used
  up to the log entry. `stale` is a history variable: an eviction began after
  the thread had its index, or was going on when it found it.
- `strcpy` copies pages into and out of the cache, up to a NUL that a buffer of 1024
  bytes read from a file need not have. It then runs on into what is behind the
  buffer and writes beyond the entry or the copy. The fields behind
  `content` are set in the next lines; a longer overrun may end the program, which is
  `CopyOverruns`. What it writes into other entries if it does not is not modelled.
- Two threads that miss on one file both insert it.
- After a 404 `server_cached.c` logs a size that was never set (`"garbage"`).
- Children are not waited for: `MaxProcs` counts the ended ones too, and a full
  table ends the server. A child that gets a bad request goes on in the server's
  loop, where `accept` fails on the socket it has closed.

### The page replacement simulator

`opt`, `clock` and `nru` repeat the same code, four blocks for the letters I, S, L
and M, with another choice of the page to evict; each block is written out. The
code they share is in `PageTable`: `ReadLine` reads a line and marks its page,
`Block(b, evict)` is the code for letter `b`, with the cases `Hit`, `FillFrame` and
the eviction it is given, `Swap` puts the page in the frame of the victim, and
`EndLine` counts. A line passes through all four blocks one after the other, as
in the code, where the tests are not alternatives.

| code (Simulate.java) | action |
|---|---|
| 64-91, 301-327, 603-636 a line is read | `OptRead`, `ClockRead`, `NruRead` (with the refresh of 615-621) |
| 94-239, 329-557, 637-1005 the blocks | `OptFetch`, `OptStore`, `OptLoad`, `OptModify`; `Clock...`; `Nru...` |
| 44-60 the first pass of opt, 63 the trace is opened again | `OptScan`, a line a step; `OptReopen` |
| 257-271 `locateLongestDistancePage` | `LocateLongestDistancePage` |
| 345-385 the hand | `ClockClear` for a turn that goes on, `ClockFound` for the last |
| 650-696 the scan of nru | `PageToEvict` |
| 240-248, 558-569, 1006-1014 | `OptEnd`, `ClockEnd`, `NruEnd` |

`Parse` sets one of `instructionType` and `accessType` and leaves the other as it
was, as lines 76-83 do. So after the first I every line goes through block I, and
an instruction that follows an M goes through block M. A line before the first I
that is an S goes through no block at all: its page is marked and never loaded
(`lost`, a history variable). `stored`, `modified` and `recent` are history: the
resident pages with a store, with a modify, and used since the algorithm last
cleared their bit.

### The calls of `sys.c` that the course did not write

`KernelCalls` starts in one of five families and takes steps of that one; the
others keep a first state. A call that a process can only find refused changes
nothing, so refusals are no actions, except where the code has acted before.

**Processes** (a process is a thread group, in one PID namespace). `fork`, `exec`,
`exit` and `wait` are not in this file; they are modelled by what the calls rely
on: a child starts in its parent's group and session and inherits the subreaper
flag, an exiting process hands its children to the nearest subreaper, which it
looks for only when `has_child_subreaper` is set, and a number is given out again
once no process, group or session has it.

| code (project4/sys.c) | action |
|---|---|
| `setpgid`, with the tasklist lock | `SetPgid(p, t, g)` |
| `setsid`, `set_special_pids` | `SetSid`, `SetSpecialPids` |
| `getpgid`, `getsid` | `GetPgid`, `GetSid` |
| `PR_SET_CHILD_SUBREAPER`, the flag | `SetChildSubreaper` |
| `walk_process_tree(propagate_has_child_subreaper)` | `Walk`, with `Skipped` and `ToFlag` |

The flag is set without a lock and the tree is walked under it afterwards, so the
two are apart (`walking`), and forks, exits and the prctl of another process come
in between. `Below` and `ToFlag` are least sets that are closed under children.

**Credentials**. The ids are records of real, effective, saved and file system
id. `May...` says what a call lets pass and `New...` what it makes of the ids;
the user and the group calls share them, as they share their code but for the
names. `ChangeUid` is the end of `setreuid`, `setuid` and `setresuid`: `set_user`
when the real id changes, then the security module's `FixSetuid`, then the commit.
`set_user` sets `PF_NPROC_EXCEEDED` on the task itself, so a module that refuses
afterwards (`LsmRefuses`, on in the run) leaves the flag of a change that did not
happen. (The one module of the kernel that refuses here, SafeSetID, kills the
process; the code of `sys.c` does not rely on it.) `ExecRefused` is the test of exec. `busy` holds the users
with as many processes as they may have. History: `overLimit` tells whether the
present real user was at the limit when the process became it, `denied` that a
change of the real user has been refused since then by a module; `dropped` is the user a process
has last given up its privilege for, `image` changes with each exec.

**Priorities**. The loop goes over the tasks of a process, a group or a user
with the tasklist lock for reading, which several callers hold at once. `Allow`
and `Refuse` are `set_one_prio` up to its tests, `SetUserNice` the rest of it, and
other callers act between them. `todo` is what the loop has still to come to, in
any order; `reached` and `undone` are history. `GetPriority` is a value of one
state: a `getpriority` that runs while others call `setpriority` may see a
mixture, about which nothing is said.

**ResourceLimits**. `SetRlimit`, `CompatSetRlimit` and `Prlimit64` are the callers with
their conversions and checks, `Write` is the change under `task_lock`, `Fail` each
way out before it, `Arm` is `update_rlimit_cpu`, after the lock has been released.
There are three infinities: of 32-bit programs (`CompatInf`), of the kernel (`Inf`, all
ones in a `long`) and of `prlimit64` (`Inf64`). With a `long` of 32 bits the first two
are the same number, with 64 bits the last two; the assumption allows both. The
permission to act on another process is judged at the start and not again.
Between the steps the target may exit, execute a program of another user, or be
limited by another caller.

**MemoryMap**. The threads of a process change its description. `Copy` and `Store`
are the call for one field, which reads all eleven addresses, checks them and writes
them back, with the mmap lock for reading and `arg_lock` in between; `SetMap`,
`StoreMap` and `StoreAuxv` the call for all of them; `SetAuxv` the vector alone,
which takes `task_lock` only; `SetExe`, `CheckExe` and `ExchangeExe` the executable, which
is checked under the mmap lock and exchanged without one. `Brk` and `MapFile` stand for the rest
of the kernel with the lock for writing. The capability checks are passed, given
addresses are in range, and a copy of the vector is one step.

### Graphics

`StartCall`, then a step for each pixel of `draw_rect` (`RectPixel`), row of a
letter in `draw_text` (`TextRow`), or turn of the loop of `draw_circle`
(`CircleTurn`), and `Return`. `pixels` is the set of places the call in hand has
written, computed as `draw_pixel` does (`Place`), so that a pixel beyond the right
edge lands in the next row. `InitGraphics` changes the mode of the terminal whether or not the
frame buffer was mapped; `NoFrameBuffer` is the crash at the first pixel;
`Interrupt` is the signal that raw mode leaves enabled. `TvNsec` computes
`ms * 1000000` in a `long` of 32 or 64 bits (in units of 64 ns, which divides all
products, and keeps the numbers within TLC's), and `Granted` is the least time that
`nanosleep` waits for it: none when the count is negative, or a second or more. It may wait
longer. A signal would cut it short, but the program has no handler: the one signal
of the model ends it.

## Runs

| run | configuration | question |
|---|---|---|
| `sem_lock` | 3 lockers, 2 nodes, 1 permit, no faults, fairness | is no wakeup lost, do the lockers exclude each other; do the calls implement `Semaphore`, does a `down()` that slept return only after an `up()`, does every `down()` return |
| `sem_faults` | 3 lockers, 3 nodes, `kmalloc` fails, signals, symmetry | what survives the failures |
| `sem_interrupted` | 3 lockers, signals | a sleep cut short (expected violation) |
| `traffic` | 2 slots, threshold 2, 2 car numbers, forks may fail, fairness | the invariants of the simulator, no deadlock, order of arrival, progress |
| `osmsg` | 2 terminals of 2 users, 3 messages and objects, `kmalloc` and `copy_to_user` fail, symmetry | do the calls implement `Mailbox`, is the list well formed, is each message printed once, is everything printed |
| `msg_sleeps` | 2 processes, `copy_to_user` sleeps | a message lost (expected violation) |
| `web` | each of the four servers, 2 connections, 3 files, three kinds of request, in one part or two, clients stop reading and leave, caches cold and warm, 5 descriptors, one child | the answers, the descriptors, the log, the cache against `PageCache`, does every request end |
| `web_connfd` | `server_thread.c`, 2 connections, late start | two threads with one connection (expected violation) |
| `pages` | each of the three algorithms, all patterns of 5 lines over 4 pages, every letter, 2 frames, refresh 3 | the table, optimality, dirty bits, the victims, `Clock` against `SecondChance`, does it end |
| `pages_store` | 2 lines of 2 pages | a store whose page is not dirty (expected violation) |
| `graphics` | a screen of 43 by 43, rectangles, a text, circles of every radius that fits, six pauses | the shapes, the terminal, the pauses |
| `kernel_calls` | one family at a time: 4 process numbers; 2 users, 2 groups, set-id programs, a module that refuses; 2 tasks that change each other; 2 callers, 2 limits, 3 values; 2 threads, 2 segments | sessions, orphans, privilege, the limit of processes, one result for many tasks, limits and timer, the description of memory |

### What the runs show

Some properties are conjunctions of parts that the modules define one by one:
`WaitsAreSafe` (`HoldAndWaitSafe`, `WokenForACar`, `SleepsOnlyWithoutCars`),
`PrintsAllOnce` (`PrintsOnce`, `ReadsEverything`), `ServedRight` (`TypeOK`,
`AnswersRight`, `LogsRight`), `ShapesAreWhole` (`StaysInBox`, `RectIsFull`,
`CircleIsRound`), `VictimsAreRight` (`SparesRecentlyUsed`, `SparesDirty`, `EvictsFurthest`),
`SessionsAreSound` (`GroupsWithinSessions`, `SessionsAreLed`), `ResultIsTrue`,
`LimitsHold` and `DescriptionHolds`.

- A semaphore used as a lock excludes, serves in order and lets everybody in,
  although the process that goes to sleep does so after releasing the mutex:
  it has set its state before, so that the wakeup of an `up()` that comes in
  between is not lost (`NoLostWakeup`, `DownReturns`).
- A failed `kmalloc` or a signal lets a process into its critical section
  without a permit, and exclusion is gone. What survives is the list
  (`ListMatchesQueue`), the permits (`PermitsConserved`: the later `up()` of the
  process that failed gives back what its `down()` took), and that no process
  stays in the queue once the debt is settled (`NobodyStranded`). A version that
  restores the value on the error path breaks `PermitsConserved`, because the
  wrapper in `trafficsim.c` drops the result and the process calls `up()` anyway.
- The flagperson's `down(full)` with the mutex held can block, although line 157
  of `trafficsim.c` says "Dont ever sleep in the critial region": the permit of
  `cum_sem` that wakes it may come from one end while the car it decides on, at
  the other end, is counted and not yet posted. But it does so only while the
  producer it waits for has left its critical section and is about to post: no
  deadlock (`HoldAndWaitSafe`).
- Going by counters and waiting on semaphores is safe: the two are at all times
  equal but for the processes in between (`TokensMatchCars`).
- The loop never starts again with the mutex held, because a car found by
  `down(cum_sem)` has been preceded by one that honked (`WokenForACar`).
- Neither end starves: the oldest car of the end that does not have the road
  waits at most until that end has grown to the threshold (`EveryCarLeaves`). All
  of this holds with a single producer too. (With neither, the flagperson sleeps
  for good, which TLC would report as a deadlock and `Init` leaves out.)
- The message calls are right one after the other: the unlinking and the answer
  "more messages", which comes from a second scan that starts behind the freed
  object, agree with the pile (`ImplementsMailbox`), and nothing leaks
  (`ListMatchesQueue`). Together they keep what was sent (`SentIsKept`), until
  calls overlap. A failed copy contradicts the comment "any other negative
  number indicates an error" (lines 192-193): it is logged, the message is
  removed, perhaps with its text delivered and its sender not, and the call returns
  0 or 1. The mailbox has an action of its own for it (`Lose`), so the refinement
  shows that this is all the code does against its promise, and not that it keeps it.
- The loop of `osmsg -r` takes its messages with one call each, and others run in
  between: what was there for the user at the start is printed all the same, and
  once (`ReadsEverything`, `PrintsOnce`), because nobody else takes messages of
  that user. It needs both: after a failed copy the client prints the message
  before again, and so it does when a second terminal of the same user takes the
  last message between two calls, though line 33 of `osmsg.c` says that then
  "result was set to 0".
- A client that waits and whose request came in one piece gets the answer to it from
  each server (`AnswersRight`), a 404 for a file that exists only where handlers share
  a descriptor table and it was full (`starved`), with what the cached server does to it stated there: two sets
  of headers and the end of a long file. The exception is a thread whose index is
  stale: it may be sent any page, any size, and lower another page's count.
- The cache is the queue it promises to be in spite of the entry-by-entry shift
  (`CacheIsFifo`), and references balance until an index is stale
  (`RefCountsBalance`). `server_cached.c` loses a descriptor on each hit, the
  other servers none (`NothingLeftOpen`).
- No client ends `server_proc.c`, and what ends it is its own table of children
  or an `accept` that fails with everything in place
  (`ProcServerSurvives`). The other three end when a client leaves before its answer.
- Every request ends unless its handler waits for the client to send or to read
  (`EveryRequestEnds`; in `server.c` that client keeps all the others waiting):
  a child that goes astray ends as well, and the mutex is always given back.
- In every simulation table and frames agree between two blocks
  (`FramesMatchTable`), opt has the fewest faults any choice could have, and the
  others no fewer (`OptIsOptimal`), the page of an M is dirty until it is written
  (`ModifiedStaysDirty`), and the loop of the clock ends (`SimulationEnds`).
- The clock is the second-chance queue, although blocks I and S leave the bit of
  the page they evict set and L and M clear it (`ImplementsSecondChance`): the bit
  is set again when the page is next read.
- opt evicts no page that is needed again before another that is loaded
  (`EvictsFurthest`), which needs the lists of future lines to stay exact; and
  clock and nru never evict a page used lately while another was not
  (`SparesRecentlyUsed`). The refresh of nru comes at exact multiples of the
  interval, which an M steps over, so "lately" may be longer than the interval;
  and of the others it takes a clean one where there is one (`SparesDirty`). That is
  as far as the four categories of lines 653-690 go: with every page used lately nru takes
  the first frame, clean or dirty.
- Circles are round and closed for each radius up to 21, in spite of the error
  kept in integers, and a rectangle covers one row and one column more than its
  width and height say (`ShapesAreWhole`). What fits the screen stays in its box.
- The terminal is restored at the end (`TerminalRestored`), and only there: a crash
  or an interrupt leaves it raw. `sleep_ms` asks `nanosleep` for the time it was given
  exactly when that is less than a second, and otherwise for less or for something
  it refuses (`PausesKept`): the `sleep_ms(5000)` of the driver waits 0.705 seconds with a `long` of
  32 bits, and not at all with 64, although line 73 of `library.c` says that it delays.

- No order of `setpgid`, `setsid`, fork, exec, exit and the reuse of numbers makes a
  group reach across two sessions (`SessionsAreSound`), and the flag that guards the
  search for a subreaper hides none, although it is handed down by a walk that
  starts after the prctl has set its own flag and skips whole subtrees
  (`OrphansFindSubreaper`).
- After `setreuid(u, u)`, `setresuid(u, u, u)` or root's `setuid(u)` no sequence of calls
  brings another identity or a capability back before the next exec
  (`DropsStick`), and without the capability the calls only lose identities
  (`Authorized`, against `Authority`). The limit of processes is judged for the new
  user when the real user changes, and the verdict reaches exec through every call in
  between (`LimitReachesExec`). There is one exception, which the property names: a security
  module that refuses a change of the real user leaves the verdict on a user
  the process has not become, and exec may then be refused, or allowed, for it.
- `setpriority` returns 0 only when it has changed every task, -ESRCH only when
  there was none, whatever other callers do between its steps; getpriority then
  gives the value back until another call changes one of the tasks (`ResultIsTrue`).
- A soft limit never passes its hard limit, and once every caller that changed the
  CPU limit has armed the timer it expires in time, although the order of arming
  may be another than that of changing (`LimitsHold`): the timer is only made earlier.
  The conversions keep the order of the two limits, and what `prlimit64` reads it may
  write back without a change, infinity included.
- The segments stay ordered, data and heap within their limit and the vector
  terminated, whichever calls of two threads overlap (`DescriptionHolds`), and a
  call for one field never undoes what another did (`OneFieldChanges`).

### Findings

- `sem_interrupted`: line 203 of `sys.c` says "Sleep until semaphore is
  available". The sleep is interruptible and `schedule()` is called once, so a
  signal makes the call return success without a permit.
- `msg_sleeps`: lines 159-160 of project 2's `sys.c` say that
  `cs1550_send_msg` returns "0 for success". A `cs1550_get_msg` that sleeps in
  `copy_to_user` holds a `prev` from before, and its `head = curr->next`
  (line 223) drops a message sent meanwhile. With `"send_publish"` among the
  switch points two senders lose a message in the same way (lines 177-178).
- `web_connfd`: line 95 of `server_thread.c` says "Tell the client we won't reuse
  this connection for other files". A thread that starts after the next `accept`
  reads the wrong `connfd` (lines 31 and 196): two threads answer one client, and
  the other is never answered.
- `pages_store`: line 127 of `Simulate.java` says "S means dirty bit needs to be
  true and valid if not already a valid hit". The letter S is put in `accessType` (line 79),
  and the blocks for stores test `instructionType` (128, 391, 729): they never run,
  and no store makes a page dirty.

### Bounds

- Three processes: one in the critical section, one in the queue and one about
  to sleep or to wake the others, which is every combination of roles the code
  distinguishes. Nodes: as many as can be allocated at once, so that `kmalloc`
  fails only where `AllocFails` lets it (two waiters at most without faults).
- `MaxValue` bounds the value up to which the signaller calls `up()`.
- `BufferSize` 2 and `Threshold` 2 stand for 24 and 8. The buffer fills up,
  empties and wraps, and an end may reach the threshold while the other is empty
  or not, so that both conditions for turning the sign hold separately and
  together. Two car numbers tell a car from its neighbour in a full buffer.
- Three messages and three objects: a match at the head, in the middle or at the
  end of the list, with messages of another user before and behind it. An object
  is reused after `kfree`. Each message is sent once. Two processes: inside a
  call only one of them runs, or two when switch points are given.
- Two connections: two handlers at each pair of places, and the loop. A third
  would take TLC beyond minutes, so what earlier connections leave is put in the
  initial states instead: a full cache (`WarmCaches`) and a lost descriptor
  or two (`Leaks`). Full, the cache holds the files c and a; a client asks for
  b, which misses and evicts, and the beginning of its name may be read as a, which hits.
  Five descriptors: with two of them lost two connections leave none for a file,
  otherwise only the log may find none. One child
  (`MaxProcs`): the second fork fails.
- Five lines: a page of a full memory of two frames is used, another is evicted,
  and the next choice is made. Page numbers are only compared, so one trace
  stands for all of its pattern. The letter of a line is chosen when the line is read, so every
  combination of letters is tried. `Refresh` 3 is reached and stepped over.
- `kernel_calls` takes the families one at a time, because none reads what another
  writes: all of them together would multiply the states and show nothing else.
  Init, two shells and a manager: a group with a leader and a member, a session
  beside it, and a number that is given out again; a subreaper, its child and its
  grandchild. Two users, one of them root, who may be at the limit of processes or
  not; every argument of every call. Two tasks that are one user's with different
  effective users, one with CAP_SYS_NICE: each call finds tasks it may change and
  tasks it may not. Limits: three infinities, 2 for 32-bit programs, 4 for the kernel and 6 for `prlimit64`
  (a system has two of them equal; with three no conversion is the identity), and 5 for a
  64-bit value that fits no `long`. Two threads, data and heap of at most one
  unit each: with a limit of one unit they exclude each other. `RLIMIT_DATA` is a
  constant of a behaviour.
- A screen of 43 by 43 has room for every radius up to 21 around its centre; the
  error term of the circle starts at `r / 16`, which is 0 or 1 there.
  Rectangles touch the corners of the screen or are a single pixel.

### Fairness

`KernelSem`: weak fairness for a process inside a system call (the scheduler
runs every runnable process), strong fairness for taking the mutex (the kernel's
mutex hands itself over in arrival order), and a locker leaves its critical
section. Nobody is obliged to call `down()`, and a signaller is never obliged to
call `up()`. `TrafficSim`: weak fairness for each of the three processes, which
loop for ever; semaphores are FIFO by the refinement, so blocked processes need
nothing stronger. The `sleep()` calls end. `ConstructionZone` assumes nothing
about cars coming. `Servers`: weak fairness for the loop and for each handler; a
connection need not come, and a client owes neither a request nor a close. Weak
fairness is enough for the mutex, since it is held for a few steps and each
handler takes it a bounded number of times. `PageSim`: the program runs on.
`MsgQueue`, `Osmsg`, `Graphics` and the kernel's own calls state safety only.

## Proofs

The theorems about `KernelSem` are for any set of processes, nodes and roles, any
initial value and any bound (`KernelSemAssumption`: roles are processes and lockers play no
other, pointers and processes are different things, values are naturals).

| theorem | states | assumes |
|---|---|---|
| `TypeCorrect` | `TypeOK` | - |
| `ListCorrect` | `ListMatchesQueue` | - |
| `NobodyStrandedAlways` | `NobodyStranded` | - |
| `WakeupsAreKept` | `NoLostWakeup` | no failures, no signals |
| `SleepIsUntilAvailable` | `SleepsUntilAvailable` | no failures, no signals |
| `CallsImplementSemaphore` | the safety part of `ImplementsSemaphore` | no failures, no signals |
| `PermitsAreConserved` | `PermitsConserved` | lockers only, finitely many |
| `SemaphoreExcludes` | `MutualExclusion` | lockers only, finitely many, no failures, no signals |

The argument has three layers, each inductive relative to the one below.

`LockInv` needs no assumption: the owner of the mutex is the one process between
lock and unlock (`LockOwner`), the list is well formed, and its length is at
most the debt of a negative value, corrected for a process that has changed the
value and not yet the list (`QueueBound`). The bound is one-sided because a
failed `kmalloc` leaves a debt without a node.

`SleepInv` adds, without failures and signals, that each node in the list is the
one node of a process asleep or about to sleep, and that a process is marked
interruptible exactly when it has one (`QueuedOnce`), and that the bound is an
equality (`QueueExact`). With it each step maps to a step of `Semaphore` or to a
stutter.

`CountInv` adds to `LockInv` a count: the processes that have lowered the value
and not raised it (`Charged`) and the value sum to `InitValue`. It holds whatever
fails, since a process whose `down()` failed is charged like the others.
`PermitsAreConserved` follows; with `SleepInv` the processes in the queue are
charged and not holders, which leaves at most `InitValue` holders.

The theorems about `TrafficSim` are for any buffer size of at least one, any
threshold up to it and any number of cars (`TrafficSimAssumption`), and say that
`SafeSpec` keeps the property; `Spec` adds only the fairness.

| theorem | states |
|---|---|
| `TypeCorrect` | `TypeOK` |
| `MutualExclusion` | `MutexExcludes` |
| `TokensKept` | `TokensMatchCars` |
| `NoDeadlyEmbrace` | `HoldAndWaitSafe` |
| `NeverWokenInVain` | `WokenForACar` |
| `SleepIsSafe` | `SleepsOnlyWithoutCars` |
| `WaitsSafe` | `WaitsAreSafe`, the three above |
| `ZoneIsSafe` | the safety part of `ImplementsZone` |

They follow from one invariant, `TrafficInv`. None of the properties is
inductive: what a process finds after a `down()` depends on what the permits of
that semaphore stand for. So the invariant says for each semaphore who may wait
on it and at which label (`WaitersKnown`), that waiters differ and that nobody
waits while a permit is left (`SemInv`), and what the permits stand for:
`MutexInv`, `FullTokens`, `EmptyTokens`, `CumTokens`. Three parts relate them to
the data: a direction is set once a car has come (`DirectionSet`), the end the
flagperson has chosen has a car (`CarChosen`), and a flagperson going to sleep
has asked for the horn or there is a car (`HornReset`). `DownEffect` and
`UpEffect` say once what the two calls do to a semaphore; each action then has a
lemma with one step for each part. `NoDeadlyEmbrace` shows why all of it is
needed: the flagperson waiting on `full[d]` has left it no permit, so the car it
chose is held by the producer between `arrive` and `up(full)`, and since the
flagperson has the mutex that producer is past `up(mutex)`.

For the refinement `QueueInv` adds, relative to `TrafficInv`, that the producers fill
the slot behind the last car, that a car is in the flagperson's hands exactly between
its turn and the end of its crossing, and that the horn is asked for only while no car
waits. `Wraps` says what `%` does to an index that runs at most once beyond the end of
its buffer; from it follow the two facts about the ring: the slot of a new car is
none of those in use (`ArriveJoins`), and to take the first car is to take the
tail of the queue (`TakeEnters`). `ChooseCalls` shows that the flagperson's test of the
counters is the zone's test of the queues; all other steps are stutters.

The theorems about `Processes` and `Credentials` are for any set of process
numbers, users, groups and set-id programs, those about `Priorities`,
`ResourceLimits` and `MemoryMap` for any callers, tasks, limits, addresses,
vectors and files. `EachFamily` carries them to `KernelCalls`: its specification
implies that of each family, since the steps of the others are stutters for it.

| theorem | states | assumes |
|---|---|---|
| `TreeTyped` | `ProcessesTypeOK`: parents run | - |
| `SessionsSound` | `SessionsAreSound` | - |
| `FlagReaches` | `FlagReachesAll`: the comment at line 2401 is right | - |
| `OrphansAdopted` | `OrphansFindSubreaper` | - |
| `IdsTyped` | `CredentialsTypeOK` | - |
| `AccountRight`, `PrivilegeIsRoots` | `UserMatchesUid`, `PrivilegeNeedsRoot` | - |
| `DroppedForGood` | `DropsStick` | - |
| `LimitDeferred` | `LimitReachesExec` | - |
| `KeepsAuthority` | `Authorized`: the refinement of `Authority` | - |
| `ResultTrue` | `ResultIsTrue` | - |
| `LimitsKept` | `LimitsHold` | - |
| `DescriptionKept`, `OnlyFieldChanges` | `DescriptionHolds`, `OneFieldChanges` | - |

- The groups: the process whose number a group has may have left the group, but it
  is still in the group's session; so a number that is given out again, or a group
  that is entered by its number, joins no two sessions (`GroupsOfNumbers`, a part of
  `GroupInv`). Descendants are least sets, and what is said of all of
  them follows from what is said of children (`BelowLeast`). The tree is rooted: every
  process is below init and none below itself, so the search for a subreaper and
  the walk end where they should. `Marked` says of a process that it has the flag, or
  that it asked for orphans and its walk is over; children of a marked process have
  the flag (`FlagsInherited`).
- The credentials: `UidCall` gives all calls that end in `ChangeUid` one form,
  from which each theorem follows. `PrivilegeNeedsRoot` is what makes a drop
  final: once root is in none of the three ids, the capabilities are gone.
- The limit of processes: until a module refuses, the flag is the verdict on the present
  real user, or was dropped by exec, and the account is the real user's (`LimitInv`).
- Priorities: `SpeaksSoFar` says of an unfinished loop what `ResultSpeaksForAll`
  says of a finished one, about the tasks it has come by.
- Limits: the timer is in time, or a caller whose limit is as low as the present
  one is about to arm it (`TimerDue`). That caller need not be the last to write.
- The memory map: a thread between `Copy` and `Store` holds the lock, and its copy
  equals the description in all other fields (`CopyIsFresh`); a whole description
  was checked before it waits for the lock, and what the check depends on does not change
  (`MapIsChecked`).

The theorems about `PageSim` are for any set of traces over any pages, any number
of frames and any refresh interval of at least one.

| theorem | states |
|---|---|
| `TableKept` | `FramesMatchTable`, with the types of all variables |
| `ModifiedKept` | `ModifiedStaysDirty` |
| `VictimsRight` | `VictimsAreRight` |
| `ClockIsSecondChance` | `ImplementsSecondChance` |

They follow from `SimInv`. Its first part is about the code the three methods share
(`TableInv`): the frames are filled from the first on, frames and table name each
other, and a page is valid if it has a frame or is the one the hand is looking for a
frame for (`FramesRight`); a line has at most one fault and two accesses
(`CountsRight`); a modified page that is not dirty waits for block M of its line
(`DirtyRight`). The block lemmas (`ReadKeeps`, `HitKeeps`, `FillKeeps`, `SwapKeeps`)
are proved once, and cited for each algorithm. The other parts are one for each algorithm:
the list of a page holds in ascending order the lines that are still to come
(`ListsRight`), the bit of a loaded page means for nru that it is recent
(`BitsRight`), and the hand does not move before the frames are full (`HandRight`).
That the choices exist and are what they say needs the least and the greatest of
a set of naturals, which `LeastNat` and `GreatestNat` derive from the
well-foundedness of `<` in the library. For the refinement the queue is the
frames read from the hand on (`Visited`); a turn of the hand rotates it by one
(`HandMoves`).

The theorems about `MsgQueue` and `Osmsg` are for any set of processes, users and
messages and any finite set of objects (`MsgQueueAssumption`; `OsmsgAssumption`
gives each process a user). `kmalloc` and `copy_to_user` may fail. They are about
the kernel of the exercise, `SwitchPoints = {}`; on the others `msg_sleeps` shows
that they are false.

| theorem | states | assumes |
|---|---|---|
| `Typed` | `TypeOK` | the calls follow one another |
| `ListKept` | `ListMatchesQueue` | the same |
| `NothingLost` | `SentIsKept` | the same |
| `KeepsMailbox` | `ImplementsMailbox` | the same |
| `PrintedOnce` | `PrintsAllOnce` | the same, and `OneTerminal` |

`OneTerminal` says that no user reads in two terminals. The program does not
enforce it, but the theorem needs it: with two terminals of one user TLC finds both
parts of `PrintsAllOnce` violated, since the other terminal takes messages this one
has found.

- `ListInv`: one call is going on at most, the links lead along the queue, what is in
  it is filled in, and for each label where the locals of the call stand in the queue
  (`Sending`, `Scanning`, `Taking`, `Freeing`, `Looking`). It says at each of the
  last four that no message before that place is for the user: this makes the
  object found the newest, and makes the second scan, which starts behind the freed
  object and not at the head, see all that is left. `PublishKeeps`, `UnlinkKeeps` and
  the lemmas beside them treat the steps one by one.
- `MsgInv` says where each message is: what was sent is in the queue, received or
  dropped (`SentAccounted`), an object being filled in holds a message that is none
  of these, and what was taken does not come back. `SentIsKept` speaks of what is
  reachable from `head`, by a recursive function; `ReachableIsQueue` shows that it
  is the queue, by the least place where walk and queue would differ, and by the pigeonhole
  principle, for a queue without repetitions is no longer than the objects are many.
- The client: `DueInv` says that what a terminal found at its start is printed, lost
  by a failed copy, in its buffers or still in the queue; `OnceInv` that what it
  is about to print was not printed before, and that a terminal told of more
  messages finds one. `OthersKeep` is what the calls of other
  terminals leave alone, and the place where `OneTerminal` is used.
- The refinement: nothing happens to the mailbox in `EarlySilent` and `LateSilent`,
  the four steps that change it are `PublishSends`, `RejectedFails`,
  `NothingAnswers` and `CopyTakes`. The answer is settled in the step that copies, by what
  is left then, and `AnswerSilent` shows that the walk comes to the same.

The theorems about `Servers` are for any numbers of connections, children and
cache entries, any files and requests, and any number of descriptors beyond two
(`HttpAssumption`: a process has room for the listening socket, a connection and
a file, and every system allows far more; a handler that finds no descriptor free
for its file answers as for a missing one).

| theorem | states |
|---|---|
| `NothingIsLeftOpen` | `NothingLeftOpen` |
| `ProcServerStays` | `ProcServerSurvives` |
| `CacheImplementsFifo` | `CacheIsFifo` |
| `RefCountsStayBalanced` | `RefCountsBalance` |
| `EveryClientIsServedRight` | `ServedRight` |

They assume `NoLateStart`: when one of the two threaded programs is among those that run, a
new thread reads the variable `connfd` of the loop before the loop accepts
again. The code does not see to that, and `web_connfd` shows what happens
otherwise: two threads have one connection, and nothing below holds for them. For
`server.c` and `server_proc.c` the theorems assume nothing.

The invariant has four layers, each inductive relative to those before it.

- `TablesInv`: where each handler is, and what each entry of a descriptor table
  is for (`EntryRight`). A connection is handled by one process, and an entry that
  names it belongs to that process and to a handler that still runs; for the parent in
  `server_proc.c` it is the one between `accept` and `close`. Each step is an
  instance of one lemma for steps that only move a handler (`RelabelKeeps`), that
  change its table (`MoveKeeps`), or that accept, fork or exit.
- `CacheInv`: the entries below `cache_count` are filled and the others are not,
  up to the entry that an eviction is moving (`Filled`, `Moving`); an index that
  a handler holds names its page unless an eviction has come by since (`StaleRight`).
  For the refinement the queue is the entries in order (`Pages`), without the one
  that an eviction under way is about to overwrite.
- `RefsInv`: the count of a page is one more than the threads between taking their
  reference and giving it back. Once an index may be stale only a bound in both directions remains
  (`RefsBounded`), which is what `TypeOK` says of the counts.
- `AnswersInv`: what a client has received so far is a beginning of the answer
  to its own request, for each label of its handler (`AnswerRight`), and a line is in the log
  when its handler is past that line (`LogRight`).

The theorems about `Graphics` are for a screen of any size, any font, any pauses, and
any shapes that fit the screen. `DriverAssumption` says that the driver's do: its
calls lie within 640 by 480.

| theorem | states |
|---|---|
| `WholeShapes` | `ShapesAreWhole` |
| `TerminalIsRestored` | `TerminalRestored` |
| `ShortPausesKept` | `PausesKept` |

- `DrawingInv` says how far the shape in hand has come: a rectangle is its box up to
  the place before `(x, y)`, row by row (`RectInv`); what is drawn of a text is in its box
  and `x` is eight times `count` further on (`TextInv`).
- `CircleInv` says what the error `t1` of the loop measures: up to the sixteenth of the
  radius it starts from, `2 * t1` is by how much `x^2 + x + y^2 + y` is more than
  `r^2 + r` (`Error`). A turn keeps that, and keeps `t1` within `0 .. x` while the
  loop goes on (`ErrorKept`); hence each point drawn is within a pixel of the
  radius (`NearRadius`; a radius of one needs an argument of its own). The circle is closed
  since each column below `y` and beyond `x` has its points, and a turn draws both.
- `PlaceInRow` is what `draw_pixel` relies on: within the screen column and row can be told from
  the address, by the uniqueness of quotient and remainder (`DivModUnique`).
- `GrantedIsNoMore`: a product cut to 32 bits is not more than the product, less than
  a second fits, and a second or more is cut or refused.

Only model-checked: `DownReturns`, `EveryCarLeaves`, `SimulationEnds`,
`EveryRequestEnds` and the liveness parts of `ImplementsSemaphore` and
`ImplementsZone` (fairness is out of the prover's reach), and `OptIsOptimal`, which
compares with the best of all choices by a recursive function over the trace, a proof by
induction over data with an exchange argument. Every other property of a passing run is
stated by a theorem.
`TypeOK` of `KernelSem` and of `MsgQueue`, `SentIsKept`, and `ListMatchesQueue` of
`KernelSem` without faults are proved and not run.

## Not modelled

- Bytes: the lengths of names, messages and buffers, the text of requests and
  headers, wording and layout of output, times in the log, colours, the
  console font (external data; the model has a glyph of its own).
- The length of `sleep()`, except for `sleep_ms`, whose arithmetic is the point.
- `clear_screen` of `library.c`, which writes an escape sequence; drawing calls
  whose shape does not fit the screen, which leave the mapping.
- Reading and splitting the trace file, and the arguments of `vmsim` (with `-n` in
  another place than the first the number of frames is read from another
  argument).
- Usage errors of `osmsg`, which exit before any call.
- The rest of the two `sys.c` files: calls that only read or copy (`getpid`, `times`,
  `uname`, `getrusage`, `sysinfo`), host names, `reboot`, the other options of
  `prctl`. Of the modelled calls: several PID and user namespaces, securebits,
  threads within a process group call, a fatal signal for a process that sleeps in
  `cs1550_down` (its node stays in the list when it is gone), `PR_SET_MM` without the capability and with
  addresses out of range, failing copies to and from the caller.
- The sample files, the emulator's binaries.

## Plan

1. `KernelSem` and `TrafficSim` with their abstract specifications, and the
   proofs about `KernelSem` (done).
2. `MsgQueue` and `Osmsg` with the abstract mailbox (done).
3. The web servers, the page replacement simulator, the graphics library (done).
4. Proofs about `TrafficSim`: its six invariants, and that its steps are steps of
   `ConstructionZone`, for any buffer size and threshold (done).
5. The kernel's own calls with state and concurrency, and proofs about them (done).
6. Proofs about `PageSim` for any trace and number of frames (done).
7. Proofs about the message calls and `osmsg` for any number of processes, messages
   and objects (done).
8. Proofs about the cache, the descriptors and the answers of the servers (done).
9. Proofs about the graphics library for any screen (done).
