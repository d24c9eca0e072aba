# OS_NetWorkCode: a TLA+ model

The repository is a collection of systems programming code in C and C++: thread
synchronisation (a blocking queue, a ring queue, a thread pool, a lazily built
singleton), TCP and UDP servers, process communication (pipes, named pipes,
shared memory), a small shell, and many programs that show one system call each.
The directories are named by date; a later copy of a component replaces an
earlier one.

This directory holds TLA+ modules for the parts of that code that keep state, the TLC
configurations that check them on small instances, and TLAPS proofs of what
matters most for instances of any size.

    tlc -config MCBlockQueue.cfg MCBlockQueue       # one run
    tlapm BlockQueueProofs.tla                      # one proof module

## 1. Inventory

For every component: its state, its operations, who it interacts with, what is
hard about it, and what makes it correct. `PROJECT.json` lists the same
components with their files and, under `hazards`, the lines where each hard
behaviour bites.

### Thread synchronisation

**Blocking queue** (`0114/`). A `std::queue`, its capacity, a mutex and two
condition variables. `push()` waits on `__Full` while the queue is full, `pop()`
on `__Empty` while it is empty; both hold a `lockGuard`. `push()` notifies
consumers only when at least half the capacity is used; `pop()` notifies a
producer every time. *Hard:* a notified thread can be overtaken before it has the
mutex back, `pthread_cond_wait` may return for no reason, and a notification
that is withheld, or goes to the wrong side, can leave both sides asleep.
*Correct when:* capacity and emptiness are respected, no wake-up is lost, the two
sides are never all asleep, and items come out once and in order.

**Ring queue** (`0208/RingQueue/`). A vector used as a ring, two indices, two
counting semaphores and two mutexes. `push()` books a free slot, stores under the
producers' mutex and posts an item; `pop()` mirrors it. *Hard:* a producer and a
consumer access the ring with no lock in common, and the post comes after the
unlock, so a later producer can post first. *Correct when:* every slot is counted
once, a store and a load never meet at a slot, and the ring is first-in first-out.

**Thread pool** (`0208/ThreadPool/`, `0211/`, `0215/tcp/threadPool/`). A queue of
tasks without bound, a mutex, one condition variable and the workers. `run()`
starts the workers one by one, `pushTask()` queues and signals, `routine()` waits
for a task, takes it with `getTask()` and runs it outside the lock. *Hard:* one
signal per task is the only wake-up; busy workers come back and take tasks meant
for a signalled one. *Correct when:* `getTask()` always finds a task, no task
waits while a worker sleeps, and each task is run exactly once.

**Lazy singleton** (`0211/threadPool.hpp`, `xjh_multi_thread/test.cc`).
Double-checked locking around a static pointer. *Hard:* the first test is outside
the lock. *Correct when:* one object is built, nobody sees it half built, and all
calls return it.

**Condition variable control** (`0113/demo/mycond.cc`). `main` hands out turns by
signalling one condition variable on which all threads wait, then sets `quit`,
broadcasts and joins. *Hard:* neither `quit` nor the broadcast is under the mutex,
and the wait tests nothing. *Correct when:* `main` gets past its joins.

**Ticket counters** (`0110/mythread.cc`, `0112/`). A shared counter with and
without a mutex. *Hard:* `tickets--` is a load and a store, and a late store undoes others.
**Alternating printers** (`xjh_multi_thread/test1.cc`). Two threads print in turn,
by spinning on the number or by a flag and a condition variable; the loop bound is
tested before the lock is taken. *Correct when:* each number is printed once, in
order, and neither thread waits for one that has left.

### Network

**TCP echo server and client** (`0215/tcp/`). An accept loop, the singleton pool
with three workers, and a service function that keeps its worker until the client
closes. `tcp_backup_1` forks a process per connection instead. *Hard:* more
clients than workers; a client and a worker each waiting for the other after an
empty line; descriptor numbers reused after `close()`.

**UDP chat** (`0215/udp/`). The server registers every sender under "ip-port" and
sends what it receives to everybody; the client has a sender and a receiver
thread. *Hard:* lost, duplicated and reordered datagrams; the `key` buffer that
keeps an earlier iteration's name; a receiver thread that never ends.

### Processes and their channels

**Process pool** (`1119/processPool/`). A parent with one pipe to each child; a
child inherits the write ends of all earlier pipes. **Pipe demo** (`1119/pipe/`).
One writer, one reader, end of file. **Named pipe** (`1126/fifo/`). Three reader
processes on one fifo. **Shared memory** (`1201/shm_pipe/`, `1201/shm/`,
`1126/shm/`). One segment as a message buffer and a fifo as a doorbell. *Hard:*
end of file through inherited descriptors, a message overwritten before it is
read, a fifo and a segment left behind by a crash.

### Shell, files, signals and demonstrations

**Mini shell** (`1017/shell/`, earlier in `0921/` and `1008/`). Reads a line, cuts
off a redirection, splits, forks, execs, waits. **File buffers** (`1017/myfile.c`,
`myfile1.c`). A user-level `FILE` with three flush policies; a stdio buffer
duplicated by `fork`. **Signals** (`0104/`, `0105/`, `0108/`). Handlers, the pending
and the blocked set. The rest is one call at a time: redirection (`1010/`, `1012/`,
`1019/`), fork and wait (`0801/`, `0909/`, `0913/`, `0914/`, `0919/`), thread calls
(`0109/`, `0110/mythread1..4.cc`), exec (`0921/exec.c`), libraries (`1031/`,
`1105/`), logging.

### How the components interact

The TCP server gets its pool from the lazy singleton and pushes one task per
accepted connection. The pool, the blocking queue and the ring queue are three
implementations of one idea, a first-in first-out queue between two groups of
threads, so all three are shown to implement the same module, `BoundedFifo`. The
shared memory channel uses a named pipe as its doorbell. Everything else stands
alone.

## 2. The modules

| module | models | state |
|---|---|---|
| `BoundedFifo` | what a producer/consumer component promises | `fifo`, `hand` |
| `BlockQueue` | `0114/BlockQueue.hpp`, `lockGuard.hpp`, `ConProd.cc` | `bq`, `mtx`, `pc`, `arg` |
| `RingQueue` | `0208/RingQueue/ringQueue.hpp`, `sem.hpp`, `testMain.cc` | `ring`, `step`, `sem`, `lock`, `pc`, `arg` |
| `ThreadPool` | `threadPool.hpp` of `0208`, `0211` and `0215/tcp` | `queue`, `mtx`, `pc`, `task` |
| `LazySingleton` | `getThreadPool()`, `Singleton::GetInstance()` | `ptr`, `mtx`, `parts`, `pc`, `got` |
| `CondControl` | `0113/demo/mycond.cc` | `quit`, `mtx`, `pc`, `main`, `cnt` |
| `EchoChannel` | what an echo server promises to each client | `open`, `pipe` |
| `TcpServer` | `0215/tcp/tcp_server.hpp`, `tcp_client.cc`, `threadPool/Task.hpp` | `alive`; `backlog`, `fdtab`, `queue`, `hand`, `wpc`, `buffer`; `cpc`; `up`, `down`, `fin`, `rst`; `split` |
| `ChatRoom` | what the chat promises to who watches the screens | `said`, `shown` |
| `UdpChat` | `0215/udp/`: server and client | `users`, `key`, `buffer`, `todo`; `prog`; `up`, `down`, `faults` |
| `PipeEnds` | the kernel's part of pipes, fifos and connections | `pc`, `ends`, `data` |
| `ProcessPool` | `1119/processPool/` | that of `PipeEnds` |
| `PipeDemo` | `1119/pipe/mypipe.cc` | and `count`, `seen` |
| `FifoServer` | `1126/fifo/` | and `file`, `count`, `shown` |
| `ForkServer` | `0215/tcp/tcp_backup_1/` | that of `PipeEnds` |
| `ShmSegments` | System V segments and the start of a program | `pc`, `starts`, `key`, `mode`, `mem`, `at` |
| `ShmPipe` | `1201/shm_pipe/` | and `fifo`, `bell`, `deaf`, `woken` |
| `ShmPoll` | `1201/shm/` | that of `ShmSegments` |
| `Shell` | `1017/shell/myshell.c` | `shell`, `child`; `typed`, `said`; `where`, `file`; `g_argv`, `redir_status`, `sep`; `fd` |
| `FileBuffer`, `ForkedBuffer` | `1017/myfile.c`, `1017/myfile1.c` | `fp`, `buffer`, `end`; `stdout`; `out` |
| `Tickets` | `0110/mythread.cc`, `0112/mythread1.cc` | `tickets`, `mtx`, `reg`, `sold` |
| `Printers` | two programs of `xjh_multi_thread/test1.cc` | `i`, `mtx`, `ready`, `shown` |
| `Signals` | `0105/mysignal.cc`, `0108/mysignal1.cc` | `pending`, `blocked`, `caught`, `count` |
| `Waiting` | `0919/myproc.cc`, `0914/myproc.c`, `0108/mysignal.cc` | `pc`, `status`, `told`, `handlers` |
| `MCBlockQueue`, `MCRingQueue`, `MCThreadPool`, `MCTcpServer`, `MCShell` | the instances TLC checks | |
| `MCChannels`, `MCDemos` | several programs in one run, each with the others at rest | `prog` |
| `BlockQueueProofs`, `RingQueueProofs`, `ThreadPoolProofs`, `TcpServerProofs`, `UdpChatProofs`, `ChannelProofs`, `DemosProofs`, `ShellProofs` | theorems | |

**State.** A queue is a sequence with its oldest item first; a mutex is its owner
or `Nobody`; a semaphore is its count. The waiting set of a condition variable is
not a variable of its own: it is the set of threads whose `pc` is `"asleep"`,
which is exact because each thread only ever waits on one condition variable.
`pc[t]` is where the thread stands, one value for each point at which another
thread can run in between; the header of each module explains the values.
`arg`, `task` and `got` are the thread's local variable.

**Steps.** One action is one call or statement that touches shared state:
`pthread_mutex_lock`, the test of a while condition, `pthread_cond_wait`,
`__bq.front()`, `__bq.pop()`, the notification, the unlock in the destructor of
`lockGuard`, `sem_wait`, the store and the increment of the index, the `%=`.
`pthread_cond_wait` is two steps: it sleeps and releases in one, as POSIX says,
and gets the mutex back in another, where it competes with threads that arrive
from outside. A notification picks any sleeper. `SpuriousWake` is the return
without a notification that POSIX allows.

**Data.** Items are opaque values; the tasks' arithmetic, the printing and the
sleeps are left out. `NoItem` stands for a default-constructed task, so that a
read of something that was never pushed shows up as a type error.

**The abstract specification.** `BoundedFifo` has four actions: a producer offers
an item, the item enters at the end if there is room, a consumer takes the oldest
item, and uses it. `BlockQueue`, `RingQueue` and `ThreadPool` each define the
mapped `fifo` and `hand` (`AbsFifo`, `AbsHand`) and state `ImplementsFifo ==
Fifo!Spec`. For `BlockQueue` an item has left the queue at `front()`, one step
before `pop()`. For `RingQueue` the queue is what lies between the two indices,
and its length counts tokens that have not been posted yet.

**The server.** `TcpServer` is composed from the pool's abstract queue: `Pool ==
INSTANCE BoundedFifo`, with `main` as the producer and the workers as consumers,
which `ThreadPool` is shown to implement. A task is a descriptor and the client it
was accepted for, which stand for `__sock` and for `__ip` and `__port`. One action
is one system call: `accept`, `pushTask`, `read`, `write`, `close`, and on the
client's side `connect`, `getline` with `send`, `recv`. A line is a sequence of
pieces, the units in which TCP may deliver it; a read or a receive takes any
non-empty prefix of what has arrived. The kernel's part (`Kill`, `WriteBroken`,
the descriptor table, when a reset is seen) is external and modelled from what
the calls can return. A worker's `buffer` is only kept from `read` to `write`.
`EchoChannel` keeps, for each client, what it has sent and not got back;
`ImplementsEcho` maps it to what is on the way down, in the worker and on the way
up. `split` is a history variable: a read or a receive of this connection has left some
of what was under way. Left out: the limit of 20 pending connections, the length of the
buffers, and a `write` that blocks because the client does not read. Lines are text
without a zero byte: of others `write` sends only what is in front of it
(`tcp_server.hpp:51`).

**Pipes.** `PipeEnds` keeps who holds which end of which pipe. A fork copies the
ends, an exit or a signal closes them, a read is at the end of the file when the
pipe is empty and no process holds a write end, a write with no reader is a SIGPIPE.
The four programs on top of it differ in who closes what. A fifo is a pipe whose
ends are got by `open()`, which waits for the other side; a connection is two pipes.
Messages are numbers, and a read takes one (pool), or several that it joins (demo,
fifo), as the code's reads do.

**The chat.** Datagrams under way are sets; a delivery may leave its datagram there
(duplication), and `Lose` drops one. `MaxFaults` bounds both and the kills. The
server's loop over its table is one step per user. `key` is the buffer that an empty
datagram finds with the name of an earlier one: the code formats the name and
copies the message only when something was received. `ChatRoom` sees only what was
said and what a screen shows, with that one exception spelt out.

**Shared memory.** A segment lives on for those who have it attached when its key
is gone, and a program started again may meet the fifo, the segment and the other
program of the last run: `Start` and `Kill` are actions. The client's store is two
steps, the line as `read()` leaves it, with its newline and the rest of a longer
one, and the terminating zero. The server may look in between.

**The shell.** A line is a sequence of pieces: blanks, operators and parts of words.
`CheckRedir` scans from the right as the C code does and `strtok` makes words of
what is in front of the operator, both as recursive functions; the reference beside the
properties says without a scan what a line means (`WordsOf`: where words begin, and
how far each goes). The child's redirection, `execvp` and end are steps, and so is what
the command writes, which keeps its author so that an overwritten file shows.

**Variants.** Each module also holds, next to some actions, a wrong form of it
(`AcquireMtxIf`, `SignalOnce`, `SemPostOwn`, ...), marked as such and used by no
specification. They are the bugs the properties are meant to exclude: with the
wrong form in place of the right one, the property named in `PROJECT.json` under
`mutants` is violated.

**Memory order.** `LazySingleton` assumes that stores become visible in program
order. The Makefiles build without optimisation and for x86-64, where this is so.
The language itself does not promise it: `thread_ptr` is a plain pointer and the
unlocked test is formally a data race.

## 3. The runs

| run | instance | distinct states |
|---|---|---|
| `block_queue` | 2 producers, 2 consumers, 2 items, capacity 4 | 209 000 |
| `ring_queue` | 2 producers, 3 consumers, 2 items, 2 slots | 442 000 |
| `thread_pool` | 2 submitters, 3 workers, 2 tasks, at most 4 queued | 144 000 |
| `lazy_singleton` | 4 callers, a constructor of 3 stores | 3 900 |
| `tcp_server` | 3 clients, 2 workers, 2 descriptors, 2 pieces in flight | 263 000 |
| `udp_chat` | 2 clients, 2 texts and the empty one, 3 said, 3 in flight, 1 fault | 339 000 |
| `pipes` | 3 children, 3 messages, 3 readers, 2 clients, pipes of 2 | 16 000 |
| `shm_channel` | 3 starts of each program, 3 lines, 4 segments | 35 000 |
| `shell` | 2 lines of 644 different ones, `cmd_line` of 7 pieces | 57 000 |
| `demos` | 3 threads, 2 tickets; `n` up to 5; 4 messages; 4 signals | 26 000 |
| `cond_control` | 2 threads, 2 turns | expected violation |
| `shm_exit` | as `shm_channel` | expected violation |

Besides a type invariant each run checks:

* `block_queue`. `NoOverrun`: the while loops keep the queue within its capacity
  and `front()` off an empty queue. `ConsumersCovered`: while a consumer sleeps,
  all items but those the threshold leaves unannounced have a consumer or a
  notification coming. `ProducersCovered`: the same for free places.
  `ImplementsFifo`. `ItemsFlow`: pushes and pops go on forever.
* `ring_queue`. `TokensConserved`: semaphores and threads between `p()` and `v()`
  count each slot once. `NoSlotRace`: no store meets a load. `ImplementsFifo`.
  `ItemsFlow`.
* `thread_pool`. `TaskReady`: `getTask()` never sees an empty queue.
  `WorkersCovered`: no task waits while a worker sleeps unsignalled.
  `ImplementsFifo`. `TasksRun`: a queued task is taken even if no other is ever
  pushed. (If tasks never stop coming it is the bound `MaxQueue` that leaves the mutex
  to a worker; the code has none.)
* `lazy_singleton`. `OneInstance`, `NeverHalfBuilt`, and `CallsReturn`: every call
  returns, with an object.
* `tcp_server`. `DescriptorsOwned`: a descriptor number is open exactly as long as
  one task holds it, and still leads to the client of that task.
  `SurvivesWholeLines`: a SIGPIPE, the only end of the server, comes of a client that
  has gone away, and only if on its own connection a line was read, or an answer
  received, in parts. Either is enough: a client that takes half an answer,
  sends its next line and is killed leaves something unread, so that its connection is
  reset before the server writes. `ImplementsEcho`. `Answered`: a client that has
  something in flight gets an answer, if a worker serves it, or if workers become free
  time and again. While the others keep all workers it waits, and a client that has
  typed an empty line waits for nothing; the property leaves both out, because so does
  the code.
* `udp_chat`. `ImplementsRoom`: under loss, duplication, reordering and killed
  clients a screen shows only what the client it names has said, to one that has
  spoken, or an empty line under a name the server still has. `Heard`: what the
  network keeps comes back to its sender's screen.
* `pipes`. `EndsOwned`: a child of the pool sees the end of its pipe only after the
  parent and every later child; a connection is held by its own child only; the
  demo loses and reorders nothing. `NobodyLeftBehind`: ends of file and SIGPIPEs
  reach everybody, so that no process waits for one that is gone, and every line in
  the fifo is shown while a child reads.
* `shm_channel`. `NeverStale`: the n-th ring for a segment is answered with line n of it
  or a later one, through kills and restarts; rings of a client that still has an earlier
  segment do not count, and a line may be lost or torn. `QuitEnds`: a quit that stays
  ends the server, with the doorbell and by polling.
* `shell`. `AsWritten`: for a line that fits and is a command with at most one
  redirection, the words, the input and the output are what the line says; what is
  in a file stays in it unless a line says `>`; the shell crashes only when no word
  stands in front of the operator. `ReadyAgain`: the prompt comes back whether the
  command, its process and its file are there or not.
* `demos`. `EachOnce`: under the lock each ticket is sold once, and without it the
  sales of three threads go no further below zero than the tickets were above it;
  the printers print each number once and in turn, and at most one past the end; a
  message is written once, except after the flush at a newline; a message in a
  stdio buffer once by each process; a blocked signal kills nobody and a handler
  runs no oftener than its signal was sent; a parent leaves with its own child's
  status and no zombie. `AllComeToAnEnd`: the sellers and the printers end, a signal
  that was held back is delivered, the parent leaves after its child.
* `pipes`, `shm_channel` and `shm_exit` are one module, `MCChannels`; `Chosen` says which
  of its programs a run may start. So are `demos` and `lazy_singleton`, of `MCDemos`.
* `cond_control` checks `AllJoined` and `shm_exit` checks `FifoRemoved`, which the
  code violates: section 6.

**Why the bounds are enough.** Two threads of each kind are the least that can
overtake one another. Capacity 4 makes the threshold 2, so that items lie
unannounced below it and the queue passes it in both directions; the `MC` modules
state such conditions as assumptions. Three clients on two workers and two descriptors
make one client wait for both, and make a number pass from a client that is gone
to the next; a line of two pieces is the shortest that TCP can split. Two slots let
the ring fill, empty and wrap while both producers, or two consumers, hold tokens
at once. Three workers are the pool's own smallest useful number: one runs a task,
one sleeps and one is between its wake-up and the lock. `MaxQueue` is a bound of
the model alone, on the queued and nearly queued tasks; the code's queue has none.
Two items tell order and identity apart, because every component treats items
alike. The proofs of section 5 have none of these bounds.

In the chat two clients and three lines let a datagram overtake another, come again
after the next one, and find the other's name in `key`; `MaxFlight` bounds the
datagrams under way. Three children give the pool a first one whose pipe two others
hold. A pipe of two messages fills. A third start of a program meets what a second
has left that met what the first had left. The shell's lines are all those of up to
three pieces, those of one file and one program up to `x x>>x`, and some that
`cmd_line` cuts; a second line finds the file, the place and the globals as the
first has left them. Two tickets are the fewest that a late store can bring back
while two threads are past their test; with three tickets the bound of `EachOnce`
holds too (193 000 states). Three looks stand for ten and a last signal 10 for 32:
nothing depends on the numbers.

**Deadlock** is checked in the first four runs, whose threads loop for ever. The
programs of the others really end or wait for a user: SIGPIPE ends the echo server,
clients need not type, `cond_control`'s `main` joins.

## 4. Fairness

The thread functions loop forever and the scheduler eventually runs a thread that
can run: weak fairness of each thread's `Step`. A mutex or a semaphore is not
assumed to be fair: a waiting thread's step is enabled only when it is free, and
weak fairness does not promise a thread that it is ever the one that gets it. This
is why `ItemsFlow` and `TasksRun` speak of the group and not of a thread.
`CallsReturn` of the singleton is about each caller, and holds under weak fairness
because the mutex is contended only while the pointer is null.
In the programs below processes and threads are scheduled; a user is not: nobody
has to type, to connect, to start or to end a program, or to send a signal.
In `TcpServer`, `main`'s two steps, each worker's `Serve` and a client's `recv` are
weakly fair. No client has to connect, to type or to leave, so a worker may stay
with a silent client for ever.
In `UdpChat` the network delivers what is under way, some time, once the faults are
used up; the code has no retry, so nothing is promised for a datagram that is lost.
In `ProcessPool` the parent picks a child by chance, and `Send` to each child is
strongly fair: each is picked again and again while the parent is at that point.
The other programs of `MCChannels` and `MCDemos` have weak fairness for each
process. In `Shell` a command is assumed to end (`End` is part of the fair `Step`);
what it writes before is its own affair.
Nobody has to submit a task or to call the singleton: `Submit` and `Call` there
carry no fairness. In the queues the thread functions call again and again, so
`Call` is part of `Step`. Spurious wake-ups are assumed to stop eventually in the
liveness properties: otherwise a proof of progress could lean on them, or a wait
could be woken forever.

## 5. The proofs

The eight proof modules are checked by TLAPS to the last leaf. They assume only
the assumptions named in the modules (`BlockQueueAssumption` and so on: finitely
many threads, the two kinds disjoint, a positive capacity or size, and model
values that are not confused with threads or items). Producers, consumers,
workers, callers, items, capacity, size and constructor length are arbitrary, and
for the server the clients, workers, descriptors and lines; for the chat the clients,
the texts and the number of faults. `MCChannelsAssumption` asks for at least one child,
reader and message, and for enough process and pipe numbers to count them;
`MCDemosAssumption` for natural numbers, and for model values that are not confused
with callers or objects; `ShellAssumption` for lines made of pieces and a `cmd_line` of at
least three. Children, messages, clients, segments, starts
and lines are arbitrary, and so are the tickets, the threads that sell them under the
lock, `n`, messages, signals, looks and ticks. Without the lock there are three threads,
as `0110/mythread.cc` has: `Init` says so, since more of them take the counter further
down.

**Inductive invariants** (`IInv` in each module). None of the safety properties is
inductive by itself. They need the discipline of the mutex (a thread stands
between lock and unlock exactly when it owns the mutex), because a tested while
condition only stays true up to the access it guards if nobody else can be
inside. They also need what each thread carries at each point. In addition:

* `RingQueue` needs `Wrapping` (an index equals the size only between its
  increment and its `%=`, while the mutex is held) and `Aligned` (the producers'
  index is `Stored` places ahead of the consumers', where `Stored` counts posted
  items, items whose producer has still to post and items whose consumer has still
  to load). `TokensConserved` bounds `Stored`: a consumer at its slot makes it at
  least one, a producer at its slot makes it less than the size, so the indices
  differ. This is `SlotsAreApart`.
* `LazySingleton` needs `OneObject`: an object exists exactly when the pointer is
  set or a thread that owns the lock is building it, so the second test, under the
  lock, sees a null pointer only if there is no object at all.
* `ThreadPool` needs `Backlog`, the model's own bound.
* `TcpServer` needs `OneTask` and `OneConnection` (a descriptor has one task, a client
  one connection), from which two workers never serve the same client; `Lifecycle`
  (what is left of a client that is gone, and that a worker comes to `close()` only
  for such a client); and `LockStep`: as long as nothing on a client's connection was
  taken in parts, all that is under way is at one place, and after a reset there is
  nothing. A write on a connection that was reset therefore needs a line or an answer
  that was split (`BrokenIsSplit`), which is `WholeLinesAreSafe`; `DescriptorsAreOwned`
  counts what `OneTask` says.
* `UdpChat` needs to follow what has been said on its way: in a datagram to the
  server (`UpIsSaid`), in the server, where `key` and the buffer still belong
  together as long as the broadcast has users to reach (`InServer`), and in a
  datagram to a member (`DownIsSaid`). No copy of a datagram adds to it, so loss and
  duplication cost the proof nothing; the empty message is why `Lines` is more than
  `said`.
* `ProcessPool` needs `Inherited` (the parent has the write end of every pipe, a child
  those of all pipes made before its own), and `Forked`, because a child that is forked
  later inherits what the parent has then. That a later child is alive then says that
  the pipe has a writer, so an end of file means that it is gone.
* `PipeDemo` needs `WriterHolds` (no end of file before the parent has shut the pipe),
  `Counts` and `NothingLost` (what is shown and what is in the pipe are together what
  was written). `FifoServer` needs where its processes are and their order;
  `ForkServer` `Sockets`, which says who may hold what, the parent one socket at most.
* `ShmPipe` needs `RungFor` (the rings that wait for a segment's server, and the line
  not rung for yet, are no more than the lines of that segment) and `Answered` (the same
  with those that the server has answered). This survives restarts because a ring keeps
  its segment, and a segment that is still to be made has no line (`Made`).
* `Tickets` needs `InOrder` under the lock: the tickets sold are those above the counter,
  or above the next number while a store is under way. Without the lock `Bounded` is a
  potential argument. While tickets remain, no late store lies `Total` or more below
  another one, or more than `Total` below the counter (`Near`). When none remain, at
  least one of the three is out of the race, each of those who sell on may take the counter
  one further down, and a store that brings tickets back is the lower the further down
  the counter is (`Far`). The proof states this of three numbers and three places
  (`Apart`), where the steps are linear arithmetic (`ApartLoad`, `ApartStore`), and
  moves it to whichever thread steps (`BoundedStep`).
* `Printers` needs `Turns` (parity, flag and place agree, but for the moment between the
  addition and the change of the flag) and `Tested` (who has tested finds `i` below
  `n` until the other has added to it, once), which bounds the surplus number.
* `FileBuffer` needs only that a closed or fresh file has an empty buffer; the work is in
  the lemmas about joined sequences (`RangeOfJoin`, `OneMore`, `PrefixOfJoin`).
  `ForkedBuffer` follows both outputs exactly (`AtTerminal`, `ToFile`).
* `Signals` needs `Masked` (what each program holds back) and `Paid` (every run of the
  handler, pending or done, has its own signal); `Waiting` needs where parent and child
  can be at once.
* `Shell` needs `ReadWhole` (a line that fits is read in one go, so what is left of it is
  all or nothing), `Parsed` (until the command has ended the globals hold what
  `CheckRedir` and `strtok` make of that line, and a crash was on a line of which they make
  no word) and `Opened` (which streams the child may have after its redirection, and what
  is in the file by then). The rest of the proof is about lines, below.

In `MCChannels` and `MCDemos` the invariant is one implication for each program, and
a step is a step of the chosen program while the others stand still (`NextInv`).

**What a scan of a line finds.** `ShellProofs` proves for every line that `strtok` finds
the maximal runs without blanks, each once and in order (`StrtokFindsTheWords`), and
that `CheckRedir` goes by the last operator (`CheckRedirTakesTheLast`). Both are
inductions over recursive functions, for which the library's theorems want an operator
as a parameter. Here a set stands for the predicate: `UpTo` says that a set with 0 in it,
and with `i` whenever `i - 1` is in it, has all numbers up to the length in it, because a
least one outside (`Least`, from the well-foundedness of `<` on `Nat`) would have a
predecessor inside. The same argument gives the existence of the recursive functions
(`ScanExists`, `FoundExists`), without which their defining equations could not be used.
`RunsWritten` then compares `Parsed` with what the line means: for a line with one
operator the last operator is where `Behind` begins and `Before` ends.

**Covered sleepers.** `ConsumersAreCovered`, `ProducersAreCovered` and
`WorkersAreCovered` are proved by counting: each step moves at most one thread in
or out of the groups that are counted, together with one item. From the first two
`SomebodyAwake` follows: if all threads slept, the queue would be full and hold at
most `Capacity \div 2 - 1` items.

**Refinement.** `Implementation` in `BlockQueueProofs`, `RingQueueProofs` and
`ThreadPoolProofs` proves `Spec => ImplementsFifo`: the initial states map to
initial states and every step maps to one step of `BoundedFifo` or to none. For
the ring the index arithmetic is first freed of the remainder (`Remainder`,
`PlaceOf`), after which a store appends (`StoreAppends`) and a load takes the head
(`LoadTakesHead`). `Implementation` in `TcpServerProofs` proves `Spec =>
ImplementsEcho`: the three stages of a client's stream are put together, a `read` or
a `write` only moves the border between two of them (`ReadKeeps`, `Together`), and a
`recv` takes from the front of the whole (`TakenFromFront`). What another client's
worker does leaves the stream alone (`CarriersMove`, `InFlightStays`).
`Implementation` in `UdpChatProofs` proves `Spec => ImplementsRoom`: a send is a
`Say`, a delivery to a member, repeated or not, is a `Show` (`DisplayIsRoomStep`),
and the server and every other step of the network go unnoticed.

**Only model-checked.** The liveness properties (`ItemsFlow`, `TasksRun`,
`CallsReturn`, `Answered`, `Heard`, `NobodyLeftBehind`, `QuitEnds`, `ReadyAgain`,
`AllComeToAnEnd`), since the prover handles neither fairness nor `ENABLED`; absence
of deadlock beyond `SomebodyAwake`; and the violations of `AllJoined` and
`FifoRemoved`. `PointerIsStable`, `SomebodyAwake` and the two theorems about a line are proved
only; the runs check what follows from them or what they follow from.

## 6. Findings

`cond_control`: the comments at `0113/demo/mycond.cc:125-129` say that the last
broadcast makes all threads leave and that the join messages then appear. A thread
that has read `quit` as false at line 31 before `main` sets it, and that starts to
wait at line 40 after `main` has broadcast at line 127, is not woken by anything:
`main` stays in `pthread_join`. The sleeps of the original make this rare, not
impossible. Testing `quit` again under the mutex, and setting it under the mutex,
would close the gap.

`shm_exit`: the comment at `1201/shm_pipe/shmServer.cc:6-8` says that the destructor
of `init` removes the fifo when the program ends. When the client is ended by
anything but `quit`, the read in `Wait()` returns 0, the assertion at `comm.hpp:58`
fails, and `abort()` runs no destructor: the fifo and the segment stay. The next
start of the server then fails on the assertion of `mkfifo`.

What the models show besides, where the repository says nothing to the contrary:

* A line without a first word (empty, blank, or beginning with an operator) ends the
  mini shell: `strtok` returns NULL and `strcmp` follows it (`myshell.c:132`). So does
  a line of exactly `NUM - 1` characters: `fgets` cuts it, line 109 drops its last
  character in place of the newline, and the newline that is left is the next line.
* At the end of its input the shell prompts for ever.
* Of several redirections in a line only the last counts, and the others are words.
* Without the lock the ticket counter is not just off by the number of threads: late
  stores by turns raise and lower it, and with `t` tickets three threads can sell
  down to number `-t`.
* Both alternating printers may print `n` itself, which is not below `n`.
* A second start of the fifo server fails, since the `unlink` is compiled out.
* A client of the shared memory that outlives its server writes to a segment that
  nobody reads, while the next server works in a new one.

## 7. Not modelled, and what is left to do

Straight-line demonstrations of one call stay out: redirection (`1010/`, `1012/`,
`1019/`), exec, libraries, thread calls, the other fork and signal programs. They
keep no state that anything else depends on. Logging is formatting and output.

Inside the modelled components these are left out: buffer lengths and what lies
behind a buffer (`g_argv` past 31 words, `MyFILE` past 1024 bytes, the byte past
`recvfrom`'s buffer); failing and partial writes to files; signals that stop a
process; a command of the shell that reads from the terminal.

Every invariant, action property and refinement that a passing run checks is proved.
What is left: in `ShmPoll`, which line the server may see; and an abstract channel
that `PipeDemo` and `ShmPipe` both implement.
