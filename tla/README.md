# TLA+ models of C_Programming_Language

The repository is a collection of independent C programs: data structures,
simulators, threaded programs and network servers. It has no common main
program and hardly any documentation, so every model here is read from the
code. This directory holds the models, the TLC configurations that check them,
and the theorems proved about them with TLAPS.

Run `tlc -config X.cfg MCY.tla` for a configuration and `tlapm M_proofs.tla`
for the proofs. `PROJECT.json` lists runs, hazards, theorems, and for each
definition the lines of source it stands for.

## 1. The system

| part | source (under `src/`) | state | hard behaviour |
|---|---|---|---|
| fine-grained locking queue | `ThreadedDataStructures/ThreadedQueue.c:21-153` | linked list with a dummy, per-node mutexes, `head_lock`, `tail_lock`, atomic `size` | many producers and consumers, two locks that guard the same node's fields, free of a node another thread may still point to |
| its test program | same file, `:155-278` | counters of produced and consumed items, threads, heap integers | termination by two counters read one after the other, an assertion on an approximate size |
| thread-pool HTTP server | `network_programming/ThreadPool/server.c` | ring of sockets under a mutex and two semaphores, four workers, descriptors | blocking on full and empty ring, descriptor reuse, silent or vanished clients |
| file server and client | `network_programming/concurrentFileServerClient` | `conn_sem`, a malloc'ed cell per connection, detached threads | slots must survive five failure paths, ownership of cell and descriptor passes between threads |
| HTTPS server and client | `network_programming/secureHttpServerAndClient` | `conn_sem`, an SSL object per connection, detached threads | handshake in the accept loop, ignored `thrd_create`, descriptors never closed |
| UDP echo server and client | `network_programming/UDP` | `conn_sem`, a copy of each datagram, detached threads | loss, duplication, reordering; a shared receive buffer |
| fork servers, upload | `network_programming/{Echo,DaytimeProject,UploadFile}` | processes, byte streams | short reads, children that do not exit, a server that fails under its client, signed results in unsigned variables |
| page-replacement simulator | `MemoryManagement/*.c` (twice the same program) | page tables, frames, LRU times | the page tables and the frame table must stay inverse of each other |
| LRU heap | `MemoryManagementSystem.c` | heap of pointers with back indices | heap order and back indices through every sift |
| graph traversals | `DataStructures/{BFS,DFS}` | adjacency lists, marks, an array queue or stack | graphs with cycles, an array whose bound only the marks keep |
| lists and queues | `DataStructures/{DoublyLinkedListDequ,queueandstack}.c`, `LinkedList`, `Queue` | linked nodes | legal sequences of calls that reach a null, a stale or an unset pointer; nodes allocated too small |
| trees, trie | `DataStructures/{AVL_tree.c,BinaryTree,Trie}` | linked nodes with heights or marks | a rotation that depends on heights set long before; keys with two children |
| word counter | `Hash/FrequencyCounter` | a table of chains, a file buffer | the end of the file, signed characters as an index |
| algorithms, automata, scanners | `Algorithms`, `DataStructures/String_Algorithms`, `Automata`, `Flex` | an index, a state, counters | boundaries, unset results, counters that are not reset |
| student database client | `MYSQL/StudenDatabase` | what it holds of the client library | calls that fail and are not looked at, others that change the tables |
| stacks alone, clock, thread exercises, small programs | the remaining files | little | see "Not modelled" |

How parts interact: inside one program only, by shared memory under locks and
semaphores, by sockets between a server and its client, and by heap objects
whose ownership passes from one thread to another. `Kernel.tla` is the one
model several servers share: the descriptors of the process, the listen queue
and the two ends of each TCP connection.

## 2. Modules

| module | models | extends / instantiates |
|---|---|---|
| `FifoQueue` | abstract: a linearizable FIFO queue; a call is invoked, takes effect once, returns | |
| `FGQueue` | the queue of `ThreadedQueue.c` | `Fifo == INSTANCE FifoQueue` |
| `FGQueue_proofs` | theorems about `FGQueue` and its test program | `FGQueueTest`, `FifoQueue` |
| `FGQueueTest` | the test program of `ThreadedQueue.c` on top of the queue | `FGQueue` |
| `TaskQueue` | ring and semaphores of `ThreadPool/server.c` | `Fifo == INSTANCE FifoQueue` |
| `Kernel` | external: descriptors, listen queue, TCP connections, clients | |
| `Kernel_proofs` | what every call of `Kernel` preserves, for the proofs of the three TCP servers | `Kernel` |
| `ThreadPool` | accept loop, workers and `handle_client` of `ThreadPool/server.c` | `TaskQueue`, `INSTANCE Kernel` |
| `ThreadPool_proofs` | theorems about the task queue, and by them about the server | `ThreadPool`, `K == INSTANCE Kernel_proofs` |
| `FileServer` | `concurrentFileServerClient/server.c` and `client.c` | `INSTANCE Kernel` |
| `HttpsServer` | `secureHttpServerAndClient/server.c` and `client.c` | `INSTANCE Kernel` |
| `FileServer_proofs`, `HttpsServer_proofs` | theorems about each | the server, `K == INSTANCE Kernel_proofs` |
| `UdpEcho` | `UDP/echo_server.c`, `client.c` and the network | |
| `UdpEcho_proofs` | theorems about them | `UdpEcho` |
| `LruPolicy` | abstract: a memory of bounded size, least recently used first out | |
| `PageLRU` | `AlgorithmForLRU_Page_Replacement_Simulator.c` | `Lru == INSTANCE LruPolicy` |
| `HeapLRU` | `MemoryManagementSystem.c` | |
| `AdjLists`, `BreadthFirst`, `DepthFirst` | the graph of both `main.c`, and each traversal | `AdjLists` |
| `DequeSpec` | abstract: a sequence, with one action for each thing a call may do to it | |
| `LinkedLists` | `DoublyLinkedListDequ.c` and `LinkedList/DQ.c` | `Abs == INSTANCE DequeSpec` |
| `LinkedQueue` | `Queue/Queue.c` and `queueandstack.c` | |
| `Trees`, `Trie` | `AVL_tree.c`, `BinaryTree/BInaryTree.c`; `Trie/main.c` | |
| `BubbleSort` | `LinkedList/BubbleSort.c` | |
| `FrequencyCounter` | `Hash/FrequencyCounter/main.c` | |
| `Algorithms` | `String_Algorithms/LPS.c` and `Algorithms/D&C/max_sub.c` | |
| `Automata`, `Scanners` | the three automata; `second.flex` | |
| `OneThread` | all of these, with both simulators: `StructuresInv`, `StructureSteps`, `AlgorithmsInv` | the thirteen modules |
| `Structures_proofs` | theorems about the search trees, the lists, the trie, the linked queue and the word counter | `OneThread` |
| `Programs_proofs` | theorems about the other programs with one thread, and about the small servers | `OneThread`, `MCSmallServers` |
| `MCPrograms` | one run for the programs with one thread: each behaviour is one of them | `OneThread` |
| `ForkServers` | `Echo` and `DaytimeProject`, servers and clients | |
| `Upload` | `UploadFile/server.c` and `client.c` | |
| `StudentDatabase` | `main` of `MYSQL/StudenDatabase` | |
| `MCSmallServers` | one run for these three, in the same way | all three |
| other `MC*` | model values (and symmetry) for TLC | the module they are named after |

### How state and actions correspond to the code

Every program variable that two threads share, and every local that lives across
a step, is a variable of the model with the program's name where TLA+ allows it.
A step is what other threads can see: one access to shared memory, one lock
operation, one system call. Steps that touch only a thread's own data are merged
with the next visible one. `pc`, `task` and `main` hold a thread's place in its
function. Definitions marked *Mutant* are not part of a model: they
are plausible bugs (a dropped wait, a forgotten close) that each property
was seen to catch.

**`FGQueue`.** `value`, `next`, `lock` are the fields of the nodes, `live` the set
of nodes malloc has given out and free has not taken back. `chain` is a history
variable, the nodes from `head` on in link order. `next` and `tail` are plain
fields written under `tail_lock` (:96, :97) while a dequeuer reads `next` under
other locks (:116), so the compiler may exchange the two stores:
`EnqLinkFirst; EnqSwing` and `EnqSwingFirst; EnqLinkLate` are both behaviours. A
load sees the last store (x86-like coherence of one word). `size` is a
`size_t`, kept modulo `SizeMod`. malloc of a node fails when no node is left
and ends the process by abort (:84). Initialising a plain mutex cannot fail.

**`TaskQueue`.** `sem_wait` is a guarded decrement, `sem_post` an increment; no
handler is installed, so `sem_wait` is never interrupted. The mutex calls, the
store into the ring and the advance of index and count are separate steps: only
the mutex keeps them together.

**Servers.** `Kernel` gives out the lowest free descriptor number, as POSIX
prescribes, so numbers are reused as soon as they are closed. `peer` is the
client's end: `closed` after an orderly close, `reset` when the connection was
reset. A write to a reset connection either fails or raises SIGPIPE; no server
handles SIGPIPE, so `status` becomes `killed`. `accept` fails at once when no descriptor is left, and
at any time for other reasons. A client in `Stuck` may stop
at any point (never ask, never read). What a client asks is one of three kinds:
no request line, a file that is missing, a file that exists; a file is `Chunks` blocks.
One request arrives in one read, as it does over the loopback interface for the
sizes the clients send. Logging and the formatting of responses are left out.

**Simulators.** `PageLRU` has one step per access; which process and page is
accessed is free, as `rand()` chooses it. `current_time` counts the accesses of
`simulate_accesses`. The modified bit is left out: it only selects a message.
`HeapLRU` has one step per turn of a loop, so that its invariants speak of the
heap in the middle of a sift: `at` is the function that runs, `index` its
argument. The pointers of the heap are the numbers of the blocks, which never
move. The first times, `rand() % 1000`, are any of `InitTimes`.

**Programs with one thread.** What varies is the input or the order of calls, so an
action is a call, or a turn of a loop where the middle of the loop is what can go
wrong (`reverse_list`, the traversals, the sort, `compute_lps`, the reading of a
file). Nodes are model values that malloc may give out again once they are
freed. `create_node` of `DQ.c` asks malloc for `sizeof(int)` bytes (:127) and stores a whole
node: `New` stores behind the block, over any link, unless `Usable` has rounded the request up
to a node. That it does is an assumption about malloc (`ListAssumption`), true of
glibc, whose least block has 24 bytes for the 16 of a node; without it every insertion
of that file is undefined, and the run with `UsableExact` shows a list broken by one call. A step through a null pointer sets the status `segv` and ends the program,
a read of a field that was never set may give anything (`WILD` in `LinkedQueue`,
any state or none in `Automata`). `max_sub` is a function of the pair of its
bounds; `max_three`, which it needs, is declared (:7) and called (:34) and defined
nowhere in the repository, so that the file compiles and does not link: the model takes it to
give the greatest of its arguments. Trees are values, and an operation of theirs is
a function from tree to tree, as the code's recursion returns the new root: a recursive
function on `TreeSet`, the trees of at most `MaxLevels` levels. A
node of the trie is the prefix that leads to it. Strings are sequences of small
numbers; characters keep their sign, since the hash depends on it.

**Small servers.** The parent of a fork server and its child share descriptors
as sets of who has them open: a connection ends for the client only when both have
closed it. A message of the client is the whole buffer, of which `recv` may return
a part. `Upload` counts the bytes of a stream that may be cut anywhere; it runs in two
directories or in one, where the server truncates the very file the client reads. Where accept
fails, or the assertion on its file, the server is gone (`UploadFails`): the client is refused, or writes
to nobody without looking at the result, until its file or a SIGPIPE ends it.
`StudentDatabase` has one action per call of the client library; each may fail,
and other clients change the table between any two of them.

`ThreadPool/server.c` does not compile as committed (`#incldue` on line 12); the
model is of the program with that word corrected.

## 3. Runs

The longest run (`FileServer`) takes about two minutes with two workers. The runs that check
liveness use no symmetry; the two that check the queues alone do.

| run | instance | shows |
|---|---|---|
| `FGQueue` | 3 threads, 2 values, 4 nodes | `NoUseAfterFree`, `NodeLocksUncontended`, `NoLeak`, `SizeAccounting`, the inductive `IInv`, `Linearizable` |
| `FGQueue_NextReadSafely` | same | violated: the read of `next` on :116 races with the store on :96 |
| `FGQueue_SizeSlightlyOff` | same | violated: `size` wraps below zero |
| `FGQueueTest` | 1 producer of 2 items, 2 consumers, 3 nodes | `OwnershipInv` of heap integers, `ExitOnlyWhenDrained`, `JoinsLeaveNothing` (the assertion on :273, and only the dummy node at destroy), `Termination` |
| `TaskQueue` | 2 putters, 3 getters, 3 slots | `NoOverrun`, `WaitsOnlyForCause`, the inductive `QueueInv`, `QueueLinearizable` |
| `ThreadPool` | 2 workers, ring of 1 slot, 3 clients of which one never asks, 3 descriptors | `DescriptorInv`, `RightAnswer`, `EveryClientServed` |
| `FileServer` | 2 slots, 3 clients of which one may stop anywhere, 3 descriptors, files of 2 blocks | `SlotInv` with the bound on simultaneous clients, `DescriptorOwnership`, `RightAnswer` (a whole answer at the close, none only where no handler could be started), `EveryClientServed` unless malloc or accept fails for ever |
| `HttpsServer` | 2 slots, 3 clients of which one may stop anywhere, 3 descriptors | `SlotInv` with lost slots, `RightAnswer`, `OneHandler`, `EveryClientServed`: who is accepted is served, and what it takes not to be accepted |
| `HttpsServer_limit` | 1 slot, 3 clients | violated: `LimitConcurrentClients` |
| `UdpEcho` | 2 slots, 2 clients that send twice, 1 duplication | `SlotInv`, `EchoesInOrder`, `ClientFinishes` |
| `programs`: simulators | 3 frames, 2 processes of 2 pages, 8 accesses; 6 blocks, 3 ticks, first times 0, 2, 9 | `PageInv`, `LeastRecentlyUsed` (refinement), `HeapInv` |
| traversals | every graph of 4 vertices and at most 4 edges, directed or not | `BfsInv`, `DfsInv`: exactly the reachable vertices, once, within the array; `NearestFirst` |
| structures | trees of 7 keys, lists of 3 nodes and 3 values, queues of 3 nodes, 7 words, files of two lines | `StructuresInv`: the trees' order, balance and heights, what lookup finds, links and sizes, words found, counts; `StructureSteps`: what each call may do to the keys of a tree; each call of a list is the action of `DequeSpec` it is named for (`EachCall`) |
| algorithms | lists and arrays of 5, patterns of 6 characters, inputs of 5, one or two (`MaxFiles`) files of 3 characters, of which one may not open | `AlgorithmsInv`: the sort, the borders of the pattern, the best sum, what a state says of the input, the totals |
| all of them | | `Finishes`: each comes to its end, and every call of `reverse_list` to its own |
| `small_servers` | 2 clients, 3 messages, 1 failure; uploads of 0 to 5 bytes with a buffer of 2; 3 students, 2 errors, 2 changes by others | `ServersInv`: one child at a time, one answer each, no byte lost, nothing held; `ServersEnd`: nobody waits for ever, and both ends of an upload end |

What the runs show of programs that are wrong on some calls, the properties say
with the condition under which they are right: `LinkedQueue` is a queue as long as
its last node has not been taken; `BInaryTree.c`'s deletion loses the right subtree;
an AVL deletion of a node with two children takes its key away and leaves the successor's twice;
later deletions of that key meet the first of the two (`Ascending` allows equal neighbours); `example3.c`
recognises `aab` in inputs of its alphabet.

### Why the bounds are enough

- Queue: three threads are one more than the largest number of actors in any
  race of the code (one enqueuer in its critical section, one dequeuer in its own,
  one waiting for a lock). Four nodes let the list hold three items, let a freed
  node be given out again while an old pointer to it could exist, and let malloc fail. What
  the run shows for these bounds the proofs show for all.
- Task queue: three slots and five threads make the ring wrap, fill, empty, and
  make both semaphores block with threads on either side of the mutex.
- Servers: with as many clients as descriptors, numbers are reused, and they run
  out; with one client more than slots, the accept loop blocks.
- The HTTPS server's handlers close no descriptor: three of them run out for good after three
  connections, or after two while a file is open. Handlers are alike, so `Spawn` takes one
  and the same of those that are free (a `CHOOSE`).
- What each client may ask is fixed in the MC modules (`MCWants`) so that between
  the three of them they take every path of the handler.
- Test program: two consumers race for the last item and leave by different
  tests; several enqueuers at once are in the run of the queue itself.
- UDP: two rounds let an echo of the first arrive in the second; one datagram
  may be delivered twice.
- A reader that stops in the middle of an answer is in the `FileServer` run; in the
  `ThreadPool` run the stuck client never asks.
- Traversals: with four vertices and four edges there are cycles, self-loops,
  multiple edges and vertices out of reach. The proofs need no bound.
- Structures: seven keys make an AVL tree of four levels with all four kinds of
  rotation and deletions that rotate; seven levels are more than these AVL trees have,
  and the other tree's insertions, of seven different keys, never need more; three nodes with three values are a
  list whose ends and middle can be told apart, and in the middle of `reverse_list` one node each
  is turned, in hand and left.
- Algorithms: a pattern of six over three letters falls back twice in a row; arrays of
  five have halves that are empty, of one and of two.
- Small servers: two clients make one wait for the other; 5 bytes are two full
  buffers and a part; with two errors a listing and the deletion may both fail.
- Simulators: more pages than frames, and accesses enough for several
  replacements; six blocks are three levels with a parent of one child, and the first
  times lie before, among and after the ticks, so blocks sink and rise. The
  proofs need no bound.

`CHECK_DEADLOCK FALSE` is set where the program may rest: servers waiting for
clients that have all gone. The task-queue and queue runs check for deadlock.

### Fairness

Weak fairness for each thread: the scheduler runs a thread that stays runnable.
No fairness of mutexes or semaphores is assumed: the programs are finite (the
test program) or every client connects once, so nobody can overtake for ever.
Clients outside `Stuck` send what their user has typed. Nothing is assumed
about `malloc`, `thrd_create` or the network except where a property names it:
`EveryClientServed` of the file server excludes a malloc that fails for ever and
an accept that fails for ever with descriptors to spare, `ClientFinishes` excludes a
lost datagram. `EveryClientServed` of the HTTPS server has two parts. A client that was accepted, and is not
itself stuck, is served without any condition on the others, unless `thrd_create` failed
for it (`orphans`). A client in the listen queue is accepted, unless for ever accept fails with
descriptors to spare, or no descriptor is free, or no slot is (each is lost or held by the handler of a
stuck client, `SlotsGone`), or main waits for a stuck client's handshake: each of these must last, so that a
momentary shortage or one lost slot excuses nobody.

The one program of a behaviour of `programs` goes on while it can; where a step is
a call of a structure or a character that is typed, only a call that has begun is
fair (`GoesOn`). In `small_servers` each process goes on while it can, and a user
sends or leaves in the end: the fork servers serve one client at a time, and
without that nothing could be said of the next. `UploadEnds` excepts the file that the
server has truncated under the client, which is sent for ever. A server that fails needs no
exception: its client ends too.

## 4. Proofs

All theorems hold for every value of the constants that the named assumptions of
their modules allow. Those assumptions are: threads are finitely many; `NULL`, the
mark of an open file and the pointers, clients and texts are told apart; sizes that
the code fixes to a positive number are positive; clients ask for what a client can
ask for; the words of a text, the files of a scanner and the values of an array
are of the kind the program reads. Four say more. The servers with detached threads assume at least as many
handler identities as slots, which is no assumption about the code: a handler's
identity is used again when it ends. The test program assumes a consumer
(`CONSUMERS` is 4): without one nobody empties the queue and the assertion on :273
would be wrong. `max_sub` assumes that the sums of neighbours in
the array fit an `int` (`ArrayAssumption`): where they do not, an addition on :24, :30 or :34
overflows, which C leaves undefined. The lists assume
that the least block of malloc holds a node (`ListAssumption`, see section 2): `ListsHold`,
`ListsImplementDeque` and what follows from them hold of `DQ.c` under it only.

### The fine-grained queue (`FGQueue_proofs.tla`)

- `Invariance`: `Spec => []IInv`. `NoUseAfterFree` is not inductive: that a node a
  thread touches is live depends on where `head` and `tail` are in the chain and on
  which lock protects the thread's view of it. `IInv` adds: the chain starts at `head`, has no
  repetition and follows `next` except for the one link a lagging store may not yet have
  written (`ChainInv`); each lock is held by the thread in its section
  (`LockInv`, `NodeLockInv`); `tail` is the last node or, between the two stores,
  the one before it (`TailInv`); what an enqueuer and a dequeuer may assume at each step
  (`EnqInv`, `DeqInv`). One lemma per action and conjunct.
- `Typing`, `Safety`, `NodeLocks`: `TypeOK`, `NoUseAfterFree`, `NodeLocksUncontended` follow.
- `NothingLeaks`: `Spec => []NoLeak`. The induction is about nodes and not about
  reachability (`LiveInv`, `Accounted`): a live node is in the chain, or unlinked and some
  enqueuer's, or retired and some dequeuer's. That the nodes of the chain are exactly those the loop of
  `fgq_destroy` meets (`FromHeadIsChain`) is a minimal counterexample along the chain.
- `Counting`: `Spec => []SizeAccounting`. Each thread owes the counter +1, -1 or 0
  (`Owes`); one step moves one thread, so the balance of length and debts moves by
  the difference of its own (`BalanceMoves`), and `ModNext` carries that through
  the wrap of `size_t`.
- `Linearizability`: `Spec => Linearizable`, step by step under the refinement
  mapping (`Contents`, `Op`), using `IInv`. An enqueue takes effect when its link becomes
  visible, a dequeue when `head` moves, an empty dequeue when it reads a null `next`.

### Its test program (`FGQueue_proofs.tla`, second half)

The queue enters these proofs only as the FIFO queue it was shown to implement: a
step inside a call is an `Enqueue`, a `Dequeue`, a `DequeueEmpty`, a `Return` or a
stutter of `FifoQueue`, and `CallOwners` says what each does to the owners of the
payload blocks. `TestInv` adds to the queue's invariants

- `Stages`: a thread is inside a call only at the place of its own loop that makes it;
- `Owners`: `heap` is the disjoint union of what is queued and of what each thread has in
  its hand, and nothing is queued twice. `ExclusiveOwnership` alone would be inductive here,
  once `Hand` is written as a function of the abstract call;
- `Ledger`: blocks allocated, plus blocks freed by a consumer that has yet to count, plus
  blocks counted, are the items begun; the items a producer has counted are
  `produced_total`. Items are pairs of a producer and a number, so both
  sides are cardinalities of sets of which one element is added at a time (`OneMore`);
- `Leaving`: an exited consumer has seen all items counted, and whom main has joined.

`Ownership` follows from `Owners`. `Drained`: when `consumed_total` is `Total`, the
ledger leaves 0 for the heap and `Total` for the items begun, which are therefore all
items, although a producer may still be on its way out of its last call. `Joined`: after the joins
all threads are idle, so nobody owes the counter anything, and the heap is empty, so
the chain is the dummy alone and `size` is 0 and not only approximately.

### Task queue and thread pool (`ThreadPool_proofs.tla`)

- `QueueInvariance`: `QueueSpec => []QueueInv`, for every `MAX_QUEUE`, with the accounting of both semaphores
  by cardinalities of the sets of threads between two semaphore operations, and
  `rear = (front + count) % MAX_QUEUE`. `Overrun`, `Waits`, `Linearizability` follow from it.
  These four use nothing of the server: `TaskQueueAssumption` is their only assumption.
- `UsesQueue`: `PoolSpec => QueueSpec`: main and the workers call the queue as its
  specification allows, so that `Overrun`, `Waits` and `Linearizability` are theorems of
  the server (the last one is stated for it).
- `Descriptors`: `PoolSpec => []DescriptorInv`. That no descriptor leaks and none is
  closed twice is not inductive: it needs that each open connection is in exactly one
  place, with a thread that carries it (`HandsHold`) or in the ring between `front` and
  `rear` (`RingHolds`, `InRing`); that a descriptor is handed over whole by `store` and
  `take`; and that a file is open in one worker only (`FilesOpen`).
- `Answering`: `PoolSpec => []RightAnswer`. What a connection has been sent is a prefix of
  the answer to its own request that fits the worker's place (`Progress`); a connection in
  the ring is `Fresh`, since nobody has written to it; and no other thread writes to it, by `Descriptors`.

### File server and HTTPS server (`Kernel_proofs.tla`, `FileServer_proofs.tla`, `HttpsServer_proofs.tla`)

`Kernel_proofs` proves once, for every server, that each call keeps `Typed` and
`ConnectionInv`: a connection has one descriptor, or one place in the listen
queue and no answer, or neither. Each server proof begins with `IsKernelStep`: a step
makes one such call at most, with arguments for which it is right.

- `Slots`: `SlotInv` of both. The semaphore and the slots in use are as many as
  `MAX_CONNECTIONS`, on every failure path: a slot is main's, or a live handler's, or, for
  HTTPS, lost with an orphaned connection after an unchecked `thrd_create`. The sets of
  threads change by one element per step, so the sum is kept.
- `Descriptors` (file server): `DescriptorOwnership` is not inductive by itself: between
  `accept` and the handler's first step the number is in a malloc'ed cell, and the cell
  belongs to main or to a handler that has not read it (`MainHolds`, `HandlersHold`,
  `HeldBySomeone`, `FilesOpen`).
- `Handling` (HTTPS): no connection has two handlers, and none has a handler after it was
  orphaned.
- `Answering`: `RightAnswer` of both. A handler's place says how much of the answer has been
  written (`Progress`), and what was written stays right when the handler lets go, because the descriptor
  number that is used again belongs to another connection. The file server's property is about the
  step that closes a connection (`Closing`): it is `CloseClient`, by a handler that has read a
  request and written all of an answer to it or met a reset, or it is `SpawnFails` and nothing was
  written; no other step ends a connection, and none writes behind its end. For HTTPS the end of an answer is the
  `close_notify`, and what a client was told before it vanished is a beginning of it
  (`Told`, `Handled`).

### UDP echo (`UdpEcho_proofs.tla`)

Bags enter only by the number of copies of a datagram (`AddedCopy`, `RemovedCopy`).

- `Slots`: `Spec => []SlotInv`, as for the TCP servers. It needs that a client in
  `recvfrom` has a round left (`WaitersInLoop`), without which its counter leaves its domain.
- `InOrder`: `Spec => []EchoesInOrder`. The first half, `EchoAccounting`, is inductive with
  `HandsHold` (what main and a sending handler hold is a datagram). The second,
  `NoEchoBeforeRequest`, is not: a client that counts an echo lowers nothing that the property
  mentions. `Tokens` counts what can still become an echo, per datagram: copies on the way
  to the server, with it, on the way back or lost. A client's counter plus its tokens is at most the
  rounds it has sent plus the duplications (`TokensCounted`): sending makes a token,
  duplicating makes one and is counted, receiving takes one, and every other step moves one
  (`TokensFlow`). A round that was sent has a token left unless it was echoed
  (`NoRoundForgotten`), so the rounds sent are at most the datagrams echoed plus the tokens, and
  the tokens cancel (`RoundsCovered`). The tokens of a client are a set of pairs of a round
  and a number, so their sum is a cardinality that one element changes (`OneMore`, `OneLess`).

### Programs with one thread (`Programs_proofs.tla`)

Page replacement, for all numbers of frames, pages, processes and accesses:

- `PageInvariance`: `PageSpec => []PageInv`. That what is in memory was used last
  (`MostRecent`) is not inductive: it needs that the two tables are inverse and hold
  the same times (`TablesInverse`), so that the frame with the least time is
  the page used earliest, and that times differ (`TimesDiffer`), so that there is only one.
- `LruImplemented`: `PageSpec => LeastRecentlyUsed`. Resident pages and used frames
  are as many (a bijection, `FS_Bijection`), so a free frame exists exactly when the
  abstract memory has room; the victim is `Oldest` by `TablesInverse`.

The heap, for all numbers of blocks and ticks and all first times:

- `HeapInvariance`: `HeapSpec => []HeapInv`. In the middle of a sift one block is
  out of place; `DownInv` and `UpInv` say that it is the only one and that its
  parent comes before the slots under it, `BuildInv` that the slots from `root + 1`
  on are in order. `SwapEffect` is the one lemma about heap and back indices.
- `Least`: `HeapSpec => []RootIsLeast` (a consequence that no run needs to check). A least slot with a smaller time than the
  root would have a parent with one (`WFMin`).

The traversals, for all graphs and starts:

- `BfsVisits`: `BfsSpec => []BfsInv`. That the array is never overrun needs that
  the queue has no repetition, and that needs that what was inserted is marked; that
  all that can be reached is visited at the end needs that a marked vertex is in the queue,
  being scanned or has only marked successors. A sequence without repetition in
  a set is no longer than the set (`FS_Injection`).
- `BfsNearest`: `BfsSpec => []NearestFirst`. Each vertex of the queue but the first was
  found in the list of one that has been, or is being, looked at (`Parents`). What is
  found last is farthest if the head is nearest of all that is still to be looked at
  (`HeadNearest`): take the least `n` for which something within `n` edges is still to
  be looked at and the head is not within `n`; its predecessor on a shortest path has been looked
  at, so it stands in the queue behind the head, against the order so far.
- `DfsVisits`: `DfsSpec => []DfsInv`. The stack is a path of distinct marked vertices;
  every marked vertex off the stack has only marked successors.

The algorithms, the five conjuncts of `AlgorithmsInv`, which `AlgorithmsHold` states together:

- `ListSorted`: `SortSpec => []SortInv`, for lists of any length. `SortIInv` adds where the
  loops stand. An exchange is a permutation of the places, its own inverse, so each value is
  held as often as before (`AtLeastAsMany`, used in both directions by `ExchangeKeeps`).
- `LongestBorders`: `LpsSpec => []LpsInv`, for any pattern. `len` must be a border of what
  precedes `ind`, above which none goes on. `BorderOfBorder` (the borders of a border are the
  shorter borders) is why falling back to `lps[len - 1]` skips none, `LongerBorder`
  (a border of one character more is one that goes on) why a match extends the longest.
- `BestFound`: `MaxSubSpec => []MaxSubInv`. The function that the recursion describes exists,
  is the only one, and gives for each pair of bounds the best sum between them. It is an
  argument by the least length of an interval for which it fails (`LeastNumber`, from
  the well-founded order of the numbers). The step is that neighbours lie before the middle, or
  behind it, or end at it, begin next to it or cross it (`Middle`).
- `StatesTell`: `AutSpec => []AutomataInv`. `AutIInv` says the same as the property
  with what the next character needs: for `example3`, whether the input ends in `a` or in `aa`.
  A turn through the tests in their order is computed test by test (`TurnIs`).
- `TotalsSum`: `ScanSpec => []ScanInv`, for any files, empty ones too. `ScanIInv`: what is
  left of a file that could be opened is its end from a place that is never in the middle of a word, and
  the counters are those of the files before and of the part read (`PartWord`, `PartOne`).

### Structures (`Structures_proofs.tla`)

The five conjuncts of `StructuresInv`, which `StructuresHold` states together, and the two
of `StructureSteps` (`StructuresStep`): what a call does to the keys of a tree, and the
refinement of the lists. A list is not described by following its links, which
the prover could not unfold: the invariant asserts a sequence of nodes whose
neighbours are linked (`IsChain`), and the lemmas say how the sequence changes when a
node is put or taken at an end. That the walk along the links gives that sequence
(`ChainAlong`) is proved once.

- `WordsFound`: `TrieSpec => []TrieInv`. The nodes are the beginnings of the words inserted,
  the leaves exactly those words (`TrieIInv`).
- `QueueHolds`: `QueueSpec => []QueueInv`, of both linked queues. Beyond the line of nodes,
  `QueueIInv` needs for `Queue.c` that with a front that was never set the rear is outside
  the memory in use.
- `ListsHold`: `ListSpec => []ListInv`. `ListIInv`: the nodes form one chain without repetition,
  and the links back of the deque its reverse; inside `reverse_list` they form two chains
  without a common node, what is turned and what is not.
- `ListsImplementDeque`: `ListSpec => ListsAreDeques`, the refinement and, by name, what each
  call does to the values in the order of the chain (`Items`). One lemma per call says how chain and
  values change (`Appends`, `Prepends`, `DropsFirst`, `DropsLast`); a turn of
  `reverse_list`, which moves a node from one chain to the other, does not change the values
  (`ReverseTurned`), and its return has reversed them. `ListCalls` states them
  together, and `ListStep` that every step is one of them or a stutter.
- `WordsCounted`: `CounterSpec => []CounterInv`. `Counted` is the table, as the property has it;
  `HasRead` relates the words inserted to the lines read so far, and `Buffered` says what the
  buffer holds, without which the word counted once more at the end of the file could not be named.
  The hash is an index of the table for characters of either sign (`HashIs`).

- `TreesHold`: `TreeSpec => []TreeInv`, and `TreesStep`: `TreeSpec => TreeSteps`, for any keys
  that are integers and any bounds. Trees are recursive records: `TreesUpto` gives the trees of
  so many levels, each level from the one before, and `TreeClimb` is the induction over
  them: a set of trees with `Leaf`, and with a node whenever it has both its subtrees, has all of
  them. It yields that each recursive function exists and obeys its equation (`AvlInsertIs`,
  `BstDeleteIs`, ...), since an equation alone does not define it for the prover. `TreeIInv`: the AVL tree
  is balanced and its keys ascend, those of the other tree strictly, while it is there at all.
  The order is that of the sequence `inorder`, and a node's is its left one, its key and its
  right one (`Around`), so an operation on a subtree changes a part of a sequence. A rotation
  hangs the same nodes and subtrees differently and in the same order (`RotatedIs`); where one subtree has become two
  levels higher than the other, the rotation chosen puts right balance and heights
  (`LeftHigh`, `RightHigh`), whether insert chooses by the key inserted or
  delete by the balance below (`InsertBalancedIs`, `DeleteBalancedIs`: for insert this needs that the grown
  subtree leans to the side where the key went, and its height by one at most). `LookupFinds` needs the order only.
  `MarksAssumption`, that the marks for no tree and for a
  fault are not themselves trees, is all that is assumed of `Leaf` and `SEGV`.

The other recursive functions in these models (sums, hash, walk, joined lines) are handled in
one way: `IterationExists` gives a function for the recursion, and `Climb` shows what it
computes (a set of numbers with 0 and with the next of each of its members has all of them, by
`LeastNumber`). Both files state these lemmas: a module that extended the other would
bring the whole of it into every obligation.

### Small servers (`Programs_proofs.tla`, last part)

- `ServersHold`: `Spec => []ServersInv`, for the specification of the run. For the fork servers,
  `ForkIInv` says for each place of parent and child which of them has the connection open
  (`Descriptors`), that a client is in the queue or in hand or neither, but once
  (`ConnectedOnce`), and that the client in hand is unanswered up to the child's answer and
  answered, or excused, from then on (`InHandAnswered`). For the upload: nothing is read before
  the loop, what is left to send (`remaining`) is what is not read yet, also where the server failed, and
  nothing is left once the sender has closed. For the
  database: what is allocated follows from the place in the program (`Allocation`), what was
  printed and what is still to be fetched are the rows selected (`Listing`), and a student whose
  deletion nobody undid is in no listing asked for after it (`Away`).

### Model-checked only

- Everything about liveness: `Termination`, `EveryClientServed`, `ClientFinishes`,
  `Finishes`, `ServersEnd`. The prover has no rule for `ENABLED`, on which fairness rests.

Every other property of a passing run is a theorem.

## 5. Findings

1. `ThreadedQueue.c:113` says that locking the old head makes the read of its
   `next` safe; the writer of that field holds another lock (:95-98), so with an empty
   queue the two are a data race (`FGQueue_NextReadSafely`).
2. `ThreadedQueue.c:150` says the size "may be slightly off"; it can wrap to
   `SIZE_MAX` (`FGQueue_SizeSlightlyOff`).
3. `secureHttpServerAndClient/server.c:171` says the semaphore limits concurrent
   clients; connections are never closed by the handler, so more stay connected
   (`HttpsServer_limit`).

Observed without a statement of the repository to contradict: SIGPIPE ends every TCP
server; `thrd_create` is unchecked in three of them and a failure loses a slot; one
silent client stops the HTTPS server in the handshake (:182); a file that exists is
answered 404 when no descriptor is left; the heap's "LRU" block (`MemoryManagementSystem.c:137`)
is the one with the least time, which is not the one accessed least recently as
long as some first time lies in the future. The fork servers stop at
one silent client, answer one message of each and take a failed `accept` for a
connection; a failed fork of the daytime server leaves its client without an answer;
an upload into its own directory never ends. `second.flex` does not reset its
counters between files, so its totals count the first of two files twice; the
breadth-first queue's own test for overflow looks at the wrong index, and the
marks alone keep it in bounds; `queueandstack.c` never resets the rear of its queue;
the listings of `MYSQL/StudenDatabase/main.c` follow a null result after a failed query;
`LinkedList/DQ.c:127` allocates less than a node, and `max_sub.c` does not link for want of `max_three`.

## 6. State of the project

Every component with a state that outlives a call is modelled and checked, and every
safety invariant, action property and refinement that a passing run checks is proved. What could
come next: the functions of the database client that `main` does not call, and the liveness
properties, once the prover has rules for fairness.

## 7. Not modelled

- `DigitalClock`: one counter with carries, no input and one thread.
- `Threads`: two programs start one thread and join it, so nothing is concurrent;
  the two others are one program that does not compile.
- `Stack.c` (an endless empty loop after its pushes, otherwise the stack of
  `queueandstack.c`), `Stack2.c` (no caller), `TreeAndList.c` (its list gets one
  number, the value of a function that returns none), `BinaryTree/Main.c`.
- `replace_white_space.flex`, `String_To_Binary.c`, `Mix_Max_Sum.c`, `example` programs
  of strings, function pointers and files: straight lines without state.
- The functions that `MYSQL/StudenDatabase/main.c` does not call.
- Text layout and logging everywhere; failures of malloc in the structures.
