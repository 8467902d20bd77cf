# A verification project for the tree server

The repository is a client/server store: a binary search tree of key/value
pairs kept in memory by one server, used over TCP by interactive clients.
This directory holds TLA+ models of it, TLC configurations that check them on
small instances, and proofs, checked by TLAPS, that hold for every instance.
Paths below are relative to `src/Sistema Distribuído/`.

## 1. The system

| part | state | operations | how it interacts |
|---|---|---|---|
| tree (`source/tree.c`, `entry.c`, `data.c`) | nodes, a separate `size` counter | put, get, del, size, height, keys, values | called by the skeleton under `g_tree_lock` |
| skeleton (`source/tree_skel.c`) | the tree, the queue of writes, the next operation number, `op_proc` (`max_proc`, `in_progress`), the running flag | `imvoke` (one message), `process_request` (a worker), `verify`, the queue, start and stop | `imvoke` runs in the main thread; N detached workers share queue, tree and `op_proc` under three mutexes and one condition variable |
| main loop (`source/network_server.c`) | the `pollfd` array, `socket_ids`, `nfds` | accept, receive, send, close | calls `imvoke` for each message; single-threaded |
| server program (`source/tree_server.c`) | – | start, SIGINT handler, destruction | the handler runs in the main thread at any moment |
| messages (`protobuf/sdmessage.proto`, `source/message.c`) | – | pack/unpack, `read_all`, `write_all` | used on both sides |
| client (`source/client_stub.c`, `network_client.c`, `tree_client.c`) | the socket | one `rtree_*` call per command, synchronous | sends a message, waits for the answer |
| arguments (`source/shared.c`) | – | `parse_port`, `parse_int` | – |

A write (put, del) is not executed when it is received: `imvoke` appends a
request to the queue and answers with an operation number. Workers execute the
requests later. The client can ask with `verify <op_n>` whether the operation
was finished. Reads are executed at once, whatever is still in the queue.

What is hard in this code, and what makes each part correct:

* **Workers.** They take requests in order but reach the tree in any order;
  `max_proc` is compared in one critical section and set in another; `verify`
  reads a maximum as if everything below it were done; the index of a worker is
  read through a pointer to a loop variable of another thread. Correct means:
  every accepted write is applied exactly once, none is overtaken by more than
  the other workers can hold, and what `verify` answers has a meaning.
* **Queue.** A linked list whose end is searched by the main thread while workers
  take its head off and free it, with one mutex and one condition variable. Correct
  means: it is a FIFO queue, no wakeup is lost, nothing freed is followed.
* **Shutdown.** The handler unlocks a mutex it may not hold, clears a flag and
  broadcasts, at any moment; workers may be waiting, working, or not yet started.
  If a thread is in the list at that moment, a second one can enter it, and an
  acknowledged write can be lost or taken twice. Only in `poll` does the signal end
  the main loop, and then the tree is freed while workers may still use it. Correct
  means: up to that unlock the queue is a queue; a busy worker ends, and so does the
  process, whatever the threads do in a broken list until then. The last is true of a
  SIGINT in `poll` only.
* **Messages.** Neither requests nor answers are delimited, and answers do not say
  which request they belong to: what has arrived when `read_all` looks is the
  message. Correct means that a client takes nothing else for its answer than the
  answer to its call, and that its calls return.
* **Main loop.** Connections shift down while the loop index points at them; the
  last slot is filled only to be closed; a read from a silent connection would
  stop the server for everyone.
* **Tree.** Deleting a node with two children copies an entry and deletes a second
  time further down, correcting the size counter on the way; the size is used as
  the length of the arrays that `imvoke` sends.

`PROJECT.json` lists the hazards one by one, each at its line.

## 2. Modules

| module | what it is |
|---|---|
| `Store` | a finite map with ordered keys: the vocabulary of the abstract specifications |
| `Dictionary` | abstract specification of the calls of `include/tree.h`, on a map |
| `Tree` | `tree.c` as operators: put, get, del (with its second deletion), size, height, the two inorder walks |
| `TreeCalls` | a machine that makes any sequence of these calls, with their results; refines `Dictionary` |
| `Message`, `Request` | the records that client, main thread and workers exchange |
| `WriteService` | abstract specification of the skeleton: accepted writes are pending, are applied once and may overtake fewer than `Window` older ones; what answers mean |
| `TreeSkel` | `tree_skel.c` until a SIGINT: start-up, `imvoke` for every opcode, the queue, the workers step by step, `op_proc`; refines `WriteService` |
| `TreeSkelHistory` | `TreeSkel` with an observing variable, for a statement about the past |
| `FifoQueue` | abstract specification of the queue of requests |
| `RequestQueue` | that queue as the code has it: linked list, mutex, condition variable, one access to shared memory after another, and what a step does that follows a null or freed pointer |
| `Arguments` | `shared.c` as operators on numbers of the C widths |
| `TreeServer` | `tree_server.c`: the process from its command line to `exit`, over `RequestQueue` and `Arguments`, with SIGINT, the forced unlock and the lifetimes of requests, tree and `op_proc`; refines `FifoQueue` until a mutex in use is unlocked or freed memory is used |
| `ConnectionService` | abstract specification of the main loop: one message at a time, none passed over forever |
| `NetworkServer` | the main loop of `network_server.c`, with `poll` and the clients around it; refines `ConnectionService` |
| `ClientStub` | the requests and results of the `rtree_` functions, packing and unpacking of answers, `read_all` on the client's side |
| `ClientServer` | the system: clients at their prompts over `ConnectionService` and `WriteService` |
| `NetworkServerProofs` | theorems about the invariants of `NetworkServer`, and that it implements the steps of `ConnectionService` |
| `TreeServerProofs` | theorems about the invariants of `TreeServer`, and that it implements `FifoQueue` |
| `TreeSkelProofs` | theorems about the invariants of `TreeSkel` and `TreeSkelHistory`, and that `TreeSkel` implements `WriteService` |
| `TreeProofs`, `TreeCallsProofs` | theorems about the operators of `Tree`, and that `TreeCalls` implements `Dictionary` |
| `ClientStubProofs` | that an answer is unpacked as it was packed |
| `ClientServerProofs` | theorems about the invariants of the whole system, and that it uses the two services as they are offered |
| `FiniteOrder` | lemmas on order: a nonempty set of natural numbers has a smallest one, and in a finite set each rank is taken once |
| `MCTreeCalls`, `MCTreeSkel`, `MCTreeServer`, `MCClientServer` | values of constants for TLC |

The composition is by layers:

    ClientServer                 clients, network, skeleton: what users see
      ConnectionService            <- NetworkServer
      WriteService                 <- TreeSkel (over Tree, itself <- Dictionary)
                                        FifoQueue <- TreeServer (over RequestQueue)

`TreeSkel` takes each critical section of the queue as one step, which is right as far
as `TreeServer` shows that the sections exclude each other and implement a FIFO queue.
That holds until the SIGINT handler unlocks a mutex in use, so `TreeSkel`, and with it
`WriteService` and `ClientServer`, is the system until a SIGINT arrives; what comes
after it is in `TreeServer` only. Next, `ClientServer` takes the main loop and the
skeleton as the abstract specifications that the detailed modules are shown to
implement. So what holds in `ClientServer` rests on the refinements checked below it.

### How state and actions correspond to the code

**Tree.** A node is named by its position, the sequence of turns from the root; the
tree is a function from positions to entries plus the counter. A null pointer is
a position outside the domain, and giving a subtree to another parent is
renaming positions. `Walk` is the `strcmp` loop: the place it ends at is
determined by the tree and the key, and is either the node with the key or the
null child where it would hang. `Unlink` is the case of at most one child.
Keys are integers, whose order stands for `strcmp`'s. Memory is not modelled.

**Skeleton.** One action is one critical section, or one access to an unlocked shared
variable with the local computation after it. A write is two actions:
`imvoke_put`/`imvoke_del` append the request, `AssignNumber` writes the number into
the answer and increments the counter; a worker may execute the request in between. A
worker goes through `waiting` (the queue; the flag tested before it is set until a
SIGINT), `dequeued`, `marked`, `applied`, `cleared` (compare with `max_proc`) and,
when it has to, `raising` (set `max_proc`). Waiting on the condition variable is a
guard. `StartThread` reads the index through the pointer to `init_i`: during
`tree_skel_init` it gets the value of that moment, afterwards anything, where the
value `NThreads` stands for all that `op_proc_set_in_progress` rejects. `verify` is
its result only: the loop over `in_progress` ends with a `break` that leaves the loop
and changes nothing.

**Queue and process.** One action of `RequestQueue` is one access to shared memory,
in the order of the code; a null test goes with the read it guards. The mutex is a
bit, because an unlock by a thread that does not hold it clears it all the same.
`pthread_cond_wait` unlocks and falls asleep in one step, may return without a
signal, and has to lock again. Following a null pointer kills the process. Following
a pointer to freed memory may kill it or not; if it goes on, what it reads is any
value, and what it writes or frees may be any request, since the memory may have been
given out again (`NextOf`, `Owners`). `misused` records that this has happened, and
`forced` that the mutex was unlocked while some thread was inside; nothing looks at
them but properties. In `TreeServer` the handler is three steps on top of the main
thread, which stands still meanwhile; workers go on. What a worker does with its
request is here its use of `op_proc`, of the tree and of the request. Only `killed` and
`exited` end everything: a process that has used freed memory goes on as any other.

**Arguments.** A text is the number at its start and whether characters follow.
`strtol` stops at the limits of a long, and `Cut` is the conversion to a narrower
type.

**Main loop.** One action is one step of the loop: `poll`, `accept`, a look at a
slot, a read, an answer, a close. A connection is named by its client. A message
is what `network_receive` makes of the bytes: a request, `OP_BAD` (`quit`), or a
piece that cannot be unpacked. `poll` reports a connection as readable when
something was sent or the other end has closed, and as hung up when it was reset.
`network_receive` can only go on when there is something to read, which is
`read_all`'s loop on `FIONREAD`.

**Client.** Bytes are abstracted to fields: a scalar is one, an element of a repeated
member is two (its length and its contents), default values are not packed. An
answer is written in one piece and may arrive in several; its first `Segment`
fields always arrive together, as short answers do in one TCP segment. `read_all`
takes any part of it that long, or all there is, and leaves the rest in the socket.
Fields that happen to be well formed unpack into a message with fewer elements;
others make the call fail, or the client crash, because the request is then freed
although it is on the stack. `torn` records that a client has read a part of an
answer: from then on its answers may be shifted, and the properties say nothing of
what it is told. A request is read as a whole or is a `piece` that ends the
connection; a request in pieces of which one is itself a request is not modelled.

## 3. What the runs check

| run | instance | what it shows |
|---|---|---|
| `tree_calls` | 5 keys, 2 values, calls without bound | every tree reachable with five keys stays rooted and ordered, deletion never makes it higher, and all results are those of a map: the counted size is the number of keys, the walks yield them sorted |
| `skel_two_workers` | 2 workers, 2 keys, 3 operation numbers, asking for 1, no SIGINT | types, the order of numbers, the window of unfinished writes below `max_proc`, no stale number in `in_progress`, and refinement of `WriteService` with window 2 |
| `skel_one_worker` | 1 worker, 2 keys, 3 numbers, asking for 0, 1, 2, no SIGINT | refinement with window 1 (writes are applied in order), so that the tree ends up with what the accepted writes make in the order of acceptance; `verify` is sound, and finally positive for every write |
| `network` | 4 slots, 3 clients that connect, send, quit, are cut off and come back, one of which may die | indices, room for one more connection, one slot for each connection, distinct numbers, no read from a silent client, and refinement of `ConnectionService` with its fairness: every message is taken, or its sender is given up |
| `tree_server` | all command lines of `MCTreeServer`, up to 2 workers, 3 requests, 1 SIGINT | mutual exclusion and refinement of `FifoQueue`, both also after a SIGINT that finds the mutex free; no use of freed memory until a mutex in use is unlocked or the tree is freed; until SIGINT no lost wakeup, and every request is taken; after it, whatever the threads do in a broken list or in freed memory, a busy worker ends and a SIGINT in `poll` ends the process; the port is the one typed, and not reserved, except for a text below `SHRT_MIN`, which `parse_port` cuts to some other port (`shared.c:35`) |
| `client_server` | 2 clients with 11 commands between them (asking for 1, 2 and 3), 4 commands typed in all, 1 worker, room for both, no SIGINT | a call returns the answer to that call, no operation number is told twice for a write, every call returns; a number that is told finished has been used, by a write or by a verify, and of the writes up to it none is missing |

The following runs state what a comment or document of the repository says and
end with a counterexample; `PROJECT.json` quotes the lines under `findings`.

| run | what is violated |
|---|---|
| `skel_verify_early` | `verify` reports a write as finished that is still in another worker's hands (`tree_skel.c:382`) |
| `skel_verify_stuck` | the smaller number overwrites the larger `max_proc` (`tree_skel.c:98`); a finished write is then reported as unfinished |
| `skel_last_write` | of two accepted puts of one key the older one stays (`tree_skel.c:79`) |
| `network_closed` | the server spins for ever on the connection of a client that has died (`message.c:23`) |
| `server_sigint` | SIGINT outside `poll` stops the workers and not the server, which goes on to acknowledge writes (`tree_server.c:15`) |
| `client_cut_off` | a client that is cut off while it waits for an answer waits for ever (`network_client.c:79`) |

The race on the loop variable (`tree_skel.c:142`) has no run of its own. Its
effects are in every run of `TreeSkel`: workers may share a slot of `in_progress`
or have none, so a request that is being processed may not be listed.
`InProgressIsHeld` is what remains true.

### Bounds, and why they are enough

* Five keys are the fewest with which the node that replaces a deleted one can be
  neither the right child itself nor a leaf, so every branch of `tree_del_node`
  is taken, the recursion included.
* Two workers are the fewest that can overtake each other; the theorems cover the
  other numbers. `MaxAssignment` 4 allows three writes, one more than two workers
  hold, so that one waits in the queue while both are busy.
* Two keys give writes that commute and writes that do not, and an inner node.
* `NFDESC` is 4 (20 in the code): the listening socket, the last slot, and two
  slots between, so that a shift moves a connection in use. Three clients can fill
  all slots. `Mortal` has one client: once the server is stuck over it, nothing but
  the clients moves.
* `listen` is called with 0: one connection waits at a time.
* `MaxThreads` 2 and `MaxRequests` 3: with two requests in workers' hands a third is
  in the list, and the main thread can walk over a request that is being taken.
  One worker waiting and one working is enough for a lost wakeup, and main and one
  worker are enough to break the list. `MaxSignals` 1: one forced unlock breaks the
  list as well as two, and a second comes with the end of `main`, which calls the
  handler's function again; the flag stays cleared.
* `SHRT_MAX` is the real one; `INT_MAX` and `LONG_MAX` are scaled down, since TLC
  computes with 32 bits. `Ports` and `Threads` have both ends of every range the
  parser tells apart, and values beyond a long.
* `Segment` 2: an acknowledgement arrives whole, a list of two elements can be torn
  at each place inside and between elements. Four commands let one client fill the
  tree with both keys, tear an answer, and ask again with another one between. The
  numbers asked for go to 3: after a put and a verify, 2 is a number that no write has,
  and `rtree_verify` calls it finished (`tree_skel.c:362`).
  `Window` 1 is one worker.

Deadlock is checked where the system always can go on. It is off in `network`,
`network_closed` (`read_all` never returns and nobody else may have anything to
do), in `tree_server` and `server_sigint` (the process ends), and in the two runs of
`ClientServer` (`MaxCommands`). In `TreeSkel` the bound on the counter never blocks
everything, because reads remain possible.

### Fairness

* `TreeSkel`: weak fairness of `tree_skel_init`, of each worker's next step and of
  `AssignNumber`. Each of these is a thread that the operating system schedules
  and that, once it may go on, stays able to: the mutexes are held for a few
  instructions, and a worker competing for the queue loses its step only when
  another takes the request. Messages from clients are not fair.
* `TreeServer`: weak fairness of the main thread except in `poll`, of the handler once
  it is called, and of each worker. Locking is an action that other threads
  disable, so a mutex may pass a waiting thread over for ever: POSIX promises no
  more, and `EventuallyTaken` needs no more. Nobody has to send a message or a
  signal, and no wakeup is assumed to be spurious.
* `NetworkServer`: weak fairness of the main loop as one process; a disconnected or
  silent client owes nothing.
* `ClientServer`: what `ConnectionService` promises, which `network` shows to follow
  from the fairness of the loop: weak fairness of the answer and of the close, strong
  fairness of each client's turn, as the loop looks at every slot again and again.
  A client that has something to read reads it. Users are free.

## 4. What is proved

The theorems hold for any number of workers, any keys, values and bound
(`TreeSkelProofs`), for any size of the array from 2 and any set of clients
(`NetworkServerProofs`), for any number of workers, requests, signals, any command
lines and any widths of the C types (`TreeServerProofs`), for any keys and values and
trees of any size (`TreeProofs`, `TreeCallsProofs`), for answers of any length
(`ClientStubProofs`), and for any clients, keys, values and commands and any `Window`,
`Capacity` and `Segment` (`ClientServerProofs`). Those about the main loop are stated
for both specifications of the module, without and with clients that die; those about
the skeleton hold until a SIGINT arrives. They rest on the assumptions
`SkelAssumption`, `NullAssumption` of `TreeSkel` and `ClientServer` (a null pointer is
neither a number nor a message), `ServerAssumption`, `QueueAssumption`,
`WidthAssumption`, `KeyAssumption` and `SystemAssumption` only, which TLC evaluates in
the runs.

**Skeleton.** `TypeCorrect`, `RequestsInOrder`, `DoneIsAlmostDone`,
`OneWorkerIsSound`, `InProgressNeverStale`. `NumbersInOrder` is not inductive: a
finished request that a worker has not destroyed, and `max_proc`, must be behind
the queue as well, which `InOrder` adds. `DoneWindow` bounds how many writes up to
`max_proc` are unfinished; the invariant behind it is `SomeoneNotBehind`, that some
worker holds no pending request up to `max_proc`: the one that last raised
`max_proc` has handed its request back, and what it takes from the queue next is
above `max_proc`. With one worker this is the worker, so `verify` is sound.
`InProgressIsHeld` is inductive together with the types. A step is of one of four
kinds (lemma `StepKinds`: accepting a write, taking one, raising `max_proc`, moving
no request), and only the first three can disturb the first two invariants.

**The skeleton is a service.** `SkeletonIsService`: with any number of workers, and until
a SIGINT, `TreeSkel` implements `WriteService`. Only five kinds of step show:
accepting a write, telling its number, answering, delivering the answer, and
`ApplyRequest`. A worker applies a request while the older ones that are still
pending lie with other workers, since `InOrder` puts the queue behind it; so they are
fewer than there are workers (`FewPending`), and the same count, by
`SomeoneNotBehind`, covers a positive answer of `verify`. That the tree does to its
map what `WriteService` does to the store, and that the reads return the map's
answers, comes from the theorems about the tree (`TreeFine` is the part of the
invariant that speaks of it); `MessageFine` says that what is owed or sent is there.

**One worker keeps the order.** `OneWorkerKeepsOrder` is the other side of the run
`skel_last_write`: with one worker `LastWriteWins` holds, for any keys and values.
The queue would have to be replayed to say what the tree is still going to be, which
is recursion; `AheadOfTree` says it key by key instead. Of the pending writes of a key
the one with the largest number has left its mark in `ordered`; at a key without
pending writes `ordered` and the tree agree. With one worker the request that is
applied has the smallest number of all that are pending (`InOrder`), so it is the
newest of its key only if it is the last of it, and then the tree catches up there.

**Main loop.** `TypeCorrect`, `RoomForOneMore`, `NoConnectionLost`, `IdsStayApart`,
`ReadsOnlyReady`, all from one inductive invariant `IInv`. Beyond the properties
themselves it needs: how far `i` and `nfds` can be in each place of the loop
(`LoopBounds`); that unused slots, and the last one, never carry reported events
(`CleanSlots`), which is why a shift cannot bring stale events to a slot and why
the hang-up test behind the loop never succeeds; that what `poll` reported stays
true until the loop gets there (`Reported`); that a client that has quit is closed
as soon as its message is read (`QuitIsNoticed`); and that the waiting connection
has a client (`BacklogConnected`). Each action has a lemma.

**Queue and process.** `ServerTypes`, `OneAtATime`, `NobodyOversleeps`,
`MemoryIsSafe`, `BindsPortAsTyped`. The invariant `IInv` is layered by how much a
SIGINT leaves standing. `TypeOK`, `Setup` and `Ready` hold always: `Setup` ties the
port and the number of threads to the command line (lemma `PortRule`, over
`CutKeeps`: a number that fits survives the conversion), `Ready` says which
structures exist in which place of main, and that there are no workers before.
`~forced => Sound` holds until a mutex in use is unlocked; that a SIGINT which finds
it free does no harm is a part of the proof. `Sound` has four parts. `Locked`: the
mutex is locked exactly while someone is inside. `Linked` is the heart: requests are
numbered in the order they are created, so the list is the interval from
`gp_queue_head` to the last request hung into it, each pointing to the next; what the
main thread has in `p_request_itr` is in that interval, since nobody else is inside.
`Held`: what workers hold is allocated, older than the head, and distinct, which is
why a request is freed by one worker only and never while it is in the list. `Safe`:
so nothing is misused before the tree is freed. `signals = 0 => Calm` is the rest:
`Undisturbed` and `Attended` (no handler runs, no worker has left) and `Awake`: some
worker is awake while a request waits of which the workers have been told. Each
action has a lemma; `Aside` covers the steps of the handler and of the end of main,
which leave the list alone, and `forced` and `misused` are only ever set
(`ForcedKept`, `MisusedKept`).

**The list is a queue.** `ListIsQueue`: `TreeServer` implements `FifoQueue`, over all
that the list goes through while an element is being hung in or taken off.
`FifoQueue`'s queue is read off the links, as the line from the head to a null
pointer; by `Linked` it is the interval from the head to the last request hung in,
and there is one such line only, by smallest counterexample. Each action is then
`Add`, `Get` or `Destroy` of the queue, or leaves it alone; it is closed, and nothing
more is claimed, by the step that sets `forced` or `misused`.

**The loop is a service.** `LoopIsService`: every step of the main loop is a step of
`ConnectionService` or leaves it alone, dying clients included. Two things have to
be shown. When the loop finds the array full, as many clients are connected as
there are slots beside the listening socket, which is more than the service
promises room for; `NoConnectionLost` makes this count. And the loop is stuck in a
read only over a connection that died, because what `poll` reported stays true. The
fairness that `ConnectionService` also promises is left to the run `network`.

**Tree.** `GetIsGet`, `PutIsPut`, `DelIsDel` say that the operations on a search tree
are those of the map it represents, and from the invariant `IInv` (it is a search
tree, `size` is the number of nodes, nodes hold entries) follow `TypeCorrect`,
`StaysRooted`, `StaysOrdered`, `DelNeverDeepensTree` and, for all seven calls,
`TreeIsDictionary`. `Rooted` and `Ordered` alone would not do: without a finite number
of nodes a walk need not end. The argument:

* Positions are ordered by being a prefix, and two of which neither is above the
  other part at one position (`Parting`). So a key is in one place only (`KeysApart`).
* The walk for a key has exactly one end: at most one (`OneEnd`), since two would
  part at a node that sends the key both ways, and at least one (`EndExists`), since
  otherwise there were nodes on the walk at every depth.
* Unlinking a node with at most one child renames the positions below the child
  (`UnlinkIs`); renaming keeps what is left and right of what (`MovedOrder`).
* With two children, the leftmost node on the right has the least key there
  (`LeftmostIsLeast`). While its entry is in the tree twice the walk of the second
  deletion still ends at it (`WalkToLeast`), and without it the copy is in order
  (`CopiedSides`).
* The inorder walk visits nodes in the order of their keys (`VisitedInOrder`), and
  each rank from none to one less than the size is taken once (`RanksTaken`).
* A tree of height h has at least h nodes and fewer than 2^h: each position gives
  another nonempty subset of 1 .. h (`FewerThanPower`).

Induction appears as the smallest counterexample, from `FiniteOrder`.

**Packing.** `UnpackedAsPacked`: what the client unpacks of a whole answer is the answer.
The result 0, a missing value and an empty list are not packed and come back as
defaults; the elements of a list of any length come back in their order, each behind
its length, and no field is taken for one of another member. `ValuesWith` recurs
along the fields, so what it returns is stated as the one function that satisfies the
recursion (`ValuesWithIs`, by smallest counterexample).

**The whole system.** `TypeCorrect`, `AnswersAreOwn`, `NumbersAreNew`,
`VerifiedStaysApplied`, from one inductive invariant, `IInv` of `ClientServerProofs`,
which TLC has confirmed on the instance of `client_server`. None of the properties is
inductive. `OwnAnswer` looks at a client that has returned; before that, `Session`
follows the call through the whole system: it is the request in the inbox of a waiting
client, then what is owed or answered while the main loop serves that client, then the
one packed answer in its socket, then what has been unpacked; and there is nothing in
the socket otherwise. A client that has read a torn answer is no longer spoken of.
`Connection` ties where a client is to the state of its connection, so that a crash or
a cut-off leaves nothing behind for its successor; `Loop` says how far the main loop is
with the skeleton. `NumberIsNew` looks at numbers that are shown; `Numbers` speaks of
all that are under way, the one still owed included: they were given out, differ, and
have been told to nobody. `Verified` starts from the answer in the main thread's hands:
once n has been used, by a write or a verify, and fewer than `Window` writes up to n are
pending, that stays so (`DoneStays`), since writes accepted later have larger numbers.
It does not say that n is a write's. A step of a client leaves what the others
have as it is (`ClientMoves`), as does one of the server that serves another one
(`ServerLeaves`); each action has a lemma.

**The layers fit.** `SystemIsServices`: every step of `ClientServer` is a step of
`ConnectionService` or leaves it alone, and the same of `WriteService`. The second is not
in the shape of the module: that what reaches `imvoke` is a call with a key and a value
is the invariant. With `LoopIsService` and `SkeletonIsService` below it this is the
composition of section 2.

**Only model-checked**: everything under fairness (`EventuallyVerifiable`,
`BusyWorkersExit`, `EventuallyTaken`, `SignalInPollEnds`, `CallReturns`, and the
fairness part of `ImplementsConnectionService`), which is beyond the prover. That two
workers can reorder writes, and the other counterexamples, are TLC's as well.

## 5. What is not modelled

* Failing `malloc`, `pthread_create`, `accept`; failing `read` and `write` on the
  server, whose errors the code in effect ignores because `read_all` and `write_all`
  return an unsigned type, and what an unfilled buffer then holds.
* Tearing of a request into pieces that are themselves messages: a cut request
  ends its connection.
* A SIGINT delivered to a worker's thread instead of the main thread, a second one
  while the handler runs, and one that interrupts main inside a function of the
  library which is not safe in a handler (`printf`, `malloc`, the mutex operations).
* What a SIGINT does to the skeleton beyond the queue: `TreeSkel` ends where the
  handler begins, and in `TreeServer` a worker's use of tree and `op_proc` is only
  that, a use.
* After a forced unlock or a free in use: two threads inside one C statement at once,
  damage to the allocator's own data, and a walk of `tree_destroy` over a broken tree
  that does not end. A thread that follows a freed pointer may die, read anything, and
  write or free any request.
* The end of the input at the client's prompt: `fgets` is not tested
  (`tree_client.c:77`), and main goes on with whatever the buffer holds.
* `g_last_assignment` beyond `INT_MAX`.
* Reads by the main thread in `TreeServer`: the thread that frees the tree is the one
  that reads it.
* Commands the interactive client refuses, and how anything is printed.
* Functions nothing calls: `request_queue_sigint_handler`, `network_server_close`,
  `entry_dup`, `entry_compare`, `data_replace`.
* Generated code (`sdmessage.pb-c.*`, from the modelled `.proto` file), the protobuf-c
  header and the makefile: nothing of this program is decided there.

The comments at `include/client_stub.h:25-28` and `36-38` are stale: they promise 0 or
-1 where `rtree_put` and `rtree_del` return an operation number. The models follow the
code.

## 6. Plan

Done: every component of the program has its module, each of the four layers an
abstract specification it is shown to implement; every invariant that a passing run
checks, the refinements (that of the main loop without its fairness) and the
composition are proved for every instance. What would add most next:

1. For any number of workers, how far the tree can be from the order of acceptance:
   which writes may be missing or overtaken at a key when none is pending.
2. Requests in several pieces at the server, read and write errors.
3. The skeleton after a SIGINT: which acknowledged writes can be missing from the tree
   once the mutex was unlocked in some thread's hands.
