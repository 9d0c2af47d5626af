# Verification of the concurrent and protocol programs of bit4

`bit4` is a notebook of about 730 small, independent programs, one directory
`testNNN-topic` each. Most are numerics, drawings, deployments or one call of a
library. The programs with a core logic of their own that is hard to get right
are of three families:

* *Go sessions*, written over several years: goroutines that hand each other work
  over channels, peers that find, greet and authenticate each other over
  unreliable links, servers that keep a session per peer and end it when idle;
* *C and C++ programs around an asynchronous world*: signals, file events,
  deadlines, callbacks of an event loop, processes that exchange messages by MPI;
* *neighbor searches*: the hashing and caching on which the molecular dynamics
  programs rest, where a mistake loses pairs of particles without an error.

This project models these families. Every module is translated from the source; line
numbers in comments are those of the program the module names in its header.
PROJECT.json holds the same information for tools: components, runs, mutants,
the map from definitions to source lines, findings, hazards and theorems.

## Inventory

### Modelled

| program | state | operations | hard behaviour |
|---|---|---|---|
| `test520` stop-and-wait session | state machine, cookie, delay buffer and counter of each side; writers blocked on the pipes | send, receive, retry timer, deterministic loss and delay | loss, delay, duplicates by retry, order of blocked writers, end of the exchange |
| `test522` unreliable reader | counter, delay buffer, the pipe | write, close, read (pass, drop, delay, deliver) | which messages of a long stream survive, what is left at EOF |
| `test023` taskch | WaitGroup, joiner goroutine, channels `err` and `join` | New, Go, Wait | joiner against the first Go, errors nobody collects |
| `test022` pipeline | two tasks in a taskch, a channel of rows | parse, hand over, sum, exit status | failure of one task while the other runs |
| `test599` deadline pipe | channels `data` and `ack`, two timers | Read, Write, SetReadDeadline, SetWriteDeadline | timeouts against transfers, stale ticks, shared acks |
| `test485` UDP session server | map under a lock, a channel, an idle count and a ticker per session | dispatch, echo, tick, end | lookup and send not atomic, idle end against new datagrams |
| `test432` UDP forwarding proxy | map, a socket, an idle count and two goroutines per session | forward, answer, tick, close, reset of `serverConn` | a pointer shared without synchronisation, one error that ends the proxy |
| `test497` nonce handshake | map under a lock, a channel per session, nonces and challenges | dispatch, challenge, verify, client steps | repeated and lost datagrams, hand-over to ended sessions |
| `test483` hole punching | waiting addresses per key, peers, address translators | register, learn, greet, restart | one request without retry, repeated keys, translators on both sides |
| `test516` counted messages | the counters of a sealing and an opening Cipher | Seal, Open | replay, reordering, damage, wraparound |
| `test492`, `test493` ping-pong | pinger goroutine, `pinged`, `pingCh`, sockets | ping, pong, search, greet, last read | lost or early pongs, two goroutines on one socket |
| `test816` key-value actor | the actor's map, three channels | Store, Fetch, Close | Store returns before the entry is written, calls after Close |
| `test877` replica exchange | replica and trial count of each process, messages | exchange as master or slave | one message tag for all trials, blocking sends, a swap in three steps |
| `test860` wait by signalfd | pending SIGCHLD, parent, child | fork, poll, handle, waitpid | a signal that handler and poll compete for |
| `test862` inotify watch | watch, event queue, file | create, remove, read events, poll timeout | file back before or after the events of its removal |
| `test147` read with a deadline | bytes held, deadline | read, time out, flush | input, time and deadline in any order |
| `test987` libuv fetches | stage and handle of three jobs, the loop | resolve, connect, write, read, end | failures on each path, callbacks of three jobs |
| `test716`/`test619` neighbor search and list | buckets, cached points, pairs | search, query, update, move, add | a list kept while points move; hash collisions, negative cells |
| `test851` periodic search | grid of bins, box | set_points, search | bins at the faces of a box, one or two bins on an axis |

How they interact: test520 reads through the reader of test522; test022 runs on
the task group of test023 (as do test419, test427, test428, test433, and in its
published form test492 and test493); the neighbor list of test716 uses its neighbor
search, whose hash the open boxes of test851 use too. The others are self-contained.
Within each program goroutines interact by rendezvous on unbuffered channels, by
buffered channels, by locks and atomics; processes by MPI messages, signals, pipes
and sockets; and peers through a link that may lose, repeat and reorder.

What makes each correct:

* stop-and-wait: both sides advance in turn and know each other's cookie; both end;
* reader: it loses, delays and overtakes no more than the protocol above it can bear;
* taskch: `nil` means that all is done, and no error is lost;
* pipeline: exit status and output agree with the input; it always exits;
* deadline pipe: each Write gets an ack, each ack a Write; a deadline ends a call when it passes and not before;
* UDP sessions: one live session per peer, the map names it, echoes are in order, silence ends it, the dispatcher does not stop;
* forwarding proxy: one socket per peer, every idle session ends, one session does not end the others;
* nonce handshake: who ends well has been answered by the other, and everybody ends unless the link failed;
* hole punching: clients are paired with each other, and hear each other;
* counted messages: no nonce twice, no message opened twice or out of order;
* ping-pong: a finished search means that both directions work, and the search finishes;
* actor: an atomic map for all its callers;
* replica exchange: exchanges are swaps, nobody waits for ever;
* signalfd, inotify, deadline, libuv: the child's end is passed on, the file is watched, bytes are flushed in time, handles are closed before the loop is freed;
* searches: every near pair, once, and no other.

### Not modelled

Candidates that are left, in this order:

1. **UDP reverse tunnel** `test433`: a global map without a lock, whose entries
   outlive their websockets.
2. **Websocket sessions** `test440`, `test436`, `test435`, `test434`: the idle
   count of test432 over a library's websocket, and the mapping of its errors; the buffer of
   `test434` that is handed over and read into again.
3. **Sessions over AEAD** `test484`, `test493-session`, `test507`: compositions of a
   session server with counted messages, each of which is modelled alone.
4. Earlier forms of modelled programs: `test419`, `test427`, `test428` (forwarders),
   `test509`-`test515`, `test552`, `test554`, `test563` (messages), `test859`
   (signalfd), `test986` (libuv), and the neighbor searchers of the other
   simulations, which are copies or forerunners of the two that are modelled.
5. Small programs of one function: `test156`, `test267`, `test269`, `test487`,
   `test488`, `test495`, `test557`, `test652`, `test978`, `test921`, `test142`,
   `test146`, `test148`, `test149`, the Elixir logins. Most of their behaviour is a
   library's or the kernel's.

Left out for good:

* Floating-point simulation, geometry, graph drawing and image code: integrators,
  force fields, random walks. It is the bulk of the C and C++ of the
  repository and it is about real numbers; a model over integers would say nothing
  about rounding, stability or statistics, which is all there is to get wrong.
* Vendored headers in the same directories (`catch.hpp`, an argument parser,
  periph.io): third-party code.
* The copies of the simulation library: `md.hpp`, `sim.hpp` and `geo/` exist in
  many versions under `test5xx` to `test8xx`; one version of each algorithm is modelled.
* Compile-time programs (`test084`, `test086`, units and dimensional analysis by
  templates): they have no run-time state.
* Training scripts, user interfaces, web demos, deployment files, data.

For these reasons the modelled lines are a small share of all C and C++ lines,
and the remaining programs above would not change that.

## Modules

| module | models | abstract / composed of |
|---|---|---|
| UnreliableReader | one pass of `unreliableReader.Read` | |
| ReaderStream | test522 | extends UnreliableReader |
| Handshake | what test520 promises | abstract |
| StopAndWait | test520 | extends UnreliableReader, implements Handshake |
| TaskChan | test023 | |
| Pipeline | test022 | extends TaskChan |
| DeadlinePipe | test599 | |
| UdpSession | test485 | |
| UdpForward | test432 | |
| NonceHandshake | test497 | |
| HolePunch | test483 | |
| GcmSeq | test516 | |
| PingPong | test492 and test493 | |
| AtomicMap | what test816 promises | abstract |
| Kvs | test816 | implements AtomicMap |
| ReplicaSwap | what test877 promises | abstract |
| ReplicaExchange | test877 | implements ReplicaSwap |
| SignalWait | test860 | |
| FileRewatch | test862 | |
| ReadDeadline | test147 | |
| UvFetch | test987 | |
| HashSearch | linear_hash and neighbor_searcher of test716 | operators |
| NeighborList | neighbor_list of test716 | extends HashSearch |
| PeriodicSearch | test851 | extends HashSearch |
| MCSequential, MCGoroutines, MCSessions, MCProcesses | modules of the runs `sequential`, `goroutines`, `sessions`, `processes` | |
| StopAndWait_proofs, TaskChan_proofs, Pipeline_proofs, DeadlinePipe_proofs, PingPong_proofs | theorems of the module of that name | extend it; Pipeline_proofs builds on TaskChan_proofs |
| Sessions_proofs, Processes_proofs, Sequential_proofs | theorems of the programs of the run of that name | extend their modules |

The MC modules put several programs into one run: a variable `program`, chosen by
the initial state and changed by no step, says which one runs, and the variables
of the others stay as they were. Each behaviour is thus one of one program,
and the fairness of each program is that of its module, for the executions in
which it runs. A property of a module that is no implication of its own is checked
under the name of a wrapper that says of which program it speaks (`GroupSound`,
`GroupDropsNoError`, `GroupEnds`, `PipelineEnds`, `PeersEnd`, `RexEnds`,
`ReadInTime`, `PunchMeets`, ...). The other runs use the modules themselves; the .cfg files give
the constants model values or small numbers. Operators marked *Mutant* are not
part of any specification: each is a plausible slip in the definition that
follows it, and the property it is listed with in PROJECT.json is violated when
it takes that definition's place.

Each module with proofs has its type invariant, the theorem that it always
holds, and no run that repeats it.

### What each run checks

| run (.cfg) | properties |
|---|---|
| `stop_and_wait` (MCStopAndWait) | `Agreement`: neither side gets ahead of what the other has confirmed, and both know the cookies. `NoPrematureMessage`: no message is under way before its side has earned it. `ImplementsHandshake`: refinement of Handshake. `ServerStuckOnlyOnLostAcks`, `ServerFinishes`: how the server ends |
| `sequential` (MCSequential) | `OneOfFivePasses`, `PrintedInTurn`: what the unreliable reader may do to a stream. `SearchExact`, `ListComplete`: every near pair once, and no near pair missing from a list taken as still valid. `NearPairsMeetOnce`: near pairs are compared once across the faces of a periodic box, whatever copies of a link there are |
| `periodic_box` (MCSequential_Box) | `SearchFollowsBox`, violated: finding |
| `goroutines` (MCGoroutines) | TaskChan: `GroupSound` (Wait returns nil after all tasks), `GroupDropsNoError`, `GroupEnds` (no error is lost, all goroutines end). Pipeline: `OutcomeTellsInput` (result and exit status tell of the input), `PipelineEnds`. DeadlinePipe: `AcksPairOff`, `AckOwn` (transfers and their acks), `CallsReturn` (a transfer that began ends, and a Read with a deadline does not hang). PingPong: `ClosedOnce` (no channel is closed twice), `SyncedMeansHeard` (both directions work), `SearchEndsUnlessPongLost`, `PeersEnd` (how the search and the greeting end) |
| `task_group_doc` (MCTaskChan_Doc) | `NilMeansAllDone`, violated: finding |
| `deadline_stale_tick` (MCDeadlinePipe_Stale) | `TimeoutMeansDue`, violated: finding |
| `deadline_cancel_blocks` (MCDeadlinePipe_Cancel) | `SetDeadlineReturns`, violated: finding |
| `sessions` (MCSessions) | UdpSession: `MapExact` (the map holds the live sessions), `EchoInOrder`, `DispatcherMovesOn`, `IdleSessionsEnd`. UdpForward: `ConnectionsSound` (one socket per peer, and why the proxy may end), `SessionsWindUp`. NonceHandshake: `NonceHolds` |
| `processes` (MCProcesses) | Kvs: `ImplementsAtomicMap` (refinement), `ServedUnlessClosed`. ReplicaExchange: `ImplementsSwaps` (refinement), `TrialsMatch`, `RexEnds`. HolePunch: `PunchMeets`. GcmSeq: `OpenedOnceInOrder`. SignalWait: `ChildAwaited`. FileRewatch: `FileComesWatched`. ReadDeadline: `ReadInTime`. UvFetch: `LoopFreedClean` |
| `gcm_doc` (MCGcmSeq_Doc) | `ReplayMeansDecrypted`, violated: finding |
| `read_deadline_doc` (MCReadDeadline_Doc) | `PassedDeadlineTimesOut`, violated: finding |
| `signal_lost` (MCSignalWait_Doc) | `ParentFollows`, violated: finding |

### StopAndWait, UnreliableReader, ReaderStream

A side is its main goroutine (`st`, `learned`), its reader goroutine (`counter`,
`delay`, `held`: a message offered on `recv`) and the short-lived goroutines of
`go w.Write` that block on the unbuffered pipe, counted per message in
`pending`. One action is one pass of the reader, one iteration of a state's
loop, with the entry of the next state where the code has no blocking point
between, or one tick of a retry timer. The reader's fate of a message depends
on a counter modulo 10, as in the code.

The pipe is given to blocked writers in an order the language does not fix. The
variable `ordered`, which the initial state chooses, is FALSE if any writer may
win and TRUE if it is the one spawned first (what the mutex of `io.Pipe` does in
practice).

* `stop_and_wait` (`MaxPending = 1`): agreement on states and
  cookies, nothing sent too early, the refinement of Handshake; the server fails to
  end only if all five Acks are lost (which includes the client's end), and
  with ordered writers it ends.
* in `sequential`, streams of up to 60 messages, of all lengths: the reader has
  period 10 in its counter and the delay buffer toggles, so 60 messages cover
  several full periods.

`MaxPending` bounds the copies of one message that wait; in the code a copy is
added every tick for ever. One suffices because copies are
identical: more of them only repeat deliveries that are already possible.
Fairness: goroutines that can run do, timers fire. Loss needs no fairness since
it is deterministic.

### HashSearch, NeighborList, PeriodicSearch

The searches are pure functions of the points and are written as operators;
the actions are what a simulation does between them. Coordinates are integers and
distances are chosen so that all quantities the code compares are integers too;
rounding of floating-point numbers is not modelled, the width of the integer
conversion of a cell number is. The state of NeighborList is that of
`neighbor_list` with the points of the system; `Update` is the call each force
field makes before it uses the pairs.

* `sequential`: up to three particles on five sites, two cutoffs, any sequence of
  moves, additions and updates; five boxes of three kinds, five distances, up
  to three points on five places inside and outside the box. Bin counts from 1 to 10 occur.
  The coefficients in the .cfg are the primes of `linear_hash` modulo 1 · 15 · 31 · 47:
  with `LoadNum / LoadDen = 31 / 2` these are the numbers of buckets that occur, so the
  hash values are those of the real primes, within TLC's 32-bit integers.
  The list of neighbors of a bucket is kept with its copies (`Linked` is a bag): with one
  or two bins on an axis the three loops push a neighbor up to 27 times, and without
  `sort_unique` its points would be compared as often.
* `periodic_box`: the finding below.

### TaskChan, Pipeline

`wg`, the joiner goroutine, the goroutine of each task, and the caller, which
launches every task and then waits (`Drain`: until nil). A task fails or
succeeds freely. `early` records that the joiner was let through while tasks
were still to be launched: the properties say that all is well unless that
happened. The reuse panic of `sync.WaitGroup` is modelled (`JoinerWake`); the
one inside `Add` is of the same cause.

* `goroutines`: a group of three tasks whose caller drains it (one can end before the
  next is launched while a third is still to come); and the pipeline, with up to three
  good rows and then the end of the file, a row that does not parse, a row with less
  than three fields, or an error of the scanner. The sum is abstracted to the number of rows in it.
* `task_group_doc`: the finding below.

A short row panics in the middle of `input`: its deferred calls still close the channel
and call `wg.Done`, so main may already be told that all is well; then the process
ends with status 2, and `Exit` waits for the panic as the Go runtime does. An error of the
scanner is asked for by nobody: it ends the input like the end of the file, with status 0.
`OutcomeTellsInput` says so instead of promising a complete result.

Fairness: tasks return and goroutines that can run do; in Pipeline every task
step is fair because `bufio.Scanner` reads a finite input.

### DeadlinePipe

A call is "selecting", then either times out by taking the tick of its timer or
takes part in a transfer, after which the reader is "acking" and the writer
"awaiting" on the shared channel `ack`. Timers are those of Go before 1.23 (the
repository is from 2018 and has no `go.mod` here): a channel with room for one
tick that neither Stop nor Reset empties. `due` and `premature` are history.

* `goroutines` (one reader, two writers, two calls each, two deadlines per
  side: enough for a stale tick and for two writers to compete for an ack);
* `deadline_stale_tick`, `deadline_cancel_blocks`: findings below.

Deadlock checking is off: a call without a deadline may wait for ever. Fairness
on the rendezvous, the timers and the drain, none on the callers. `AckOwn` is
claimed with one reader or one writer only: with more, acks can be swapped,
which the FIXMEs of the code admit.

### UdpSession, UdpForward, NonceHandshake: the run `sessions`

**UdpSession.** The dispatcher alternates between receiving (lookup, start of a session, map
entry: one action, since the lock is held throughout) and `Hand`, the send to
the session's channel after the unlock. A session is its main goroutine and its
ticker goroutine; sessions are numbered in the order they are started, so an
ended session and its successor for the same peer are told apart. Datagrams are
numbered per peer. `WriteFails` is the error path of `write`; an error of
`ReadFromUDP`, which ends the process, is left out. Bounds: two peers, three
datagrams each, two sessions in all, channel of 2 and idle limit 2 as in the
code. With three datagrams the channel can be full when a session ends.
`DispatcherMovesOn` states the weakness of the design precisely: the dispatcher
gets rid of a datagram unless the session it looked up has ended with a full
channel, in which case the whole server stops.

**UdpForward.** The main goroutine looks up, dials if there is no session or its
`serverConn` is nil, writes, and resets the idle count, one action each, because
the other two goroutines of the session come between. `CloseConn` and `SetNil` are
the two halves of the deferred function. `ConnectionsSound` says what is true in
spite of the race: a peer never has two open sockets, and, as long as no socket fails of
itself (`SocketFails`: DialUDP, or a Write on an open socket, which may return the refusal
of an earlier datagram; `ReadFails`), the proxy goes down only on a datagram of a peer whose session has just timed out.
Bounds: two peers, three datagrams, two sessions.

**NonceHandshake.** A nonce, a challenge and an HMAC are abstracted to the number of
the session they belong to; the link loses and repeats datagrams.
`HandshakeHolds` relates the results of both sides, and says when an attempt
may hang: only after a datagram was lost (nobody asks again) or repeated (the session or
the client ends on an unexpected datagram). Bounds: two clients, three
sessions, two repeated datagrams; a third session exists only because of a repeated one.

Fairness on the server's goroutines, tickers and clients that have something to
do, none on the peers' decision to send, none on the link. Deadlock checking is
off: servers wait for ever for peers that have sent all their datagrams.

### Kvs, ReplicaExchange, HolePunch, GcmSeq, SignalWait, FileRewatch, ReadDeadline, UvFetch: the run `processes`

**Kvs.** The actor's `select` loop and any number of callers. `TakeStore` is the
rendezvous at which Store returns; `Write`, a later step, puts the entry into
the map. The refinement maps the abstract map to the actor's map with that
entry already in it (`Seen`), so no caller can observe the gap. A query and its
lookup are one action: nothing else touches the map. Two clients with three
calls each: enough for a store, a fetch and a close to meet at the actor.
Fairness on the actor only.

**ReplicaExchange.** A process is computing, in `MPI_Send`, in `MPI_Recv`. A send
may return at once or when its message is received; fairness promises only the
second, so `RexEnds` holds for any buffering. The master's choice stands for energies and
random numbers. The refinement shows that the replicas, with those on their way counted where
they will be, change by swaps of neighbors only. Five processes and three trials: both
pairings, both ends of the row, and processes that run ahead of each other. The ten
trials of `main` only repeat the two pairings.

**HolePunch.** `holes` abstracts the address translators: a datagram from p reaches u
once u has sent to p. Three clients and two keys: a pair, and a third that waits or
disturbs; one repeated key or restart. Fairness: clients start, timers run, the link does not
lose every greeting. A key or an address is sent once, so its loss leaves a client waiting,
and a key that comes twice can pair its client with itself. The excuses are as narrow as that:
`again` and `lost` say for which clients and keys it happened, a client outside `again` is never
paired with itself, and the clients of a key meet whatever happens under the others.

**GcmSeq.** The counter wraps around at four messages instead of 2^64. The link
loses, repeats (twice), reorders and damages. `believed` are the counters that Open took from
damaged messages, of which `gcm_doc` shows that they contradict the documentation.

**SignalWait.** SIGCHLD is not blocked, so the handler may take it before poll looks, which
`signal_lost` shows to be a lost wake-up; `ChildAwaited` says that this is the only way to wait for ever.
Every call of the parent may fail, and `trouble` names the one that did: the parent ends with a code
of its own then, and otherwise as its child did. Fairness on the parent only, none on failures.

**FileRewatch.** Inodes instead of names: a removed file may live on elsewhere, and a
new one be at the path before the program has read the event. Three inodes, a queue of four events,
reads of two. Fairness on the program only.

**ReadDeadline.** Time is counted in steps down to the deadline, and one step past it, and
may pass between any two steps of the program, the clock and `select` among them (`ReadClock`,
`CallSelect`). The timeout of `select` is relative, so a program that is late between the two waits
beyond its deadline; `SelectInTime` therefore speaks of what holds in spite of that: no flush ahead of
time, and no more than `max_delay` of waiting in all (`waited`) for the first byte held. In
`processes` a buffer of 3, a flush at 5 and a pipe of 4 bytes: like the 10, 16 and 12 of
`read_deadline_doc`, more than one read, and more than a flush over two. Fairness on the
program and on time, none on calls that fail.

**UvFetch.** One variable per job for the callback it waits for and one for its handle.
Safety only: `LoopFreedClean` says exactly when the loop is freed with handles in it.

Deadlock checking is off: a call to a closed database blocks for ever, and the
other programs end.

### PingPong

`proceed` selects test493 (TRUE) or test492, `faulty` a link that may lose and
overtake datagrams; both are variables that Init chooses and no step changes, so
that one run covers all four settings and each liveness property names the
settings it speaks of. A peer is `start()` (`stage`) and its pinger goroutine.
`net[p]` holds what is under way to p or in its socket; a
socket exists between `Start` and the end of `start()`, datagrams to no socket
are lost. Lost pings change
nothing and are stuttering, so weak fairness on `Ping` says that not every ping
is lost, while a pong, sent once, may be. `NetCap` bounds the pings in a queue
(a ping to a full queue is lost); since the searching peer treats all pings
after the first alike, three are enough.

Two timing assumptions stand for the constants of the programs: a pause of one
second outlasts the pinger's way to its pong, and the deadline of three seconds
passes only when nothing is under way.

* `goroutines`: on a perfect link both peers of test493 greet each other and test492
  hangs only after it has ignored a Hello that came ahead of the pong (`PeersEnd`); on a
  faulty link a finished search means that both directions work, and the loss of
  a pong is the only reason for it not to end; pingCh is closed once everywhere.
  Deadlock checking is off: test492 may hang, and test493 after a lost pong.

## Findings

* `task_group_doc`: the comment of `Wait` (taskch.go:45-47) promises that all
  tasks have finished when nil is returned. `New` starts the joiner before any
  `Go`; if it runs first, or between the end of the tasks so far and the
  next `Go`, Wait returns nil with tasks still running.
* `deadline_stale_tick`: `SetReadDeadline` (pipe.go:34-39) does not take the
  old tick out of the timer's channel; the next Read times out ahead of the
  deadline just set.
* `deadline_cancel_blocks`: clearing a deadline that is not pending
  (pipe.go:27-32, 37) waits for a tick that never comes, for instance on a new pipe.
* `periodic_box`: the constructor of the searcher of test851 leaves `box_` as it is by
  default (neighbor_searcher.hpp:63, 143), so distances are those of a box of period 1.
* `gcm_doc`: `ErrReplayAttack` is documented (gcmseq.go:20-22) for counters not above that of a
  message that was *decrypted*. Open moves its counter (97) before it authenticates (105): a
  damaged message moves it too, and intact messages are then refused.
* `read_deadline_doc`: `wait_input` (test147-read_deadline.c:81-84) is to return 0 when the
  deadline passes. If it has passed before the clock is read, the timeout is negative (97),
  `select` fails, and the program ends with the bytes it holds.
* `signal_lost`: the comments of test860 (main.c:38, 62) wait for the child by poll on the
  signalfd. A child that ends between fork (49) and poll (76) has its SIGCHLD taken by the
  handler, since the signal is not blocked, and poll waits for ever.

Weaknesses that no comment denies are written into the properties as the one excuse
they accept: `early` (taskch, in the pipeline), an input cut off by a read error (test022), a full
channel of an ended session (test485), a datagram to a session just timed out or a failed socket
(test432), a lost pong, a lost or repeated datagram (test497, test483, there for the clients and the key
it concerns), a full event queue (test862), a connection that failed (test987:
`LoopFreedClean` says of which jobs a handle is left, and no test or comment says that none is).
None of them can be dropped: TLC then finds the behaviour.

## Proofs

All theorems hold for every value of the constants that satisfies the modules'
assumptions; all are checked by TLAPS to the last leaf. Every invariant
and every refinement that a passing run checks is the statement of a theorem (`GroupSound` and
`GroupDropsNoError` under their names in TaskChan); of the liveness
properties, the parts that are invariants are named and proved on their own.
The assumptions on constants say that bounds are numbers, that marks such as
`NoMsg` differ from data, and what is named below. The bounds of the runs
(datagrams, sessions, calls, repeats) are constants: the theorems hold for any.

* **StopAndWait_proofs.** The inductive invariant is type correctness,
  agreement, cookies and *NoPrematureMessage*: agreement alone is not inductive, because
  what a side does next depends on the messages under way, so the invariant
  must bound those. `TypeCorrect`, `HandshakeSafe`, `NothingPremature`, and
  `Refinement`: every step is a step of Handshake or a stutter.
* **TaskChan_proofs.** `CountCorrect`: the WaitGroup equals the number of live
  tasks (by the cardinality lemmas `LiveMoves`). From it, and from
  what a released joiner knows (`JoinerSeesEnd`), `WaitSound` and `ErrorsKept`, the theorems
  about `SoundUnlessEarly` and `NoErrorDropped`.
* **Pipeline_proofs.** `OutcomeTold`. Every step of the pipeline is one of its task group
  or leaves the group alone (`GroupKept`), so the group's invariant holds of the pipeline
  and only four facts are added: the channel of rows is closed as soon as the input task
  has ended, and that task failed if the rows end with a bad one (`InputClosed`); the output
  task prints what it has received once the channel is closed (`OutputPrinted`); main gives up
  at the first error it is told (`OneWait`); and each exit status has its cause
  (`StatusEarned`). The module is not part of TaskChan_proofs because its assumption that there are
  two tasks would bind the theorems on the task group too.
* **DeadlinePipe_proofs.** `AcksMatch`: readers about to acknowledge and writers
  awaiting an ack are equal in number, for any number of both: a transfer adds
  one to each side, an ack removes one from each, a timeout touches neither.
  `AcksOwn`: with one reader or one writer the two sets have at most one member,
  so the ack a writer gets is that of the reader that copied its slice (`AwaitsOwn`).
* **Sessions_proofs.** UdpSession: `TypeCorrect` (channels never exceed their capacity)
  and `MapCorrect`; the invariant adds that sessions not yet started are idle
  (`Fresh`), that the dispatcher sends only to started sessions (`TargetOK`) and
  that a writing session holds a datagram (`Working`). `EchoesOrdered` looks at the *line* (`Line`) of a
  live session: what its peer was echoed so far, then the datagram in its hand, its channel, and the one the
  dispatcher brings. All lines rise (`LinesRise`): a step moves a datagram along its line, and a
  session that ends leaves its successor what was echoed, a beginning of its own line.
  UdpForward: `ProxySound`. `SocketsKept` says who has an open socket at every step of
  the two goroutines, `DownNeedsTimeout`, in what state the current session must be for the race to end the
  proxy when no socket has failed of itself.
  NonceHandshake: `HandshakeGenuine`, the safety part of `NonceHolds`. A response, on the link,
  in the dispatcher's hands or in a channel, is to the one challenge its sender took
  (`ResponsesOwn`); an HMAC on the link was sent by a session that ended well (`MacsGenuine`).
* **PingPong_proofs.** `TypeCorrect`; `ChannelClosedOnce`, from the exact count
  `ClosedWhenHeard`: pingCh was closed once if the peer was pinged or, in
  test493, has finished its search, and not at all otherwise. `BothWaysWork`: a pong, under way or taken,
  means that the pingCh of its sender was closed, and the first pingCh to be closed was closed by
  a ping (`PongMeansHeard`).
* **Processes_proofs.** Kvs: `AnswersReach` (the actor is replying to exactly the
  client that awaits an answer), and with it `Linearizable`: the actor implements AtomicMap.
  ReplicaExchange: `ReplicasSwap`, for any number of processes and trials every
  step is a swap or a stutter. The invariant (`SlavesBelow`, `MailOK`) says that
  whoever waits is a slave whose pair is the process above, and that a message is the one
  request or the one answer of such a slave; `RexTypeCorrect` is the type invariant.
  `TrialsAgree`: neighbors are *in step* (`InStep`), that is, they have met
  equally often. They meet in every second trial, so their trial numbers differ by one at most, and
  are equal when both come to a meeting.
  UvFetch: `FreedAsFound`, from the state of a job's handle at each stage (`HandleOfStage`).
  SignalWait: `ParentEndsAsChild`, the safety part of `ChildAwaited`: SIGCHLD is pending or was
  taken by the handler, not both, and either only after the child has ended (`SigInv`); the calls that fail
  are part of the theorem.
  ReadDeadline: `SelectsInTime`, the safety part of `BytesHeldInTime`: while bytes are held the
  deadline is `max_delay` after the first of them, and the timeout of `select` with what has been waited
  for is never more than that (`DeadlineKept`, by `InDelay`).
  GcmSeq: `CountedOnce`, for a counter of any width. Sealed and opened numbers
  rise (`SealedRise`, `OpenedRise`), what is intact on the link was sealed (`LinkGenuine`), and an intact
  message is refused only behind one that was opened or damaged (`RejectedLate`); `WrapsToZero` is the wraparound.
  HolePunch: `PairedWithOneAnother`, the safety part of `PunchMeets`: of a client whose key came once
  a waiting address is not matched yet and no address is matched twice (`WaitersFree`, `MatchesExclusive`,
  with lists of one address at most, `StoreShort`).
* **Sequential_proofs.** ReaderStream: `OnePasses` and `PrintsInTurn`, for streams of any length.
  The reader is periodic, so the counter and the state of the delay buffer determine how many messages ago
  one was handed over directly (`Missed`), and by how many the delayed message can have been
  overtaken (`DelayedSoon`): by one at most, and by none when a direct message comes next.
  HashSearch and NeighborList: `SearchIsExact`: for any points, distance, number of buckets and
  coefficients the search outputs every near pair exactly once and `query` every near
  point. The way there: cells of near points differ by at most one on each axis (`CellStep`); the
  hash is linear (`HashLinear`), so their buckets differ by one of the precomputed
  differences (`NearAdjacent`); and adjacency is symmetric (`AdjacentSym`), so one
  direction suffices. `NoFalseNegatives`: a list the consistency test accepts is
  complete, by the triangle inequality on squares (`CauchySchwarz`, `Triangle`).
  `ListTypeCorrect` is the type invariant. The assumptions: sites are so near the origin that
  their cell numbers stay within 0 and 2^32 (`ListAssumption`); arithmetic is exact.
  PeriodicSearch: `PairsMeetOnce`, for all three kinds of box. Coordinates whose images are near
  lie in the same bin or in neighboring ones around the box (`GapNear`, `AxisBeside`), for any number of bins
  per axis down to one; such a bin is one of the three that the loops push for the axis (`BesideListed`),
  the three axes give linked buckets (`NearLinked`), each in the list once (`SortUnique`), and the rule
  that search visits a link from one end only makes the pair meet once. Open boxes reuse the lemmas on the hash.
  `PeriodicAssumption`: periods are positive, and cell numbers of an open box are not cut off.

Model-checked only: the liveness properties `ServerStuckOnlyOnLostAcks`, `ServerFinishes`, `GroupEnds`,
`PipelineEnds`, `CallsReturn`, `DispatcherMovesOn`, `IdleSessionsEnd`, `SessionsWindUp`, `ServedUnlessClosed`,
`RexEnds`, `FileComesWatched`, `SearchEndsUnlessPongLost`, `PeersEnd`, and what
`NonceHolds`, `ChildAwaited`, `ReadInTime` and `PunchMeets` say beyond their safety
parts. They hold under fairness, which the prover cannot treat. FileRewatch has no safety part of its own,
so no theorem is about it. The findings are counterexamples and stay with TLC by their nature.

## Plan

Models: the candidates under "Not modelled", in that order; the reverse tunnel would
share the run of the sessions. Abstract
specifications worth stating: a session table (one live session per peer, of
which UdpSession, NonceHandshake and UdpForward would be implementations), a strictly
increasing receiver for GcmSeq, and mutual authentication for NonceHandshake.

Theorems: the refinements of those abstract specifications, as they are written, and
action properties that the invariants imply (a session once ended stays ended, a counter never
returns). The proofs of this project have the invariants these need.
