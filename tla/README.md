# TLA+ models of tinyportmapper-go

This directory holds TLA+ specifications of the port mapper in `src/`, the TLC
configurations that model-check them and machine-checked proofs about them.
Paths below are relative to `src/`; `event/loop.go` is `internal/event/loop.go`
and so on.

Contents: [the system](#the-system) ·
[modules](#modules-and-how-they-correspond-to-the-code) ·
[runs](#runs-and-what-they-show) · [findings](#findings) ·
[bounds](#bounds) · [fairness](#fairness) · [proofs](#proofs) ·
[not modelled](#what-is-not-modelled) · [plan](#plan)

## The system

The program listens on one address and forwards TCP connections and UDP
datagrams to another. One process, many goroutines:

```
 main ──go──> Loop.Run ──> startTCPListener ──go──> acceptTCP ──go──> TCPForwarder: copySrcToDst, copyDstToSrc
   │             │   └───> startUDPListener ──go──> handleUDP ──go──> UDPForwarder: forwardFromRemote (per client)
 Stop, Wait      └───────> cleanup.Manager.Start ──go──> cleanupLoop ──> two lru.Cache ── callbacks ──> TCPConn.Close, UDPForwarder.Close
```

| component | state | operations | interacts with |
|---|---|---|---|
| `lru/cache.go` Cache | map, doubly linked list, a deadline per node, a mutex | Put, Touch, Get, Remove, RemoveExpired, RemoveExpiredRatio, Clear | runs the cleanup callback of each node that leaves, inside the critical section (none in RemoveExpiredRatio, which takes no lock) |
| `cleanup/manager.go` Manager | a TCP and a UDP cache, ticker, stop channel, wait group | Add, Touch, Remove for each protocol; Start, cleanupLoop, Cleanup, Stop | called by acceptTCP and handleUDP; its callbacks close pairs and forwarders |
| `event/loop.go` acceptTCP, `forward/tcp.go` | set of forwarders; per pair two sockets, a buffer and two goroutines | accept, limit, dial, track, start; copy, end; the manager's Start, Add, Remove, CloseAll, WaitAll | AddTCP, TCPConn.Close |
| `event/loop.go` handleUDP, `forward/udp.go` | client → forwarder table, list of UDPConns; per forwarder a socket, a done channel and a goroutine | read, look up, limit, new session, touch, forward; read answer, deliver | AddUDP, TouchUDP, UDPForwarder.Close |
| `event/loop.go` Run, Stop, Wait | running flag, stop channel, wait group, two listeners | as named | main, every goroutine above |
| `conn/` TCPConn, UDPConn, UDPManager | sockets and flags; an address map and a list | Close, CloseRead, ...; Add, Remove | forwarders, loop |
| `fd/manager.go` | fd64 ↔ fd with a reference count | Create, IncRef, DecRef, Close | made by NewLoop, called by nobody |
| `signal/handler.go` | quit and exit channels | Run, Stop, Wait | not used by main |
| `config/config.go` | defaults, flags, file, environment | Load, Validate | main |
| `types/address.go`, `log/` | none that others read | parse, format; log | everybody |

What makes it hard:

- the sweep works on the map and the list without the lock every other method
  takes (`lru/cache.go:170-198`);
- the table that handleUDP reads and the cache that the sweep empties are two
  structures with no common lock and no common removal;
- the two directions of a TCP pair share one buffer, and either may fail, be cut
  or end while the other one writes;
- a connection is counted, dialled, tracked and started in separate steps, and
  the cleaner and the forwarder's goroutines run in between;
- closing a UDP forwarder does not interrupt a read in progress, and File().Fd()
  takes from a UDP socket the deadlines and the Close that would end one;
- a forwarder is closed by its owner, by Wait and by CloseAll, with a callback
  that takes the lock CloseAll holds;
- Run can fail half way, and Stop and Wait can come before, during or after it,
  while the WaitGroup they wait on is still being raised.

What makes each component correct: the cache's map and list agree, each node is
called back exactly once, the list order is what the eviction and the early
break of the sweep rely on; the cleaner loses no connection, closes only idle
ones, and stops; a relay keeps one session per client, within the limit, tracked
until it is closed, and its goroutines end; the bytes of a pair arrive as they
were sent; the loop stops once, and Run returns with no listening socket open, its
cleaner ended and its flag reset; Wait waits for the loop's goroutines; what the
user configured is what runs, or an error. `PROJECT.json` lists the hazards with the line where each
bites and the property that covers it.

## Modules and how they correspond to the code

| module | models | notes |
|---|---|---|
| `LRU` | the operations on the cache's list as pure operators | used by everything else; no state, no RECURSIVE |
| `LRUCache` | `lru/cache.go` under its mutex | each method one atomic step; any ttl, Get and Clear included |
| `CleanupManager` | `cleanup/manager.go` over two caches | the sweep step by step, without the lock |
| `UDPRelay` | `handleUDP`, `forward/udp.go`, the cleaner | composes `CleanupManager` with `INSTANCE` |
| `UDPManager` | `conn/udp.go` UDPManager | Add and Remove in any order |
| `TCPRelay` | `acceptTCP`, the life of the pairs, the cleaner | composes `CleanupManager` with `INSTANCE`; implements `Sessions` |
| `Sessions` | abstract: a bounded set of pairs with deadlines | what `TCPRelay` promises |
| `TCPCopy` | `copySrcToDst`, `copyDstToSrc`, `handlePartialWrite` | the bytes of one pair |
| `TCPForwarderManager` | TCPForwarderManager; Wait and Close of a forwarder | the whole interface, from several goroutines |
| `LoopLifecycle` | `Run`, `Stop`, `Wait`, the goroutines' exits, main | the per-connection work is one step |
| `SignalHandler` | `signal/handler.go` | |
| `Startup` | `config.Load`, `Validate`, what NewLoop and cleanupLoop do with the result | |
| `FDManager` | `fd/manager.go` | |
| `Tables` | side by side: `CleanupManager`, `LRUCache`, `UDPManager`, `FDManager` | the tables of the program |
| `TCPForwarding` | side by side: `TCPRelay`, `TCPCopy`, `TCPForwarderManager` | three views of `forward/tcp.go` |
| `Lifecycle` | side by side: `LoopLifecycle`, `CleanupManager`, `SignalHandler`, `Startup` | what begins and what ends |
| `MCTables`, `MCTCPForwarding`, `MCLifecycle`, `MCCleanupManager`, `MCUDPRelay`, `MCTCPCopy` | values and symmetry sets for TLC | they define nothing of the system |
| `LRUProofs` | lemmas about `LRU` | |
| `CleanupManagerProofs`, `UDPRelayProofs`, `TCPRelayProofs`, `LoopLifecycleProofs`, `TablesProofs`, `TCPForwardingProofs`, `LifecycleProofs` | theorems about the module of that name and those it composes | see [proofs](#proofs) |

**Side by side.** Modules that share no state are composed in one specification: it
instantiates each, a variable `part` is chosen in the initial state, and only the
module it names takes steps. The states TLC explores are the sum of the modules'
state spaces, not their product. The property of a module is restated in the
composition under its own name (`RecencyOrder == C!RecencyOrder`), and the
theorems are about the composition. The constants of all the modules
stay constants of it; the `.cfg` and the MC module give them their values.

**LRU, LRUCache.** A cache is a sequence `li` of keys, front first, a set `mp`
of the map's keys and a function `exp` with the deadline of each node. The list
element is identified with its key: the program's keys are pointers to objects
it has just allocated. `lastUse`, `inserted` and `cleaned` are history variables.

**CleanupManager.** `li[p]`, `mp[p]` for `p` in `{"tcp", "udp"}`. A call of the
event loop is two steps: `Lock` takes the mutex, and `Put`, `Touch` or
`RemoveKey` does the work and releases it. The cleanup goroutine has the program
counter `pc`; its steps between two accesses of shared memory are the steps of
RemoveExpiredRatio: the quota (`SweepQuota`, cache.go:171-178), the back of the
list (`SweepBack`, 182), the deadline (`SweepCheck`, 187), `delete`
(`SweepUnmap`, 190), `list.Remove` (`SweepUnlink`, 191), the callback
(`SweepCallback`, 194).

*Data races.* An unlocked write that falls inside another goroutine's critical
section is a data race. The model gives it two kinds of outcome: that of some
serial order of the two, which the interleaving of the actions produces, and
`crashed`, which stands for the runtime's fatal error ("concurrent map read and
map write"), for the panic on a nil element and for a torn list, after which
nothing is modelled. So the invariants below say what holds as long as a race
does not end the process or tear the list.

**UDPRelay.** handleUDP is `h` (its place in the loop, the datagram's client,
the forwarder), `table` is udpForwarders, `conns` is udpManager, `reader[f]` the
place of the goroutine of forwarder `f`, `net[f]` what its socket has for the
next read (nothing, an answer, or ECONNREFUSED). `Closed(f)` is the effect of the
cache's callback. A datagram takes the steps read, look up, new session, AddUDP
(two steps), TouchUDP (two steps), forward, so that the cleaner and the reader
run between any two of them.

**UDPManager.** `byAddr` is addrToConn, `list` is connList; a UDPConn is a number
and `Addr` its address. `foreign` records that Remove was given a conn the map
did not hold, the one kind of call after which the two are no longer the same
set.

**TCPRelay.** acceptTCP is `a`; `fwds` is the map of the TCPForwarderManager;
`copier[s][d]` are the two goroutines of a pair. The forwarder passes
`RemoveTCP` to NewTCPForwarder as onClose, TCPForwarderManager.Start overwrites
it, and nobody calls TCPForwarder.Wait or Close: neither is an action.

*Refinement.* `Sessions` knows pairs that are none, open, tracked or closed, a
deadline for each, and a clock; it has no cache, no table, no sweep and no
goroutines. `ImplementsSessions` is `S!Spec` under the mapping: a pair that was
not made is none, one whose callback ran is closed, one that was Put in the
cache is tracked, and `deadline` is `exp`. Every step of the relay is a step of
`Sessions` or none.

**TCPCopy.** `buf` is f.buf; `pc[d]`, `n[d]`, `w[d]` are the place of a copying
goroutine, what its last Read returned and how much of it is written. A Write
takes one step per cell, because it copies the buffer while the other goroutine
may read into it. A byte is named by its direction and its number, so that
`Faithful` says that each peer gets what the other one sent, in order. A socket
can fail with ETIMEDOUT, which Go calls a timeout and the code takes for
temporary, or with an error that is final; the cleaner can close the pair at any
time. `net.TCPConn.Write` returns a short count only with an error, so that lines
100-103 and 147-150 of `forward/tcp.go` have no action.

**TCPForwarderManager.** `table` is the map, `mu` the goroutine that is in
CloseAll, `call[c]` the place of goroutine `c` inside Start, Wait, Close,
CloseAll or WaitAll. Start installs an onClose that calls Remove, which waits
for `mu`. WaitAll sleeps on `wg` in the way described for LoopLifecycle, so that
a Start whose `wg.Add(1)` falls between the last Done and the wake-up panics.
`removed` is a history variable: what an owner took out with Remove.

**LoopLifecycle.** `run` is the line Run is at, its defers included; `user[i]` a
goroutine that calls Stop (a compare-and-swap and a close, two steps) and then
Wait. main is such a goroutine; its return ends the process, which only cuts a
behaviour short.

*The WaitGroup.* `wg` is the counter of l.wg. A Wait that finds it above zero
sleeps; the Done that takes it to zero releases the sleepers in the same step
("woken"); who wakes looks at it once more, and panics when an Add has raised it
again ("WaitGroup is reused before previous Wait has returned"). Add may find
the misuse itself, and Done panics below zero. After a panic nothing moves.
`early` records that a Stop was called before Run had started its listeners.

*The blocking socket.* `blocking` says that handleUDP has called `File().Fd()` on the
listening socket (`event/loop.go:362`). In Go on Unix, Fd() of a File that came
from a net.Conn puts the descriptor in blocking mode, and the mode belongs to
the socket that the two descriptors share: from then on a Read that waits in
the kernel is ended neither by its deadline nor by Close, and Close waits for
the Read. `UDPRelay` models the sessions' sockets in the same way: a reader
waits for an answer or an error and for nothing else.

**SignalHandler.** `sigCh` is the channel of one, `at[g]` the place of a
goroutine in Run, Stop or safeCloseQuit, `closeMu` its mutex.

**Startup.** The value of an option is "default", "given", "bad" (an address that
does not parse; a number, timeout or interval that is not positive, or out of the
range Validate names) or, for `max-connections`, which has no upper bound, "huge":
more than a slice can hold. `LoadFlags`
takes the command line over the defaults; `LoadFile` is viper's Unmarshal, which
writes every key that the file has or that has a viper default; then Validate,
NewLoop (addresses parsed, a list with the capacity `max-connections`, for which
make panics when it is negative or huge) and the
cleanup goroutine's NewTicker. What a command line and a file may set are the
constants `FlagSettings` and `FileSettings`, any legal settings at all.

**FDManager.** `info` is fd64ToInfo, `byFD` is fdToInfo with each info replaced by
its identifier; `reused` and `decd` record that a descriptor was registered twice
and that DecRef was called.

## Runs and what they show

Passing runs, with their distinct states:

| run | states | properties |
|---|---|---|
| `Tables` | 568 thousand | `CleanupManager`: `MapListAgree`, `DeadlineOrder`, `Capacity`, `CallbackIffRemoved`, `QuietAfterStop`: the unlocked sweep against Add, Touch, Remove and Stop. `LRUCache`: `MapIsList`, `CallbackPerNode`, `RecencyOrder`: any sequence of calls keeps map and list in step, calls each node back exactly once when it leaves, and evicts the least recently used. `UDPManager`: `StrandedOnlyByStaleRemove`. `FDManager`: `IDNamesOneFD`, `IndexesAgree` |
| `UDPRelaySafety` | 1.9 million | `OneForwarderPerClient`, `OpenIsTracked`, `OneLateDelivery` |
| `UDPRelayLiveness` | 65 thousand | `IdleSessionCloses`; `ReaderExitsOnceAwake`: the goroutine of a closed session ends once an answer brings it out of its Read |
| `TCPForwarding` | 145 thousand | `TCPRelay`: `OpenIsTracked`, `ImplementsSessions`, `ExpiredSessionCloses`, `CopiersExit`. `TCPCopy`: `IntactUnlessShared`: a byte goes astray only through the shared buffer or through handlePartialWrite; `DeliveredUnlessCut`. `TCPForwarderManager`: `OnCloseOnce`; `InTableUntilClosed`: an open forwarder is in the table from the end of its Start or Add until its owner removes it, and one that was closed leaves it; `CallsReturn`: only a CloseAll that locks itself out, or a Start that meets a WaitAll being released, keeps a call from returning |
| `Lifecycle` | 147 thousand | `LoopLifecycle`: `ClosedOnce`, `RunCleansUp`, `OneLateInput`; `WaitWaitsUnlessEarly`: Wait waits for acceptTCP and handleUDP and nobody panics, unless a Stop came before the end of Run's start; `StopUnwinds`. `CleanupManager`: `ExpiredEventuallyCleaned`: the quota of one sweep always makes progress; `StopEventuallyReturns`. `SignalHandler`: `ClosedSafely`, `HandlerExits`. `Startup`: `PanicsOnlyUnchecked`, `LostOnlyToDefaults` |

One run of every module also checks its `TypeOK`. Each property of a
passing run has a mutant in `PROJECT.json`: a definition of the model changed the
way a plausible mistake in the code would change it, with which TLC finds the
property violated.

## Findings

Runs that TLC must find violated, each a place where the code does something
else than a comment or the program's README says:

| run | what happens |
|---|---|
| `CleanupOnlyExpiredSwept` | a connection touched between the sweep's check and its removal is closed while active |
| `UDPRelayClosedSession` | the cleaner closes a UDP forwarder and leaves it in the table: the client is routed to it for ever and gets no answers |
| `TCPRelayRefused` | forwarders of closed pairs still count against `--max-connections`: after that many connections in the life of the process new ones are refused |
| `TCPRelayOnlyIdle` | a TCP pair is closed `--tcp-timeout` after it was made, however much data it moves |
| `TCPCopyScrambled` | both directions read into the same `f.buf`: bytes that one has still to write are replaced by what the other has read, and a peer gets its own bytes back |
| `LoopStopLost` | a signal before Run has set its flag is lost, and Wait never returns |
| `LoopStopStuck` | the first UDP session makes the listening socket blocking: a later Stop waits until one more datagram comes |

`TCPCopyScrambled` has a second cause that needs a failing socket:
handlePartialWrite writes to `dst` whichever direction called it, so that the
remote gets its own bytes back after an ETIMEDOUT (`forward/tcp.go:160`;
`echoed` in `IntactUnlessShared`).

Seen in the models and not the subject of a run of their own:

- UDP: the table counts closed sessions just as the TCP one does
  (`event/loop.go:325`). An ICMP error ends the reader of a UDP session that
  stays open (`forward/udp.go:101`, the `refused` case of `ReaderReads`). The
  goroutine of a closed session stays in its Read while the remote is silent,
  for the reason of `LoopStopStuck` (`event/loop.go:363`); `ReaderExitsOnceAwake`
  says what is left of its exit. Where File() is not supported, as on Windows,
  no UDP session is made.
- TCP: the client's end of stream is not passed on (`forward/tcp.go:61`), and that
  of the remote cuts what is still on its way to it (`forward/tcp.go:111`;
  `dstShut` in `DeliveredUnlessCut`). CloseAll locks itself out as soon as it
  closes a forwarder given to Start (`SelfLocked`). WaitAll waits for the
  goroutines that start forwarders, not for the copying, and panics when a Start
  raises the counter while it is being released (`Reused` in `CallsReturn`); a
  forwarder's Wait can return before the copying has begun (`WaitEnds`). The pool
  is made and never taken from.
- The sweep can write the map while handleUDP is inside the mutex (`crashed` is
  reachable wherever a caller and the sweep are). Get leaves a node's deadline
  and moves it to the front, so that the time order the sweep's break relies on
  holds for the cleaner, which does not call Get, and not for every user of the
  cache.
- A Stop before Run has started both listeners (`WaitWaitsUnlessEarly` says that
  a later one is safe): Wait can find a counter of zero and return while Run goes
  on to start them; or, with acceptTCP started and handleUDP not, acceptTCP's Done
  releases Wait and Run's `wg.Add(1)` (`event/loop.go:270`) comes before it has
  woken, and one of the two panics.
- Wait can return before Run does, because Run is in no wait group
  (`event/loop.go:411`), also when the Stop was not early.
- What survives Run (`event/loop.go:120-151`): the TCP pairs, the sockets of the
  UDP sessions and the goroutines of both, with the cleaner stopped, so that
  nothing closes them any more. After a Stop the end of the process does; when
  startUDPListener fails, main goes on waiting for a signal and the pairs that
  acceptTCP has made stay.
- `signal/handler.go`: a TERM that finds the channel full, of a SIGPIPE for
  instance, is dropped; Wait blocks for ever when Run was never called.
- `config/config.go`: a flag given beside `--config` is set back to its default
  when the file does not mention it and it has a viper default
  (`LostOnlyToDefaults` names the case); the environment is set up after the
  file was read and never consulted; an interval that is not positive panics in
  NewTicker, a `max-connections` too large for a slice in make
  (`PanicsOnlyUnchecked` names the two), and a `tcp-timeout` or `udp-timeout` that
  is not positive runs; `clear-min` is validated and not used, NewLoop passes 1.
  Addresses: `:8080`, which the program's README gives as an example, and `[::1]`, which the comment at `types/address.go:39` lists, do not parse.

Some passing properties hold partly because of a finding: the tables never
shrink, so that one forwarder per client (`OneForwarderPerClient`) and no
eviction by AddTCP (part of `ImplementsSessions`) follow easily. Whoever repairs
the tables has to keep them true, and these runs are the place to check.

## Bounds

| constant | where | value | why it is enough |
|---|---|---|---|
| Keys, TCPKeys, UDPKeys | caches | 1 to 3 | capacity plus one: eviction, and order between two that stay |
| MaxTime | all | 2 (`TCPForwarding`: 1) | a deadline set at 0 and one set at 1, both passed at 2, with renewal in between; nothing renews a TCP deadline, so that one passed and one ahead are enough |
| ttl, timeouts | all | 1 or 2 | expiry within MaxTime; two different ttls in LRUCache |
| ClearRatio | | 2, 30 | 30 is the default and gives quota 0 + MinClear; 2 gives quotas of one and two |
| MinClear | | 1 | what NewLoop passes |
| MaxUses | LRUCache | 5 | each of three keys used, one of them three times |
| Clients, MaxFwds, MaxDatagrams | UDPRelay | 2, 2, 2 or 3 | a second datagram of a client after its session was closed; a client refused |
| MaxSessions, MaxAccepts | TCPRelay | 2 or 3 | one more than the limit |
| Users | LoopLifecycle | 2 | two goroutines in Stop at once |
| BufSize, MaxSent | TCPCopy | 2; 1 up, 2 down | a Write of two cells with a Read in between, and a second Read after it |
| Fwds, Callers | TCPForwarderManager | 2, 2 | a forwarder in CloseAll while another goroutine starts, closes or waits for one |
| Stoppers | SignalHandler | 2 | two goroutines in Stop beside the signal |
| settings | Startup | at most one option beside the usual ones, on the command line and in the file | options do not interact but through Validate, which needs the usual ones |
| Conns, Addr, MaxConns | UDPManager | 4, two per address, 3 | an address taken over, a list with a middle, a full list |
| FDs, MaxIDs, MaxRefs | FDManager | 2, 4, 2 | a descriptor that comes back and one registered twice |

Symmetry is used in safety runs only, on keys and on client addresses, which the
specifications only compare for equality. Forwarders and TCP pairs are numbered in the order they are made and are
not symmetric.

CHECK_DEADLOCK is off where the system may rest: in the `Loop*` runs and
`Lifecycle` (a loop that was stopped, a handler that exited, a program that has
its configuration), and in `TCPForwarding` and `TCPCopyScrambled` (a pair whose
goroutines returned, a CloseAll that locked itself out, a panic). In the others a crashed
process stutters through `Crashed`, the ticker never stops, and the descriptor
manager stutters when every identifier is closed (`AllClosed`).

## Fairness

- Goroutines that can run do: weak fairness of the steps of handleUDP, the
  readers, acceptTCP, the sweep, Run, Stop and Wait, and of leaving a critical
  section. Go's scheduler preempts and its mutex has a starvation mode.
- The ticker fires: weak fairness of `TickerFires`. The clock itself is not fair:
  liveness is stated for deadlines that have passed.
- `select` picks a ready case at random, so that a case that stays ready is not
  passed over for ever: strong fairness of `LoopTicks` and `LoopQuits`.
- Of the read deadlines those of the TCP listener and of a UDP socket that is
  not in blocking mode pass (`AcceptTimesOut`, `HandleStopsReading`), and a dial
  ends, because the operating system gives up on it. No deadline is assumed for
  a socket in blocking mode.
- A goroutine that waits for the forwarder manager's mutex gets it if it comes
  free again and again: strong fairness of `Works` and `Locks`, Go's mutex in
  starvation mode. The copying of a forwarder ends there (`CopiersEnd`), as
  `CopiersExit` shows for a closed pair.
- A peer takes what is written to it: weak fairness of `TCPCopy`'s goroutines,
  whose writes would otherwise block.
- The handler's select does not pass over a closed quit for ever: strong
  fairness of `RunQuits`.
- Nothing makes a client send, a remote answer, a peer close or anybody call
  Stop. `Copy`, `ReadFrom`, `AcceptTCP` and `RemoteAnswers` have no fairness; of
  `CopierEnds` only the case of a closed pair has.

## Proofs

`tlapm` checks the eight `*Proofs` modules to the last leaf. Every invariant and
every action property of a passing run, and the refinement of `Sessions`, is the
statement of a theorem, for every value of the constants that the named
assumptions allow:

| module | assumptions | why the code justifies them |
|---|---|---|
| `CleanupManager` | the two key sets are disjoint and exclude nil; timeouts, capacity and the clock bound are natural numbers; ClearRatio and MinClear are positive | the keys are pointers of two types; `Config.Validate` rejects a ratio that is not positive and NewLoop passes 1 for the other. Validate does not look at the timeouts: negative ones are left out |
| `UDPRelay`, `TCPRelay` | MaxConns is positive; timeout and ratio as above; nil is no session | Validate rejects a max-connections that is not positive |
| `Tables` | the ttls and the list's limit are natural numbers, the ratios integers; every conn has an address | a negative ttl is a negative timeout |
| `TCPForwarding` | the buffer is not empty; the set of forwarders is finite; nil is no forwarder and no goroutine | NewTCPForwarder makes none that is empty; a map is finite |
| `Lifecycle` | those of `CleanupManager`; none of the handler's goroutines is nil; the settings are legal | a switch is on or off, and only `max-connections` can be too large for make |

**The argument, component by component.** An invariant is seldom inductive: each
proof has a stronger one (`Inv`, or `BInv`, `CInv`, `FInv`, `HInv`, `MInv`,
`UInv` for an instance), one lemma per action or group of actions, and the
properties follow from it.

| module | theorems | what the inductive invariant adds |
|---|---|---|
| `CleanupManagerProofs` | `Invariance`, `TypeCorrect`, `MapAndListAgree`, `DeadlineOrdered`, `CapacityKept`, `CallbackExactlyIfRemoved`, `QuietOnceStopped` | see below |
| `UDPRelayProofs` | `OneForwarder`, `DrivesManager`, `Invariance`, `TypeCorrect`, `TrackedWhileOpen`, `AtMostOneLate` | forwarders are numbered as they are made (`Numbered`); what handleUDP knows at each place (`HandlerTyped`); every forwarder made was given to the cleaner or is about to be (`AddedOnceMade`); a reader that has delivered late looks at done next, and exits (`LateInv`) |
| `TCPRelayProofs` | `DrivesManager`, `Invariance`, `TypeCorrect`, `TrackedWhileOpen`, `RelayImplementsSessions` | the limit was checked before the dial and nobody else makes pairs (`AcceptInv`); what the cleaner was given is what acceptTCP made, but for the pair it holds (`UsedOnceMade`); the victim of the sweep had reached its deadline (`SweepTimely`) |
| `LoopLifecycleProofs` | `TypeCorrect`, `ClosedAtMostOnce`, `CleanedUp`, `FewLateInputs`, `WaitsForAll` | while the flag is up nobody has closed stopCh or is about to (`OneStopper`); where Run is while a socket is open (`OpenWhile`); who took a late input looks at stopCh next (`LooksNext`); the listeners' goroutines are started once (`StartedOnce`); wg is the number of them that have not ended (`Counted`); without an early Stop nobody is in Wait while Run can still raise wg (`Released`) |
| `TablesProofs` | `MapListsSame`, `CalledBackOnce`, `RecencyKept`, `ListAndMapAgree`, `TablesAgree`, `IdentifiersKept`, `TablesTypeCorrect` | LRU cache: uses are numbered, no two nodes share one, and the list is sorted by them (`LastUses`). UDPManager: the map has each conn under its own address; lemmas say what swap-and-pop leaves at each place and in the set of conns. FDManager: the tables are inverse to each other (`TablesInverse`), no identifier is above nextID |
| `TCPForwardingProofs` | `IntactOtherwise`, `ClosedOnce`, `TableHasTheOpen`, `CountedInvariance`, `ForwardingTypeCorrect` | bytes: what arrived and the cells a goroutine has still to write are, together and in order, what it read (`Carries`). Manager: one goroutine at a time is past the compare-and-swap of a forwarder (`OneCloser`); a forwarder whose Start has not added it yet is not swept, waited for or closed (`Unadded`); it is out of the table when the owner's onClose runs (`Dropped`, `HasLeft`); of the table CloseAll has closed what it has visited (`Swept`), and what is open and was added is in it (`Kept`); wg is the number of goroutines of Start that have not ended (`Counted`), so that it is never negative, which would panic |
| `LifecycleProofs` | `NeverPanics`, `OnlyUncheckedPanics`, `LostToDefaultsOnly`, `LifecycleTypeCorrect` | handler: who is inside safeCloseQuit holds its mutex, so that what it saw of quit stays true (`HExcluded`); Run gives sigCh up before it closes it (`HGivenUp`). Configuration: what each stage of the start has made of the settings and looked at (`Staged`) |

*The cleaner.* `Inv` of `CleanupManagerProofs` adds: no node has a deadline later
than now plus its protocol's timeout, so that a node put or touched now may go in
front (`DeadlineOrder`); what is listed or about to be swept was put before, and a
key inside a `put` was not, so that a callback cannot have run for a key that is
still to come; and while the sweep is at the callback its victim is in neither map
nor list. One lemma per action that writes a cache (`PutInv`, `TouchInv`,
`RemoveKeyInv`, `SweepUnmapInv`, `SweepUnlinkInv`, `SweepCallbackInv`), one for
those that only read (`ReadingStepInv`); they rest on the lemmas of `LRUProofs`
about removing, moving and trimming. `QuietAfterStop` needs in addition that the
goroutine has exited once Stop has returned (`Quiesced`).

*The relays.* A relay does with the manager what the manager's callers may do,
and nothing else: an invariant of the relay alone (`RelayInv`) shows that each
step of it is a step of the instance `CM` or invisible to it
(`DrivesManager == Spec => CM!Spec`). So the manager's invariant holds in the
relay, and a joint invariant over both gives the properties. The proofs of
`CleanupManager` are not repeated: they are instantiated (`CMP`).

*The refinement.* `RelayImplementsSessions` maps the initial state to that of
`Sessions`, and each step to a step or a stutter: a pair dialled is a pair opened,
AddTCP's Put is its tracking, the sweep's callback its close, and everything else
stutters. Three facts carry it. A Put never evicts, because acceptTCP counts the
forwarders and the table never shrinks (`AcceptInv`). A pair is Put once,
when it has no deadline yet (`UsedOnceMade`). The sweep's victim is past its
deadline, although the sweep compares with a time it read before (`SweepTimely`).

*The compositions.* `TablesCompose`, `ForwardingCompose` and `LifecycleCompose`
show that a behaviour of the composition is one of each part, so that what
is proved of a part on its own holds in it.

**Only model-checked.** The liveness properties and `CopiersExit`,
`DeliveredUnlessCut`, `CallsReturn`, `StopUnwinds` and the like: liveness under
fairness is out of the prover's reach. The violation runs are TLC's
counterexamples.

## What is not modelled

- Descriptors: sockets and duplicates are released by Close, by the garbage
  collector's finalizers, at a time nothing in the code decides, or by the end
  of the process; the models count sessions, not descriptors.
- Methods the program does not call: Remove and CloseAll of UDPForwarderManager,
  the reads, writes, options and reference counts of TCPConn and UDPConn and
  their buffer pools, TCPForwarderPool. Those with an interface of their own that
  keeps state (UDPManager, FDManager, TCPForwarderManager, SignalHandler, the
  rest of the LRU cache) are modelled as a user may call them.
- A second Run of the same loop, and a cleanup manager started twice: main does
  neither.
- `types/address.go`: pure parsing and formatting of text, which a reading and a
  table of examples settle. Addresses are keys here, compared for equality.
- `log/`: no state that others read. The logging options and `timer-interval` of
  the configuration, for the same reason. Generated code: none.

## Plan

Done: `LRU`, `LRUCache`, `CleanupManager`, `UDPRelay`, `TCPRelay`,
`LoopLifecycle`, `TCPCopy`, `TCPForwarderManager`, `UDPManager`, `FDManager`,
`SignalHandler`, `Startup`, the abstraction `Sessions`, the compositions, and a
theorem for every safety property that a passing run checks, the refinement of
`Sessions` included.

Next, in this order:

1. The limits as theorems: neither relay makes more sessions than its limit, and
   what that says of eviction in the cleaner's caches.
2. UDPForwarderManager's Remove and CloseAll.
3. An atomic expiring cache, implemented by `CleanupManager`.
