# qos-hal: a TLA+ verification of the hardware abstraction layer

This directory holds TLA+ specifications of `qos_hal` (`src/HAL/src/qos_hal`), the
TLC configurations that model-check them, and theorems about them that TLAPS checks.
File and line references are to that package unless they say otherwise.

## 1. The system

A user's program talks to quantum hardware through a local daemon:

```
 QosHalClient  --one Unix socket, JSON lines-->  DaemonServer thread
  (client.py)                                     (daemon/server.py)
                                                       | one lock
                                                  dispatch (daemon/dispatch.py)
                                                       |
                                                  CachedBackend (cached_backend.py)
                                                       |
                                                  IBMBackend (ibm/ibm_backend.py)
                                                       |
                                                  IBM Quantum Platform (external)
```

| Component | State | Operations | What makes it correct |
|---|---|---|---|
| RPC client (`client.py`) | `_sock`, `_buffer` | `connect`, `close`, one RPC per public method through `_call` | a call ends; it returns the answer to that call; a submit or cancel is never sent twice; a lost write is reported as such |
| Connection threads (`server.py:87-138`) | one thread per connection, `_backend_lock` | read a line, dispatch it under the lock, write the reply | every request served gets its own reply; the lock and the thread survive errors and gone clients |
| Daemon lifecycle (`server.py:53-85`) | socket file, listening socket, `_shutdown` | `serve_forever`, `stop`, `_cleanup` | starts over stale files, is reachable while it serves, ends after `stop()`, takes nobody else's socket |
| Dispatcher (`dispatch.py`) | none | method name to `Backend` operation, values to JSON | total on the protocol's methods, drops what JSON cannot carry |
| Backend contract (`backend.py`) | none | `_ensure_connected`, `_make_job_id`, `_parse_job_id` | auto-connect only without a session; ids survive the round trip and foreign ones are refused |
| IBM backend (`ibm_backend.py`) | `_service`, `_backend` | `connect`, `disconnect`, reads, submit, status, result, cancel | a session is kept until it is ended; jobs are asked about under the right id; statuses are true |
| Cached backend (`cached_backend.py`) | two cache entries | cached reads, `disconnect`, delegation | nothing older than its time to live, nothing of another session |
| Target builder, decoders, transpile support | none | `get_target`, `build_target`, the decoding of topology and calibration | what the device knows arrives at its place, NaN and missing values included, and nothing else does |
| Line framing (`server.py:87-111`, `client.py:380-400`) | a byte buffer at each end | `recv`, split at newlines, write a line | every line arrives whole, once and in order, however the bytes are cut |
| Whole stack | all of the above | a program's script over shared daemon, lock, cache and device | a run queues one job at most and ends with that job's result, and ends at all |
| Registry (`registry.py`) | a table of classes | `register`, `get_backend`, `available` | names are unique, case does not matter |

The components interact by calls (dispatcher, cached backend, IBM backend: one
process, one lock), by messages (client and daemon: a stream each way) and through the
file system (daemons that share a socket path). All clients share one Backend.

What is hard, and hardly reached by the tests in `src/HAL/tests`:

- request and response lines carry no number, so that only the order on one connection
  pairs them, while calls time out and connections die and are replaced;
- a retried request may have been executed, or may be executed later by the thread of
  the connection that was given up;
- the daemon may crash between executing and replying, and a new one has no session;
- several clients' threads meet at one lock, and switch one shared device;
- cached data outlives the session it came from, and `get_target` combines two reads;
- `get_result` waits for a job with the lock held;
- `stop()` closes a socket another thread is blocked on, and daemons share a file.

`PROJECT.json` lists each of these hazards at its line with the properties about it, or with
the reason why there is none.

## 2. The modules

| Module | Models | Builds on |
|---|---|---|
| `RpcTiers` | `_METHOD_TIERS`, `_RETRY_TIERS` | |
| `HalRpc` | client and connection threads, streams of lines, crashes, socket faults | `RpcTiers` |
| `CallPromise` | abstract: what a call promises, without connections or retries | `RpcTiers` |
| `HalRpcRefinement` | `HalRpc` implements `CallPromise` (refinement mapping) | `HalRpcInv`, `CallPromise` |
| `LineFraming` | both ends' byte buffers, pieces of any size, blank and malformed lines | |
| `LineQueue` | abstract: the queue of whole lines that `HalRpc` takes a direction for | |
| `JobIds` | composite job ids | |
| `IBMBackend` | sessions, auto-connect and jobs over an external provider | `JobIds` |
| `CachedBackend` | the caches, stacked on the IBM backend as `__main__.py` does | `IBMBackend` |
| `CacheSwitch` | what the caches serve after the session has left a device (a history variable) | `CachedBackend` |
| `HalSystem` | programs, clients, lock, dispatcher, shared `CachedBackend`, crash and restart | `CachedBackend`, `RpcTiers` |
| `DeviceData` | the data of `get_target`, from the SDK's objects to Qiskit's `Target` | |
| `DaemonLifecycle` | `serve_forever`, `stop`, `_cleanup` of several daemons on a path | |
| `HalRpcInv`, `*Proofs` | inductive invariants and theorems (section 5) | |
| `MC_*` | the small instances TLC checks | |

Three specifications are shown to implement more abstract ones: `HalRpc` implements
`CallPromise`, `LineFraming` implements `LineQueue`, and `HalSystem` implements
`CachedBackend`. All three are proved as well as checked. (`CachedBackend` is written with
the actions of `IBMBackend`, so that it implements it is no claim about the code.)

Operators whose name carries a suffix (`CallTimesOut_KeepSocket`) and whose comment says
"Wrong on purpose" are plausible bugs; each property is known to catch one of them.

### HalRpc and CallPromise

`sock[c]`, `pc[c]`, `num[c]`, `method[c]`, `attempt[c]` are the client's `_sock` and the
place, request and attempt of its `_call`; `handler[k]`, `cur[k]` and `lock` the
connection threads and the Backend lock; `reqQ[k]` and `respQ[k]` the two directions of
connection `k`, one line per element. `executed[r]` counts how often request `r` went
into the Backend. `Connect`, `Close` and `BeginCall` are the user's;
`SendRequest`, `SendFails`, `ReceiveResponse`, `ReceiveFails`, `CallTimesOut`,
`Reconnect`, `ReconnectFails` are the branches of `_call`, `_send_and_receive` and
`_read_response_line`; `Accept`, `ReadLine`, `ReadEof`, `AcquireLock`, `Dispatch`,
`Reply`, `ReplyFails` those of the server. `Crash`, `Start` and `SocketFault` are the
environment's. A closed connection whose thread has not noticed keeps serving what was
sent on it, as the code does: that is where late executions come from.

Abstracted: the bytes of a line (`LineFraming` has them; here an unfinished line counts
as not sent), what a request does to the Backend (`HalSystem`), and time (a timeout may
strike whenever no response line is there, whatever the tier). A timeout with a response
ready is left out: `recv` returns what is there.

`CallPromise` is the contract a user of `QosHalClient` can rely on: a call is begun and
ends once; an answer means that this very request was executed; a write is executed at
most once and anything else at most twice, possibly after the call is over; only writes
carry the warning of `client.py:76-80`. A request is "on its way" while any connection
carries a copy of it that no thread has executed.

### LineFraming and LineQueue

`toServer` and `toClient` are the bytes under way, `buffer` and `clientBuffer` the two
ends' buffers. A `recv` takes any piece of up to `ChunkSize` bytes; the thread then takes
lines out of its buffer until none is left (`SkipBlank`, `HandleLine`, `NoMoreLines`), and
an end of stream drops an unfinished line. The program on the other end writes what it
likes, line noise included: blank lines, lines that are not JSON (answered with an error),
and lines on which `json.loads` raises something that `server.py:106` does not catch:
`UnicodeDecodeError` when the line is not text (`Garbage`), and on text (`Unloadable`) a
plain `ValueError` for a number of more than 4300 digits or a `RecursionError` for deep
nesting. Then the thread dies and the program sees the connection close. `LinesOf`
defines the lines of a byte sequence without reference to buffers, and the mapping to
`LineQueue` uses it. `output` keeps all the thread has written, as `input` and `written`
do for the program.

### IBMBackend and CachedBackend

An operation is one action, because the lock of `server.py:117` serialises them in the
daemon (`HalSystem` shows that it does). `session` is the device behind `_backend`;
`credentials` says whether the environment variables are set, which does not change while
the daemon runs. The provider refuses any request it likes, moves jobs to later phases,
and names another least busy device at any time. A device's name is a sequence of tokens,
so that `startswith` and slicing are what they are in the code, including separators
inside names and raw ids. `last` records an operation with its answer and with the raw id
the provider was asked about. `CachedBackend` adds the clock, the two entries (whose data,
when the provider was asked, when stored) and what was served; a live read takes up to
`MaxFetch` time units. `connect()` keeps the entries, which is what `cache_switch` finds;
`CacheSwitch` remembers when the session was last on each device, and `OldDeviceFades` says
what is left of the comment at `cached_backend.py:79-81`: a device's data is served for
less than one time to live after that. The provider's statuses are more than the table of
`ibm_backend.py:54-61` has (`INITIALIZING`): `FinalIsFinal` says that a reported final
status stays true, and that the fallback to failed is the only exception.

### HalSystem

Programs run the script of `src/HAL/verify_no_runtime_service.py` (connect, topology,
calibration, submit, optionally poll the status, result) over one daemon. `at[u]`,
`waiting[u]`, `linked[u]`, `resent[u]`, `heard[u]` and `jobOf[u]` are a program with its
client; the first error ends the script, as it does there. `wire` holds the requests no
thread has served; a request whose client has given its connection up stays there and is
served all the same (`current = FALSE`), and nobody hears the answer. `serving` is the
request whose thread holds the lock. Connect, submit, status and cached reads are served
in one step; a live read and `get_result` are two steps, with the lock held in between
and the job, the provider and everybody else's calls moving on. Every step is written with
the actions of `CachedBackend`. `Crash` forgets the session, both cache entries, requests
and responses not yet written; `Start` brings a daemon without a session.

The connections are coarser than `HalRpc`'s, along the lines of its promise: what
`CallPromise` allows a call is what `Ask`, `Resend`, `CallIsLost` and `TimesOut` do.
`wire` is a set: when a call and its retry, or two polls, are both given up and neither has
been served yet, their copies count as one. A second execution of a read, of a status or of
the same `connect` leaves the daemon where the last one alone leaves it, and a submit is
never sent twice; `HalRpc` counts every copy.

### DeviceData

A device is what the SDK says of it: for each instruction its qargs and errors (known,
`nan`, `None`, or an instruction that applies to any qubits), and properties that may be
missing, raise, or be absent altogether. `GetTopology` and `GetCalibration` are the two
functions of `ibm_backend.py`, with their synthesized pairs, key strings and `_safe`;
`OverTheWire` is JSON, whose object keys are strings; `BuildTarget` is
`target_builder.py`. Each end spells the keys of gate errors in its own way, as in the code
(`Key` at `ibm_backend.py:161`, `QubitKey` and `PairKey` at `target_builder.py:106` and
`112`), and that they meet is part of what is checked. Values are opaque and named after the place they come from, so that a
value that ends up anywhere else is noticed. `Standard` holds the names of Qiskit's
standard gates and `Width` the number of qubits of every instruction, which on a device
is that of the qargs it is offered on (`QargsOf`). The two reads may come from two devices,
because nothing keeps another client from switching in between (`client.py:475-476`).

### DaemonLifecycle

The main thread's steps are the calls another process or thread can see: `exists`,
`remove`, `socket`, `bind`, `listen`, the flag, `accept`. `stop()` is two steps of
another thread, allowed at any moment. Closing the descriptor of a socket does not end
an `accept()` that is already blocked on it, and the kernel keeps that socket
listening until it returns (Linux).

## 3. The runs

| Run | Question | Bounds | Result |
|---|---|---|---|
| `rpc_calls` | the promise of a call, one thread in the Backend at a time, no executed write reported as not sent, nothing left over, calls return, threads of gone clients end | 1 client, 2 connections, 3 calls, 1 crash, 1 socket fault | holds |
| `rpc_clients` | at most once, matched replies, answered calls were served; the inductive invariant | 2 clients, 2 connections, 2 calls each, 1 socket fault | holds |
| `line_framing` | lines arrive whole, in order, paired with their responses, and are answered up to the first that cannot be loaded; the inductive invariant | every cut of two lines of any kinds, a request and perhaps the beginning of another into pieces of up to 3 bytes | holds |
| `backend_stack` | ids reach the right job, sessions kept, final statuses true, data not too old, a device that was left fades | 2 devices, 1 job, a status the table lacks, times to live 2 and 1, reads up to 1, clock up to 2 | holds |
| `device_data` | what a Target says is what the device knows | every pair of small devices of one and two qubits, values known, partly known, nan and missing | holds |
| `hal_runs` | one job per run, own result, device kept, one operation after the other | 2 programs, 2 devices, 2 jobs, 1 crash | holds |
| `hal_ends` | scripts end, the lock is given back | 1 program, 2 devices, clock 1, 1 crash, 1 fault, 1 change of the least busy device | holds |
| `daemon_restarts` | next start succeeds, daemon reachable, one late client, `stop` noticed | 2 daemons in turn, 2 clients each | holds |
| `rpc_warning` | a lost write that may have run is reported as such | 1 client, 1 call, 1 crash | violated |
| `cache_switch` | what is served belongs to the session's device | 2 devices | violated |
| `hal_restart` | an explicit `connect()` is never overridden | 1 program, 1 crash | violated |
| `daemon_stop` | `stop()` ends `serve_forever()` | 2 daemons in turn, 1 client | violated |

Why the bounds are enough. Three calls give a call whose predecessor timed out or was
lost, and one more after it; with two clients, or with one and the thread of a connection
it gave up, the lock is contended. A third attempt or a second crash adds nothing new to
what one line can meet; the theorems then remove the bounds for safety. In
`backend_stack` the raw id of the job contains a separator, and the two devices are FEZ
and FEZ2, where one name begins with the other: the cases prefix comparison can confuse.
The clock lets either entry be served, the shorter expire and be fetched again. Pieces of
up to three bytes cut lines of one and two bytes at every place and hold several at once.
Devices of two qubits have every kind of coupling (one way, both ways, any pair, another
gate for each direction), every combination of missing and known values, and
instructions that are global, not standard (of one qubit or two), or of three qubits. In `hal_runs` the two
programs want different devices, one polls and one does not, and the crash strikes
anywhere; timeouts are unlimited. Its clock stands still and its sockets die with the
daemon only: `hal_ends` has a clock and a fault of their own, for one program.

Connections (and clients) are interchangeable, and the safety runs of `HalRpc` use that
symmetry; the runs with temporal properties do not. Deadlock is checked in the runs of
`HalRpc` and `CachedBackend`. In the others the system may stop for good: every daemon
over, every script ended, the program gone, the Target built.

Fairness. `CallReturns` assumes weak fairness of the client's own steps only: each socket
operation in `_call` has a timeout, so a thread in it always has a next step. It holds
with a daemon that never answers. `HandlerDrains` also assumes that the daemon's threads
run and that Backend calls return. `HalFairness` assumes that programs run, that the
provider ends every job, that a live read returns and that a `get_result` returns once
its job has ended: the lock is freed although one request holds it for as long as a job
takes. Nothing makes a thread get the lock, so `ScriptEnds` rests on the client's
timeouts. `FramingFairness`: both ends run, nobody has to close. Nobody is obliged to
call, to crash or to restart. In `DaemonLifecycle` both threads of a process run; clients
owe nothing.

## 4. What the violated properties show

- `WriteLossWarned`: `_call` reconnects before it raises the warning (`client.py:351`);
  when the daemon is not back, its "could not connect" replaces the warning promised in
  lines 76-80, after a submit that may have been executed. `WriteLossReported` is what
  remains true, and is proved: no other error hides an executed write.
- `ServesSessionDevice`: `CachedBackend.connect` keeps the entries of the previous
  device (`cached_backend.py:76`), against its own comment at 79-81.
- `ExplicitConnectKept`: a daemon that was restarted has no session, and the read that the
  client resends silently (`client.py:342`) auto-connects to the least busy device in
  place of the one the program had connected to (`backend.py:162`), against
  `backend.py:6-8`. `KeptWhileUp` is what remains true, and is proved.
- `StopEndsServing`: closing the socket does not end a blocked `accept()`
  (`server.py:68-70`); one more client is served, or the daemon never ends.

Also seen in the models, without a run of its own:

- a `connect` request left behind by a dead socket may be executed after its retry was
  answered and switch the shared Backend back, although `client.py:67-70` says such calls
  cannot double-fire; `CallPromise` therefore promises two executions at most;
- a status the table lacks is reported as failed (`ibm_backend.py:228`), and callers stop
  polling a job that will run: `FinalIsFinal` has to make this one exception;
- after a `connect()` to another device, and when a failed one ends the session, data of the
  device that was left is served for up to a time to live (`OldDeviceFades` is the bound);
- `get_result` waits for the job (`ibm_backend.py:235`), where `backend.py:294-295` says it
  raises when the job is not yet complete;
- a device whose name continues another one's after `_` has its ids accepted by the other
  (`Unnested` excludes it); an instance that has switched devices refuses the ids it made;
- a `connect()` the provider fails drops the session, and the next operation auto-connects
  to the least busy device;
- a second daemon removes the socket file of one that listens (`server.py:57-58`): the
  theorems of `DaemonLifecycle` are for daemons that run one at a time;
- a line on which `json.loads` raises anything but `JSONDecodeError` ends the thread
  without a response (`server.py:105`);
- nothing bounds the number of connection threads (`server.py:71`): each ends once its
  client has gone (`HandlerDrains`), however many there are;
- `get_calibration` raises when a device has no properties (`ibm_backend.py:176`);
- the Target offers a gate of three qubits anywhere and loses its errors, and every gate
  of two qubits on every pair of the coupling map (`target_builder.py:111-118`):
  `PlacedAsOffered` says it offers nothing less, and nothing more on a uniform device;
- `get_target` says its data is fresh, and gets it from the cache; its two reads may be of
  two devices, whose errors then meet in one Target (`ErrorsArrive` says how).

## 5. What is proved

For all values of the constants (numbers of clients, programs, connections, calls,
crashes, faults, daemons, devices, jobs, qubits; times; names of any length), from the
named assumptions of the modules:

| Theorem | States |
|---|---|
| `HalRpcProofs!TypeCorrect` | `TypeOK` |
| `HalRpcProofs!Invariance` | `IInv`, the inductive invariant |
| `HalRpcProofs!WritesAtMostOnce` | `AtMostOnce` |
| `HalRpcProofs!RepliesMatch` | `ReplyMatches` |
| `HalRpcProofs!AnswersServed` | `AnsweredWasServed` |
| `HalRpcProofs!CallsEndForGood` | `OverIsOver` |
| `HalRpcProofs!LossReported` | `WriteLossReported` |
| `HalRpcProofs!OneThreadInBackend` | `LockGuardsBackend` |
| `HalRpcRefinementProofs!RpcKeepsPromise` | `KeepsPromise`: `HalRpc` implements `CallPromise` |
| `LineFramingProofs!StreamsFramed`, `FramingTypeCorrect` | `FramingInv`, the inductive invariant, and `FramingTypeOK` |
| `LineFramingProofs!ResponsesPaired` | `PairedByOrder` |
| `LineFramingProofs!BytesComeToLines` | `RequestsInOrder`: `LineFraming` implements `LineQueue` |
| `IBMBackendProofs!RoundTrip` | parsing a made id gives back the raw id |
| `IBMBackendProofs!ForeignIdRefused` | an id is refused under another identifier, unless they nest |
| `IBMBackendProofs!BackendTypeCorrect` | `BackendTypeOK` |
| `IBMBackendProofs!SessionKept` | `SessionIsKept` |
| `IBMBackendProofs!IdsGuarded` | `IdsGuardJobs`, given `Unnested` |
| `IBMBackendProofs!FinalStatusHolds` | `FinalIsFinal`, given `Unnested` |
| `CachedBackendProofs!BackendTypeBehindCache`, `SessionKeptBehindCache` | `BackendTypeOK`, `SessionIsKept` behind the cache |
| `CachedBackendProofs!CachedTypeCorrect`, `NothingTooOld`, `NothingFromBefore` | `CachedTypeOK`, `AgeBounded`, `DisconnectForgets` |
| `CachedBackendProofs!OldDevicesFade` | `OldDeviceFades` |
| `HalSystemProofs!LockSerialises` | `OneAfterTheOther`: `HalSystem` implements `CachedBackend` |
| `HalSystemProofs!StackIsSound` | `IdsGuardJobs`, `FinalIsFinal`, `SessionIsKept`, `AgeBounded`, `DisconnectForgets` and the types of the Backend in the whole stack, given `Unnested` |
| `HalSystemProofs!HalTypeCorrect`, `AtMostOneJob`, `DeviceKept` | `HalTypeOK`, `OneJobPerRun`, `KeptWhileUp` |
| `HalSystemProofs!OwnResult` | `ResultIsOwn`, given `Unnested` |
| `DaemonLifecycleProofs!DaemonTypeCorrect`, `AtMostOneLate` | `DaemonTypeOK`, `OneLateClient` |
| `DaemonLifecycleProofs!StartsSucceed`, `StaysReachable` | `StartSucceeds`, `Reachable`, given `OneAtATime` |
| `DeviceDataProofs!TargetTyped`, `EveryKeyArrives`, `EveryErrorArrives` | `DataTypeOK`, `KeysComplete`, `ErrorsArrive` |
| `DeviceDataProofs!EveryGatePlaced` | `PlacedAsOffered` |

`HalRpc`. None of the properties is inductive: nothing in `ReplyMatches` says what is
still on the wire. `IInv` adds that two clients never share a connection, that a
connection carries at most one request or response (`OneInFlight`), that it is quiet
between calls (`IdleIsQuiet`), and that during a call it carries that call only
(`RecvIsOwn`). This is what tearing the socket down on every timeout and loss buys, and
why responses need no number. `AtMostOnce` follows from a count: the copies of a request
executed and still under way never exceed the copies its client has sent
(`WithinBudget`), and a client sends a write once and anything else at most twice
(`RetryOnce`). `AnsweredWasServed` adds that a reply is written after its request
went into the Backend (`ServedFirst`). With `IInv`, every action maps to an action of
`CallPromise` or to a stutter: accepting, reading and locking are invisible, a crash and a
thread that ends lose requests, and `Dispatch` is the abstract `Execute`, which
`WithinBudget` keeps within its limit.

`OverIsOver` needs to know where the copies of a request can be (`NothingLeft`). While
sockets fail only with the daemon, the copy a call waits for is on its own connection;
so when the response is read, or the daemon's end is found closed, none is left
(`EndIsQuiet`), and neither before the second attempt nor after the call. That a new
call's request is nowhere yet is `WithinBudget` again: no copy was sent, so none is under
way. Executing takes a copy (`ExecutedByCarrier`), hence the theorem. A timeout and a dead
socket leave the copy behind, and the property excludes both. `LockGuardsBackend` is
inductive by itself. `WriteLossReported` needs that nothing of a refused call is executed
or under way, then or later, and that no write is lost twice (`HonestEnds`).

`LineFraming`. `FramingInv` says of each reader that it has taken the lines up to some
newline of its stream and holds, in its buffer and on the way, all that follows before it.
The newline is quantified and not a variable, since the code keeps no such position. A
`recv` moves bytes within the second part; taking a line moves the newline on, and the
lemmas about `LinesOf` say that the lines of the first part then grow by exactly that
line (`LinesAtNext`, `NextLine`), and that what follows leaves the earlier lines alone
(`LinesAtPrefix`, `LinesAtGrow`). `PairedByOrder` follows, since the
thread writes one response per line it takes. The same facts map every step to `LineQueue`:
writing adds the lines that the new bytes complete, `HandleLine` takes the first one, and
pieces, blank lines and unfinished ones are invisible. Nothing here is an induction over
the bytes: `LinesOf` is defined by the positions of newlines, whose number
is a cardinality, and the library's facts about finite sets do the counting.

`IBMBackend`. `IdsGuardJobs` needs that an id was made before it is used (`LastJobKnown`)
and the two facts about prefixes, `RoundTrip` and `ForeignIdRefused`. `FinalIsFinal` needs that a reported
final status is the job's and that the job has ended (`FinalHasEnded`). `Unnested` is
necessary (section 4).

`CachedBackend`. Each of its actions is written as an action of the wrapped Backend or
leaves it alone (`WrappedIsBackend`), so what is proved of `IBMBackend` holds behind the
cache. `CacheInv` says of every
entry that it is from after the last `disconnect()` and was stored within `MaxFetch` of
being asked for; `AgeBounded` is that and the comparison in `Fresh`. `OldDeviceFades` is
not inductive: `LeftBehind` adds that only the session's device has entries younger than
the moment the session left, which a live read keeps because it stores under the device it
has read from and ends on that device (`EntriesAfter`).

`HalSystem`. The refinement needs to know that whoever holds the lock for a live read
still has the session it began with and that the kind it reads is not in the cache by now
(`LockedOut`), and that programs ask about jobs the provider knows (`JobsAreKnown`), for
which in turn a response must belong to the call that waits for it: a request that still
has a listener is the only one of its program, of the call it waits in, and not answered
(`CurrentIsOwn`). Types, cache invariants and the growth of the job table then come from
the refined specifications, and so does `StackIsSound`: what is proved of the Backend and
its cache holds for many programs and a daemon that crashes. `OneJobPerRun` is not inductive either: `OneSubmit` adds that
a program that has not asked has no submit on the wire, that there is never more than one,
and none once a job is queued. `ResultIsOwn` needs `Told`, that every answer under way is
true when it is read, which rests on a job that has ended staying as it is.

`DaemonLifecycle`. `Reachable` and `StartSucceeds` need where each thread of a process can
stand together with what its socket and the file are then; with daemons one at a time the
file is the running one's or stale.

`DeviceData`. There is no induction: `DataInv` says which functions the three local
variables of `get_target` are of, and the theorems are facts about these functions: JSON's
string keys are undone by `int()` (`JsonRoundTrip`), and a gate's key gives back gate and
qargs (`KeyProps`). `PlacedAsOffered` follows the pairs from the device through
`SynthesizedPairs` to the Target's placements (`PairsAreOffered`, `PairsPlaced`); that a
device offers every instruction somewhere, on qargs of its width, is what the assumption
on devices says (`DeviceAssumption`).

Only model-checked: the liveness properties `CallReturns`, `HandlerDrains`, `ScriptEnds`,
`LockFreed`, `EveryLineAnswered` and `StopNoticed`. They rest on fairness, hence on when an
action is enabled, for which the prover has no support. Every safety property that a
passing run checks is a theorem.

## 6. What is not modelled

- The registry (`registry.py`): a table that is filled while modules are imported, in one
  thread, with one entry; it has no behaviour over time.
- The encoding of circuits and counts (QPY, base64, JSON), logging, messages and the
  command line; a result without the register `c` (`ibm_backend.py:238`), which is a
  matter of the circuit and not of state.
- The provider, the SDK and Qiskit's transpiler: external, modelled by what the code can
  observe of them.
- Time in `HalRpc` and `HalSystem`'s clients: a timeout is possible whenever no response
  is there. The clock stands still during a live read of `HalSystem`; `CachedBackend` lets
  it run.
- `cancel_job` is in `IBMBackend` and, as a write, in `HalRpc`; the script of `HalSystem`
  does not use it.
- Use of one `QosHalClient` by several threads: the class keeps no lock, and no document
  allows it. Environment variables that change under a running daemon.

## 7. What could follow

1. `HalSystem` over the connections of `HalRpc` itself in place of its promise, which
   needs a refinement mapping between the two and larger runs than five minutes allow.
2. Programs other than the repository's script: `get_target` and a job in between,
   `cancel_job` while another program waits for the result.
