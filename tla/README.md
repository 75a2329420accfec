# Verification of the PLC bridge

This directory holds TLA+ models of the program in `src/`: a CODESYS PLC
application (structured text), a Go process `plc_bridge` that connects it to the
network, and a Svelte HMI. The models are checked with TLC on small instances,
and the safety properties the runs check are proved with TLAPS for all values of
the constants. Paths below are relative to `src/`.

## The system

```
 browser HMI --WebSocket--> wsserver --\                      /--> /dev/shm/plc_cmd --> PRG_ShmPublisher --> axes
                                        cmdsink (one mutex) --                           (PLC task, every scan)
 Modbus master ----TCP----> modbus ----/                                                        |
                                                                                                v
 browser HMI <--push------- wsserver <-- state.Snapshot <-- pollShm <-- /dev/shm/plc_data <-- publish
 Modbus master <--reads---- modbus   <--/
```

| Component | State it keeps | Operations |
|---|---|---|
| Command sink (`backend/internal/cmdsink`) | pending command, `jogSeen` per axis | `Apply`, the jog watchdog |
| Command segment (`shm/writer.go`, `PRG_ShmPublisher.st`) | sequence number, payload | `WritePlcCommand`, the retry loop of the PLC |
| PLC command latch (`PRG_ShmPublisher.st`) | `cmdLast`, `bCmdValid`, `uLastCmdCycle`, `currentCmd` | one scan |
| Data segment (`PRG_ShmPublisher.st`, `shm/reader.go`) | sequence number, cycle, payload | publish, `ReadPlcData`, reset on PLC restart |
| Snapshot (`backend/internal/state`) | data, `updatedAt`, `valid` | `Update`, `Read` |
| WebSocket server (`backend/internal/wsserver`) | per connection: write permission, ack channel, tickers | push, command, ack, ping |
| Modbus server (`backend/internal/modbus`) | none of its own | read, write single, write multiple |
| Sessions (`backend/internal/auth`) | token table with roles and expiry | login, logout, status, gate |
| Bridge process (`backend/cmd/plc_bridge`, unit file) | goroutines, exit status | start, signal, listener failure |
| HMI (`frontend/src`) | socket, last message, login state, jog timer | connect, reconnect, send, login, jog hold and release |
| Axis control (`MC_BasicControl*`, `BaseStateMachine*`) | step, error, requests, motion blocks | one scan; the command methods |
| Homing parameters, set position (`MC_WriteHomingParameters*`, `MC_ActualDriver_SetPosition`) | step, index | one scan |
| Visualisation wrapper (`MC_BasicControl_VisuWrapper`) | edge memories, latches | one scan |

Components interact through two shared memory segments (between processes),
one mutex-protected struct each way (between goroutines), sockets, and method
calls plus the scan order (inside the PLC).

What is hard here: both processes may die and be restarted at any time while
the segments survive; publication is not atomic; the command word is
level-held, so *not* hearing from a client has to have an effect; the watchdog
reads its time outside the mutex; the age of data is measured from a counter
that a restarted process has not seen before; motion blocks report Done and
Error some scans after Execute.

`PROJECT.json` lists every hazard with its source line and the properties that
catch it, or the reason why none does yet.

## Modules

| Module | Models | Extends |
|---|---|---|
| `CmdSink` | the sink and its watchdog | |
| `CmdSink_proofs` | theorems about it | `CmdSink` |
| `CommandRegister` | abstract: one register written and read whole | |
| `Seqlock` | `WritePlcCommand` and the PLC's read loop, one word per step, crashes | |
| `Seqlock_proofs` | theorems about it, refinement included | `Seqlock` |
| `CommandPath` | sink + segment + PLC scan, restarts on both sides | `CmdSink` |
| `CommandPath_proofs` | theorems about it | `CommandPath`, `CmdSink_proofs` |
| `Telemetry` | PLC publication, `pollShm`, `Snapshot`, staleness, restarts | |
| `Dashboard` | push loop, connection store, badge | `Telemetry` |
| `Dashboard_proofs` | theorems about it and `Telemetry` | `Dashboard` |
| `ModbusRegisters` | register maps, `ApplyCommandWrite`, the request handlers | |
| `ModbusServer` | one Modbus connection | `ModbusRegisters` |
| `ModbusServer_proofs` | `ApplyCommandWrite` against its reference definition, what a request does, the invariant of a connection | `ModbusServer` |
| `BridgeProcess` | `main`, its goroutines, systemd, the segments | `ModbusServer` |
| `BridgeProcess_proofs` | theorems about it | `BridgeProcess`, `ModbusServer_proofs` |
| `Sessions` | roles, gates, the session table | |
| `WsSession` | browser tab, cookie, WebSocket, the two goroutines of a connection | `Sessions` |
| `WsSession_proofs` | theorems about it and `Sessions` | `WsSession` |
| `Sm3Axis` | external: the SoftMotion axis and its PLCopen blocks | |
| `AxisControl` | `BaseStateMachine` and `MC_BasicControl`, one scan per action | `Sm3Axis` |
| `AxisControl_proofs` | theorems about it | `AxisControl` |
| `MC*` | constant values for TLC | the module named |

### CmdSink

`Apply(cmd, err)` is everything between `Lock` and `Unlock` of `Sink.Apply`:
the closure's result, the rollback, the refresh of `jogSeen` for *every* axis
left with a jog bit, and the publication with its new cycle number. The client
actions call it with the commands the two servers can produce: `ApplyAxis`
(WebSocket "axis", Modbus flag word), `ApplyReg` ("machine", "production"),
`ApplyNothing` (an out-of-range axis index, a zero-length Modbus write: accepted,
published, nothing changed) and `ApplyRejected` (a Modbus write that assigned
one field and failed on the next). A watchdog round is two actions, because
`expireJogs(time.Now(), ...)` evaluates its argument before it takes the mutex.
Control flags are sets of bits; the values of the float fields of an axis play
no part in any guard and are left out.

The clock is discrete. The watchdog goroutine may be late by at most `Lag`
(less than one ticker period, so that no ticker event is dropped); without such
a bound no dead-man could be promised.

`asked` and `heard` are history variables: the last accepted command per axis
and the time of the last accepted command of any kind.

### Seqlock and CommandRegister

Each atomic access of `WritePlcCommand` and of the retry loop is a step, and the
two bulk copies touch one word per step in any order; the writer's copy passes
over `Header.Seq` too. The bridge may die between any two stores, and its
successor starts from what it finds. The payload is the number of the
publication, so a torn payload is visible. Sequential consistency is assumed:
the source argues the same from amd64's TSO and rules other targets out.
`NoLap` states the one thing the algorithm needs from its surroundings: the
32-bit sequence number does not go once round while the PLC copies one command.

`Seqlock!Register` maps the state to `CommandRegister`: the register's value is
the last completed publication, `latched` what the PLC holds. `CommandPath` has a
publication and the read loop of a scan as one step each; `CommandPath!Register` maps
it to the same register, with the `Forget` of a restarted PLC program as one more step
(`RestartingSpec`).

### CommandPath

`BridgeStop` is a death between two publications, and the orderly end as well:
`main` publishes nothing on its way out. `BridgeStopMidPublish` leaves the
segment unreadable until the next publication. `BridgeStart` has `cmdsink.New`'s
zero command over whatever the segment holds. `PlcRestart` resets the variables
of the PLC program and nothing else.

### Telemetry and Dashboard

A payload is represented by its cycle number. The PLC may die between scans
(`PlcDie`) or with an odd sequence number (`PlcDieMidPublish`, before or after
the cycle was incremented); its restart resets the sequence number over the old
payload (`PlcInit`), as the INIT part of `PRG_ShmPublisher` does. `pollShm` is
two actions, the copy and the update. `ModbusServes` is the condition under
which a Modbus read answers with data.

`Dashboard` adds one WebSocket connection and the page behind it. `conn` is the
server's end with its push ticker, the messages on their way (`line`, delivered in
order) and whether the link passes; `hmi` is the store of `ws.svelte.ts`, which keeps
the last message over a reconnect and learns of a lost connection only from `onclose`.
A link may fall silent without either end being told (`LinkFallsSilent`) and may pass
again or not. Until then the server's writes fill the line; when it holds `LineSize`
messages the push loop waits in `WriteJSON` (`Stalled`) and the ticker drops its
events; a missed write deadline or pong makes the server give the peer up
(`ServerGivesUp`), at any time during the silence, because the two deadlines are
constants far above the push period. The close travels down the line behind the
messages. A link that passes delivers within `Latency`; on one that does not, nothing
is promised. The badge is what `App.svelte` computes from `connected` and the last
message, with no clock of its own.

### ModbusRegisters, ModbusServer and BridgeProcess

`ModbusRegisters` has no state: it is the register maps and the handlers as
functions from the pending command and a request to the command afterwards and
the response. Addresses and quantities are `uint16`, and every sum the code
computes in `uint16` is `Add16`; `handleRead`, which converts to `int` first, has
a plain `+`. A request is a record of what the handlers decode from the PDU
(function, length, address, quantity, byte count). Register values are named by
their position in the request, so that a word that ends up in the wrong place
shows. `Writable` and `Overwritten` say without loop and wrap-around what a write
ought to do.

`ModbusServer` is one connection: a frame is read, `Dispatch` takes effect under
the mutex of the sink, the answer is written; it may fail between any two of
these. `OtherClient` is everybody else who uses the sink.

`BridgeProcess` is the process around it. `main` is the program counter of the
main goroutine and of systemd:

| `main` | in the code |
|---|---|
| `prestart` | `ExecStartPre` waits for the segments, at most 15 s, and never fails |
| `opening` | `shm.OpenRead`, `shm.Open`; a failure is `log.Fatalf`, exit status 1 |
| `starting` | the goroutines are started; `signal.Notify` has not been called |
| `running` | `main` is in its `select` |
| `waiting` | `cancel()` called, in `wg.Wait()` |
| `closing` | the deferred `Close` calls, `plc_cmd` first |
| `inactive`, `restart` | ended; for good, or with `Restart=on-failure` pending |

Only `pollShm` is in the wait group. The servers and the watchdog are not, so
`Serve` still runs in `waiting` and `closing`, and an accepted write after
`plc_cmd` has been unmapped is a fault. A signal before `signal.Notify`, with the
goroutines already running or not, ends the process outright (`Signal`).

### Sessions and WsSession

`Sessions` is `internal/auth` as `main` configures it: `Hashes` has the built-in
vendor password when no variable is set. A token is the number of the login that
minted it. `SessionRole` is the answer of `sessionRole` and `AfterLookup` the
table after it: an expired session is deleted by its own lookup, by the
collection in `newToken` or never. `ledger` is a history variable: which password
was typed when, and whether that login was logged out or its process ended.

`WsSession` adds the browser. `jar` is the cookie that all tabs share, `tab` the
auth store with its one request under way, `sock` the browser's end of the
socket, `conn` the server's: what `AuthorizeWrite` said at the upgrade, the
reader and the writer goroutine, commands under way (`inbox`), the ack channel
(`acks`) and acks under way (`wire`). `peer` is what becomes of the browser's end:
`closed` if the server hears of it, `silent` if only a deadline or a missing pong
will tell. The server's part of an HTTP request and the arrival of its answer are
separate steps, and either may be lost.

Simplifications: one connection is followed at a time, the next starts when both
goroutines of the last have ended (connections share only the sink); data
messages and pings appear only as writes that may fail; the browser does not
expire the cookie by itself (the server's check has the same deadline); a restart
of the bridge is one step; a result of a command, `ok` or an error text, is one
value, because the browser only displays it.

### Sm3Axis and AxisControl

`Sm3Axis` is the library below the axis control block, as far as the block
depends on it: a block acts on the rising edge of Execute, reports until Execute
is dropped, dropping Execute does not stop the axis (MC_Stop does), and an
MC_Stop with its Execute keeps motion blocks out. It is called once per scan
(`CallBlocks`); what the drive does between scans are its actions
(`PowerFollows`, `MotionEnds`, `HaltEnds`, `AxisFault`, `ResetSucceeds`,
`ResetFails`).

A scan of `AxisControl` is one action. `Entered` is the block after the handling
of `xReset`; `ScanInError`, `ScanPaused` and `ScanDisabled` are the early returns
of `BaseStateMachine`; `DriverError` and `EmergencyScan` those of `Main`; the
other actions are one per step. Every one of them ends in `EndScan`, which is
`_RunMotionFBs`. The methods are operators on the record `fb`, used by the scans
and by the actions `CallStop`, `CallReset`, `CallRaise` and
`InterrupMotionCommand` between them. `Call(c)` is a command method: it sets a
request flag that only a scan that reaches `Main` takes.

| `fb` field | in the code |
|---|---|
| `iStep`, `iLastStep`, `xError`, `xPaused` | the same; `iLastStep` only while paused, which is when it is read |
| `limitTrip` | `iErrorID` is one of the two limit trips |
| `done` | `_iActiveCommand` if `_xCommandDone` |
| `reArm` | `_xMoveRelNeedsReArm` |
| `exec` | the blocks whose Execute is TRUE, `params` for the parameter writer |

Left out: `_iStepBeforeReset` (READY from `Init` on), `_iRaiseStep`, positions,
velocities, directions, the busy outputs. Nobody in the repository calls
`InterrupMotionCommand`, which leaves an Execute set; the constant `Interrupts` says
whether the program does. It is FALSE where `OneBlockExecutes`, `DoneIsEarned` and
`HomeAfterWrite` are checked and TRUE in the liveness run.

`params` is `iStep` of the homing parameter writer: `WriterMoves` is one call of it.
It reads `xExecute` in its first and last steps only, and is called only in
HOMING_WRITE_PARAM or while `xExecute` is set, so that a homing that is withdrawn
leaves it where it is; the next homing calls it there and goes on with the values
taken before. `XDone(c)` is the `xDone` that the method of command `c` returns:
`_xCommandDone` with `_iActiveCommand` of that command, at any time and not only in
the step of the command.

`history` holds the history variables. `relHeld` says that MoveRelative has been
requested ever since its Done. The others are about the command READY dispatched last
(`Dispatches`): `began` has the motion blocks the axis has begun for it, `own` says
that the writer took its values during it, `wrote` that it finished during it, and
`resumed` that it was found in the middle of an older writing.

## Runs

| Run | Instance | Shows |
|---|---|---|
| `CmdSink` | 2 axes, 1 other flag, 1 field; timeout 8, 17 ticks, 2 publications by clients | dead-man neither late nor early, no trace of rejected writes |
| `Seqlock` | header and 2 data words, modulus 6, 2 tries, 4 publications, fair | no torn command, recovery, refinement; the last publication arrives |
| `CommandPath` | 1 axis, timeout 4, 7 ticks, 1 death, 1 PLC restart | the dead-man and the latest command reach the PLC |
| `Dashboard` | scan 1, poll 2, late by 1, push 2, stale after 5, latency 1, 2 messages on a silent link, 1 PLC death, 3 outages of bridge or link, any time | what Modbus serves means a PLC that ran, and what the badge calls Connected too, with three exceptions; a running PLC is served and shown |
| `BridgeProcess` | 33 requests (whole and partial fields, empty ranges, both ends of the address space, bad lengths), 1 kill or removed segment, any number of starts, stops and listener failures, fair | the Modbus answers and effects; starts, restarts and shutdown |
| `WsSession` | 2 passwords, TTL 1, 2 ticks, 2 logins, ack channel of 1, 2 messages in flight, fair | who may write and when, and that nobody waits for ever or is left in the dark |
| `AxisControl` | relative, jog and homing commands, one request per scan, emergency stop | Execute flags, Done, the re-arm lock and the homing parameters stay in step with the state machine; no motion begins in a forbidden state |
| `AxisControl_live` | velocity, jog and set-position commands, no emergency stop, fair | every wait for MC_Stop ends |

Four more runs each refute one statement found in the repository (see
*Disagreements*).

Why the bounds are enough: 17 ticks are two timeouts and the lag of `CmdSink`,
so that a jog can be set, refreshed late, expire, and the bound be exceeded
with room to spare; two client publications allow one command to disturb
another (the violation run has three: set, unrelated, unrelated). Clients stop at
the cycle number `MaxCycle`, which publications of the watchdog use up as well; the
watchdog itself never stops at it. In `Seqlock` three publications
lap the sequence number of modulus 6, a fourth follows, and crashes skip ahead in
it, so wrap-around and stale numbers do happen. In `Dashboard` the threshold 5 is
the smallest that leaves room for a late poll, and `ShownBound` is 11. Its
configuration has a `VIEW`, `Moments`: nothing in the module depends on what time it
is, only on how long ago things happened and on nothing older than some bound, so
states that differ by a shift of all times, by times beyond those bounds or by cycle
numbers that compare alike are explored once. The run is thereby complete for its
instance: the clock, bounded at 100, stays below 99 in all of the 3.9 million states
found, so that its bound never cuts anything. Three outages let a link fall silent and
heal, the bridge end meanwhile, and one more of either follow; one death of the
PLC, at any moment, is what the badge has to report. Reconnects and starts of the
bridge are not limited. `Telemetry` has
no passing run of its own, because `Dashboard` is `Telemetry` with the push loop
on top and checks its properties too. In `CmdSink` and `CommandPath` the clock stops at
its bound, which cuts behaviours short and excludes no prefix.

The state space of `AxisControl` is finite by itself: nothing is counted but the
requests of one cycle. Its `VIEW`, `Recalled`, leaves out the history of the last
command once nothing reads it before the next dispatch starts it anew; 1.3 million
states remain. One request per scan is what the visualisation wrapper,
the only caller in the repository, issues; the commands are spread over the two
runs because their product is too large for one. MOVE_ABS is the same action as
MOVE_REL, `Move`, without the lock; a homing goes through `Move` as well.

In `BridgeProcess` the requests are chosen at the boundaries of every check: each
field alone, two, three, each kind of partial overlap, the registers around the
fields, quantity 0 inside and outside a field, and ranges whose 16-bit sum wraps
to below, into and above the fields; the theorem `AcceptedIffWritable` covers all
2^32 ranges. One fault is enough for a crash or a removed segment to meet every
state of the process; starts, signals and listener failures are not counted.

In `WsSession` the channel has one slot instead of four and two commands are in
flight, so that it is full, and drops an ack, with as few messages as possible; 2
logins are the two tabs, or one tab twice; with TTL 1 and two ticks a session
expires and a second one expires later. The environment has the operator's
and the tuner's password equal and no vendor's, so that the order of the
comparisons in `handleLogin` matters.

No run switches deadlock checking off.

### Fairness

`Seqlock`, for `PublishedIsLatched`, and the liveness runs of `AxisControl` need
fairness. `WF(ReaderStep)`: the PLC task is cyclic and
its loop bounded. `WF(WriterStep)`: a bridge that is inside `WritePlcCommand`
continues unless it dies, and dying is not fair. Nothing obliges anyone to
publish. In `AxisControl` the task is cyclic: a scan without pause, error and
stop inputs, a resuming scan and a scan in error are each weakly fair, which says
that nobody holds xStop, xPause or xEMS for ever; the drive finishes halts, moves,
resets and power changes. Faults, failed resets, `xReset` and the methods are
never forced. In `BridgeProcess` systemd, `main` and the poll goroutine go on
(`WF(SystemdRestart)`, `WF(MainStep)`, `WF(PollStep)`), and `SF(PollDone)` says
that a Go `select`, which picks among its ready branches at random, does not
prefer the ticker to the cancelled context for ever. In `WsSession` the two
goroutines run (`ReadCommand`, `QueueAck`, `ReadFails` whose deadline is `pongWait`,
`WriteAck`, `WriterDone`) and the browser handles what arrives (`Receive`) and sees
that the server has closed (`ServerClosed`); nobody has to send, to log in or to
fail. The timed modules need none: their promptness assumptions are guards
of the actions that advance the clock (`WatchdogOnTime`, the scan, poll and push
periods, the latency of a link that passes), and their "eventually" properties are
bounds. A stalled push loop and a silent link are exempt: there time passes and nothing
is promised.

## What is proved

Every invariant and every action property that a passing run checks is the
conclusion of a theorem, and so are the two refinements; `PROJECT.json` lists them. Each
proof has the same shape: an invariant that is inductive, in named parts, which TLC
has confirmed on the instance of the run; one lemma per action, or per operator
where an action is composed of operators, that keeps it; and the property as a
consequence of it or of it and one step.

`CmdSink_proofs`, for every set of axes, flags, fields and values and every timeout
of at least four ticks:

* `TypeCorrect`, `DeadMan`, `PublishedIsAskedHolds`, `NoEarlyExpiryHolds`,
  `ChangeHasNewCycleHolds`.
* The dead-man bound is not inductive: it needs to know that the pending jog bits
  are those published (`PublishedIsPending`), that `jogSeen` of a jogging axis is not
  older than what the watchdog will see at its next tick, that the next event of the
  ticker is at most one period away, and that the time the watchdog carries into the
  mutex is at most `Lag` old (`TimedInv`). A step of the sink does one of three things
  to the command (`Quiet`, `Accepted`, `Cleared`), and each part is kept by each.

`CommandPath_proofs`, for every scan period and any number of deaths of the bridge
and restarts of the PLC program:

* `PathTypeCorrect`, `PlcJogDeadManHolds`, `PlcActsOnLatestHolds`,
  `RestartedSinkIsCleanHolds`, `PathImplementsRegister`.
* A step of a running bridge is a step of its sink, so that the lemmas of
  `CmdSink_proofs` are used as they stand. `PathInv` adds when a process's watchdog is
  on time, that the segment holds the last publication of a bridge that has made one
  and can then be read, that the last scan is at most one period ago, that a scan
  later than the dead-man bound saw a command without jog bits and took it over or
  overlooked it, and that in the first process cycle numbers identify commands.
* `PathImplementsRegister` is a refinement: an accepted command or an expiry is a
  `Publish`, a scan that can read a `Latch`, a restart of the PLC program a `Forget`,
  and all else, both deaths of the bridge and its restart included, a stutter. It needs
  that a published command is numbered from 1 (`PublishedIsNumbered`), which tells it
  from the blank segment. No run lists it; added to `CommandPath.cfg` as a `PROPERTY`,
  it passes.

`Dashboard_proofs`, for every scan, poll and push period, lag and threshold:

* `DashTypeCorrect`, `LiveMeansPlcRanHolds`, `AliveIsServedHolds`,
  `ConnectedMeansPlcRanHolds`, `AliveIsConnectedHolds`.
* `TelemetryInv` follows a publication from the segment over the copy to the
  snapshot. In one direction (`AgeIsHonest`, `FrozenIsKnown`) it says that the age is
  refreshed only by a copy that differs, and that a frozen segment is already what the
  snapshot holds; in the other (`HeldIsCurrent`, `RepeatIsRecent`, `ReadIsFresh`) that a
  repeated copy is explained by a publication at most one scan old. `DashInv` carries
  both over the link to the page: what a message said was true when it was sent
  (`LiveWasTrue`, `StaleWasTrue`); on a link that passes it is delivered within
  `Latency` and the next one follows within a push period (`DeliveredInTime`,
  `PushInTime`, `NoGap`), so that a page that hears nothing else still knows something
  recent (`ToldOfData`, `ToldOfLife`) or one of the three exceptions holds. They are
  in the property because they are in the code: without any one of them TLC refutes it.

`Seqlock_proofs`, for every set of words, every even modulus above 2, every number
of tries:

* `SeqlockTypeCorrect`, `NoTorn`, `CompleteReadable`, and `Refinement`: every step is
  a step of `CommandRegister` or a stutter.
* The invariant relates the sequence number to the writer's program counter and the
  words it has copied, and the reader's copy to the segment as long as the number is
  the one it loaded. The lemma that carries the weight is `NoAliasWithinLap`: two
  sequence numbers less than one lap apart and equal as words are equal.

`AxisControl_proofs`, for every set of commands, with or without emergency stops:

* `AxisTypeCorrect` and `ErrorExcludesPause`. A record is `InOrder` when it is a
  well-typed block not both in error and paused; every method maps such a record to
  another one, and a scan is a composition of methods that ends in `EndScan`, so each
  branch of `Main` comes down to citing the lemmas of the methods it calls.
* `MotionBeginsSafelyHolds`, `NoRepeatedRelativeHolds`, also when
  the program calls `InterrupMotionCommand`. The invariant is `CtlInv`: MC_Stop has its
  Execute only while a stop is under way or in error, the step of a command has
  neither an old Done nor the power off, errors and pauses are left through their own
  steps or a stop, and the blocks have been called with every Execute that is set.
  For a paused block the step is the one it will resume.
* `OneBlockExecutesHolds`, `DoneIsEarnedHolds` and `HomeAfterWriteHolds`, under the
  hypothesis `~Interrupts`: `TidyInv` ties each Execute to the current step, each Done
  that is shown to a block the axis has begun since the last dispatch, and a writer
  that reports to a writing finished since then. `InterrupMotionCommand` breaks it: it
  leaves the step and keeps the Execute. Nothing in the repository calls it.
* `DoneIsEarned` is about what the methods return, in any step. It does not say that a
  Done is read once: from the end of a move to the next READY scan every call of the
  same method reads it, see *Disagreements*. `HomeAfterWrite` does not say that the
  parameters are those of this homing: a resumed writing is its exception.
* What a method or an early return does to the block is stated once: it withdraws
  Executes, sets none, and enters no step of a command (`Withdraws`), and leaves the
  block sound and tidy (`Steady`). `EndScan` turns that into what the scan does to the
  axis.

`ModbusServer_proofs`, for every address and quantity in 0..65535:

* `AcceptedIffWritable`: `ApplyCommandWrite` returns no error exactly when the
  range is a union of whole fields. The proof follows the loop: `covered` counts
  the registers of the fields inside the range, no two fields overlap, and a
  wrapped `end` lies below `addr`, so that a range over the top either is refused
  by a field or covers fewer registers than it has.
* The lemma `DispatchEffect` says what any request does: it overwrites the fields it
  names and is echoed, or changes nothing and gets an exception with a code in 1..4,
  or reads inside the bank. `ServerInv` is the invariant of a connection.

`BridgeProcess_proofs`, for every set of requests and any number of faults:

* `ProcessTypeCorrect`, `DataInsideBankHolds`, `AcceptedIsWritableHolds`,
  `AnswerMatchesEffectHolds`: whatever the process goes through, its servers take a
  step of their own, lose everything, get a fresh snapshot or are left alone
  (`ServersSee`), and only a step of their own answers.
* `PollReadsMappedHolds`: the invariant is that the segments stay mapped in
  `running` and `waiting`, and that the poll goroutine is done in `closing`.
* `DownIsExplainedHolds`: the invariant adds that `cancelled` before the shutdown
  comes from a failed listener, and that `waiting` and `closing` are explained.

`WsSession_proofs`, for every set of passwords, every configuration of the
hashes, every TTL and every bound:

* `UiMirrorsWall`: what `satisfies` of the frontend admits for a role is what
  `Wrap` admits.
* `SessionsAreEarnedHolds`: the invariant says that every entry of the table
  stems from the login in the ledger with its role and expiry, and that every
  good login still has its entry. `PermissionIsEarnedHolds` follows for the upgrade.
* `WsTypeCorrect`: the browser knows only tokens that have been minted, because the
  ledger never gets shorter; the send that drops an ack keeps the channel within its
  capacity; a socket is open only over a server's end that is up.

Assumptions: those named in the modules (`TimeoutAssumption`,
`LagAssumption`, `SeqModAssumption`, ...), each evaluated by TLC in every run.

Only model-checked: liveness (`PublishedIsLatched`, `StopIsWaitedFor`,
`FailedRunsAgain`, `StopEnds`, `RejectionIsShown`, `ConnectionEnds`), which rests on
fairness and is beyond the prover; and the four statements that are refuted below,
whose counterexamples are TLC's. `Seqlock`
and `CommandPath` are both proved to implement `CommandRegister`; that a composition
of the two would behave like `CommandPath` is argued from that, not proved.

## Disagreements between the code and its own words

1. `CmdSink_unrelated`: a command for another target refreshes every jogging
   axis (`cmdsink.go:54`); the test file says it must not (`cmdsink_test.go:117`).
   The test never calls `Apply` between the jog and the expiry.
2. `AxisControl_ems`: an emergency stop during WAIT_STOP removes the MC_Stop that
   is waited for (`MC_BasicControl.Main.st:29`); the branch meant for this case
   (lines 300-304) is never reached. Afterwards only `xEnable` = FALSE helps.
3. `AxisControl_reset`: an error raised before power-on cannot be reset: TRY_RESET
   waits for a standstill without asking for power (`MC_BasicControl.Reset.st:10`).
4. `WsSession_relogin`: the page opens its socket at mount, before the login, and
   keeps it; the permission was decided at the upgrade (`wsserver/server.go:66`). So
   the first command after a login is rejected, and the tab falls back to the
   login screen as if the session were gone (`ws.svelte.ts:73-75`), which it is
   not. Only a reload or a dropped connection helps.

Seen while modelling, with no run of their own:

* A bridge that ends leaves the jog bits in the segment (`main.go:146`), and its
  successor does not clear them before its first command, against
  `main.go:104-106`. `PlcJogDeadMan` states the exceptions exactly.
* A bridge started over a dead PLC's segment serves its data as live until the
  threshold passes (`snapshot.go:27`); `WarmedUp` in `LiveMeansPlcRan` is this.
* A limit trip "stops and tries to reset" (`MC_BasicControl.Main.st:118`), but
  drops the Execute of MC_MoveVelocity and starts no MC_Stop. A drive that stops
  at its own limit switch hides this; the block does not stop it.
* The unit file says that the bridge serves the frontend while CODESYS is down
  (`plc_bridge.service.unit:18`); without the segments `main` exits with status 1
  (`main.go:86-95`) and is restarted until they are there.
* A listener that fails ends the process with status 0, and
  `Restart=on-failure` leaves it down (`main.go:120,135`): the second disjunct of
  `DownIsExplained`.
* Every write with function 06 is refused, because every field is two registers
  wide (`addresses.go:65-75`). A write of no registers is accepted, except at the
  second register of a field; it publishes and refreshes jogs.
* `main` waits for the poll goroutine only: a request the servers are handling, or a
  watchdog round that has begun, may still publish into `plc_cmd` after it has been
  unmapped (`main.go:153-155`).
* `docs/DEVELOPMENT.md:87` says that a command without permission is *always*
  answered with an unauthorized ack; the ack is dropped when the channel is full.
  `RejectionIsShown` is what remains true.
* `auth.go:83` leaves operator surfaces open without an operator password; commands
  over the WebSocket need a login of some role all the same (`main.go:188-197`).
* Logging out is best effort: if the request is lost, the tab shows the login
  screen while cookie and session live on (`auth.svelte.ts:79`).
* After a restart of the bridge a new command may carry the number the PLC
  applied last, and is ignored (`PRG_ShmPublisher.st:74`).
* "Connected (live data)" (`App.svelte:35-37`), flagged "so a dead PLC doesn't
  masquerade as live" (`wsserver/server.go:103-104`), does not prove live data in three
  cases, which are the exceptions of `ConnectedMeansPlcRan`. `LinkIsCut`: the store has
  no watchdog (`ws.svelte.ts:55-63`), so on a link that fell silent the badge stays as
  it was until a TCP timeout or for ever, although the server has given the peer up.
  `BridgeIsYoung`: the warm-up above. `BridgeIsMute`: without a valid snapshot the
  server pushes nothing (`wsserver/server.go:100`), and a page that reconnected to a
  restarted bridge keeps the badge of the message its predecessor sent; a page that
  never had a message says "Connected" too.
* `xDone` of a command is declared to last one scan
  (`Structure/structAxisControl_Result.st:4`, "命令完成（持續一個掃描週期）"). The methods
  return `_xCommandDone AND _iActiveCommand = ...` (`MC_BasicControl.MoveAbsolute.st:23`
  and its like), which stays TRUE from the end of the move through STOPPING, WAIT_STOP
  and any error to the next READY scan (`MC_BasicControl.Main.st:178-181`, 78-85). A
  second call of the same kind in that time is told at once that it is done, and the
  visualisation wrapper drops its request (`MC_BasicControl_VisuWrapper.st:212-222`).
  `DoneIsEarned` says what is left: the move it reports has been begun by the axis for
  the command dispatched last.
* A homing that is withdrawn while its parameters are written leaves the writer in the
  middle (`MC_BasicControl.Main.st:244-246`), because it reads `xExecute` only in its
  first and last steps (`MC_WriteHomingParameters.Main.st:14`, 74). The next homing resumes
  it with the old index and the old values, whatever `stParameter` says by then, and
  moves: `resumed` in `HomeAfterWrite`.
* A signal between the start of the goroutines and `signal.Notify`
  (`main.go:104-147`) ends the process without the orderly shutdown; no property
  depends on the difference.
* The lock of MoveRelative survives a release that falls into the stopping steps
  (`MC_BasicControl.st:58`, `MC_BasicControl.Main.st:83`).
* `xEnable` = FALSE does nothing in error or pause (`BaseStateMachine.st:41`,
  against `MC_BasicControl.StopMotion.st:5`).

## Not modelled

* Floating-point helpers (`LMOD`, `MC_IntegralPosition`, profile arithmetic).
* Framing, JSON, bcrypt, TLS, file serving: pure I/O. Of the shared-memory mapping
  only success, failure and access after closing.
* The timer of the control panel that repeats a held jog; `CmdSink` has commands at
  any time instead.
* Rendering, translation, charts; deployment scripts; analysis tools.
* Weakly ordered memory: the source restricts itself to amd64.

## Plan

Next modules, most important first; each gets its MC module, runs and mutants.

1. `DataSegment`: the seqlock the other way round, with the reset by the PLC.
2. `HomingParameters`, `SetPosition`, `VisuWrapper`: the smaller blocks.
3. A drive whose error code persists, for the reset of `AxisControl`
   (`MC_BasicControl.Main.st:22`).

Theorems to come: an abstract specification of the session table, and of the sink as
seen by one client, refined by `Sessions` and `CmdSink`.
