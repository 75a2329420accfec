------------------------------- MODULE CmdSink -------------------------------
(****************************************************************************)
(* The command sink of the bridge (backend/internal/cmdsink): one pending   *)
(* PlcCommand, mutated by closures of the WebSocket and Modbus servers      *)
(* under one mutex and published whole after every accepted closure, and    *)
(* the jog watchdog, which clears the level-held jog bits of an axis that   *)
(* nobody refreshed within Timeout.                                         *)
(*                                                                          *)
(* Everything between Lock and Unlock is one action.  The watchdog reads    *)
(* the time before it takes the mutex, so a round of it is two actions and  *)
(* accepted commands may come between them.  `published' is the content of  *)
(* the last completed publication; the module Seqlock shows why a publish   *)
(* may be taken as one step by the reader of /dev/shm/plc_cmd.              *)
(****************************************************************************)
EXTENDS Integers, FiniteSets

CONSTANTS
  Axes,        \* machine axes of the command layout (four in the source)
  OtherFlags,  \* bits of an axis' ControlFlags other than the two jog bits
  Regs,        \* the scalar command fields: machine flags, production state
  Words,       \* values of a scalar field; 0 is the zero value
  Timeout,     \* -jog-timeout, in ticks of the model's clock
  Lag,         \* how late the watchdog goroutine may finish a ticker event
  MaxTime,     \* bound: the clock stops there
  MaxCycle     \* bound: clients stop sending at this publication number

ASSUME AxesAssumption == IsFiniteSet(Axes)
ASSUME WordsAssumption == 0 \in Words
\* time.NewTicker panics unless Timeout/4 is positive.
ASSUME TimeoutAssumption == Timeout \in Nat /\ Timeout >= 4
\* The goroutine keeps up with its ticker: no ticker event is ever dropped.
ASSUME LagAssumption == Lag \in Nat /\ Lag < Timeout \div 4
ASSUME BoundsAssumption == MaxTime \in Nat /\ MaxCycle \in Nat

VARIABLES
  clock,      \* time.Now()
  pending,    \* Sink.pending
  jogSeen,    \* Sink.jogSeen
  published,  \* the command handed to the last publish
  wd,         \* watchdog goroutine: "waiting" on the ticker or "locking"
  wdNow,      \* the argument `now' of the expireJogs call under way
  nextTick,   \* when the ticker fires next
  asked,      \* history: per axis, the flags and time of its last accepted command
  heard       \* history: when any command was last accepted

sinkVars == <<pending, jogSeen, published, wd, wdNow, nextTick, asked, heard>>
vars == <<clock, sinkVars>>

JogBits == {"jogPos", "jogNeg"}
Flags == SUBSET (JogBits \union OtherFlags)
Period == Timeout \div 4

Command == [cycle: Nat, axes: [Axes -> Flags], regs: [Regs -> Words]]
NewCommand == [cycle |-> 0, axes |-> [i \in Axes |-> {}], regs |-> [r \in Regs |-> 0]]

Jogging(cmd, i) == cmd.axes[i] \intersect JogBits # {}

TypeOK ==
  /\ clock \in Nat
  /\ pending \in Command
  /\ jogSeen \in [Axes -> Nat]
  /\ published \in Command
  /\ wd \in {"waiting", "locking"}
  /\ wdNow \in Nat
  /\ nextTick \in Nat
  /\ asked \in [Axes -> [flags: Flags, at: Nat]]
  /\ heard \in Nat

Init ==
  /\ clock = 0
  /\ pending = NewCommand
  /\ jogSeen = [i \in Axes |-> 0]
  /\ published = NewCommand
  /\ wd = "waiting"
  /\ wdNow = 0
  /\ nextTick = Period
  /\ asked = [i \in Axes |-> [flags |-> {}, at |-> 0]]
  /\ heard = 0

-----------------------------------------------------------------------------
(* Apply: a closure has turned the pending fields into `cmd' and returned   *)
(* `err'.  A rejected closure leaves no trace; an accepted one refreshes    *)
(* every axis that is left with a jog bit, whoever set it, and publishes.   *)

\* Mutant: the cycle number is left to the caller.
PublishLocked_SameCycle(cmd) == pending' = cmd /\ published' = cmd

PublishLocked(cmd) ==
  LET next == [cmd EXCEPT !.cycle = @ + 1]
  IN  pending' = next /\ published' = next

\* Mutant: only a jog bit that was not set before is a refresh.
RefreshJogs_NewOnly(seen, cmd, now) ==
  [i \in Axes |-> IF Jogging(cmd, i) /\ ~Jogging(pending, i) THEN now ELSE seen[i]]

\* Mutant: the time of expiry is kept, computed backwards.
RefreshJogs_Backwards(seen, cmd, now) ==
  [i \in Axes |-> IF Jogging(cmd, i) THEN now - Timeout ELSE seen[i]]

RefreshJogs(seen, cmd, now) ==
  [i \in Axes |-> IF Jogging(cmd, i) THEN now ELSE seen[i]]

\* Mutant: the error is returned without restoring the saved command.
Apply_NoRollback(cmd, err) ==
  /\ \/ /\ err
        /\ pending' = cmd
        /\ UNCHANGED <<jogSeen, published, heard>>
     \/ /\ ~err
        /\ pending.cycle < MaxCycle
        /\ jogSeen' = RefreshJogs(jogSeen, cmd, clock)
        /\ PublishLocked(cmd)
        /\ heard' = clock
  /\ UNCHANGED <<clock, wd, wdNow, nextTick>>

Apply(cmd, err) ==
  /\ \/ err /\ UNCHANGED <<pending, jogSeen, published, heard>>
     \/ /\ ~err
        /\ pending.cycle < MaxCycle
        /\ jogSeen' = RefreshJogs(jogSeen, cmd, clock)
        /\ PublishLocked(cmd)
        /\ heard' = clock
  /\ UNCHANGED <<clock, wd, wdNow, nextTick>>

\* A WebSocket "axis" command, or a Modbus write of an axis' flag word.
ApplyAxis(i, f) ==
  /\ Apply([pending EXCEPT !.axes[i] = f], FALSE)
  /\ asked' = [asked EXCEPT ![i] = [flags |-> f, at |-> clock]]

\* A "machine" or "production" command, or a Modbus write of such a field.
ApplyReg(r, w) ==
  /\ Apply([pending EXCEPT !.regs[r] = w], FALSE)
  /\ UNCHANGED asked

\* An "axis" command whose index is out of range, or a Modbus write of zero
\* registers: accepted although it assigns nothing.
ApplyNothing ==
  /\ Apply(pending, FALSE)
  /\ UNCHANGED asked

\* A Modbus write that covers one whole field and part of another, or
\* unmapped registers: the first field is assigned before the error.
ApplyRejected(i, f) ==
  /\ Apply([pending EXCEPT !.axes[i] = f], TRUE)
  /\ UNCHANGED asked

-----------------------------------------------------------------------------
(* The watchdog goroutine.                                                  *)

\* The ticker fires and the goroutine evaluates time.Now() for expireJogs.
WatchdogTick ==
  /\ wd = "waiting"
  /\ clock >= nextTick
  /\ wd' = "locking"
  /\ wdNow' = clock
  /\ nextTick' = nextTick + Period
  /\ UNCHANGED <<clock, pending, jogSeen, published, asked, heard>>

\* Mutant: an age equal to the timeout still counts as fresh.
Expired_Strict(cmd, seen, now) ==
  {i \in Axes : Jogging(cmd, i) /\ now - seen[i] > Timeout}

Expired(cmd, seen, now) ==
  {i \in Axes : Jogging(cmd, i) /\ now - seen[i] >= Timeout}

ClearJogs(cmd, S) ==
  [cmd EXCEPT !.axes = [i \in Axes |-> IF i \in S THEN @[i] \ JogBits ELSE @[i]]]

\* expireJogs under the mutex: one publication for all expired axes, or none.
ExpireJogs ==
  LET S == Expired(pending, jogSeen, wdNow)
  IN  /\ wd = "locking"
      /\ IF S # {} THEN PublishLocked(ClearJogs(pending, S))
                   ELSE UNCHANGED <<pending, published>>
      /\ wd' = "waiting"
      /\ UNCHANGED <<clock, jogSeen, wdNow, nextTick, asked, heard>>

\* Time passes as long as the goroutine is not later than Lag for the ticker
\* event it is handling or waiting for.
WatchdogOnTime ==
  clock < Lag + (IF wd = "waiting" THEN nextTick ELSE nextTick - Period)

Advance ==
  /\ clock < MaxTime
  /\ WatchdogOnTime
  /\ clock' = clock + 1
  /\ UNCHANGED sinkVars

Clients ==
  \/ \E i \in Axes, f \in Flags : ApplyAxis(i, f) \/ ApplyRejected(i, f)
  \/ \E r \in Regs, w \in Words : ApplyReg(r, w)
  \/ ApplyNothing

Next == Clients \/ WatchdogTick \/ ExpireJogs \/ Advance

Spec == Init /\ [][Next]_vars
-----------------------------------------------------------------------------
(* Properties.                                                              *)

\* The longest a published jog bit may outlive what kept it alive.
DeadManBound == Timeout + Period + Lag

\* Dead-man, as the code keeps it: when no command at all was accepted for
\* DeadManBound, the published word jogs no axis.  StartJogWatchdog and
\* expireJogs owe this whatever the ticker, the mutex and the clients do.
JogDeadMan ==
  \A i \in Axes : Jogging(published, i) => clock - heard < DeadManBound

\* Dead-man, as cmdsink_test.go and main.go state it: commands for other
\* targets do not keep an axis jogging after its own client went away.
ClientDeadMan ==
  \A i \in Axes : Jogging(published, i) => clock - asked[i].at < DeadManBound

\* The watchdog never takes a jog away from a client that re-sent it within
\* Timeout, although it compares with a time it read before the mutex.
NoEarlyExpiry ==
  [][\A i \in Axes :
       Jogging(published, i) /\ ~Jogging(published', i) /\ asked'[i] = asked[i]
         => clock - asked[i].at >= Timeout]_vars

\* What the PLC can see of an axis is its last accepted command, less at most
\* the jog bits the watchdog cleared: no rejected write shows through, no
\* command for one target disturbs another, the watchdog leaves other bits.
PublishedIsAsked ==
  \A i \in Axes :
    published.axes[i] \in {asked[i].flags, asked[i].flags \ JogBits}

\* A publication that changes the command also changes its cycle number by
\* one: the PLC applies a command only when the cycle differs from the last.
ChangeHasNewCycle ==
  [][published' # published => published'.cycle = published.cycle + 1]_vars

=============================================================================
