--------------------------- MODULE CmdSink_proofs ---------------------------
(* Type correctness and the safety properties of the command sink, for any  *)
(* axes, flags, timeout and lateness of the watchdog.                       *)
EXTENDS CmdSink, TLAPS

\* The ticker's period is a positive number of ticks no longer than Timeout.
LEMMA PeriodFacts == Period \in Nat /\ Period >= 1 /\ Period <= Timeout /\ Lag \in Nat
  BY TimeoutAssumption, LagAssumption DEF Period

\* A command stays well formed when a client or the watchdog rewrites it.
LEMMA CommandTypes ==
  ASSUME NEW cmd \in Command
  PROVE  /\ [cmd EXCEPT !.cycle = @ + 1] \in Command
         /\ \A i \in Axes, f \in Flags : [cmd EXCEPT !.axes[i] = f] \in Command
         /\ \A r \in Regs, w \in Words : [cmd EXCEPT !.regs[r] = w] \in Command
         /\ \A S \in SUBSET Axes : ClearJogs(cmd, S) \in Command
<1>1. \A S \in SUBSET Axes : ClearJogs(cmd, S) \in Command
  <2> TAKE S \in SUBSET Axes
  <2> DEFINE axes == [i \in Axes |-> IF i \in S THEN cmd.axes[i] \ JogBits ELSE cmd.axes[i]]
  <2>1. axes \in [Axes -> Flags]
    BY DEF Command, Flags
  <2>2. ClearJogs(cmd, S) = [cmd EXCEPT !.axes = axes]
    BY DEF ClearJogs
  <2> QED
    BY <2>1, <2>2 DEF Command
<1> QED
  BY <1>1 DEF Command

\* Every step of the sink keeps the types, also where another module composes
\* it with the processes around it.
LEMMA TypeStep == TypeOK /\ [Next]_vars => TypeOK'
<1> SUFFICES ASSUME TypeOK, [Next]_vars
             PROVE  TypeOK'
  OBVIOUS
<1> USE PeriodFacts, CommandTypes
<1>1. ASSUME NEW cmd \in Command, NEW err, Apply(cmd, err)
      PROVE  (TypeOK /\ asked' \in [Axes -> [flags: Flags, at: Nat]]) => TypeOK'
  BY <1>1 DEF TypeOK, Apply, PublishLocked, RefreshJogs
<1>2. ASSUME NEW i \in Axes, NEW f \in Flags, ApplyAxis(i, f)
      PROVE  TypeOK'
  <2>1. asked' \in [Axes -> [flags: Flags, at: Nat]]
    BY <1>2 DEF ApplyAxis, TypeOK
  <2>2. [pending EXCEPT !.axes[i] = f] \in Command
    BY DEF TypeOK
  <2> QED
    BY <1>1, <1>2, <2>1, <2>2 DEF ApplyAxis
<1>3. ASSUME NEW i \in Axes, NEW f \in Flags, ApplyRejected(i, f)
      PROVE  TypeOK'
  BY <1>3 DEF ApplyRejected, Apply, TypeOK
<1>4. ASSUME NEW r \in Regs, NEW w \in Words, ApplyReg(r, w)
      PROVE  TypeOK'
  <2>1. [pending EXCEPT !.regs[r] = w] \in Command
    BY DEF TypeOK
  <2> QED
    BY <1>1, <1>4, <2>1 DEF ApplyReg, TypeOK
<1>5. CASE ApplyNothing
  BY <1>1, <1>5 DEF ApplyNothing, TypeOK
<1>6. CASE WatchdogTick
  BY <1>6 DEF WatchdogTick, TypeOK
<1>7. CASE ExpireJogs
  <2> DEFINE S == Expired(pending, jogSeen, wdNow)
  <2>1. S \in SUBSET Axes
    BY DEF Expired
  <2>2. ClearJogs(pending, S) \in Command
    BY <2>1 DEF TypeOK
  <2>3. pending' \in Command /\ published' \in Command
    BY <1>7, <2>2 DEF ExpireJogs, PublishLocked, TypeOK
  <2> QED
    BY <1>7, <2>3 DEF ExpireJogs, TypeOK
<1>8. CASE Advance
  BY <1>8 DEF Advance, sinkVars, TypeOK
<1>9. CASE UNCHANGED vars
  BY <1>9 DEF vars, sinkVars, TypeOK
<1> QED
  BY <1>2, <1>3, <1>4, <1>5, <1>6, <1>7, <1>8, <1>9 DEF Next, Clients

\* Types, at the start and over a step.
LEMMA TypeInit == Init => TypeOK
  BY PeriodFacts, WordsAssumption
     DEF Init, TypeOK, NewCommand, Command, Flags

\* The pending and the published command, the times and the history are what
\* they are declared to be: no client writes a bit or a field there is not.
THEOREM TypeCorrect == Spec => []TypeOK
  BY TypeInit, TypeStep, PTL DEF Spec

-----------------------------------------------------------------------------
(* The inductive invariant behind the dead-man.                             *)

\* Outside Apply and expireJogs, which are atomic here, the segment holds
\* the pending command.
PublishedIsPending == published = pending

\* The watchdog is never later than Lag; while it waits for the mutex its
\* `now' lies between the ticker event and the present.
WatchdogTiming ==
  /\ nextTick <= clock + Period
  /\ wd = "waiting" => clock <= nextTick + Lag
  /\ wd = "locking" => /\ clock <= nextTick - Period + Lag
                       /\ nextTick - Period <= wdNow
                       /\ wdNow <= clock

\* An axis with a jog bit was refreshed no longer than Timeout before the last
\* ticker event that the watchdog has dealt with, and not before its last
\* own command.
LastHandledTick == nextTick - (IF wd = "waiting" THEN Period ELSE 2 * Period)

JogIsRecent(i) ==
  /\ LastHandledTick < jogSeen[i] + Timeout
  /\ asked[i].at <= jogSeen[i]

JogsAreRecent == \A i \in Axes : Jogging(pending, i) => JogIsRecent(i)

SeenIsPast ==
  /\ heard <= clock
  /\ \A i \in Axes : jogSeen[i] <= heard /\ asked[i].at <= clock

\* What the watchdog and the pending command owe each other; it says nothing
\* of the segment, so it also holds of a bridge that found an old one.
TimedInv ==
  /\ WatchdogTiming
  /\ JogsAreRecent
  /\ SeenIsPast

IInv ==
  /\ PublishedIsPending
  /\ PublishedIsAsked
  /\ TimedInv

\* What a step of the clients or of the watchdog can do to the command.

\* Nothing was accepted and nothing expired.
Quiet == UNCHANGED <<pending, published, heard, asked>>

\* A closure was accepted: a new publication, now, in which an axis either has
\* its old word or the one its own client asked for now.
Accepted ==
  /\ published' = pending'
  /\ pending' \in Command /\ pending'.cycle = pending.cycle + 1
  /\ heard' = clock
  /\ \A i \in Axes :
       \/ asked'[i] = asked[i] /\ pending'.axes[i] = pending.axes[i]
       \/ asked'[i].at = clock /\ asked'[i].flags = pending'.axes[i]

\* The jog bits of some jogging axes expired: a new publication without them.
Cleared ==
  LET S == Expired(pending, jogSeen, wdNow)
  IN  /\ S # {}
      /\ published' = pending'
      /\ pending' \in Command /\ pending'.cycle = pending.cycle + 1
      /\ \A i \in Axes : pending'.axes[i] =
           IF i \in S THEN pending.axes[i] \ JogBits ELSE pending.axes[i]
      /\ wd = "locking"
      /\ UNCHANGED <<heard, asked>>

\* A closure that is applied publishes the command it made, and no axis but
\* its target gets another word.
LEMMA ClientEffect ==
  ASSUME TypeOK, Clients
  PROVE  Quiet \/ Accepted
<1>0. pending \in Command
  BY DEF TypeOK
<1>1. ASSUME NEW cmd \in Command, cmd.cycle = pending.cycle, Apply(cmd, FALSE)
      PROVE  /\ published' = pending' /\ pending' \in Command
             /\ pending'.cycle = pending.cycle + 1 /\ pending'.axes = cmd.axes
             /\ heard' = clock
  BY <1>1, CommandTypes DEF Apply, PublishLocked, Command
<1>2. ASSUME NEW i \in Axes, NEW f \in Flags, ApplyAxis(i, f)
      PROVE  Accepted
  <2> DEFINE cmd == [pending EXCEPT !.axes[i] = f]
  <2>1. /\ cmd \in Command /\ cmd.cycle = pending.cycle
        /\ cmd.axes = [pending.axes EXCEPT ![i] = f]
    BY <1>0, CommandTypes DEF Command
  <2>2. asked' = [asked EXCEPT ![i] = [flags |-> f, at |-> clock]]
    BY <1>2 DEF ApplyAxis
  <2>3. \A j \in Axes :
          \/ asked'[j] = asked[j] /\ cmd.axes[j] = pending.axes[j]
          \/ asked'[j].at = clock /\ asked'[j].flags = cmd.axes[j]
    BY <1>0, <2>1, <2>2 DEF TypeOK, Command
  <2> QED
    BY <1>1, <1>2, <2>1, <2>3 DEF ApplyAxis, Accepted
<1>3. ASSUME NEW i \in Axes, NEW f \in Flags, ApplyRejected(i, f)
      PROVE  Quiet
  BY <1>3 DEF ApplyRejected, Apply, Quiet
<1>4. ASSUME NEW r \in Regs, NEW w \in Words, ApplyReg(r, w)
      PROVE  Accepted
  <2> DEFINE cmd == [pending EXCEPT !.regs[r] = w]
  <2>1. cmd \in Command /\ cmd.cycle = pending.cycle /\ cmd.axes = pending.axes
    BY <1>0, CommandTypes DEF Command
  <2> QED
    BY <1>1, <1>4, <2>1 DEF ApplyReg, Accepted
<1>5. CASE ApplyNothing
  BY <1>0, <1>1, <1>5 DEF ApplyNothing, Accepted
<1> QED
  BY <1>2, <1>3, <1>4, <1>5 DEF Clients

\* Every axis that a client's step leaves jogging was refreshed in that step.
LEMMA ClientRefresh ==
  ASSUME TypeOK, Clients
  PROVE  /\ UNCHANGED <<clock, wd, wdNow, nextTick>>
         /\ \/ UNCHANGED <<pending, jogSeen, heard, asked>>
            \/ /\ heard' = clock
               /\ \A i \in Axes : jogSeen'[i] = IF Jogging(pending', i) THEN clock
                                                                       ELSE jogSeen[i]
<1>0. pending \in Command
  BY DEF TypeOK
<1>1. ASSUME NEW cmd \in Command, Apply(cmd, FALSE)
      PROVE  /\ heard' = clock
             /\ \A i \in Axes : jogSeen'[i] = IF Jogging(pending', i) THEN clock
                                                                     ELSE jogSeen[i]
  <2>1. pending'.axes = cmd.axes
    BY <1>1 DEF Apply, PublishLocked, Command
  <2> QED
    BY <1>1, <2>1 DEF Apply, RefreshJogs, Jogging
<1>2. ASSUME NEW i \in Axes, NEW f \in Flags, ApplyAxis(i, f)
      PROVE  \E cmd \in Command : Apply(cmd, FALSE)
  BY <1>0, <1>2, CommandTypes DEF ApplyAxis
<1>3. ASSUME NEW r \in Regs, NEW w \in Words, ApplyReg(r, w)
      PROVE  \E cmd \in Command : Apply(cmd, FALSE)
  BY <1>0, <1>3, CommandTypes DEF ApplyReg
<1>4. ASSUME NEW i \in Axes, NEW f \in Flags, ApplyRejected(i, f)
      PROVE  UNCHANGED <<clock, wd, wdNow, nextTick, pending, jogSeen, heard, asked>>
  BY <1>4 DEF ApplyRejected, Apply
<1>5. ApplyNothing => \E cmd \in Command : Apply(cmd, FALSE)
  BY <1>0 DEF ApplyNothing
<1>6. (\E cmd \in Command : Apply(cmd, FALSE)) => UNCHANGED <<clock, wd, wdNow, nextTick>>
  BY DEF Apply
<1> QED
  BY <1>1, <1>2, <1>3, <1>4, <1>5, <1>6 DEF Clients

\* A round of the watchdog publishes exactly when a jogging axis has expired.
LEMMA ExpireEffect ==
  ASSUME TypeOK, ExpireJogs
  PROVE  Cleared \/ (Quiet /\ Expired(pending, jogSeen, wdNow) = {})
<1> DEFINE S == Expired(pending, jogSeen, wdNow)
<1>1. CASE S = {}
  BY <1>1 DEF ExpireJogs, Quiet
<1>2. CASE S # {}
  <2>1. S \in SUBSET Axes
    BY DEF Expired
  <2>2. ClearJogs(pending, S) \in Command
    BY <2>1, CommandTypes DEF TypeOK
  <2>3. pending' = [ClearJogs(pending, S) EXCEPT !.cycle = ClearJogs(pending, S).cycle + 1]
    BY <1>2 DEF ExpireJogs, PublishLocked
  <2>4. pending' \in Command /\ published' = pending'
    BY <1>2, <2>2, <2>3, CommandTypes DEF ExpireJogs, PublishLocked
  <2>5. /\ pending'.cycle = pending.cycle + 1
        /\ pending'.axes = [i \in Axes |-> IF i \in S THEN pending.axes[i] \ JogBits
                                                    ELSE pending.axes[i]]
    BY <2>3 DEF ClearJogs, TypeOK, Command
  <2> QED
    BY <1>2, <2>4, <2>5 DEF ExpireJogs, Cleared
<1> QED
  BY <1>1, <1>2

\* The timing part of the invariant, for every step of the clients and of the
\* watchdog, whatever the segment holds.
LEMMA TimedStep ==
  ASSUME TypeOK, TypeOK', TimedInv, Clients \/ WatchdogTick \/ ExpireJogs
  PROVE  TimedInv'
<1> USE PeriodFacts
<1>1. CASE Clients
  <2>1. CASE UNCHANGED <<pending, jogSeen, heard, asked>>
    BY <1>1, <2>1, ClientRefresh DEF TimedInv, WatchdogTiming, JogsAreRecent, JogIsRecent,
                                     LastHandledTick, SeenIsPast, Jogging
  <2>2. CASE /\ heard' = clock
             /\ \A i \in Axes : jogSeen'[i] = IF Jogging(pending', i) THEN clock
                                                                     ELSE jogSeen[i]
    <3>1. UNCHANGED <<clock, wd, wdNow, nextTick>>
      BY <1>1, ClientRefresh
    <3>2. \A i \in Axes : asked'[i].at <= clock
      BY <1>1, ClientEffect DEF Quiet, Accepted, TimedInv, SeenIsPast, TypeOK
    <3>3. SeenIsPast'
      BY <2>2, <3>1, <3>2 DEF SeenIsPast, TimedInv, TypeOK
    <3>4. ASSUME NEW i \in Axes, Jogging(pending, i)'
          PROVE  JogIsRecent(i)'
      <4>1. jogSeen'[i] = clock
        BY <2>2, <3>4 DEF Jogging
      <4>2. LastHandledTick' < clock + Timeout
        BY <3>1, TimeoutAssumption DEF LastHandledTick, TimedInv, WatchdogTiming, TypeOK
      <4> QED
        BY <3>1, <3>2, <4>1, <4>2 DEF JogIsRecent
    <3> QED
      BY <3>1, <3>3, <3>4 DEF TimedInv, WatchdogTiming, JogsAreRecent
  <2> QED
    BY <1>1, <2>1, <2>2, ClientRefresh
<1>2. CASE WatchdogTick
  BY <1>2 DEF WatchdogTick, TypeOK, TimedInv, WatchdogTiming, JogsAreRecent, JogIsRecent,
              LastHandledTick, SeenIsPast, Jogging
<1>3. CASE ExpireJogs
  <2> DEFINE S == Expired(pending, jogSeen, wdNow)
  <2>1. /\ wd = "locking" /\ wd' = "waiting"
        /\ UNCHANGED <<clock, jogSeen, wdNow, nextTick, asked, heard>>
    BY <1>3 DEF ExpireJogs
  <2>2. ASSUME NEW i \in Axes, Jogging(pending, i)'
        PROVE  JogIsRecent(i)'
    <3>1. i \notin S /\ Jogging(pending, i)
      BY <1>3, <2>2, ExpireEffect DEF Cleared, Quiet, Jogging
    <3>2. wdNow < jogSeen[i] + Timeout
      BY <3>1, TimeoutAssumption DEF Expired, TypeOK
    <3>3. LastHandledTick' < jogSeen[i] + Timeout
      BY <2>1, <3>2, TimeoutAssumption DEF LastHandledTick, TimedInv, WatchdogTiming, TypeOK
    <3>4. asked[i].at <= jogSeen[i]
      BY <3>1 DEF TimedInv, JogsAreRecent, JogIsRecent
    <3> QED
      BY <2>1, <3>3, <3>4 DEF JogIsRecent
  <2>3. WatchdogTiming'
    BY <2>1 DEF TimedInv, WatchdogTiming, TypeOK
  <2> QED
    BY <2>1, <2>2, <2>3 DEF TimedInv, JogsAreRecent, SeenIsPast
<1> QED
  BY <1>1, <1>2, <1>3

\* The same for the passing of time, as far as the watchdog keeps up.
LEMMA TimedAdvance ==
  ASSUME TypeOK, TimedInv, WatchdogOnTime, clock' = clock + 1, UNCHANGED sinkVars
  PROVE  TimedInv'
  BY PeriodFacts DEF sinkVars, WatchdogOnTime, TypeOK, TimedInv, WatchdogTiming, JogsAreRecent,
                     JogIsRecent, LastHandledTick, SeenIsPast, Jogging

\* No jog bit of the pending command outlives the last accepted command by
\* DeadManBound.
LEMMA PendingDeadMan ==
  ASSUME TypeOK, TimedInv, NEW i \in Axes, Jogging(pending, i)
  PROVE  clock - heard < DeadManBound
<1>1. LastHandledTick < jogSeen[i] + Timeout
  BY DEF TimedInv, JogsAreRecent, JogIsRecent
<1>2. jogSeen[i] <= heard
  BY DEF TimedInv, SeenIsPast
<1>3. clock <= LastHandledTick + Period + Lag
  BY PeriodFacts DEF LastHandledTick, TimedInv, WatchdogTiming, TypeOK
<1> QED
  BY <1>1, <1>2, <1>3, PeriodFacts, TimeoutAssumption
     DEF DeadManBound, LastHandledTick, TypeOK

\* The segment's part of the invariant: an accepted command puts its client's
\* word into the segment, an expiry takes away jog bits only.
LEMMA SegmentStep ==
  ASSUME TypeOK, PublishedIsPending, PublishedIsAsked, Clients \/ WatchdogTick \/ ExpireJogs
  PROVE  PublishedIsPending' /\ PublishedIsAsked'
<1>1. Quiet \/ Accepted \/ Cleared
  BY ClientEffect, ExpireEffect DEF WatchdogTick, Quiet
<1>2. CASE Quiet
  BY <1>2 DEF Quiet, PublishedIsPending, PublishedIsAsked
<1>3. CASE Accepted
  BY <1>3 DEF Accepted, PublishedIsPending, PublishedIsAsked
<1>4. CASE Cleared
  BY <1>4 DEF Cleared, PublishedIsPending, PublishedIsAsked
<1> QED
  BY <1>1, <1>2, <1>3, <1>4

\* The whole inductive invariant.
THEOREM Invariance == Spec => []IInv
<1>1. Init => IInv
  BY PeriodFacts, TimeoutAssumption
     DEF Init, IInv, TimedInv, PublishedIsPending, WatchdogTiming, JogsAreRecent, SeenIsPast,
         Jogging, NewCommand, PublishedIsAsked
<1>2. TypeOK /\ TypeOK' /\ IInv /\ [Next]_vars => IInv'
  <2> SUFFICES ASSUME TypeOK, TypeOK', IInv, [Next]_vars
               PROVE  IInv'
    OBVIOUS
  <2>1. CASE Clients \/ WatchdogTick \/ ExpireJogs
    BY <2>1, TimedStep, SegmentStep DEF IInv
  <2>2. CASE Advance
    <3>1. PublishedIsPending' /\ PublishedIsAsked'
      BY <2>2 DEF Advance, sinkVars, IInv, PublishedIsPending, PublishedIsAsked
    <3> QED
      BY <2>2, <3>1, TimedAdvance DEF Advance, IInv
  <2>3. CASE UNCHANGED vars
    BY <2>3 DEF vars, sinkVars, IInv, TimedInv, PublishedIsPending, WatchdogTiming,
                JogsAreRecent, JogIsRecent, LastHandledTick, SeenIsPast, Jogging, PublishedIsAsked
  <2> QED
    BY <2>1, <2>2, <2>3 DEF Next
<1> QED
  BY <1>1, <1>2, TypeCorrect, PTL DEF Spec

\* The dead-man: no published jog bit outlives the last accepted command by
\* Timeout, one period of the watchdog and its lateness.
THEOREM DeadMan == Spec => []JogDeadMan
<1>1. TypeOK /\ IInv => JogDeadMan
  BY PendingDeadMan DEF IInv, PublishedIsPending, JogDeadMan, Jogging
<1> QED
  BY <1>1, TypeCorrect, Invariance, PTL

\* Rejected writes, neighbouring commands and the watchdog never show in an
\* axis' published word.
THEOREM PublishedIsAskedHolds == Spec => []PublishedIsAsked
  BY Invariance, PTL DEF IInv

\* The watchdog never clears a jog that its client sent less than Timeout ago:
\* `now' may be old when the mutex is granted, never newer than the clock.
THEOREM NoEarlyExpiryHolds == Spec => NoEarlyExpiry
<1>1. TypeOK /\ IInv /\ [Next]_vars
        => [\A i \in Axes : Jogging(published, i) /\ ~Jogging(published', i)
                            /\ asked'[i] = asked[i]
              => clock - asked[i].at >= Timeout]_vars
  <2> SUFFICES ASSUME TypeOK, IInv, Next, NEW i \in Axes,
                      Jogging(published, i), ~Jogging(published', i), asked'[i] = asked[i]
               PROVE  clock - asked[i].at >= Timeout
    OBVIOUS
  <2>0. /\ Jogging(pending, i)
        /\ pending.axes[i] \in {asked[i].flags, asked[i].flags \ JogBits}
        /\ published = pending
    BY DEF IInv, PublishedIsPending, PublishedIsAsked, Jogging
  <2>1. Quiet \/ Accepted \/ Cleared
    BY ClientEffect, ExpireEffect DEF Next, WatchdogTick, Advance, sinkVars, Quiet
  <2>2. ~Quiet
    BY <2>0 DEF Quiet, Jogging
  <2>3. ~Accepted
    BY <2>0 DEF Accepted, Jogging
  <2>4. CASE Cleared
    <3>1. i \in Expired(pending, jogSeen, wdNow)
      BY <2>0, <2>4 DEF Cleared, Jogging
    <3>2. wdNow <= clock /\ asked[i].at <= jogSeen[i]
      BY <2>0, <2>4 DEF Cleared, IInv, TimedInv, WatchdogTiming, JogsAreRecent, JogIsRecent
    <3> QED
      BY <3>1, <3>2, TimeoutAssumption DEF Expired, TypeOK
  <2> QED
    BY <2>1, <2>2, <2>3, <2>4
<1> QED
  BY <1>1, TypeCorrect, Invariance, PTL DEF Spec, NoEarlyExpiry

\* Every step that changes the published command takes the next cycle number.
THEOREM ChangeHasNewCycleHolds == Spec => ChangeHasNewCycle
<1> DEFINE A == published' # published => published'.cycle = published.cycle + 1
<1>1. TypeOK /\ IInv /\ [Next]_vars => [A]_vars
  <2> SUFFICES ASSUME TypeOK, IInv, Next, published' # published
               PROVE  published'.cycle = published.cycle + 1
    OBVIOUS
  <2>1. Accepted \/ Cleared
    BY ClientEffect, ExpireEffect DEF Next, WatchdogTick, Advance, sinkVars, Quiet
  <2> QED
    BY <2>1 DEF Accepted, Cleared, IInv, PublishedIsPending
<1> QED
  BY <1>1, TypeCorrect, Invariance, PTL DEF Spec, ChangeHasNewCycle
=============================================================================
