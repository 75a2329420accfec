----------------------------- MODULE MCDashboard -----------------------------
(****************************************************************************)
(* Poll and push periods of two scans, and the smallest staleness threshold *)
(* that leaves room for a late poll; the values are in the configuration.   *)
(*                                                                          *)
(* Nothing in the specification depends on what time it is, only on how     *)
(* long ago things happened, and on nothing that happened longer ago than   *)
(* some bound.  Moments therefore identifies states that differ in the time *)
(* or in such old times only, and cycle numbers that compare alike; the     *)
(* clock is bounded far above the last time a new moment is found.          *)
(****************************************************************************)
EXTENDS Dashboard

\* How long ago, up to a bound above which nothing looks.
Ago(t, bound) == IF clock - t > bound THEN bound + 1 ELSE clock - t

\* A PLC that is down forgot since when it ran.
PlcMoment ==
  <<plc, deaths, outages, seg.odd, Ago(aliveAt, ShownBound),
    IF plc = "down" THEN 0 ELSE Ago(plcSince, PollPeriod + PollLag + PushPeriod + Latency)>>

SnapMoment ==
  IF snap.valid THEN <<snap.cycle = seg.cycle, Ago(snap.updatedAt, StaleAfter)>> ELSE <<>>

CopyMoment ==
  IF poll.pc = "copied" THEN <<poll.d = seg.cycle, snap.valid /\ poll.d = snap.cycle>> ELSE <<>>

BridgeMoment ==
  IF up THEN <<Ago(startedAt, ShownBound), poll.next - clock, CopyMoment, SnapMoment>> ELSE <<>>

\* When the time for a delivery began to run; for a silent link it did not yet.
DueMoment(t) ==
  IF conn.passes THEN Ago(IF t > conn.since THEN t ELSE conn.since, Latency) ELSE 0

\* The messages on the line in their order.
LineMoment ==
  {<<m.data, DueMoment(m.ts), Cardinality({n \in conn.line : n.ts < m.ts})>> : m \in conn.line}

\* The next event of the push ticker, or the phase of a ticker that waits.
PushMoment ==
  IF ~conn.open THEN <<DueMoment(conn.closedAt)>>
  ELSE IF clock < conn.push THEN <<"next", conn.push - clock>>
       ELSE <<"waits", (clock - conn.push) % PushPeriod>>

PageMoment ==
  IF hmi.connected
    THEN <<hmi.data, conn.open, LineMoment, PushMoment, conn.passes,
           IF conn.passes THEN Ago(conn.since, PollPeriod + PollLag + PushPeriod + Latency) ELSE 0>>
    ELSE <<hmi.data>>

Moments == <<PlcMoment, BridgeMoment, PageMoment>>
=============================================================================
