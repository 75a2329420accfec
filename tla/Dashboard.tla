------------------------------ MODULE Dashboard ------------------------------
(****************************************************************************)
(* What the operator is told about the PLC: the push loop of one WebSocket  *)
(* connection (wsserver), the link under it, and the HMI's connection store *)
(* (ws.svelte.ts) with the badge of App.svelte, on top of the telemetry     *)
(* path.                                                                    *)
(*                                                                          *)
(* The store has no clock of its own: it is connected until it is told      *)
(* otherwise, and keeps the last message, also over a reconnect.  The link  *)
(* may fall silent without either end being told (a cut cable, a half-dead  *)
(* NAT): what was sent waits in its buffers, and once they are full the     *)
(* push loop waits in WriteJSON.  The server gives such a peer up after its *)
(* write deadline or pong timeout; the page is told when the link passes    *)
(* again, or never.                                                         *)
(****************************************************************************)
EXTENDS Telemetry, FiniteSets

CONSTANTS
  PushPeriod,  \* -push
  Latency,     \* a link that passes delivers within it
  LineSize,    \* messages a silent link takes before the push loop waits
  MaxOutages   \* bound on the ends of the bridge and the losses of the link

ASSUME PushAssumption == PushPeriod \in Nat \ {0}
ASSUME LinkAssumption == {Latency, LineSize, MaxOutages} \subseteq Nat

VARIABLES
  hmi,  \* the page: [connected, data: the stale flag of the last message
        \* ("none": no message yet), fresh: it came on this connection, ts: then
        \* its ts, else 0]
  conn, \* its connection: [open: at the server's end, passes: the link does,
        \* since: when the connection was made or the link passed again, push: the
        \* ticker's next event, line: the messages on their way, closedAt]
  outages  \* history: how often the bridge ended or the link was lost

dashVars == <<vars, hmi, conn, outages>>

Message == [data: {"live", "stale"}, ts: Nat]

DashTypeOK ==
  /\ TypeOK
  /\ hmi \in [connected: BOOLEAN, data: {"none", "live", "stale"}, fresh: BOOLEAN, ts: Nat]
  /\ conn \in [open: BOOLEAN, passes: BOOLEAN, since: Nat, push: Nat,
               line: SUBSET Message, closedAt: Nat]
  /\ outages \in 0..MaxOutages

NoConn == [open |-> FALSE, passes |-> FALSE, since |-> 0, push |-> 0, line |-> {}, closedAt |-> 0]

DashInit ==
  /\ Init
  /\ hmi = [connected |-> FALSE, data |-> "none", fresh |-> FALSE, ts |-> 0]
  /\ conn = NoConn
  /\ outages = 0

-----------------------------------------------------------------------------
(* The connection and the link.                                             *)

Outage == outages < MaxOutages /\ outages' = outages + 1

HmiConnect ==
  /\ up /\ ~hmi.connected
  /\ hmi' = [hmi EXCEPT !.connected = TRUE]
  /\ conn' = [NoConn EXCEPT !.open = TRUE, !.passes = TRUE, !.since = clock,
                            !.push = clock + PushPeriod]
  /\ UNCHANGED <<vars, outages>>

\* onclose: what was under way is lost.
Closed ==
  /\ hmi' = [hmi EXCEPT !.connected = FALSE, !.fresh = FALSE, !.ts = 0]
  /\ conn' = NoConn

\* The browser gives the connection up by itself, at any time.
HmiDrop ==
  /\ hmi.connected
  /\ Closed
  /\ Outage
  /\ UNCHANGED vars

LinkFallsSilent ==
  /\ hmi.connected /\ conn.passes
  /\ conn' = [conn EXCEPT !.passes = FALSE]
  /\ Outage
  /\ UNCHANGED <<vars, hmi>>

LinkPassesAgain ==
  /\ hmi.connected /\ ~conn.passes
  /\ conn' = [conn EXCEPT !.passes = TRUE, !.since = clock]
  /\ UNCHANGED <<vars, hmi, outages>>

\* The server's end is closed; the close goes down the line behind the messages.
ServerEnd(c) == IF c.open THEN [c EXCEPT !.open = FALSE, !.push = 0, !.closedAt = clock] ELSE c

\* A write missed its deadline, or no pong came in time.
ServerGivesUp ==
  /\ conn.open /\ ~conn.passes
  /\ conn' = ServerEnd(conn)
  /\ UNCHANGED <<vars, hmi, outages>>

-----------------------------------------------------------------------------
(* The push loop and the page.                                              *)

\* Mutant: the server calls the flag by a name the store does not know.
StaleFlag_Renamed == IF IsStale(snap, clock) THEN "frozen" ELSE "live"

\* Mutant: the flag is computed from the validity, not from the age.
StaleFlag_Validity == IF snap.valid THEN "live" ELSE "stale"

StaleFlag == IF IsStale(snap, clock) THEN "stale" ELSE "live"

\* The push loop waits in WriteJSON.
Stalled == ~conn.passes /\ Cardinality(conn.line) >= LineSize

\* The push ticker: nothing is sent while the snapshot is empty.  The ticker
\* keeps its phase and drops the events a stalled loop did not take.
WsPush ==
  /\ conn.open /\ ~Stalled /\ clock >= conn.push
  /\ \E t \in clock + 1 .. clock + PushPeriod :
       /\ (t - conn.push) % PushPeriod = 0
       /\ conn' = [conn EXCEPT
                     !.push = t,
                     !.line = IF snap.valid THEN @ \cup {[data |-> StaleFlag, ts |-> clock]}
                                            ELSE @]
  /\ UNCHANGED <<vars, hmi, outages>>

\* onmessage; messages arrive in their order.
HmiReceive ==
  /\ conn.passes
  /\ \E m \in conn.line :
       /\ \A n \in conn.line : m.ts <= n.ts
       /\ hmi' = [hmi EXCEPT !.data = m.data, !.fresh = TRUE, !.ts = m.ts]
       /\ conn' = [conn EXCEPT !.line = @ \ {m}]
  /\ UNCHANGED <<vars, outages>>

\* The server's close arrives behind them.
HmiClosed ==
  /\ hmi.connected /\ ~conn.open /\ conn.passes /\ conn.line = {}
  /\ Closed
  /\ UNCHANGED <<vars, outages>>

\* The three states of the header.
Badge == IF ~hmi.connected THEN "Disconnected"
         ELSE IF hmi.data = "stale" THEN "Stale" ELSE "Connected"

\* Time passes while the push loop is on time unless it is stalled, and a link
\* that passes delivers in time.
DashAdvance ==
  /\ conn.open /\ ~Stalled => clock < conn.push
  /\ conn.passes =>
       \A t \in {m.ts : m \in conn.line} \cup (IF conn.open THEN {} ELSE {conn.closedAt}) :
         clock < t + Latency \/ clock < conn.since + Latency
  /\ Advance
  /\ UNCHANGED <<hmi, conn, outages>>

DashNext ==
  \/ /\ PlcPublish \/ PlcDie \/ PlcDieMidPublish \/ PlcInit
        \/ PollTick \/ PollUpdate \/ BridgeStart
     /\ UNCHANGED <<hmi, conn, outages>>
  \/ BridgeStop /\ conn' = ServerEnd(conn) /\ Outage /\ UNCHANGED hmi
  \/ HmiConnect \/ HmiDrop \/ LinkFallsSilent \/ LinkPassesAgain \/ ServerGivesUp
  \/ WsPush \/ HmiReceive \/ HmiClosed
  \/ DashAdvance

DashSpec == DashInit /\ [][DashNext]_dashVars

-----------------------------------------------------------------------------
(* Properties.                                                              *)

ShownBound == LiveBound + PushPeriod + Latency

\* The three cases in which the badge may say "Connected" over old data.  The
\* link under it is silent, or passed again only a moment ago: the store does
\* not notice that messages stopped.
LinkIsCut == ~conn.passes \/ clock - conn.since <= PushPeriod + Latency

\* The bridge took a frozen segment for live when it started.
BridgeIsYoung == clock - startedAt <= ShownBound

\* The bridge is down and the close under way, or it was started beside a
\* segment it never could read: nothing is pushed, and the page keeps what it
\* was told before.
BridgeIsMute == ~snap.valid

\* Otherwise "Connected" proves that the PLC ran recently: across reconnects,
\* stalled and healed links, restarts of the bridge and restarts of the PLC.
ConnectedMeansPlcRan ==
  Badge = "Connected" /\ clock - aliveAt > ShownBound
    => LinkIsCut \/ BridgeIsYoung \/ BridgeIsMute

\* An operator is not told "Stale" while the PLC has been running, the bridge
\* reading it and the link passing for long enough.
AliveIsConnected ==
  (ThresholdFits /\ plc = "cyclic" /\ up /\ Badge = "Stale" /\ conn.passes)
    => \E t \in {plcSince, startedAt, conn.since} :
         clock - t <= PollPeriod + PollLag + PushPeriod + Latency
=============================================================================
