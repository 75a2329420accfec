----------------------------- MODULE ModbusServer -----------------------------
(****************************************************************************)
(* One connection of the Modbus server (internal/modbus/server.go): frames  *)
(* are read, dispatched and answered strictly one after the other; a frame  *)
(* with a bad header, and any failure of the connection, closes it without  *)
(* an answer.  Other clients of the sink change the pending command between *)
(* two requests.                                                            *)
(****************************************************************************)
EXTENDS ModbusRegisters

CONSTANT Requests  \* the requests masters send

\* What can be decoded from a PDU.  The frame length limits it to 252 bytes.
Pdu == [fn: 0..255, len: 1..252, addr: Uint16, qty: Uint16, bc: 0..255]
ASSUME RequestsAssumption == Requests \subseteq Pdu

VARIABLES
  conn,  \* [pc: "closed", "idle", "request" or "respond", req, resp]
  cmd,   \* the pending command of the sink, as far as Modbus can write it
  snap   \* the snapshot: "none", "stale" or "fresh"

serverVars == <<conn, cmd, snap>>

NoRequest == [fn |-> 0, len |-> 1, addr |-> 0, qty |-> 0, bc |-> 0]
NoResponse == [kind |-> "none", code |-> 0, words |-> <<>>]

Closed == [pc |-> "closed", req |-> NoRequest, resp |-> NoResponse]
Idle == [Closed EXCEPT !.pc = "idle"]

ServerTypeOK ==
  /\ conn.pc \in {"closed", "idle", "request", "respond"}
  /\ conn.req \in Requests \union {NoRequest}
  /\ conn.resp.kind \in {"none", "exception", "echo", "data"}
  /\ conn.resp.code \in 0..4
  /\ cmd \in Command
  /\ snap \in {"none", "stale", "fresh"}

ServerInit == conn = Closed /\ cmd = ZeroCommand /\ snap = "none"

-----------------------------------------------------------------------------
Accept ==
  /\ conn.pc = "closed"
  /\ conn' = Idle
  /\ UNCHANGED <<cmd, snap>>

Receive(req) ==
  /\ conn.pc = "idle"
  /\ conn' = [conn EXCEPT !.pc = "request", !.req = req]
  /\ UNCHANGED <<cmd, snap>>

\* The header is bad, or the connection fails: before the request, between
\* its effect and the answer, or while the answer is written.
Hangup ==
  /\ conn.pc # "closed"
  /\ conn' = Closed
  /\ UNCHANGED <<cmd, snap>>

\* dispatch: the request takes effect under the mutex of the sink.
Handle ==
  LET r == Dispatch(cmd, conn.req, snap)
  IN  /\ conn.pc = "request"
      /\ cmd' = r.cmd
      /\ conn' = [conn EXCEPT !.pc = "respond", !.resp = r.resp]
      /\ UNCHANGED snap

Respond ==
  /\ conn.pc = "respond"
  /\ conn' = Idle
  /\ UNCHANGED <<cmd, snap>>

\* A client of the WebSocket server, or another master, writes a field.
OtherClient(f) ==
  /\ cmd' = [cmd EXCEPT ![f] = <<>>]
  /\ UNCHANGED <<conn, snap>>

\* The snapshot outlives the staleness threshold.
SnapshotAges ==
  /\ snap = "fresh"
  /\ snap' = "stale"
  /\ UNCHANGED <<conn, cmd>>

ServerStep ==
  \/ Accept \/ (\E req \in Requests : Receive(req)) \/ Hangup \/ Handle \/ Respond
  \/ \E f \in DOMAIN CommandFields : OtherClient(f)
  \/ SnapshotAges

-----------------------------------------------------------------------------
(* Properties.                                                              *)

IsWrite(req) == \/ req.fn = 6 /\ req.len = 5
                \/ req.fn = 16 /\ req.bc = 2 * req.qty /\ req.len = 6 + req.bc
WrittenQty(req) == IF req.fn = 6 THEN 1 ELSE req.qty

Answered(kind) == conn'.pc = "respond" /\ conn.pc = "request" /\ conn'.resp.kind = kind

\* A well-formed write is accepted exactly when it names whole fields and
\* nothing else, up to the last address: the 16-bit sum of address and
\* quantity in ApplyCommandWrite never lets a range through that goes over
\* the top of the address space, and never refuses one that does not.
AcceptedIsWritable ==
  [][conn.pc = "request" /\ conn'.pc = "respond" /\ IsWrite(conn.req) =>
       (Answered("echo") <=> Writable(conn.req.addr, WrittenQty(conn.req)))]_serverVars

\* The answer tells the master what became of the command: after an echo the
\* named fields hold the written words and the others what they held, after
\* an exception nothing has changed, however many fields had been assigned.
AnswerMatchesEffect ==
  [][/\ Answered("echo") =>
          cmd' = Overwritten(cmd, conn.req.addr, WrittenQty(conn.req))
     /\ Answered("exception") => cmd' = cmd]_serverVars

\* A read that is answered with data lies inside the register bank: the
\* encoder is never asked for a register it has no room for.
DataInsideBank ==
  conn.resp.kind = "data" =>
    /\ Named(conn.req.addr, conn.req.qty) \subseteq 0..(HoldingMapSize - 1)
    /\ Len(conn.resp.words) = conn.req.qty
=============================================================================
