--------------------------- MODULE ModbusRegisters ---------------------------
(****************************************************************************)
(* The holding registers of the Modbus server (internal/modbus): the read   *)
(* map, the three writable fields, and what the request handlers answer and *)
(* do to the pending command.  A request is a PDU as the handlers see it:   *)
(* its function code, its length in bytes and the numbers decoded from it.  *)
(* Addresses and quantities are uint16.  The words of a write are named by  *)
(* their position in the request, so that a word in the wrong place shows.  *)
(****************************************************************************)
EXTENDS Integers, Sequences

HoldingMapSize == 64
Uint16 == 0..65535
Add16(a, b) == (a + b) % 65536

-----------------------------------------------------------------------------
(* The read map.                                                            *)

Field(addr, width) == [addr |-> addr, width |-> width]
Span(f) == f.addr..(f.addr + f.width - 1)

ReadMap == [
  Magic           |-> Field(0, 1),  DataVersion     |-> Field(1, 1),
  Cycle           |-> Field(2, 4),  SysTemperature  |-> Field(8, 4),
  SysStatusFlags  |-> Field(12, 2), SysAlarmFlags   |-> Field(14, 2),
  MachineRunState |-> Field(16, 2), MachineAlarms   |-> Field(18, 2),
  Axis0ActPos     |-> Field(20, 4), Axis0ActVel     |-> Field(24, 4),
  Axis0Step       |-> Field(28, 2), Axis0Flags      |-> Field(30, 2),
  ProductionState |-> Field(32, 2)]

\* What EncodeData puts into register r: words of fields, the high word first.
\* No word is a register left zero.
EncodeData(r) ==
  {<<n, r - ReadMap[n].addr>> : n \in {m \in DOMAIN ReadMap : r \in Span(ReadMap[m])}}

-----------------------------------------------------------------------------
(* The write map: three fields of two registers.                            *)

CommandFields == [machineCtrl |-> 40, axis0Flags |-> 42, productionSt |-> 44]
Width == 2

\* A field's value is its two words; the zero value has no words yet.
Values == {<<>>} \union (Nat \X Nat)
Command == [DOMAIN CommandFields -> Values]
ZeroCommand == [f \in DOMAIN CommandFields |-> <<>>]

\* Mutant: the low word is forgotten.
ReadU32_HighOnly(regs, offset) == <<regs[offset + 1]>>

ReadU32(regs, offset) == <<regs[offset + 1], regs[offset + 2]>>

\* The loop body for field f: skip it, refuse a partial write, or assign it.
\* A refusal ends the loop; what was assigned before stays in `cmd'.
WriteField(st, f, addr, end, regs) ==
  LET fAddr == CommandFields[f]
      fEnd  == Add16(fAddr, Width)
  IN  IF st.err \/ fEnd <= addr \/ end <= fAddr THEN st
      ELSE IF fAddr < addr \/ end < fEnd THEN [st EXCEPT !.err = TRUE]
      ELSE [cmd     |-> [st.cmd EXCEPT ![f] = ReadU32(regs, fAddr - addr)],
            covered |-> Add16(st.covered, Width),
            err     |-> FALSE]

\* The three rounds of the loop.
WriteFields(cmd, addr, end, regs) ==
  LET st0 == [cmd |-> cmd, covered |-> 0, err |-> FALSE]
      st1 == WriteField(st0, "machineCtrl", addr, end, regs)
      st2 == WriteField(st1, "axis0Flags", addr, end, regs)
  IN  WriteField(st2, "productionSt", addr, end, regs)

\* Mutant: registers outside the fields are ignored instead of refused.
ApplyCommandWrite_Lenient(cmd, addr, qty, regs) ==
  LET st == WriteFields(cmd, addr, Add16(addr, qty), regs)
  IN  [cmd |-> st.cmd, err |-> st.err]

\* The closure handed to the sink: the command as it leaves it, and its error.
\* Its first check, len(regs) # qty, is left out: both handlers pass exactly qty
\* registers, so it cannot fail.
ApplyCommandWrite(cmd, addr, qty, regs) ==
  LET st == WriteFields(cmd, addr, Add16(addr, qty), regs)
  IN  [cmd |-> st.cmd, err |-> st.err \/ st.covered # qty]

\* Mutant: the sink keeps what the closure assigned before its error.
ApplyWrite_NoRollback(cmd, addr, qty, regs) ==
  ApplyCommandWrite(cmd, addr, qty, regs)

\* Server.applyWrite: the closure under Sink.Apply, which rolls back.
ApplyWrite(cmd, addr, qty, regs) ==
  LET r == ApplyCommandWrite(cmd, addr, qty, regs)
  IN  [cmd |-> IF r.err THEN cmd ELSE r.cmd, err |-> r.err]

-----------------------------------------------------------------------------
(* The handlers.  `snap' is "none", "stale" or "fresh" at the time of the   *)
(* request.  A result is the command and the response.                      *)

Exception(code) == [kind |-> "exception", code |-> code, words |-> <<>>]
Echo == [kind |-> "echo", code |-> 0, words |-> <<>>]
Data(words) == [kind |-> "data", code |-> 0, words |-> words]

IllegalFunction == 1
IllegalDataAddress == 2
IllegalDataValue == 3
ServerFailure == 4

Regs(qty) == [i \in 1..qty |-> i]

\* Mutant: the end of the range is computed in 16 bits.
OutsideMap_Wraps(req) == Add16(req.addr, req.qty) > HoldingMapSize

OutsideMap(req) == req.addr + req.qty > HoldingMapSize

HandleRead(req, snap) ==
  IF req.len # 5 \/ req.qty \notin 1..125 THEN Exception(IllegalDataValue)
  ELSE IF OutsideMap(req) THEN Exception(IllegalDataAddress)
  ELSE IF snap # "fresh" THEN Exception(ServerFailure)
  ELSE Data([i \in 1..req.qty |-> EncodeData(req.addr + i - 1)])

Written(cmd, addr, qty) ==
  LET r == ApplyWrite(cmd, addr, qty, Regs(qty))
  IN  [cmd |-> r.cmd, resp |-> IF r.err THEN Exception(IllegalDataAddress) ELSE Echo]

HandleWriteSingle(cmd, req) ==
  IF req.len # 5 THEN [cmd |-> cmd, resp |-> Exception(IllegalDataValue)]
  ELSE Written(cmd, req.addr, 1)

HandleWriteMultiple(cmd, req) ==
  IF req.len < 6 \/ req.bc # 2 * req.qty \/ req.len # 6 + req.bc
  THEN [cmd |-> cmd, resp |-> Exception(IllegalDataValue)]
  ELSE Written(cmd, req.addr, req.qty)

Dispatch(cmd, req, snap) ==
  CASE req.fn = 3  -> [cmd |-> cmd, resp |-> HandleRead(req, snap)]
    [] req.fn = 6  -> HandleWriteSingle(cmd, req)
    [] req.fn = 16 -> HandleWriteMultiple(cmd, req)
    [] OTHER       -> [cmd |-> cmd, resp |-> Exception(IllegalFunction)]

-----------------------------------------------------------------------------
(* What a write ought to do, said without a loop and without wrap-around.   *)

\* The registers a request names, as plain numbers.
Named(addr, qty) == addr..(addr + qty - 1)
SpanOf(f) == Span(Field(CommandFields[f], Width))

\* A range is writable when it is a union of whole fields.  An empty range is
\* one unless its address lies inside a field.
Writable(addr, qty) ==
  /\ \E S \in SUBSET DOMAIN CommandFields :
       Named(addr, qty) = UNION {SpanOf(f) : f \in S}
  /\ qty = 0 => \A f \in DOMAIN CommandFields : addr # CommandFields[f] + 1

\* The command after a write of a writable range.
Overwritten(cmd, addr, qty) ==
  [f \in DOMAIN CommandFields |->
     IF SpanOf(f) \subseteq Named(addr, qty)
     THEN <<CommandFields[f] - addr + 1, CommandFields[f] - addr + 2>>
     ELSE cmd[f]]
=============================================================================
