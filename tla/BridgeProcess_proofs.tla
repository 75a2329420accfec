-------------------------- MODULE BridgeProcess_proofs --------------------------
(****************************************************************************)
(* The safety properties of the bridge process, whatever requests masters   *)
(* send and however often the process is killed: what the poll goroutine    *)
(* may read, why the process can be down, which writes are accepted, and    *)
(* what the answers of the Modbus server tell a master.                     *)
(****************************************************************************)
EXTENDS BridgeProcess, ModbusServer_proofs

\* The goroutines exist only in a process that has both mappings; main leaves
\* them mapped until the poll goroutine is done.
MappingInv ==
  /\ main \in {"inactive", "restart", "prestart", "opening", "starting", "running", "waiting",
               "closing"}
  /\ mapped \subseteq Segments
  /\ main \in {"starting", "running", "waiting"} => mapped = Segments
  /\ main = "closing" => poll = "done"
  /\ ~Alive => poll = "none"
  /\ main = "opening" => mapped \subseteq {"plc_data"}
  /\ ~Alive /\ main # "opening" => mapped = {}

\* Somebody asked for whatever end main is heading to.
EndInv ==
  /\ cancelled => signalled \/ listenerFailed
  /\ main \in {"waiting", "closing", "inactive"} => signalled \/ listenerFailed
  /\ ~Alive => ~cancelled

ProcessInv == MappingInv /\ EndInv

\* The unit is being started.
LEMMA ProcessInvInit == ProcessInit => ProcessInv
  BY DEF ProcessInit, ProcessInv, MappingInv, EndInv, Alive

\* The end of the process, for whichever reason.
LEMMA GoneKeepsInv ==
  ASSUME NEW next \in {"inactive", "restart"}, Gone(next),
         next = "inactive" => signalled' \/ listenerFailed
  PROVE  ProcessInv'
<1>1. MappingInv'
  BY DEF Gone, MappingInv, Alive
<1>2. EndInv'
  BY DEF Gone, EndInv, Alive
<1> QED BY <1>1, <1>2 DEF ProcessInv

\* One step of the process.
LEMMA ProcessInvStep == ProcessInv /\ [ProcessNext]_bridgeVars => ProcessInv'
<1> SUFFICES ASSUME ProcessInv, [ProcessNext]_bridgeVars
             PROVE  ProcessInv'
  OBVIOUS
<1> USE DEF ProcessInv
<1>1. CASE Start
  BY <1>1 DEF Start, MappingInv, EndInv, Alive
<1>2. CASE SystemdRestart
  BY <1>2 DEF SystemdRestart, MappingInv, EndInv, Alive
<1>3. CASE PreStart
  BY <1>3 DEF PreStart, MappingInv, EndInv, Alive
<1>4. CASE Shutdown
  BY <1>4 DEF Shutdown, MappingInv, EndInv, Alive
<1>5. CASE Wait
  BY <1>5 DEF Wait, WaitOver, MappingInv, EndInv, Alive
<1>6. CASE PollStep
  BY <1>6 DEF PollStep, PollTick, PollDone, PollRead, MappingInv, EndInv, Alive
<1>7. CASE ListenerFails
  BY <1>7 DEF ListenerFails, MappingInv, EndInv, Alive
<1>8. CASE Environment
  BY <1>8 DEF Environment, CreateSegment, RemoveSegment, MappingInv, EndInv, Alive
<1>9. CASE UNCHANGED bridgeVars
  BY <1>9 DEF bridgeVars, processVars, serverVars, MappingInv, EndInv, Alive
<1>10. CASE OpenSegment
  <2>1. CASE \E next \in {"inactive", "restart"} :
               Gone(next) /\ next = AfterFatal /\ UNCHANGED signalled
    BY <2>1, GoneKeepsInv DEF AfterFatal
  <2>2. CASE mapped = {} /\ mapped' = {"plc_data"} /\ main = "opening"
             /\ UNCHANGED <<main, poll, cancelled, signalled, listenerFailed>>
    BY <2>2 DEF MappingInv, EndInv, Alive, Segments
  <2>3. CASE mapped' = Segments /\ main = "opening" /\ main' = "starting" /\ poll' = "ticking"
             /\ UNCHANGED <<cancelled, signalled, listenerFailed>>
    BY <2>3 DEF MappingInv, EndInv, Alive, Segments
  <2> QED BY <1>10, <2>1, <2>2, <2>3 DEF OpenSegment, MappingInv, Segments, AfterFatal
<1>11. CASE Signal
  BY <1>11, GoneKeepsInv DEF Signal, MappingInv, EndInv, Alive
<1>12. CASE Serve
  <2>1. CASE Gone(AfterCrash) /\ UNCHANGED signalled
    BY <2>1, GoneKeepsInv DEF AfterCrash
  <2>2. CASE UNCHANGED processVars
    BY <2>2 DEF processVars, MappingInv, EndInv, Alive
  <2> QED BY <1>12, <2>1, <2>2 DEF Serve
<1>13. CASE Killed
  BY <1>13, GoneKeepsInv DEF Killed, AfterCrash
<1>14. CASE Close
  <2>1. CASE mapped = {}
    BY <1>14, <2>1, GoneKeepsInv DEF Close, EndInv
  <2>2. CASE mapped # {}
    BY <1>14, <2>2 DEF Close, MappingInv, EndInv, Alive, Segments
  <2> QED BY <2>1, <2>2
<1>15. CASE Notify
  BY <1>15 DEF Notify, MappingInv, EndInv, Alive
<1> QED BY <1>1, <1>2, <1>3, <1>4, <1>5, <1>6, <1>7, <1>8, <1>9, <1>10, <1>11, <1>12,
           <1>13, <1>14, <1>15 DEF ProcessNext, MainStep

\* The invariant of the process.
LEMMA ProcessInvHolds == ProcessSpec => []ProcessInv
<1> QED BY ProcessInvInit, ProcessInvStep, PTL DEF ProcessSpec

-----------------------------------------------------------------------------
(* What a step of the process does to the servers.                          *)

\* The servers lose everything, take a step of their own, get a fresh
\* snapshot, or are left alone.
LEMMA ServersSee ==
  ASSUME [ProcessNext]_bridgeVars
  PROVE  \/ \E next : Gone(next)
         \/ ServerStep /\ UNCHANGED processVars
         \/ UNCHANGED <<conn, cmd>> /\ snap' \in {snap, "fresh"}
<1>1. CASE OpenSegment
  BY <1>1 DEF OpenSegment, serverVars
<1>2. CASE Close
  BY <1>2 DEF Close, serverVars
<1>3. CASE PreStart \/ Notify \/ Shutdown \/ Wait
  BY <1>3 DEF PreStart, Notify, Shutdown, Wait, serverVars
<1>4. CASE PollStep
  BY <1>4 DEF PollStep, PollTick, PollDone, PollRead, serverVars
<1>5. CASE Serve
  BY <1>5 DEF Serve
<1>6. CASE Signal \/ Killed
  BY <1>6 DEF Signal, Killed, serverVars
<1>7. CASE Start \/ SystemdRestart \/ ListenerFails \/ Environment \/ UNCHANGED bridgeVars
  BY <1>7 DEF Start, SystemdRestart, ListenerFails, Environment, CreateSegment, RemoveSegment,
     bridgeVars, serverVars
<1> QED BY <1>1, <1>2, <1>3, <1>4, <1>5, <1>6, <1>7 DEF ProcessNext, MainStep

\* The servers of the process keep their invariant: a process that ends
\* leaves a closed connection, a zero command and no snapshot.
LEMMA ServerInvKept ==
  ASSUME ServerInv, [ProcessNext]_bridgeVars
  PROVE  ServerInv'
<1>1. CASE \E next : Gone(next)
  BY <1>1, RestingServerInvNext, ZeroCommandTyped DEF Gone
<1>2. CASE ServerStep
  BY <1>2, ServerInvStep
<1>3. CASE UNCHANGED <<conn, cmd>> /\ snap' \in {snap, "fresh"}
  BY <1>3 DEF ServerInv, ServerTypeOK, DataInsideBank
<1> QED BY <1>1, <1>2, <1>3, ServersSee

\* The invariant of its servers.
LEMMA ServerInvHolds == ProcessSpec => []ServerInv
<1>1. ProcessInit => ServerInv
  BY ServerInvInit DEF ProcessInit
<1> QED BY <1>1, ServerInvKept, PTL DEF ProcessSpec

\* A read that is answered with data lies inside the register bank, for every
\* request and whatever happens to the process meanwhile.
THEOREM DataInsideBankHolds == ProcessSpec => []DataInsideBank
<1>1. ServerInv => DataInsideBank
  BY DEF ServerInv
<1> QED BY <1>1, ServerInvHolds, PTL

-----------------------------------------------------------------------------
(* The types, and the safety properties of the process.                     *)

\* What the types of the process add to the two invariants above: without a
\* process there is no connection either.
FlagsInv ==
  /\ segs \subseteq Segments
  /\ poll \in {"none", "ticking", "reading", "done"}
  /\ {cancelled, signalled, listenerFailed} \subseteq BOOLEAN
  /\ faults \in 0..MaxFaults
  /\ Alive \/ conn = Closed

\* One step, for the flags.
LEMMA FlagsInvStep == FlagsInv /\ ProcessInv /\ [ProcessNext]_bridgeVars => FlagsInv'
<1> SUFFICES ASSUME FlagsInv, ProcessInv, [ProcessNext]_bridgeVars
             PROVE  FlagsInv'
  OBVIOUS
<1>1. ASSUME NEW next, Gone(next), signalled' \in BOOLEAN, faults' \in 0..MaxFaults
      PROVE  FlagsInv'
  BY <1>1 DEF Gone, FlagsInv
<1>2. faults < MaxFaults => faults + 1 \in 0..MaxFaults
  BY FaultsAssumption DEF FlagsInv
<1>3. CASE Start \/ SystemdRestart \/ PreStart
  BY <1>3 DEF Start, SystemdRestart, PreStart, FlagsInv, Alive, serverVars
<1>4. CASE OpenSegment
  <2>1. CASE \E next : Gone(next)
    BY <1>1, <1>4, <2>1 DEF OpenSegment, FlagsInv
  <2>2. CASE UNCHANGED <<conn, signalled, faults, cancelled, segs, listenerFailed>>
             /\ main = "opening"
             /\ ((main' = "starting" /\ poll' = "ticking") \/ UNCHANGED <<main, poll>>)
    BY <2>2 DEF FlagsInv, Alive
  <2> QED BY <1>4, <2>1, <2>2 DEF OpenSegment, serverVars
<1>5. CASE Notify \/ Shutdown \/ Wait
  BY <1>5 DEF Notify, Shutdown, Wait, FlagsInv, Alive, serverVars
<1>6. CASE Close
  <2>1. CASE mapped = {}
    BY <1>1, <1>6, <2>1 DEF Close, FlagsInv
  <2>2. CASE mapped # {}
    BY <1>6, <2>2 DEF Close, FlagsInv, Alive, serverVars
  <2> QED BY <2>1, <2>2
<1>7. CASE PollStep
  BY <1>7 DEF PollStep, PollTick, PollDone, PollRead, FlagsInv, Alive, serverVars
<1>8. CASE Serve
  <2>1. CASE UNCHANGED processVars
    BY <1>8, <2>1 DEF Serve, FlagsInv, Alive, processVars
  <2>2. CASE Gone(AfterCrash) /\ UNCHANGED <<signalled, faults>>
    BY <1>1, <2>2 DEF FlagsInv
  <2> QED BY <1>8, <2>1, <2>2 DEF Serve
<1>9. CASE ListenerFails
  BY <1>9 DEF ListenerFails, FlagsInv, Alive, serverVars
<1>10. CASE Signal
  <2>1. CASE main \in {"running", "waiting", "closing"}
    BY <1>10, <2>1 DEF Signal, FlagsInv, Alive, serverVars
  <2>2. CASE main \notin {"running", "waiting", "closing"}
    BY <1>1, <1>10, <2>2 DEF Signal, FlagsInv
  <2> QED BY <2>1, <2>2
<1>11. CASE Killed
  BY <1>1, <1>2, <1>11 DEF Killed, FlagsInv
<1>12. CASE Environment
  BY <1>2, <1>12 DEF Environment, CreateSegment, RemoveSegment, FlagsInv, Alive, serverVars
<1>13. CASE UNCHANGED bridgeVars
  BY <1>13 DEF bridgeVars, processVars, serverVars, FlagsInv, Alive
<1> QED BY <1>3, <1>4, <1>5, <1>6, <1>7, <1>8, <1>9, <1>10, <1>11, <1>12, <1>13
        DEF ProcessNext, MainStep

\* The types of the process, its servers and the segments; outside a running
\* process nothing is polled, nothing is connected and nothing stays mapped.
THEOREM ProcessTypeCorrect == ProcessSpec => []ProcessTypeOK
<1>1. ProcessInit => FlagsInv
  <2>1. 0 \in 0..MaxFaults
    BY FaultsAssumption
  <2> QED BY <2>1 DEF ProcessInit, ServerInit, FlagsInv
<1>2. ServerInv /\ ProcessInv /\ FlagsInv => ProcessTypeOK
  BY DEF ServerInv, ProcessInv, MappingInv, FlagsInv, ProcessTypeOK
<1> QED BY <1>1, <1>2, FlagsInvStep, ProcessInvHolds, ServerInvHolds, PTL DEF ProcessSpec

\* The poll goroutine copies only from a segment that is mapped.
THEOREM PollReadsMappedHolds == ProcessSpec => []PollReadsMapped
<1>1. ProcessInv => PollReadsMapped
  BY DEF ProcessInv, MappingInv, PollReadsMapped, Alive, Segments
<1> QED BY <1>1, ProcessInvHolds, PTL

\* The process is down for good only after a signal or the failure of a
\* listener.
THEOREM DownIsExplainedHolds == ProcessSpec => []DownIsExplained
<1>1. ProcessInv => DownIsExplained
  BY DEF ProcessInv, EndInv, DownIsExplained
<1> QED BY <1>1, ProcessInvHolds, PTL

-----------------------------------------------------------------------------
(* What becomes of a write.                                                 *)

\* The request is accepted exactly when ApplyWrite reports no error.
LEMMA WrittenAccepts ==
  ASSUME NEW c, NEW addr \in Uint16, NEW qty \in Uint16
  PROVE  Written(c, addr, qty).resp.kind = "echo" <=> Writable(addr, qty)
<1> DEFINE r == ApplyWrite(c, addr, qty, Regs(qty))
<1>1. r.err = ApplyCommandWrite(c, addr, qty, Regs(qty)).err
  BY DEF ApplyWrite
<1>2. ~r.err <=> Writable(addr, qty)
  BY <1>1, AcceptedIffWritable
<1>3. Written(c, addr, qty).resp = IF r.err THEN Exception(IllegalDataAddress) ELSE Echo
  BY DEF Written
<1> QED BY <1>2, <1>3 DEF Exception, Echo

\* The same for both functions that write.
LEMMA DispatchAccepts ==
  ASSUME NEW c, NEW req \in Pdu, NEW s, IsWrite(req)
  PROVE  Dispatch(c, req, s).resp.kind = "echo" <=> Writable(req.addr, WrittenQty(req))
<1>1. req.addr \in Uint16 /\ req.qty \in Uint16 /\ 1 \in Uint16
  <2>1. 1 \in Uint16
    BY DEF Uint16
  <2> QED BY <2>1 DEF Pdu
<1>2. CASE req.fn = 6 /\ req.len = 5
  <2>1. Dispatch(c, req, s) = Written(c, req.addr, 1)
    BY <1>2 DEF Dispatch, HandleWriteSingle
  <2> QED BY <1>1, <1>2, <2>1, WrittenAccepts DEF WrittenQty
<1>3. CASE req.fn = 16 /\ req.bc = 2 * req.qty /\ req.len = 6 + req.bc
  <2>1. ~(req.len < 6)
    BY <1>3 DEF Pdu
  <2>2. Dispatch(c, req, s) = Written(c, req.addr, req.qty)
    BY <1>3, <2>1 DEF Dispatch, HandleWriteMultiple
  <2> QED BY <1>1, <1>3, <2>2, WrittenAccepts DEF WrittenQty
<1> QED BY <1>2, <1>3 DEF IsWrite

\* An answer is what dispatch makes of the request, and comes with its effect.
LEMMA OnlyHandleAnswers ==
  ASSUME ServerInv, [ProcessNext]_bridgeVars,
         conn.pc = "request", conn'.pc = "respond"
  PROVE  conn'.resp = Dispatch(cmd, conn.req, snap).resp /\ cmd' = Dispatch(cmd, conn.req, snap).cmd
<1>1. conn' # conn /\ conn'.pc \notin {"closed", "idle", "request"}
  OBVIOUS
<1>2. ~\E next : Gone(next)
  BY <1>1 DEF Gone, Closed
<1>3. ServerStep
  BY <1>1, <1>2, ServersSee
<1>4. Handle
  BY <1>1, <1>3 DEF ServerStep, Accept, Receive, Hangup, Respond, OtherClient, SnapshotAges, Closed, Idle
<1> DEFINE r == Dispatch(cmd, conn.req, snap)
<1>5. conn' = [conn EXCEPT !.pc = "respond", !.resp = r.resp] /\ cmd' = r.cmd
  BY <1>4 DEF Handle
<1> HIDE DEF r
<1>6. conn'.resp = r.resp
  BY <1>5 DEF ServerInv
<1> QED BY <1>5, <1>6 DEF r

\* A well-formed write is accepted exactly when it names whole fields, over
\* all addresses and quantities and whatever the process is going through.
THEOREM AcceptedIsWritableHolds == ProcessSpec => AcceptedIsWritable
<1>1. ServerInv /\ [ProcessNext]_bridgeVars =>
        [conn.pc = "request" /\ conn'.pc = "respond" /\ IsWrite(conn.req) =>
           (Answered("echo") <=> Writable(conn.req.addr, WrittenQty(conn.req)))]_serverVars
  <2> SUFFICES ASSUME ServerInv, [ProcessNext]_bridgeVars,
                      conn.pc = "request", conn'.pc = "respond", IsWrite(conn.req)
               PROVE  Answered("echo") <=> Writable(conn.req.addr, WrittenQty(conn.req))
    OBVIOUS
  <2>1. conn'.resp = Dispatch(cmd, conn.req, snap).resp
    BY OnlyHandleAnswers
  <2>2. conn.req \in Pdu
    BY RequestsAssumption DEF ServerInv
  <2> QED BY <2>1, <2>2, DispatchAccepts DEF Answered
<1> QED BY <1>1, ServerInvHolds, PTL DEF ProcessSpec, AcceptedIsWritable

\* The answer tells the master what became of the command: after an echo the
\* named fields and no others hold what was written, after an exception the
\* command is what it was.
THEOREM AnswerMatchesEffectHolds == ProcessSpec => AnswerMatchesEffect
<1> DEFINE Effect ==
      /\ Answered("echo") => cmd' = Overwritten(cmd, conn.req.addr, WrittenQty(conn.req))
      /\ Answered("exception") => cmd' = cmd
<1>1. ServerInv /\ [ProcessNext]_bridgeVars => [Effect]_serverVars
  <2> SUFFICES ASSUME ServerInv, [ProcessNext]_bridgeVars,
                      conn.pc = "request", conn'.pc = "respond"
               PROVE  /\ conn'.resp.kind = "echo" =>
                           cmd' = Overwritten(cmd, conn.req.addr, WrittenQty(conn.req))
                      /\ conn'.resp.kind = "exception" => cmd' = cmd
    BY DEF Answered
  <2> DEFINE d == Dispatch(cmd, conn.req, snap)
  <2>1. conn'.resp = d.resp /\ cmd' = d.cmd
    BY OnlyHandleAnswers
  <2>2. conn.req \in Pdu /\ cmd \in Command
    BY RequestsAssumption DEF ServerInv, ServerTypeOK
  <2>3. \/ d.resp = Echo /\ d.cmd = Overwritten(cmd, conn.req.addr, WrittenQty(conn.req))
        \/ (\E code \in 1..4 : d.resp = Exception(code)) /\ d.cmd = cmd
        \/ d.resp.kind = "data" /\ d.cmd = cmd
    BY <2>2, DispatchEffect
  <2> HIDE DEF d
  <2> QED BY <2>1, <2>3 DEF Echo, Exception
<1> QED BY <1>1, ServerInvHolds, PTL DEF ProcessSpec, AnswerMatchesEffect
=============================================================================
